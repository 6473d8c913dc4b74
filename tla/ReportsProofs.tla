--------------------------- MODULE ReportsProofs ---------------------------
(***************************************************************************)
(* The reports and their figures for any number of reports, runs, attempts *)
(* and stalls, and for any tables.                                         *)
(*                                                                         *)
(* CompletedHasFile and CompletedIsNotRenderedAgain are not inductive: that*)
(* a run which marks a report has left a PDF behind, and that it had found *)
(* the report unfinished, are facts about the run.  The jobs follow, and   *)
(* then the figures: that the places which compute them select the same    *)
(* rows, and that sums over these rows add up.                             *)
(***************************************************************************)
EXTENDS Reports, FiniteSetTheorems, TLAPS

Stages == {"idle", "find", "activities", "expenses", "upload", "mark", "threw", "returned"}

RunFields == {"report", "seen", "at", "pdf", "holds"}

IsRun(q) ==
  /\ q = [f \in RunFields |-> q[f]]
  /\ q.at \in Stages

(* What a run relies on after its read of the row. *)
RunSound(q, rows, bucket) ==
  /\ q.holds => q.at # "idle"
  /\ q.at # "idle" => q.report \in Reports /\ rows[q.report] # "none"
  /\ q.at \in {"activities", "expenses", "upload", "mark"} => q.seen = "requested"
  /\ q.at = "upload" => q.pdf # NoFile
  /\ q.at = "mark" => bucket[q.report] # NoFile

ShapesOK ==
  /\ status \in [Reports -> {"none", "requested", "completed"}]
  /\ fileUrl \in [Reports -> BOOLEAN]
  /\ stored = [r \in Reports |-> stored[r]]
  /\ job \in [Reports -> [state: {"none", "waiting", "active", "done", "failed"},
                          left: Int, stalls: Int]]
  /\ run = [w \in Workers |-> run[w]]

RunsSound == \A w \in Workers : IsRun(run[w]) /\ RunSound(run[w], status, stored)

(* Only a report that was asked for has a job. *)
JobsAskedFor == \A r \in Reports : job[r].state # "none" => status[r] # "none"

ReportsInv == ShapesOK /\ RunsSound /\ JobsAskedFor /\ CompletedHasFile

-----------------------------------------------------------------------------
(* Nothing is asked for yet. *)
LEMMA ReportsInit == Init => ReportsInv
<1> SUFFICES ASSUME Init PROVE ReportsInv
  OBVIOUS
<1>1. ShapesOK
  BY DEF Init, ShapesOK, NoJob
<1>2. RunsSound
  BY DEF Init, RunsSound, IsRun, RunFields, RunSound, IdleRun, Stages
<1>3. JobsAskedFor /\ CompletedHasFile
  BY DEF Init, JobsAskedFor, NoJob, CompletedHasFile
<1>. QED  BY <1>1, <1>2, <1>3 DEF ReportsInv

(* A step moves one run; reports that were asked for, and PDFs that were stored, stay so, *)
(* so that all the other runs keep what they rely on. *)
LEMMA OneRunMoves ==
  ASSUME ReportsInv, NEW w \in Workers, NEW q,
         run' = [run EXCEPT ![w] = q], IsRun(q), RunSound(q, status', stored'),
         \A r \in Reports : status[r] # "none" => status'[r] # "none",
         \A r \in Reports : stored[r] # NoFile => stored'[r] # NoFile
  PROVE  RunsSound' /\ run' = [v \in Workers |-> run'[v]]
<1>0. run = [v \in Workers |-> run[v]] /\ RunsSound
  BY DEF ReportsInv, ShapesOK
<1>1. run' = [v \in Workers |-> run'[v]]
  BY <1>0
<1>2. ASSUME NEW v \in Workers PROVE IsRun(run'[v]) /\ RunSound(run'[v], status', stored')
  <2>1. CASE v = w
    <3>1. run'[v] = q
      BY <1>0, <2>1
    <3>. QED  BY <3>1 DEF RunSound
  <2>2. CASE v # w
    <3>1. run'[v] = run[v]
      BY <1>0, <2>2
    <3>. QED  BY <1>0, <3>1 DEF RunsSound, RunSound
  <2>. QED  BY <2>1, <2>2
<1>. QED  BY <1>1, <1>2 DEF RunsSound, IsRun

(* Neither does a step that moves no run disturb any. *)
LEMMA NoRunMoves ==
  ASSUME ReportsInv, run' = run, stored' = stored,
         \A r \in Reports : status[r] # "none" => status'[r] # "none"
  PROVE  RunsSound'
BY DEF ReportsInv, RunsSound, RunSound, IsRun

(* A run that only goes on to its next stage stays a run. *)
LEMMA StagesAreRuns ==
  ASSUME ReportsInv, NEW w \in Workers, NEW s \in Stages
  PROVE  /\ IsRun([run[w] EXCEPT !.at = s])
         /\ [run EXCEPT ![w].at = s] = [run EXCEPT ![w] = [run[w] EXCEPT !.at = s]]
         /\ [run[w] EXCEPT !.at = s].at = s
         /\ [run[w] EXCEPT !.at = s].report = run[w].report
         /\ [run[w] EXCEPT !.at = s].seen = run[w].seen
         /\ [run[w] EXCEPT !.at = s].pdf = run[w].pdf
<1>1. IsRun(run[w]) /\ run = [v \in Workers |-> run[v]]
  BY DEF ReportsInv, RunsSound, ShapesOK
<1>. QED  BY <1>1 DEF IsRun, RunFields

(* The row of a run that is under way was asked for. *)
LEMMA RunsHaveReports ==
  ASSUME ReportsInv, NEW w \in Workers, run[w].at # "idle"
  PROVE  run[w].report \in Reports /\ status[run[w].report] # "none"
BY DEF ReportsInv, RunsSound, RunSound

-----------------------------------------------------------------------------
(* The steps, one lemma for each. *)

(* The tables are not part of the invariant. *)
LEMMA WriteKeeps == ASSUME ReportsInv, Write PROVE ReportsInv'
<1>1. RunsSound'
  BY NoRunMoves DEF Write, reportVars
<1>. QED
  BY <1>1 DEF ReportsInv, Write, reportVars, ShapesOK, JobsAskedFor, CompletedHasFile

(* The row comes first, so that a job never names a report nobody asked for. *)
LEMMA RequestKeeps ==
  ASSUME ReportsInv, NEW r \in Reports, RequestPdf(r) PROVE ReportsInv'
<1>0. ShapesOK /\ JobsAskedFor /\ CompletedHasFile
  BY DEF ReportsInv
<1>1. /\ status' = [status EXCEPT ![r] = "requested"]
      /\ stored' = stored /\ fileUrl' = fileUrl /\ run' = run
      /\ status[r] = "none"
  BY DEF RequestPdf
<1>2. job' = job \/ \E n \in Int : job' = [job EXCEPT ![r] = [state |-> "waiting", left |-> n, stalls |-> 0]]
  BY ReportsAssumption DEF RequestPdf, Enqueue
<1>3. ShapesOK'
  BY <1>0, <1>1, <1>2 DEF ShapesOK
<1>4. RunsSound'
  BY <1>0, <1>1, NoRunMoves DEF ShapesOK
<1>5. JobsAskedFor'
  BY <1>0, <1>1, <1>2 DEF ShapesOK, JobsAskedFor
<1>6. CompletedHasFile'
  BY <1>0, <1>1 DEF ShapesOK, CompletedHasFile
<1>. QED  BY <1>3, <1>4, <1>5, <1>6 DEF ReportsInv

(* A worker takes only jobs of reports that were asked for. *)
LEMMA TakeKeeps ==
  ASSUME ReportsInv, NEW w \in Workers, NEW r \in Reports, Take(w, r) PROVE ReportsInv'
<1>. DEFINE q == [IdleRun EXCEPT !.report = r, !.at = "find", !.holds = TRUE]
<1>0. ShapesOK /\ JobsAskedFor /\ CompletedHasFile
  BY DEF ReportsInv
<1>1. IsRun(q) /\ RunSound(q, status', stored')
  <2>1. q = [f \in RunFields |-> q[f]] /\ q.report = r /\ q.at = "find"
    BY DEF IdleRun, RunFields
  <2>2. status'[r] # "none"
    BY <1>0 DEF Take, JobsAskedFor
  <2>. HIDE DEF q
  <2>. QED  BY <2>1, <2>2 DEF IsRun, RunSound, Stages
<1>2. RunsSound' /\ run' = [v \in Workers |-> run'[v]]
  BY <1>1, OneRunMoves DEF Take
<1>3. ShapesOK' /\ JobsAskedFor' /\ CompletedHasFile'
  BY <1>0, <1>2 DEF Take, ShapesOK, JobsAskedFor, CompletedHasFile
<1>. QED  BY <1>2, <1>3 DEF ReportsInv

(* A finished report sends the run home; otherwise the row read said "requested". *)
LEMMA FindKeeps ==
  ASSUME ReportsInv, NEW w \in Workers, FindReport(w) PROVE ReportsInv'
<1>. DEFINE s == status[run[w].report]
            q == [run[w] EXCEPT !.seen = s, !.at = IF IsFinished(s) THEN "returned" ELSE "activities"]
<1>0. ShapesOK /\ JobsAskedFor /\ CompletedHasFile /\ IsRun(run[w])
  BY DEF ReportsInv, RunsSound
<1>1. run[w].report \in Reports /\ s # "none"
  BY RunsHaveReports DEF FindReport
<1>2. s \in {"requested", "completed"}
  BY <1>0, <1>1 DEF ShapesOK
<1>3. run' = [run EXCEPT ![w] = q]
  BY <1>0 DEF FindReport, ShapesOK
<1>4. IsRun(q) /\ RunSound(q, status', stored')
  <2>1. /\ q = [f \in RunFields |-> q[f]] /\ q.report = run[w].report /\ q.seen = s
        /\ q.at = IF IsFinished(s) THEN "returned" ELSE "activities"
    <3>. HIDE DEF s
    <3>. QED  BY <1>0 DEF IsRun, RunFields
  <2>2. status' = status
    BY DEF FindReport
  <2>. HIDE DEF q
  <2>. QED  BY <1>1, <1>2, <2>1, <2>2 DEF IsRun, RunSound, Stages, IsFinished
<1>5. RunsSound' /\ run' = [v \in Workers |-> run'[v]]
  BY <1>3, <1>4, OneRunMoves DEF FindReport
<1>6. ShapesOK' /\ JobsAskedFor' /\ CompletedHasFile'
  BY <1>0, <1>5 DEF FindReport, ShapesOK, JobsAskedFor, CompletedHasFile
<1>. QED  BY <1>5, <1>6 DEF ReportsInv

(* The two reads of the tables; after the second the document is whole. *)
LEMMA BuildKeeps ==
  ASSUME ReportsInv, NEW w \in Workers, BuildActivities(w) \/ BuildExpenses(w) PROVE ReportsInv'
<1>0. ShapesOK /\ JobsAskedFor /\ CompletedHasFile /\ IsRun(run[w]) /\ RunSound(run[w], status, stored)
  BY DEF ReportsInv, RunsSound
<1>1. \E q : run' = [run EXCEPT ![w] = q] /\ IsRun(q) /\ RunSound(q, status', stored')
  <2>1. CASE BuildActivities(w)
    <3>. DEFINE x == [activities |-> ActivitySection(activities, Window[run[w].report][1],
                                                     Window[run[w].report][2])]
                q == [run[w] EXCEPT !.at = "expenses", !.pdf = x]
    <3>1. run' = [run EXCEPT ![w] = q]
      BY <1>0, <2>1 DEF BuildActivities, ShapesOK
    <3>2. IsRun(q) /\ RunSound(q, status', stored')
      <4>. HIDE DEF x
      <4>1. /\ q = [f \in RunFields |-> q[f]] /\ q.report = run[w].report
            /\ q.seen = run[w].seen /\ q.at = "expenses" /\ q.pdf = x
        BY <1>0 DEF IsRun, RunFields
      <4>2. status' = status /\ run[w].at = "activities"
        BY <2>1 DEF BuildActivities
      <4>. HIDE DEF q
      <4>. QED  BY <1>0, <4>1, <4>2 DEF IsRun, RunSound, Stages
    <3>. QED  BY <3>1, <3>2
  <2>2. CASE BuildExpenses(w)
    <3>. DEFINE y == ExpenseSection(expenses, Window[run[w].report][1], Window[run[w].report][2])
                x == [activities |-> run[w].pdf.activities, expenses |-> y]
                q == [run[w] EXCEPT !.at = "upload", !.pdf = x]
    <3>1. run' = [run EXCEPT ![w] = q]
      BY <1>0, <2>2 DEF BuildExpenses, ShapesOK
    <3>2. x # NoFile
      <4>. HIDE DEF y
      <4>1. "expenses" \in DOMAIN x /\ "expenses" \notin DOMAIN NoFile
        BY DEF NoFile
      <4>. QED  BY <4>1
    <3>3. IsRun(q) /\ RunSound(q, status', stored')
      <4>. HIDE DEF x
      <4>1. /\ q = [f \in RunFields |-> q[f]] /\ q.report = run[w].report
            /\ q.seen = run[w].seen /\ q.at = "upload" /\ q.pdf = x
        BY <1>0 DEF IsRun, RunFields
      <4>2. status' = status /\ run[w].at = "expenses"
        BY <2>2 DEF BuildExpenses
      <4>. HIDE DEF q
      <4>. QED  BY <1>0, <3>2, <4>1, <4>2 DEF IsRun, RunSound, Stages
    <3>. QED  BY <3>1, <3>3
  <2>. QED  BY <2>1, <2>2
<1>2. status' = status /\ stored' = stored /\ fileUrl' = fileUrl /\ job' = job
  BY DEF BuildActivities, BuildExpenses
<1>3. RunsSound' /\ run' = [v \in Workers |-> run'[v]]
  BY <1>1, <1>2, OneRunMoves
<1>4. ShapesOK' /\ JobsAskedFor' /\ CompletedHasFile'
  BY <1>0, <1>2, <1>3 DEF ShapesOK, JobsAskedFor, CompletedHasFile
<1>. QED  BY <1>3, <1>4 DEF ReportsInv

(* The run goes on to mark the row only when the bucket has the document. *)
LEMMA UploadKeeps ==
  ASSUME ReportsInv, NEW w \in Workers, Upload(w) PROVE ReportsInv'
<1>0. ShapesOK /\ JobsAskedFor /\ CompletedHasFile /\ IsRun(run[w]) /\ RunSound(run[w], status, stored)
  BY DEF ReportsInv, RunsSound
<1>1. /\ run[w].report \in Reports /\ status[run[w].report] # "none"
      /\ run[w].pdf # NoFile /\ run[w].seen = "requested"
  BY <1>0, RunsHaveReports DEF Upload, RunSound
<1>2. /\ status' = status /\ fileUrl' = fileUrl /\ job' = job
      /\ stored' = [r \in Reports |-> stored'[r]]
      /\ \A r \in Reports : stored[r] # NoFile => stored'[r] # NoFile
  <2>1. CASE stored' = stored
    BY <2>1, <1>0 DEF Upload, ShapesOK
  <2>2. CASE stored' = [stored EXCEPT ![run[w].report] = run[w].pdf]
    BY <2>2, <1>0, <1>1 DEF Upload, ShapesOK
  <2>. QED  BY <2>1, <2>2 DEF Upload
<1>3. RunsSound' /\ run' = [v \in Workers |-> run'[v]]
  <2>. DEFINE q(s) == [run[w] EXCEPT !.at = s]
  <2>1. CASE stored' = [stored EXCEPT ![run[w].report] = run[w].pdf] /\ Step(w, "mark")
    <3>0. "mark" \in Stages
      BY DEF Stages
    <3>1. IsRun(q("mark")) /\ run' = [run EXCEPT ![w] = q("mark")]
      BY <2>1, <3>0, StagesAreRuns DEF Step
    <3>2. stored'[run[w].report] # NoFile
      BY <2>1, <1>0, <1>1 DEF ShapesOK
    <3>3. RunSound(q("mark"), status', stored')
      BY <3>0, <3>2, <1>1, <1>2, StagesAreRuns DEF RunSound, Upload
    <3>. QED  BY <3>1, <3>3, <1>2, OneRunMoves
  <2>2. CASE Step(w, "threw")
    <3>0. "threw" \in Stages
      BY DEF Stages
    <3>1. IsRun(q("threw")) /\ run' = [run EXCEPT ![w] = q("threw")]
      BY <2>2, <3>0, StagesAreRuns DEF Step
    <3>3. RunSound(q("threw"), status', stored')
      BY <3>0, <1>1, <1>2, StagesAreRuns DEF RunSound, Upload
    <3>. QED  BY <3>1, <3>3, <1>2, OneRunMoves
  <2>. QED  BY <2>1, <2>2 DEF Upload
<1>4. ShapesOK' /\ JobsAskedFor' /\ CompletedHasFile'
  BY <1>0, <1>2, <1>3 DEF ShapesOK, JobsAskedFor, CompletedHasFile
<1>. QED  BY <1>3, <1>4 DEF ReportsInv

(* A report is marked by a run that has left its document in the bucket. *)
LEMMA MarkKeeps ==
  ASSUME ReportsInv, NEW w \in Workers, MarkCompleted(w) PROVE ReportsInv'
<1>. DEFINE q == [run[w] EXCEPT !.at = "returned"]
<1>0. ShapesOK /\ JobsAskedFor /\ CompletedHasFile /\ RunSound(run[w], status, stored) /\ "returned" \in Stages
  BY DEF ReportsInv, RunsSound, Stages
<1>1. run[w].report \in Reports /\ stored[run[w].report] # NoFile
  BY <1>0, RunsHaveReports DEF MarkCompleted, RunSound
<1>2. /\ stored' = stored /\ job' = job
      /\ status' = [status EXCEPT ![run[w].report] = "completed"]
      /\ fileUrl' = [fileUrl EXCEPT ![run[w].report] = TRUE]
  BY DEF MarkCompleted
<1>3. run' = [run EXCEPT ![w] = q] /\ IsRun(q)
  BY <1>0, StagesAreRuns DEF MarkCompleted, Step
<1>4. RunSound(q, status', stored')
  BY <1>0, <1>1, <1>2, StagesAreRuns DEF RunSound, ShapesOK, MarkCompleted
<1>5. \A r \in Reports : status[r] # "none" => status'[r] # "none"
  BY <1>0, <1>2 DEF ShapesOK
<1>6. RunsSound' /\ run' = [v \in Workers |-> run'[v]]
  BY <1>2, <1>3, <1>4, <1>5, OneRunMoves
<1>7. ShapesOK'
  BY <1>0, <1>1, <1>2, <1>6 DEF ShapesOK
<1>8. JobsAskedFor' /\ CompletedHasFile'
  BY <1>0, <1>1, <1>2 DEF ShapesOK, JobsAskedFor, CompletedHasFile
<1>. QED  BY <1>6, <1>7, <1>8 DEF ReportsInv

(* An error leaves everything but the run as it was. *)
LEMMA ThrowKeeps ==
  ASSUME ReportsInv, NEW w \in Workers, Throw(w) PROVE ReportsInv'
<1>. DEFINE q == [run[w] EXCEPT !.at = "threw"]
<1>0. ShapesOK /\ JobsAskedFor /\ CompletedHasFile /\ "threw" \in Stages
  BY DEF ReportsInv, Stages
<1>1. run' = [run EXCEPT ![w] = q] /\ IsRun(q)
  BY <1>0, StagesAreRuns DEF Throw, Step
<1>2. RunSound(q, status', stored')
  BY <1>0, RunsHaveReports, StagesAreRuns DEF RunSound, Throw
<1>3. RunsSound' /\ run' = [v \in Workers |-> run'[v]]
  BY <1>1, <1>2, OneRunMoves DEF Throw
<1>4. ShapesOK' /\ JobsAskedFor' /\ CompletedHasFile'
  BY <1>0, <1>3 DEF Throw, ShapesOK, JobsAskedFor, CompletedHasFile
<1>. QED  BY <1>3, <1>4 DEF ReportsInv

(* BullMQ changes jobs of its own accord, but never makes one. *)
JobsGoOn ==
  /\ job' \in [Reports -> [state: {"none", "waiting", "active", "done", "failed"},
                           left: Int, stalls: Int]]
  /\ \A r \in Reports : job'[r].state # "none" => status[r] # "none"

(* The end of a run, heard or not. *)
LEMMA SettleKeeps ==
  ASSUME ReportsInv, NEW w \in Workers, Settle(w) PROVE ReportsInv'
<1>0. ShapesOK /\ JobsAskedFor /\ CompletedHasFile
  BY DEF ReportsInv
<1>1. run[w].report \in Reports /\ status[run[w].report] # "none"
  BY RunsHaveReports DEF Settle
<1>2. JobsGoOn
  <2>1. PICK r \in Reports : r = run[w].report /\ status[r] # "none"
    BY <1>1
  <2>2. CASE ~run[w].holds
    <3>1. job' = job
      BY <2>2 DEF Settle
    <3>. QED  BY <1>0, <3>1 DEF JobsGoOn, ShapesOK, JobsAskedFor
  <2>3. CASE run[w].holds /\ run[w].at = "returned"
    <3>1. job' = [job EXCEPT ![r].state = "done"]
      BY <2>1, <2>3 DEF Settle
    <3>. QED  BY <1>0, <2>1, <3>1 DEF JobsGoOn, ShapesOK, JobsAskedFor
  <2>4. CASE run[w].holds /\ run[w].at # "returned"
    <3>1. PICK s \in {"waiting", "failed"} : job' = [job EXCEPT ![r].left = @ - 1, ![r].state = s]
      BY <2>1, <2>4 DEF Settle
    <3>. QED  BY <1>0, <2>1, <3>1 DEF JobsGoOn, ShapesOK, JobsAskedFor
  <2>. QED  BY <2>2, <2>3, <2>4
<1>3. IsRun(IdleRun) /\ RunSound(IdleRun, status', stored')
  BY DEF IsRun, RunFields, RunSound, IdleRun, Stages
<1>4. RunsSound' /\ run' = [v \in Workers |-> run'[v]]
  BY <1>3, OneRunMoves DEF Settle
<1>5. ShapesOK' /\ JobsAskedFor' /\ CompletedHasFile'
  BY <1>0, <1>2, <1>4 DEF Settle, JobsGoOn, ShapesOK, JobsAskedFor, CompletedHasFile
<1>. QED  BY <1>4, <1>5 DEF ReportsInv

(* A stalled job starts over although its run may go on. *)
LEMMA StallKeeps ==
  ASSUME ReportsInv, NEW w \in Workers, Stall(w) PROVE ReportsInv'
<1>0. ShapesOK /\ JobsAskedFor /\ CompletedHasFile /\ IsRun(run[w]) /\ RunSound(run[w], status, stored)
  BY DEF ReportsInv, RunsSound
<1>1. run[w].report \in Reports /\ status[run[w].report] # "none"
  BY <1>0 DEF Stall, RunSound
<1>2. JobsGoOn
  <2>1. PICK r \in Reports : r = run[w].report /\ status[r] # "none"
    BY <1>1
  <2>2. CASE job[r].stalls < MaxStalls
    <3>1. job' = [job EXCEPT ![r].stalls = @ + 1, ![r].state = "waiting"]
      BY <2>1, <2>2 DEF Stall
    <3>. QED  BY <1>0, <2>1, <3>1 DEF JobsGoOn, ShapesOK, JobsAskedFor
  <2>3. CASE ~(job[r].stalls < MaxStalls)
    <3>1. job' = [job EXCEPT ![r].state = "failed"]
      BY <2>1, <2>3 DEF Stall
    <3>. QED  BY <1>0, <2>1, <3>1 DEF JobsGoOn, ShapesOK, JobsAskedFor
  <2>. QED  BY <2>2, <2>3
<1>3. RunsSound' /\ run' = [v \in Workers |-> run'[v]]
  <2>1. CASE run' = [run EXCEPT ![w].holds = FALSE]
    <3>. DEFINE q == [run[w] EXCEPT !.holds = FALSE]
    <3>1. run' = [run EXCEPT ![w] = q]
      BY <2>1, <1>0 DEF ShapesOK
    <3>2. IsRun(q) /\ RunSound(q, status', stored')
      <4>1. /\ q = [f \in RunFields |-> q[f]] /\ q.report = run[w].report /\ q.seen = run[w].seen
            /\ q.at = run[w].at /\ q.pdf = run[w].pdf /\ q.holds = FALSE
        BY <1>0 DEF IsRun, RunFields
      <4>2. status' = status /\ stored' = stored
        BY DEF Stall
      <4>. HIDE DEF q
      <4>. QED  BY <1>0, <4>1, <4>2 DEF IsRun, RunSound
    <3>. QED  BY <3>1, <3>2, OneRunMoves DEF Stall
  <2>2. CASE run' = [run EXCEPT ![w] = IdleRun]
    <3>1. IsRun(IdleRun) /\ RunSound(IdleRun, status', stored')
      BY DEF IsRun, RunFields, RunSound, IdleRun, Stages
    <3>. QED  BY <2>2, <3>1, OneRunMoves DEF Stall
  <2>. QED  BY <2>1, <2>2 DEF Stall
<1>4. ShapesOK' /\ JobsAskedFor' /\ CompletedHasFile'
  BY <1>0, <1>2, <1>3 DEF Stall, JobsGoOn, ShapesOK, JobsAskedFor, CompletedHasFile
<1>. QED  BY <1>3, <1>4 DEF ReportsInv

-----------------------------------------------------------------------------
(* Every step keeps the invariant. *)
LEMMA ReportsNext == ReportsInv /\ [Next]_vars => ReportsInv'
<1> SUFFICES ASSUME ReportsInv, [Next]_vars PROVE ReportsInv'
  OBVIOUS
<1>1. CASE Write
  BY <1>1, WriteKeeps
<1>2. ASSUME NEW r \in Reports, RequestPdf(r) PROVE ReportsInv'
  BY <1>2, RequestKeeps
<1>3. ASSUME NEW w \in Workers, WorkerNext(w) PROVE ReportsInv'
  BY <1>3, TakeKeeps, FindKeeps, BuildKeeps, UploadKeeps, MarkKeeps, SettleKeeps DEF WorkerNext
<1>4. ASSUME NEW w \in Workers, Throw(w) \/ Stall(w) PROVE ReportsInv'
  BY <1>4, ThrowKeeps, StallKeeps
<1>5. CASE UNCHANGED vars
  BY <1>5 DEF vars, reportVars, ReportsInv, ShapesOK, RunsSound, RunSound, IsRun, JobsAskedFor,
              CompletedHasFile
<1>. QED  BY <1>1, <1>2, <1>3, <1>4, <1>5 DEF Next

(* The inductive invariant: what runs and jobs rely on, and CompletedHasFile. *)
THEOREM ReportsAlways == Spec => []ReportsInv
BY ReportsInit, ReportsNext, PTL DEF Spec

(* However often a job is retried, stalls or runs twice, a completed report has its PDF in *)
(* the bucket (reports.service.ts:80-82). *)
THEOREM CompletedAlwaysHasFile == Spec => []CompletedHasFile
<1>1. ReportsInv => CompletedHasFile
  BY DEF ReportsInv
<1>. QED  BY <1>1, ReportsAlways, PTL

(* Only a run that uploads changes the bucket. *)
LEMMA OnlyUploadsStore ==
  ASSUME ReportsInv, [Next]_vars, NEW r \in Reports, stored'[r] # stored[r]
  PROVE  \E w \in Workers : run[w].report = r /\ run[w].seen = "requested"
<1>1. PICK w \in Workers : Upload(w)
  <2>1. stored' # stored
    OBVIOUS
  <2>2. CASE \E w \in Workers : WorkerNext(w) \/ Throw(w) \/ Stall(w)
    BY <2>1, <2>2 DEF WorkerNext, Take, FindReport, BuildActivities, BuildExpenses, MarkCompleted,
                      Settle, Throw, Stall
  <2>. QED  BY <2>1, <2>2 DEF Next, Write, reportVars, RequestPdf, vars
<1>2. run[w].report \in Reports /\ run[w].seen = "requested" /\ stored = [s \in Reports |-> stored[s]]
  BY <1>1 DEF Upload, ReportsInv, RunsSound, RunSound, ShapesOK
<1>3. stored' = [stored EXCEPT ![run[w].report] = run[w].pdf]
  BY <1>1 DEF Upload
<1>4. run[w].report = r
  BY <1>2, <1>3
<1>. QED  BY <1>2, <1>4

(* The PDF of a completed report is replaced only by a run that had found it unfinished *)
(* (reports.service.ts:79-80): no retry renders it anew. *)
THEOREM CompletedNeverRenderedAgain == Spec => CompletedIsNotRenderedAgain
<1>1. ReportsInv /\ [Next]_vars =>
        [\A r \in Reports : status[r] = "completed" /\ stored'[r] # stored[r] =>
           \E w \in Workers : run[w].report = r /\ run[w].seen = "requested"]_vars
  BY OnlyUploadsStore
<1>. QED  BY <1>1, ReportsAlways, PTL DEF Spec, CompletedIsNotRenderedAgain

-----------------------------------------------------------------------------
(* Jobs and the runs BullMQ listens to. *)

(* Which run holds the lock of which job. *)
Holding == {h \in Workers \X Reports : run[h[1]].holds /\ run[h[1]].report = h[2]}

(* A job is active exactly while one run holds it. *)
ActiveIsHeld ==
  /\ \A r \in Reports : job[r].state = "active" <=> \E w \in Workers : <<w, r>> \in Holding
  /\ \A r \in Reports : \A v, w \in Workers :
       <<v, r>> \in Holding /\ <<w, r>> \in Holding => v = w

(* A job that is not over has an attempt left. *)
Budget(j) ==
  /\ j.left \in 0 .. MaxAttempts /\ j.stalls \in 0 .. MaxStalls
  /\ j.state \in {"waiting", "active"} => j.left > 0

JobsInv == ActiveIsHeld /\ \A r \in Reports : Budget(job[r])

(* What a step does to jobs and locks. *)
Rests == job' = job /\ Holding' = Holding

Adds(r) ==
  /\ job[r].state = "none"
  /\ job' = [job EXCEPT ![r] = [state |-> "waiting", left |-> MaxAttempts, stalls |-> 0]]
  /\ Holding' = Holding

Locks(w, r) ==
  /\ job[r].state = "waiting"
  /\ job' = [job EXCEPT ![r].state = "active"]
  /\ Holding' = Holding \cup {<<w, r>>}

Releases(w, r) ==
  /\ <<w, r>> \in Holding
  /\ \/ job' = [job EXCEPT ![r].state = "done"]
     \/ job' = [job EXCEPT ![r].state = "failed"]
     \/ job[r].stalls < MaxStalls /\ job' = [job EXCEPT ![r].stalls = @ + 1, ![r].state = "waiting"]
     \/ job' = [job EXCEPT ![r].left = @ - 1,
                           ![r].state = IF job[r].left > 1 THEN "waiting" ELSE "failed"]
  /\ Holding' = Holding \ {<<w, r>>}

(* A run that only goes on keeps its lock. *)
LEMMA LocksStay ==
  ASSUME ReportsInv, NEW w \in Workers, NEW q, run' = [run EXCEPT ![w] = q],
         q.holds = run[w].holds, q.report = run[w].report
  PROVE  Holding' = Holding
<1>1. \A v \in Workers : run'[v].holds = run[v].holds /\ run'[v].report = run[v].report
  BY DEF ReportsInv, ShapesOK
<1>. QED  BY <1>1 DEF Holding

(* The end of a run ends its lock. *)
LEMMA LocksEnd ==
  ASSUME ReportsInv, NEW w \in Workers, NEW q, run' = [run EXCEPT ![w] = q], q.holds = FALSE
  PROVE  Holding' = Holding \ {<<w, run[w].report>>}
<1>1. run'[w] = q /\ \A v \in Workers : v # w => run'[v] = run[v]
  BY DEF ReportsInv, ShapesOK
<1>. QED  BY <1>1 DEF Holding

LEMMA FieldsStay ==
  ASSUME ReportsInv, NEW w \in Workers, NEW s, NEW x
  PROVE  /\ [run EXCEPT ![w].at = s] = [run EXCEPT ![w] = [run[w] EXCEPT !.at = s]]
         /\ [run EXCEPT ![w].holds = s] = [run EXCEPT ![w] = [run[w] EXCEPT !.holds = s]]
         /\ [run[w] EXCEPT !.at = s].holds = run[w].holds
         /\ [run[w] EXCEPT !.at = s].report = run[w].report
         /\ [run[w] EXCEPT !.at = s, !.pdf = x].holds = run[w].holds
         /\ [run[w] EXCEPT !.at = s, !.pdf = x].report = run[w].report
         /\ [run[w] EXCEPT !.seen = x, !.at = s].holds = run[w].holds
         /\ [run[w] EXCEPT !.seen = x, !.at = s].report = run[w].report
         /\ [run[w] EXCEPT !.holds = s].holds = s
<1>1. IsRun(run[w]) /\ run = [v \in Workers |-> run[v]]
  BY DEF ReportsInv, RunsSound, ShapesOK
<1>. QED  BY <1>1 DEF IsRun, RunFields

(* Every step is one of the four. *)
LEMMA JobSteps ==
  ASSUME ReportsInv, [Next]_vars
  PROVE  \/ Rests
         \/ \E r \in Reports : Adds(r)
         \/ \E w \in Workers, r \in Reports : Locks(w, r) \/ Releases(w, r)
<1>1. CASE Write \/ UNCHANGED vars
  BY <1>1 DEF Write, vars, reportVars, Rests, Holding
<1>2. ASSUME NEW r \in Reports, RequestPdf(r) PROVE Rests \/ Adds(r)
  <2>1. job[r].state = "none"
    BY <1>2 DEF RequestPdf, ReportsInv, ShapesOK, JobsAskedFor
  <2>. QED  BY <1>2, <2>1 DEF RequestPdf, Enqueue, Rests, Adds, Holding
<1>3. ASSUME NEW w \in Workers, NEW r \in Reports, Take(w, r) PROVE Locks(w, r)
  <2>. DEFINE q == [IdleRun EXCEPT !.report = r, !.at = "find", !.holds = TRUE]
  <2>1. q.report = r /\ q.holds = TRUE
    BY DEF IdleRun
  <2>2. run' = [run EXCEPT ![w] = q] /\ run[w].at = "idle"
    BY <1>3 DEF Take
  <2>. HIDE DEF q
  <2>3. run'[w] = q /\ (\A v \in Workers : v # w => run'[v] = run[v]) /\ ~run[w].holds
    BY <2>2 DEF ReportsInv, ShapesOK, RunsSound, RunSound
  <2>4. Holding' = Holding \cup {<<w, r>>}
    BY <2>1, <2>3 DEF Holding
  <2>. QED  BY <1>3, <2>4 DEF Take, Locks
<1>4. ASSUME NEW w \in Workers, FindReport(w) PROVE Rests
  <2>. DEFINE s == status[run[w].report]
              q == [run[w] EXCEPT !.seen = s,
                                  !.at = IF IsFinished(s) THEN "returned" ELSE "activities"]
  <2>1. run' = [run EXCEPT ![w] = q] /\ job' = job
    BY <1>4 DEF FindReport, ReportsInv, ShapesOK
  <2>2. q.holds = run[w].holds /\ q.report = run[w].report
    BY FieldsStay
  <2>. HIDE DEF q
  <2>. QED  BY <2>1, <2>2, LocksStay DEF Rests
<1>5. ASSUME NEW w \in Workers, BuildActivities(w) \/ BuildExpenses(w) PROVE Rests
  <2>1. PICK s, x : run' = [run EXCEPT ![w] = [run[w] EXCEPT !.at = s, !.pdf = x]]
    <3>0. run = [v \in Workers |-> run[v]]
      BY DEF ReportsInv, ShapesOK
    <3>1. CASE BuildActivities(w)
      <4>. DEFINE x == [activities |-> ActivitySection(activities, Window[run[w].report][1],
                                                       Window[run[w].report][2])]
      <4>1. run' = [run EXCEPT ![w] = [run[w] EXCEPT !.at = "expenses", !.pdf = x]]
        BY <3>0, <3>1 DEF BuildActivities
      <4>. QED  BY <4>1
    <3>2. CASE BuildExpenses(w)
      <4>. DEFINE x == [activities |-> run[w].pdf.activities,
                        expenses |-> ExpenseSection(expenses, Window[run[w].report][1],
                                                    Window[run[w].report][2])]
      <4>1. run' = [run EXCEPT ![w] = [run[w] EXCEPT !.at = "upload", !.pdf = x]]
        BY <3>0, <3>2 DEF BuildExpenses
      <4>. QED  BY <4>1
    <3>. QED  BY <1>5, <3>1, <3>2
  <2>2. job' = job
    BY <1>5 DEF BuildActivities, BuildExpenses
  <2>. DEFINE q == [run[w] EXCEPT !.at = s, !.pdf = x]
  <2>3. q.holds = run[w].holds /\ q.report = run[w].report
    BY FieldsStay
  <2>. HIDE DEF q
  <2>4. run' = [run EXCEPT ![w] = q]
    BY <2>1 DEF q
  <2>5. Holding' = Holding
    BY <2>3, <2>4, LocksStay
  <2>. QED  BY <2>2, <2>5 DEF Rests
<1>6. ASSUME NEW w \in Workers, Upload(w) \/ MarkCompleted(w) \/ Throw(w) PROVE Rests
  <2>1. job' = job /\ \E s : Step(w, s)
    BY <1>6 DEF Upload, MarkCompleted, Throw
  <2>2. PICK s : run' = [run EXCEPT ![w] = [run[w] EXCEPT !.at = s]]
    BY <2>1, FieldsStay DEF Step
  <2>. DEFINE q == [run[w] EXCEPT !.at = s]
  <2>3. q.holds = run[w].holds /\ q.report = run[w].report
    BY FieldsStay
  <2>4. run' = [run EXCEPT ![w] = q]
    BY <2>2
  <2>. HIDE DEF q
  <2>5. Holding' = Holding
    BY <2>3, <2>4, LocksStay
  <2>. QED  BY <2>1, <2>5 DEF Rests
<1>7. ASSUME NEW w \in Workers, Settle(w) PROVE Rests \/ \E r \in Reports : Releases(w, r)
  <2>1. PICK r \in Reports : r = run[w].report
    BY <1>7, RunsHaveReports DEF Settle
  <2>2. run' = [run EXCEPT ![w] = IdleRun] /\ IdleRun.holds = FALSE
    BY <1>7 DEF Settle, IdleRun
  <2>3. Holding' = Holding \ {<<w, r>>}
    BY <2>1, <2>2, LocksEnd
  <2>4. CASE ~run[w].holds
    <3>1. job' = job
      BY <1>7, <2>4 DEF Settle
    <3>2. <<w, r>> \notin Holding
      BY <2>4 DEF Holding
    <3>. QED  BY <2>3, <3>1, <3>2 DEF Rests
  <2>5. CASE run[w].holds
    <3>1. <<w, r>> \in Holding
      BY <2>1, <2>5 DEF Holding
    <3>2. \/ job' = [job EXCEPT ![r].state = "done"]
          \/ job' = [job EXCEPT ![r].left = @ - 1,
                                ![r].state = IF job[r].left > 1 THEN "waiting" ELSE "failed"]
      BY <1>7, <2>1, <2>5 DEF Settle
    <3>. QED  BY <2>3, <3>1, <3>2 DEF Releases
  <2>. QED  BY <2>4, <2>5
<1>8. ASSUME NEW w \in Workers, Stall(w) PROVE \E r \in Reports : Releases(w, r)
  <2>1. PICK r \in Reports : r = run[w].report
    BY <1>8 DEF Stall, ReportsInv, RunsSound, RunSound
  <2>2. \E q : run' = [run EXCEPT ![w] = q] /\ q.holds = FALSE
    <3>1. CASE run' = [run EXCEPT ![w].holds = FALSE]
      <4>. DEFINE q == [run[w] EXCEPT !.holds = FALSE]
      <4>1. run' = [run EXCEPT ![w] = q] /\ q.holds = FALSE
        BY <3>1, FieldsStay
      <4>. QED  BY <4>1
    <3>2. CASE run' = [run EXCEPT ![w] = IdleRun]
      <4>1. IdleRun.holds = FALSE
        BY DEF IdleRun
      <4>. QED  BY <3>2, <4>1
    <3>. QED  BY <1>8, <3>1, <3>2 DEF Stall
  <2>3. Holding' = Holding \ {<<w, r>>}
    BY <2>1, <2>2, LocksEnd
  <2>4. <<w, r>> \in Holding
    BY <1>8, <2>1 DEF Stall, Holding
  <2>5. \/ job[r].stalls < MaxStalls /\ job' = [job EXCEPT ![r].stalls = @ + 1, ![r].state = "waiting"]
        \/ job' = [job EXCEPT ![r].state = "failed"]
    BY <1>8, <2>1 DEF Stall
  <2>. QED  BY <2>3, <2>4, <2>5 DEF Releases
<1>. QED  BY <1>1, <1>2, <1>3, <1>4, <1>5, <1>6, <1>7, <1>8 DEF Next, WorkerNext

LEMMA JobsInit == Init => JobsInv
<1> SUFFICES ASSUME Init PROVE JobsInv
  OBVIOUS
<1>1. Holding = {} /\ \A r \in Reports : job[r] = NoJob
  BY DEF Init, Holding, IdleRun
<1>. QED  BY <1>1, ReportsAssumption DEF JobsInv, ActiveIsHeld, Budget, NoJob

LEMMA JobsNext == ReportsInv /\ JobsInv /\ [Next]_vars => JobsInv'
<1> SUFFICES ASSUME ReportsInv, JobsInv, [Next]_vars PROVE JobsInv'
  OBVIOUS
<1>0. /\ job \in [Reports -> [state: {"none", "waiting", "active", "done", "failed"},
                              left: Int, stalls: Int]]
      /\ MaxAttempts \in Nat \ {0} /\ MaxStalls \in Nat
  BY ReportsAssumption DEF ReportsInv, ShapesOK
<1>. USE DEF JobsInv
<1>1. CASE Rests
  BY <1>1 DEF Rests, ActiveIsHeld, Budget
<1>2. ASSUME NEW r \in Reports, Adds(r) PROVE JobsInv'
  <2>1. /\ job'[r] = [state |-> "waiting", left |-> MaxAttempts, stalls |-> 0]
        /\ \A s \in Reports : s # r => job'[s] = job[s]
    BY <1>0, <1>2 DEF Adds
  <2>2. ActiveIsHeld'
    BY <1>2, <2>1 DEF Adds, ActiveIsHeld
  <2>3. \A s \in Reports : Budget(job'[s])
    BY <1>0, <2>1 DEF Budget
  <2>. QED  BY <2>2, <2>3 DEF Budget
<1>3. ASSUME NEW w \in Workers, NEW r \in Reports, Locks(w, r) PROVE JobsInv'
  <2>1. /\ job'[r].state = "active" /\ job'[r].left = job[r].left /\ job'[r].stalls = job[r].stalls
        /\ \A s \in Reports : s # r => job'[s] = job[s]
        /\ job[r].state = "waiting" /\ Holding' = Holding \cup {<<w, r>>}
    BY <1>0, <1>3 DEF Locks
  <2>2. ActiveIsHeld'
    BY <2>1 DEF ActiveIsHeld
  <2>3. \A s \in Reports : Budget(job'[s])
    BY <2>1 DEF Budget
  <2>. QED  BY <2>2, <2>3 DEF Budget
<1>4. ASSUME NEW w \in Workers, NEW r \in Reports, Releases(w, r) PROVE JobsInv'
  <2>1. /\ job[r].state = "active" /\ job[r].left \in 1 .. MaxAttempts
        /\ job[r].stalls \in 0 .. MaxStalls
    BY <1>0, <1>4 DEF Releases, ActiveIsHeld, Budget
  <2>2. \A s \in Reports : s # r => job'[s] = job[s]
    BY <1>0, <1>4 DEF Releases
  <2>3. job'[r].state # "active" /\ Budget(job'[r])
    <3>1. CASE job' = [job EXCEPT ![r].state = "done"] \/ job' = [job EXCEPT ![r].state = "failed"]
      BY <1>0, <2>1, <3>1 DEF Budget
    <3>2. CASE job[r].stalls < MaxStalls
               /\ job' = [job EXCEPT ![r].stalls = @ + 1, ![r].state = "waiting"]
      BY <1>0, <2>1, <3>2 DEF Budget
    <3>3. CASE job' = [job EXCEPT ![r].left = @ - 1,
                                  ![r].state = IF job[r].left > 1 THEN "waiting" ELSE "failed"]
      BY <1>0, <2>1, <3>3 DEF Budget
    <3>. QED  BY <1>4, <3>1, <3>2, <3>3 DEF Releases
  <2>4. <<w, r>> \in Holding /\ Holding' = Holding \ {<<w, r>>}
    BY <1>4 DEF Releases
  <2>5. ActiveIsHeld'
    BY <2>2, <2>3, <2>4 DEF ActiveIsHeld
  <2>. QED  BY <2>2, <2>3, <2>5 DEF Budget
<1>. QED  BY <1>1, <1>2, <1>3, <1>4, JobSteps

(* However late a run that lost its lock comes home, a job is active exactly while one run holds
   it, no attempt is counted twice, and a job that is not over has an attempt left. *)
THEOREM JobsAlways == Spec => []JobsInv
BY JobsInit, JobsNext, ReportsAlways, PTL DEF Spec

-----------------------------------------------------------------------------
(* Types, the tables included. *)

TablesOK ==
  /\ activities \in ActivityTables /\ expenses \in ExpenseTables
  /\ writes \in 0 .. MaxWrites /\ lost \subseteq Reports

LEMMA ActivityChanges ==
  ASSUME activities \in ActivityTables, NEW a \in LiveActs,
         \/ \E t \in Instants, u \in Users : AddActivity(a, t, u)
         \/ MoveActivity(a)
  PROVE  activities' \in ActivityTables /\ expenses' = expenses
<1>0. a \in Acts /\ activities \in [Acts -> ActivityRow \cup {NoRow}]
  BY ReportsAssumption DEF ActivityTables
<1>1. ASSUME NEW t \in Instants, NEW u \in Users, AddActivity(a, t, u)
      PROVE  activities' \in ActivityTables /\ expenses' = expenses
  <2>1. [status |-> "assigned", deleted |-> FALSE, at |-> t, who |-> u] \in ActivityRow
    BY DEF ActivityRow, ActivityStatuses
  <2>. QED  BY <1>0, <1>1, <2>1 DEF AddActivity, ActivityTables
<1>2. CASE MoveActivity(a)
  <2>0. activities[a] \in ActivityRow
    BY <1>0, <1>2 DEF MoveActivity
  <2>1. CASE \E s \in {"done", "cancelled"} : activities' = [activities EXCEPT ![a].status = s]
    BY <1>0, <1>2, <2>0, <2>1 DEF MoveActivity, ActivityTables, ActivityRow, ActivityStatuses
  <2>2. CASE activities' = [activities EXCEPT ![a].deleted = TRUE]
    BY <1>0, <1>2, <2>0, <2>2 DEF MoveActivity, ActivityTables, ActivityRow
  <2>. QED  BY <1>2, <2>1, <2>2 DEF MoveActivity
<1>. QED  BY <1>1, <1>2

LEMMA ExpenseChanges ==
  ASSUME expenses \in ExpenseTables, NEW e \in LiveExps,
         \/ \E d \in Days, u \in Users, c \in Categories \cup {NoCategory} : AddExpense(e, d, u, c)
         \/ MoveExpense(e)
  PROVE  expenses' \in ExpenseTables /\ activities' = activities
<1>0. e \in Exps /\ expenses \in [Exps -> ExpenseRow \cup {NoRow}]
  BY ReportsAssumption DEF ExpenseTables
<1>1. ASSUME NEW d \in Days, NEW u \in Users, NEW c \in Categories \cup {NoCategory},
             AddExpense(e, d, u, c)
      PROVE  expenses' \in ExpenseTables /\ activities' = activities
  <2>1. [status |-> "pending", deleted |-> FALSE, day |-> d, by |-> u, category |-> c] \in ExpenseRow
    BY DEF ExpenseRow, ExpenseStatuses
  <2>. QED  BY <1>0, <1>1, <2>1 DEF AddExpense, ExpenseTables
<1>2. CASE MoveExpense(e)
  <2>0. expenses[e] \in ExpenseRow
    BY <1>0, <1>2 DEF MoveExpense
  <2>1. CASE \E s \in {"approved", "rejected", "paid"} : expenses' = [expenses EXCEPT ![e].status = s]
    BY <1>0, <1>2, <2>0, <2>1 DEF MoveExpense, ExpenseTables, ExpenseRow, ExpenseStatuses
  <2>2. CASE expenses' = [expenses EXCEPT ![e].deleted = TRUE]
    BY <1>0, <1>2, <2>0, <2>2 DEF MoveExpense, ExpenseTables, ExpenseRow
  <2>. QED  BY <1>2, <2>1, <2>2 DEF MoveExpense
<1>. QED  BY <1>1, <1>2

LEMMA TablesNext == TablesOK /\ [Next]_vars => TablesOK'
<1> SUFFICES ASSUME TablesOK, [Next]_vars PROVE TablesOK'
  OBVIOUS
<1>1. CASE Write
  <2>1. activities' \in ActivityTables /\ expenses' \in ExpenseTables
    BY <1>1, ActivityChanges, ExpenseChanges DEF Write, TableNext, TablesOK
  <2>2. writes' \in 0 .. MaxWrites /\ lost' = lost
    BY <1>1, ReportsAssumption DEF Write, reportVars, TablesOK
  <2>. QED  BY <2>1, <2>2 DEF TablesOK
<1>2. CASE \E r \in Reports : RequestPdf(r)
  BY <1>2 DEF RequestPdf, Enqueue, Tables, TablesOK
<1>3. CASE \E w \in Workers : WorkerNext(w) \/ Throw(w) \/ Stall(w)
  BY <1>3 DEF WorkerNext, Take, FindReport, BuildActivities, BuildExpenses, Upload, MarkCompleted,
              Settle, Throw, Stall, Tables, TablesOK
<1>4. CASE UNCHANGED vars
  BY <1>4 DEF vars, reportVars, TablesOK
<1>. QED  BY <1>1, <1>2, <1>3, <1>4 DEF Next

(* Every reachable state is well typed; no attempt or stall is counted past its limit, although
   late runs of stalled jobs overlap. *)
THEOREM ReportsAlwaysOK == Spec => []ReportsOK
<1>1. Init => TablesOK
  BY ReportsAssumption DEF Init, TablesOK, ActivityTables, ExpenseTables
<1>2. ReportsInv /\ JobsInv /\ TablesOK => ReportsOK
  BY DEF ReportsInv, ShapesOK, RunsSound, IsRun, Stages, JobsInv, Budget, TablesOK, ReportsOK
<1>. QED  BY <1>1, <1>2, TablesNext, ReportsAlways, JobsAlways, PTL DEF Spec

-----------------------------------------------------------------------------
(* The figures, on any tables, of any number of rows, days and members. *)

(* An instant and its day, a day and its month. *)
LEMMA DivisionBounds ==
  ASSUME NEW q \in Int, NEW D \in Nat \ {0}
  PROVE  q \div D \in Int /\ D * (q \div D) <= q /\ q < D * (q \div D) + D
OBVIOUS

LEMMA QuotientsOrdered ==
  ASSUME NEW p \in Int, NEW m \in Int, NEW D \in Nat \ {0}, p < m
  PROVE  D * p \in Int /\ D * m \in Int /\ D * p + D <= D * m
<1>1. m >= p + 1
  OBVIOUS
<1>2. D * m >= D * (p + 1)
  BY <1>1
<1>3. D * (p + 1) = D * p + D
  OBVIOUS
<1>4. D * p \in Int /\ D * m \in Int
  OBVIOUS
<1>. QED  BY <1>2, <1>3, <1>4

(* An instant is of month m exactly between the first midnight of m and that of m + 1. *)
LEMMA MonthIsRange ==
  ASSUME NEW t \in Int, NEW m \in Int
  PROVE  MonthOf(t) = m <=> t >= 2 * (m * DaysPerMonth) /\ t < 2 * ((m + 1) * DaysPerMonth)
<1>. DEFINE q == t \div 2
            D == DaysPerMonth
            p == q \div D
<1>1. D \in Nat \ {0}
  BY FiguresAssumption
<1>2. q \in Int /\ 2 * q <= t /\ t < 2 * q + 2
  OBVIOUS
<1>. HIDE DEF q, D
<1>3. p \in Int /\ D * p <= q /\ q < D * p + D
  BY <1>1, <1>2, DivisionBounds
<1>4. MonthOf(t) = p
  BY DEF MonthOf, DayOf, q, D
<1>. HIDE DEF p
<1>5. D * m \in Int /\ D * p \in Int /\ m * D = D * m /\ (m + 1) * D = D * m + D
  BY <1>1, <1>3
<1>6. (p = m) <=> D * m <= q /\ q < D * m + D
  <2>1. CASE p = m
    BY <1>3, <2>1
  <2>2. CASE p < m
    <3>1. D * p + D <= D * m
      BY <1>1, <1>3, <2>2, QuotientsOrdered
    <3>. QED  BY <1>2, <1>3, <1>5, <2>2, <3>1, <1>1
  <2>3. CASE m < p
    <3>1. D * m + D <= D * p
      BY <1>1, <1>3, <2>3, QuotientsOrdered
    <3>. QED  BY <1>2, <1>3, <1>5, <2>3, <3>1, <1>1
  <2>. QED  BY <1>3, <2>1, <2>2, <2>3
<1>7. D * m <= q /\ q < D * m + D <=> t >= 2 * (D * m) /\ t < 2 * (D * m + D)
  BY <1>1, <1>2, <1>5
<1>8. MonthOf(t) = m <=> t >= 2 * (m * D) /\ t < 2 * ((m + 1) * D)
  BY <1>4, <1>5, <1>6, <1>7
<1>. QED  BY <1>8 DEF D

(* What a row of the table is. *)
LEMMA ActivityRows ==
  ASSUME NEW table \in ActivityTables, NEW a \in Acts, table[a] # NoRow
  PROVE  table[a].at \in Int /\ table[a].at >= 0 /\ table[a].deleted \in BOOLEAN
<1>1. table[a] \in ActivityRow
  BY DEF ActivityTables
<1>. QED  BY <1>1, FiguresAssumption DEF ActivityRow, Instants

LEMMA ExpenseRows ==
  ASSUME NEW table \in ExpenseTables, NEW e \in Exps, table[e] # NoRow
  PROVE  /\ table[e].day \in Nat /\ table[e].day <= MaxDay
         /\ table[e].deleted \in BOOLEAN /\ table[e].status \in ExpenseStatuses
<1>1. table[e] \in ExpenseRow
  BY DEF ExpenseTables
<1>. QED  BY <1>1, FiguresAssumption DEF ExpenseRow, Days

(* bond-health.service.ts:26-28, aggregatesByBond, trendByMonth, findActiveMembersWithActStats:
   card and report count the same activities; where database and server keep UTC, so do a point
   of the trend, the compliance of a member and the report of their month. *)
THEOREM SamePeriods ==
  ASSUME NEW table \in ActivityTables
  PROVE  /\ CardCounts(table)
         /\ ZoneShift = 0 => PointCounts(table) /\ ComplianceCounts(table)
<1>1. CardCounts(table)
  <2>. SUFFICES ASSUME NEW from \in Days, NEW to \in from .. MaxDay
       PROVE CardActivities(table, from, to) =
               [activitiesTotal |-> ActivitySection(table, from, to).total,
                completionRate |-> ActivitySection(table, from, to).completionRate]
    BY DEF CardCounts
  <2>1. from \in Int /\ to \in Int
    BY FiguresAssumption DEF Days
  <2>2. ASSUME NEW a \in Acts, table[a] # NoRow
        PROVE  table[a].at \in 2 * from .. 2 * to + 1
                 <=> table[a].at >= 2 * from /\ table[a].at < 2 * (to + 1)
    BY <2>1, <2>2, ActivityRows
  <2>3. {a \in Acts : /\ table[a] # NoRow /\ ~table[a].deleted
                      /\ table[a].at \in 2 * from .. 2 * to + 1}
          = FindActivities(table, from, to)
    BY <2>2 DEF FindActivities
  <2>. QED  BY <2>3 DEF CardActivities, ActivitySection
<1>2. ASSUME ZoneShift = 0, NEW now \in Instants, NEW m \in Series(now)
      PROVE  LET acts == ActivitySection(table, m * DaysPerMonth, (m + 1) * DaysPerMonth - 1)
             IN TrendPoint(table, now, m) = [total |-> acts.total, completed |-> acts.completed]
  <2>. DEFINE rows == {a \in FindActivities(table, FirstDay(now), LastDay(now)) :
                         MonthOf(table[a].at + ZoneShift) = m}
  <2>. DEFINE M == MonthOf(now)
  <2>1. M \in Int /\ DaysPerMonth \in Nat \ {0} /\ Months \in Nat \ {0} /\ now \in Int
    <3>1. now \in Int /\ DaysPerMonth \in Nat \ {0} /\ Months \in Nat \ {0}
      BY FiguresAssumption DEF Instants
    <3>2. now \div 2 \in Int
      BY <3>1
    <3>3. (now \div 2) \div DaysPerMonth \in Int
      BY <3>1, <3>2, DivisionBounds
    <3>. QED  BY <3>1, <3>3 DEF MonthOf, DayOf
  <2>. HIDE DEF M
  <2>2. m \in Int /\ m <= M /\ m >= M - (Months - 1)
    BY <2>1 DEF Series, M
  <2>3. /\ FirstDay(now) = (M - (Months - 1)) * DaysPerMonth
        /\ LastDay(now) + 1 = (M + 1) * DaysPerMonth
    <3>1. (M + 1) * DaysPerMonth \in Int
      BY <2>1
    <3>. QED  BY <3>1 DEF FirstDay, LastDay, M
  <2>4. /\ (M - (Months - 1)) * DaysPerMonth <= m * DaysPerMonth
        /\ (m + 1) * DaysPerMonth <= (M + 1) * DaysPerMonth
        /\ (M - (Months - 1)) * DaysPerMonth \in Int /\ (M + 1) * DaysPerMonth \in Int
        /\ m * DaysPerMonth \in Int /\ (m + 1) * DaysPerMonth \in Int
    BY <2>1, <2>2
  <2>5. ASSUME NEW a \in Acts, table[a] # NoRow
        PROVE  (/\ table[a].at >= 2 * FirstDay(now)
                /\ table[a].at < 2 * (LastDay(now) + 1)
                /\ MonthOf(table[a].at + ZoneShift) = m)
                 <=> /\ table[a].at >= 2 * (m * DaysPerMonth)
                     /\ table[a].at < 2 * ((m + 1) * DaysPerMonth)
    <3>1. PICK t \in Int : t = table[a].at
      BY <2>5, ActivityRows
    <3>2. table[a].at + ZoneShift = t
      BY <1>2, <3>1
    <3>3. MonthOf(t) = m <=> t >= 2 * (m * DaysPerMonth) /\ t < 2 * ((m + 1) * DaysPerMonth)
      BY <2>2, MonthIsRange
    <3>. QED  BY <2>3, <2>4, <3>1, <3>2, <3>3
  <2>6. (m + 1) * DaysPerMonth - 1 + 1 = (m + 1) * DaysPerMonth
    BY <2>4
  <2>7. rows = FindActivities(table, m * DaysPerMonth, (m + 1) * DaysPerMonth - 1)
    BY <2>5, <2>6 DEF FindActivities
  <2>. HIDE DEF rows
  <2>8. TrendPoint(table, now, m) =
          [total |-> Cardinality(rows),
           completed |-> Cardinality({a \in rows : table[a].status = "done"})]
    BY DEF TrendPoint, rows
  <2>. QED  BY <2>7, <2>8 DEF ActivitySection
<1>3. ASSUME ZoneShift = 0, NEW m \in {MonthOf(t) : t \in Instants}, NEW u \in Users,
             {a \in Acts : table[a] # NoRow /\ table[a].deleted} = {}
      PROVE  Compliance(table, m, u) =
               ActivitySection(table, m * DaysPerMonth, m * DaysPerMonth + DaysPerMonth - 1).members[u]
  <2>. DEFINE rows == {a \in Acts : /\ table[a] # NoRow
                                    /\ table[a].who = u
                                    /\ MonthOf(table[a].at + ZoneShift) = m}
              from == m * DaysPerMonth
              found == FindActivities(table, from, from + DaysPerMonth - 1)
  <2>1. m \in Int /\ DaysPerMonth \in Nat \ {0}
    <3>1. PICK t \in Instants : m = (t \div 2) \div DaysPerMonth
      BY <1>3 DEF MonthOf, DayOf
    <3>2. t \div 2 \in Int /\ DaysPerMonth \in Nat \ {0}
      BY FiguresAssumption DEF Instants
    <3>. QED  BY <3>1, <3>2, DivisionBounds
  <2>2. from \in Int /\ from + DaysPerMonth - 1 + 1 = (m + 1) * DaysPerMonth
    BY <2>1
  <2>3. ASSUME NEW a \in Acts, table[a] # NoRow
        PROVE  MonthOf(table[a].at + ZoneShift) = m
                 <=> /\ table[a].at >= 2 * from
                     /\ table[a].at < 2 * (from + DaysPerMonth - 1 + 1)
    <3>1. PICK t \in Int : t = table[a].at
      BY <2>3, ActivityRows
    <3>2. table[a].at + ZoneShift = t
      BY <1>3, <3>1
    <3>3. MonthOf(t) = m <=> t >= 2 * (m * DaysPerMonth) /\ t < 2 * ((m + 1) * DaysPerMonth)
      BY <2>1, MonthIsRange
    <3>. HIDE DEF from
    <3>4. MonthOf(t) = m <=> t >= 2 * from /\ t < 2 * (from + DaysPerMonth - 1 + 1)
      BY <2>2, <3>3 DEF from
    <3>. QED  BY <3>1, <3>2, <3>4
  <2>4. \A a \in Acts : table[a] # NoRow => ~table[a].deleted
    BY <1>3
  <2>. HIDE DEF from
  <2>5. rows = {a \in found : table[a].who = u}
    BY <2>3, <2>4 DEF FindActivities
  <2>. HIDE DEF rows, found
  <2>6. Compliance(table, m, u) =
          [assigned |-> Cardinality(rows),
           completed |-> Cardinality({a \in rows : table[a].status = "done"})]
    BY DEF Compliance, rows
  <2>7. ActivitySection(table, from, from + DaysPerMonth - 1).members[u]
          = MemberFigures(table, found, u)
    BY DEF ActivitySection, found
  <2>8. ActivitySection(table, m * DaysPerMonth, m * DaysPerMonth + DaysPerMonth - 1).members[u]
          = MemberFigures(table, found, u)
    BY <2>7 DEF from
  <2>. QED  BY <2>5, <2>6, <2>8 DEF MemberFigures
<1>4. ZoneShift = 0 => PointCounts(table)
  BY <1>2 DEF PointCounts
<1>5. ZoneShift = 0 => ComplianceCounts(table)
  BY <1>3 DEF ComplianceCounts
<1>. QED  BY <1>1, <1>4, <1>5

(* expenses.repository.ts, build-bond-report.ts: the card's paid percentage is the report's, the
   list of a status and days has the rows the report sums, and the summary counts the rows the
   list shows. *)
THEOREM SameMoney ==
  ASSUME NEW table \in ExpenseTables
  PROVE  ShownAsReported(table) /\ CountsListed(table)
<1>1. ASSUME NEW from \in Days, NEW to \in from .. MaxDay
      PROVE  LET exps == ExpenseSection(table, from, to) IN
             /\ CardPaid(table, from, to) = exps.paidAmountPercentage
             /\ \A s \in ExpenseStatuses :
                  Sum(ListForBond(table, {s}, from, to)) = exps.byStatus[s]
  <2>. DEFINE found == FindExpenses(table, from, to)
              rows == Eligible(table, found)
              card == {e \in Exps : /\ table[e] # NoRow /\ ~table[e].deleted
                                    /\ table[e].day \in from .. to}
  <2>1. from \in Int /\ to \in Int
    BY FiguresAssumption DEF Days
  <2>2. ASSUME NEW e \in Exps, table[e] # NoRow
        PROVE  /\ table[e].day \in from .. to
                    <=> table[e].day >= from /\ table[e].day < to + 1
               /\ table[e].day <= to <=> table[e].day < to + 1
               /\ table[e].status \in ExpenseStatuses
    BY <2>1, <2>2, ExpenseRows
  <2>3. WithStatus(table, card, {"paid"}) = WithStatus(table, rows, {"paid"})
    BY <2>2 DEF WithStatus, Eligible, FindExpenses
  <2>4. WithStatus(table, card, ExpenseStatuses \ {"rejected"}) = rows
    BY <2>2 DEF WithStatus, Eligible, FindExpenses
  <2>5. \A s \in ExpenseStatuses :
          ListForBond(table, {s}, from, to)
            = {e \in found : ~table[e].deleted /\ table[e].status = s}
    BY <2>2 DEF ListForBond, FindExpenses
  <2>6. CardPaid(table, from, to) =
          Percentage(Sum(WithStatus(table, card, {"paid"})),
                     Sum(WithStatus(table, card, ExpenseStatuses \ {"rejected"})))
    BY DEF CardPaid
  <2>. HIDE DEF found, rows, card
  <2>7. /\ ExpenseSection(table, from, to).paidAmountPercentage
              = Percentage(Sum(WithStatus(table, rows, {"paid"})), Sum(rows))
        /\ \A s \in ExpenseStatuses : ExpenseSection(table, from, to).byStatus[s]
              = Sum({e \in found : ~table[e].deleted /\ table[e].status = s})
    BY DEF ExpenseSection, found, rows
  <2>. QED  BY <2>3, <2>4, <2>5, <2>6, <2>7
<1>2. ASSUME NEW s \in ExpenseStatuses
      PROVE  Counts(table)[s] = Cardinality(ListForBond(table, {s}, 0, MaxDay))
  <2>1. {e \in Exps : /\ table[e] # NoRow /\ ~table[e].deleted
                      /\ table[e].status = s} = ListForBond(table, {s}, 0, MaxDay)
    BY ExpenseRows DEF ListForBond
  <2>. QED  BY <2>1 DEF Counts
<1>3. ShownAsReported(table)
  BY <1>1 DEF ShownAsReported
<1>4. CountsListed(table)
  BY <1>2 DEF CountsListed
<1>. QED  BY <1>3, <1>4

-----------------------------------------------------------------------------
(* Sums over finite sets. *)

(* The element the fold of Total takes first. *)
First(T) == CHOOSE x \in T : TRUE

(* What goes up by an element's figure with every element is the total.  The totals are the only
   function that does so: of two, the smallest set they differ on would not differ. *)
LEMMA TotalIsFold ==
  ASSUME NEW S, IsFiniteSet(S), NEW f, NEW g,
         g[{}] = 0,
         \A T \in SUBSET S : T # {} => g[T] = f[First(T)] + g[T \ {First(T)}]
  PROVE  Total(f, S) = g[S]
<1>. DEFINE Folds(h) == h = [T \in SUBSET S |-> IF T = {} THEN 0 ELSE f[First(T)] + h[T \ {First(T)}]]
            fold == CHOOSE h : Folds(h)
            k == [T \in SUBSET S |-> g[T]]
<1>1. Total(f, S) = fold[S]
  BY DEF Total, MapThenSumSet, MapThenFoldSet, First
<1>2. \A T \in SUBSET S : T \ {First(T)} \in SUBSET S
  OBVIOUS
<1>3. Folds(k)
  <2>1. \A T \in SUBSET S : k[T] = IF T = {} THEN 0 ELSE f[First(T)] + k[T \ {First(T)}]
    BY <1>2
  <2>. HIDE DEF k
  <2>2. k = [T \in SUBSET S |-> k[T]]
    BY DEF k
  <2>. QED  BY <2>1, <2>2
<1>. HIDE DEF k
<1>4. Folds(fold)
  <2>. HIDE DEF Folds
  <2>. QED  BY <1>3
<1>. HIDE DEF fold
<1>5. \A T \in SUBSET S : fold[T] = IF T = {} THEN 0 ELSE f[First(T)] + fold[T \ {First(T)}]
  BY <1>4
<1>6. \A T \in SUBSET S : fold[T] = g[T]
  <2>. DEFINE Wrong == {T \in SUBSET S : fold[T] # g[T]}
  <2>1. SUFFICES ASSUME Wrong # {} PROVE FALSE
    OBVIOUS
  <2>2. IsWellFoundedOn(StrictSubsetOrdering(S), SUBSET S)
    BY FS_StrictSubsetOrderingWellFounded, FS_FiniteSubsetsOfFinite
  <2>3. Wrong \subseteq SUBSET S
    OBVIOUS
  <2>. HIDE DEF Wrong
  <2>4. PICK T \in Wrong : \A U \in Wrong : ~(<<U, T>> \in StrictSubsetOrdering(S))
    BY <2>1, <2>2, <2>3, WFMin
  <2>. USE DEF Wrong
  <2>5. T \in SUBSET S /\ T # {}
    BY <1>5
  <2>6. First(T) \in T
    BY <2>5 DEF First
  <2>. DEFINE U == T \ {First(T)}
  <2>7. <<U, T>> \in StrictSubsetOrdering(S)
    BY <2>5, <2>6 DEF StrictSubsetOrdering
  <2>8. U \in SUBSET S /\ fold[U] = g[U]
    BY <2>4, <2>5, <2>7
  <2>. QED  BY <1>5, <2>5, <2>8
<1>. QED  BY <1>1, <1>6

(* The parts have nothing in common. *)
Apart(S, part) == \A x, y \in S : x # y => part[x] \cap part[y] = {}

(* Finitely many finite parts. *)
LEMMA UnionIsFinite ==
  ASSUME NEW S, IsFiniteSet(S), NEW part, \A x \in S : IsFiniteSet(part[x])
  PROVE  IsFiniteSet(UNION {part[x] : x \in S})
<1>. DEFINE image == [x \in S |-> part[x]]
            parts == {part[x] : x \in S}
<1>1. image \in Surjection(S, parts)
  BY DEF Surjection
<1>2. IsFiniteSet(parts)
  BY <1>1, FS_Surjection
<1>. QED  BY <1>2, FS_UNION

(* The numbers of elements of parts that are apart total the number of all. *)
LEMMA TotalOfParts ==
  ASSUME NEW S, IsFiniteSet(S), NEW part, \A x \in S : IsFiniteSet(part[x]), Apart(S, part),
         NEW f, \A x \in S : f[x] = Cardinality(part[x])
  PROVE  Total(f, S) = Cardinality(UNION {part[x] : x \in S})
<1>. DEFINE All(T) == UNION {part[x] : x \in T}
            g == [T \in SUBSET S |-> Cardinality(All(T))]
<1>1. g[{}] = 0
  <2>1. All({}) = {}
    OBVIOUS
  <2>. QED  BY <2>1, FS_EmptySet
<1>2. ASSUME NEW T \in SUBSET S, T # {}
      PROVE  g[T] = f[First(T)] + g[T \ {First(T)}]
  <2>. DEFINE x == First(T)
              U == T \ {x}
  <2>1. x \in T
    BY <1>2 DEF First
  <2>. HIDE DEF x
  <2>2. x \in S /\ U \in SUBSET S /\ IsFiniteSet(U)
    BY <2>1, FS_Subset
  <2>3. All(T) = part[x] \cup All(U)
    BY <2>1
  <2>4. part[x] \cap All(U) = {}
    BY <2>1, <2>2 DEF Apart
  <2>5. IsFiniteSet(All(U))
    BY <2>2, UnionIsFinite
  <2>6. Cardinality(All(T)) = Cardinality(part[x]) + Cardinality(All(U)) - Cardinality(part[x] \cap All(U))
    <3>. HIDE DEF All, U
    <3>. QED  BY <2>2, <2>3, <2>5, FS_Union
  <2>7. Cardinality(part[x]) \in Nat /\ Cardinality(All(U)) \in Nat
    BY <2>2, <2>5, FS_CardinalityType
  <2>8. Cardinality(part[x] \cap All(U)) = 0
    BY <2>4, FS_EmptySet
  <2>. HIDE DEF All, U
  <2>9. Cardinality(All(T)) = f[x] + Cardinality(All(U))
    BY <2>2, <2>6, <2>7, <2>8
  <2>. QED  BY <2>2, <2>9 DEF x, U
<1>3. g[S] = Cardinality(All(S))
  OBVIOUS
<1>. HIDE DEF g, All
<1>4. Total(f, S) = g[S]
  <2>1. \A T \in SUBSET S : T # {} => g[T] = f[First(T)] + g[T \ {First(T)}]
    BY <1>2
  <2>. QED  BY ONLY <1>1, <2>1, IsFiniteSet(S), TotalIsFold
<1>. QED  BY <1>3, <1>4 DEF All

(* The units a set of amounts is made of. *)
Units(f, x) == {x} \X (1 .. f[x])
Pile(f, S) == UNION {Units(f, x) : x \in S}

(* As many units as the amount says. *)
LEMMA UnitsCounted ==
  ASSUME NEW f, NEW x, f[x] \in Nat
  PROVE  IsFiniteSet(Units(f, x)) /\ Cardinality(Units(f, x)) = f[x]
<1>1. IsFiniteSet({x}) /\ Cardinality({x}) = 1
  BY FS_Singleton
<1>2. IsFiniteSet(1 .. f[x]) /\ Cardinality(1 .. f[x]) = f[x]
  BY FS_Interval
<1>3. IsFiniteSet({x} \X (1 .. f[x])) /\ Cardinality({x} \X (1 .. f[x])) = 1 * f[x]
  <2>. DEFINE one == {x}
              n == 1 .. f[x]
  <2>1. IsFiniteSet(one) /\ IsFiniteSet(n) /\ Cardinality(one) = 1 /\ Cardinality(n) = f[x]
    BY <1>1, <1>2
  <2>. HIDE DEF one, n
  <2>2. IsFiniteSet(one \X n) /\ Cardinality(one \X n) = 1 * f[x]
    BY <2>1, FS_Product
  <2>. QED  BY <2>2 DEF one, n
<1>. QED  BY <1>3 DEF Units

(* A total of amounts counts their units. *)
LEMMA TotalCountsUnits ==
  ASSUME NEW S, IsFiniteSet(S), NEW f, \A x \in S : f[x] \in Nat
  PROVE  /\ Total(f, S) = Cardinality(Pile(f, S)) /\ IsFiniteSet(Pile(f, S))
         /\ Total(f, S) \in Nat
<1>. DEFINE part == [x \in S |-> Units(f, x)]
<1>1. \A x \in S : IsFiniteSet(part[x]) /\ f[x] = Cardinality(part[x])
  BY UnitsCounted
<1>2. Apart(S, part)
  BY DEF Apart, Units
<1>3. Pile(f, S) = UNION {part[x] : x \in S}
  BY DEF Pile
<1>. HIDE DEF part
<1>4. IsFiniteSet(Pile(f, S))
  BY <1>1, <1>3, UnionIsFinite
<1>5. Total(f, S) = Cardinality(Pile(f, S))
  BY <1>1, <1>2, <1>3, TotalOfParts
<1>. QED  BY <1>4, <1>5, FS_CardinalityType

(* The totals of parts that are apart total the whole. *)
LEMMA TotalOfTotals ==
  ASSUME NEW S, IsFiniteSet(S), NEW part, \A x \in S : IsFiniteSet(part[x]), Apart(S, part),
         NEW f, \A x \in S : \A e \in part[x] : f[e] \in Nat,
         NEW sub, \A x \in S : sub[x] = Total(f, part[x])
  PROVE  Total(sub, S) = Total(f, UNION {part[x] : x \in S})
<1>. DEFINE piles == [x \in S |-> Pile(f, part[x])]
            all == UNION {part[x] : x \in S}
<1>1. \A x \in S : IsFiniteSet(piles[x]) /\ sub[x] = Cardinality(piles[x])
  BY TotalCountsUnits
<1>2. Apart(S, piles)
  BY DEF Apart, Pile, Units
<1>3. UNION {piles[x] : x \in S} = Pile(f, all)
  BY DEF Pile
<1>4. IsFiniteSet(all) /\ \A e \in all : f[e] \in Nat
  BY UnionIsFinite
<1>. HIDE DEF piles, all
<1>5. Total(f, all) = Cardinality(Pile(f, all))
  BY <1>4, TotalCountsUnits
<1>6. Total(sub, S) = Cardinality(UNION {piles[x] : x \in S})
  BY <1>1, <1>2, TotalOfParts
<1>. QED  BY <1>3, <1>5, <1>6 DEF all

LEMMA TotalOfTwo ==
  ASSUME NEW A, NEW B, IsFiniteSet(A), IsFiniteSet(B), A \cap B = {},
         NEW f, \A e \in A \cup B : f[e] \in Nat
  PROVE  Total(f, A \cup B) = Total(f, A) + Total(f, B)
<1>1. IsFiniteSet(A \cup B)
  BY FS_Union
<1>2. /\ Total(f, A) = Cardinality(Pile(f, A)) /\ IsFiniteSet(Pile(f, A))
      /\ Total(f, B) = Cardinality(Pile(f, B)) /\ IsFiniteSet(Pile(f, B))
      /\ Total(f, A \cup B) = Cardinality(Pile(f, A \cup B))
  BY <1>1, TotalCountsUnits
<1>3. Pile(f, A \cup B) = Pile(f, A) \cup Pile(f, B) /\ Pile(f, A) \cap Pile(f, B) = {}
  BY DEF Pile, Units
<1>4. Cardinality(Pile(f, A) \cap Pile(f, B)) = 0
  BY <1>3, FS_EmptySet
<1>5. Cardinality(Pile(f, A)) \in Nat /\ Cardinality(Pile(f, B)) \in Nat
  BY <1>2, FS_CardinalityType
<1>6. Cardinality(Pile(f, A) \cup Pile(f, B))
        = Cardinality(Pile(f, A)) + Cardinality(Pile(f, B)) - Cardinality(Pile(f, A) \cap Pile(f, B))
  BY <1>2, FS_Union
<1>7. Cardinality(Pile(f, A \cup B)) = Cardinality(Pile(f, A)) + Cardinality(Pile(f, B))
  BY <1>3, <1>4, <1>5, <1>6
<1>. QED  BY <1>2, <1>7

(* Where database and server keep UTC, each activity of the months of the trend is of one of
   its points. *)
LEMMA EveryActivityIsOfAPoint ==
  ASSUME ZoneShift = 0, NEW table \in ActivityTables, NEW now \in Instants,
         NEW a \in FindActivities(table, FirstDay(now), LastDay(now))
  PROVE  MonthOf(table[a].at + ZoneShift) \in Series(now)
<1>. DEFINE M == MonthOf(now)
            D == DaysPerMonth
<1>1. now \in Int /\ D \in Nat \ {0} /\ Months \in Nat \ {0}
  BY FiguresAssumption DEF Instants
<1>2. M \in Int
  <2>1. now \div 2 \in Int
    BY <1>1
  <2>2. (now \div 2) \div D \in Int
    BY <1>1, <2>1, DivisionBounds
  <2>. QED  BY <2>2 DEF MonthOf, DayOf
<1>. HIDE DEF M
<1>3. PICK t \in Int : t = table[a].at
  BY ActivityRows DEF FindActivities
<1>4. PICK m \in Int : m = MonthOf(t)
  <2>1. t \div 2 \in Int
    BY <1>3
  <2>2. (t \div 2) \div D \in Int
    BY <1>1, <2>1, DivisionBounds
  <2>. QED  BY <2>2 DEF MonthOf, DayOf
<1>5. t >= 2 * (m * D) /\ t < 2 * ((m + 1) * D)
  BY <1>4, MonthIsRange
<1>6. /\ FirstDay(now) = (M - (Months - 1)) * D
      /\ LastDay(now) + 1 = (M + 1) * D
      /\ (M - (Months - 1)) * D \in Int /\ (M + 1) * D \in Int
  <2>1. (M - (Months - 1)) * D \in Int /\ (M + 1) * D \in Int
    BY <1>1, <1>2
  <2>. QED  BY <2>1 DEF FirstDay, LastDay, M
<1>7. t >= 2 * ((M - (Months - 1)) * D) /\ t < 2 * ((M + 1) * D)
  BY <1>3, <1>6 DEF FindActivities
<1>. HIDE DEF D
<1>8. m >= M - (Months - 1)
  <2>. DEFINE first == M - (Months - 1)
  <2>1. first \in Int
    BY <1>1, <1>2
  <2>. SUFFICES ASSUME m < first PROVE FALSE
    BY <1>1, <1>2, <1>4
  <2>. HIDE DEF first
  <2>2. D * m + D <= D * first /\ D * m \in Int /\ D * first \in Int
    BY <1>1, <2>1, QuotientsOrdered
  <2>3. (m + 1) * D = D * m + D /\ first * D = D * first
    BY <1>1, <2>1
  <2>. QED  BY <1>1, <1>5, <1>7, <2>2, <2>3 DEF first
<1>9. m <= M
  <2>. SUFFICES ASSUME M < m PROVE FALSE
    BY <1>2, <1>4
  <2>1. D * M + D <= D * m /\ D * m \in Int /\ D * M \in Int
    BY <1>1, <1>2, QuotientsOrdered
  <2>2. (M + 1) * D = D * M + D /\ m * D = D * m
    BY <1>1, <1>2
  <2>. QED  BY <1>1, <1>5, <1>7, <2>1, <2>2
<1>10. M - m \in 0 .. (Months - 1) /\ m = M - (M - m)
  BY <1>1, <1>2, <1>8, <1>9
<1>11. m \in Series(now)
  BY <1>10 DEF Series, M
<1>12. table[a].at + ZoneShift = t
  BY <1>3
<1>. QED  BY <1>4, <1>11, <1>12

LEMMA SeriesIsFinite ==
  ASSUME NEW now \in Instants
  PROVE  IsFiniteSet(Series(now))
<1>. DEFINE S == 0 .. (Months - 1)
            back == [k \in S |-> MonthOf(now) - k]
<1>1. IsFiniteSet(S)
  BY FiguresAssumption, FS_Interval
<1>2. back \in Surjection(S, Series(now))
  BY DEF Surjection, Series
<1>. HIDE DEF back, S
<1>. QED  BY <1>1, <1>2, FS_Surjection

(* trendByMonth: the points of the trend add up to the report of the same months. *)
LEMMA TrendAddsUp ==
  ASSUME ZoneShift = 0, NEW table \in ActivityTables
  PROVE  TrendCounts(table)
<1>. SUFFICES ASSUME NEW now \in Instants
     PROVE  LET trend == Trend(table, now)
                acts == ActivitySection(table, FirstDay(now), LastDay(now))
                months == DOMAIN trend
            IN /\ acts.total = Total([m \in months |-> trend[m].total], months)
               /\ acts.completed = Total([m \in months |-> trend[m].completed], months)
  BY DEF TrendCounts
<1>. DEFINE months == Series(now)
            trend == Trend(table, now)
            acts == ActivitySection(table, FirstDay(now), LastDay(now))
            rows == FindActivities(table, FirstDay(now), LastDay(now))
            done == {a \in rows : table[a].status = "done"}
            month(a) == MonthOf(table[a].at + ZoneShift)
            ofMonth == [m \in months |-> {a \in rows : month(a) = m}]
            doneOfMonth == [m \in months |-> {a \in ofMonth[m] : table[a].status = "done"}]
<1>1. \A a \in rows : month(a) \in months
  BY EveryActivityIsOfAPoint
<1>2. /\ acts.total = Cardinality(rows) /\ acts.completed = Cardinality(done)
      /\ DOMAIN trend = months
      /\ \A m \in months : /\ trend[m].total = Cardinality(ofMonth[m])
                           /\ trend[m].completed = Cardinality(doneOfMonth[m])
  <2>. HIDE DEF months
  <2>. QED  BY DEF ActivitySection, Trend, TrendPoint, months
<1>3. IsFiniteSet(rows)
  <2>1. rows \in SUBSET Acts
    BY DEF FindActivities
  <2>. HIDE DEF rows
  <2>. QED  BY <2>1, FiguresAssumption, FS_Subset
<1>. HIDE DEF months, trend, acts, rows, month
<1>4. /\ UNION {ofMonth[m] : m \in months} = rows
      /\ Apart(months, ofMonth)
      /\ \A m \in months : ofMonth[m] \in SUBSET rows
  BY <1>1 DEF Apart
<1>5. /\ UNION {doneOfMonth[m] : m \in months} = done
      /\ Apart(months, doneOfMonth)
      /\ \A m \in months : doneOfMonth[m] \in SUBSET rows
  BY <1>1 DEF Apart
<1>. HIDE DEF ofMonth, doneOfMonth, done
<1>6. IsFiniteSet(months)
  BY SeriesIsFinite DEF months
<1>7. ASSUME NEW part, \A m \in months : part[m] \in SUBSET rows, Apart(months, part),
             NEW f, \A m \in months : f[m] = Cardinality(part[m])
      PROVE  Total(f, months) = Cardinality(UNION {part[m] : m \in months})
  <2>1. \A m \in months : IsFiniteSet(part[m])
    BY <1>3, <1>7, FS_Subset
  <2>. QED  BY <1>6, <1>7, <2>1, TotalOfParts
<1>8. Total([m \in months |-> trend[m].total], months) = acts.total
  BY <1>2, <1>4, <1>7
<1>9. Total([m \in months |-> trend[m].completed], months) = acts.completed
  BY <1>2, <1>5, <1>7
<1>. QED  BY <1>2, <1>8, <1>9 DEF trend, acts

(* Card, trend, compliance and report never count different periods, where the database session
   and the server keep UTC (bond-health.service.ts:26-28). *)
THEOREM PeriodsAlwaysAgree ==
  ASSUME ZoneShift = 0
  PROVE  Spec => []PeriodsAgree
<1>1. EveryPeriod
  BY SamePeriods, TrendAddsUp DEF EveryPeriod
<1>2. PeriodsAgree
  BY <1>1 DEF PeriodsAgree
<1>. QED  BY <1>2, PTL

(* Sets of expenses are finite and what they cost is a number. *)
LEMMA SumsAreNumbers ==
  ASSUME NEW A \in SUBSET Exps
  PROVE  IsFiniteSet(A) /\ (\A e \in A : Amount[e] \in Nat) /\ Sum(A) \in Nat
<1>1. IsFiniteSet(A) /\ \A e \in A : Amount[e] \in Nat
  BY FiguresAssumption, FS_Subset
<1>. QED  BY <1>1, TotalCountsUnits DEF Sum

(* build-bond-report.ts: paid and pending amount, the amounts by status and those by category,
   expenses without one included, add up to the total of the report. *)
LEMMA ReportAddsUp ==
  ASSUME NEW table \in ExpenseTables
  PROVE  SectionsAddUp(table)
<1>1. SUFFICES ASSUME NEW from \in Days, NEW to \in from .. MaxDay
      PROVE  LET exps == ExpenseSection(table, from, to) IN
             /\ exps.paidAmount + exps.pendingAmount = exps.totalAmount
             /\ Total(exps.byStatus, ExpenseStatuses \ {"rejected"}) = exps.totalAmount
             /\ Total(exps.byCategory, Categories \cup {NoCategory}) = exps.totalAmount
  BY DEF SectionsAddUp
<1>. DEFINE found == FindExpenses(table, from, to)
            rows == Eligible(table, found)
            paid == WithStatus(table, rows, {"paid"})
            pending == WithStatus(table, rows, {"pending", "approved"})
            exps == ExpenseSection(table, from, to)
            classes == Categories \cup {NoCategory}
            open == ExpenseStatuses \ {"rejected"}
            ofStatus == [s \in open |-> {e \in found : ~table[e].deleted /\ table[e].status = s}]
            ofCategory == [c \in classes |-> {e \in rows : table[e].category = c}]
<1>2. \A e \in rows : /\ e \in Exps /\ table[e].status \in ExpenseStatuses \ {"rejected"}
                      /\ table[e].category \in classes
  <2>1. ASSUME NEW e \in rows PROVE e \in Exps /\ table[e] \in ExpenseRow
    BY DEF Eligible, FindExpenses, ExpenseTables
  <2>. QED  BY <2>1 DEF Eligible, ExpenseRow
<1>3. paid \cup pending = rows /\ paid \cap pending = {}
  <2>. HIDE DEF rows
  <2>. QED  BY <1>2 DEF WithStatus, ExpenseStatuses
<1>4. /\ UNION {ofStatus[s] : s \in open} = rows
      /\ Apart(open, ofStatus)
      /\ \A s \in open : ofStatus[s] \in SUBSET Exps
  BY <1>2 DEF Eligible, Apart, FindExpenses
<1>5. /\ UNION {ofCategory[c] : c \in classes} = rows
      /\ Apart(classes, ofCategory)
      /\ \A c \in classes : ofCategory[c] \in SUBSET Exps
  <2>. HIDE DEF found, rows, paid, pending, exps, classes, open, ofStatus
  <2>1. UNION {ofCategory[c] : c \in classes} = rows
    BY <1>2
  <2>2. Apart(classes, ofCategory)
    BY DEF Apart
  <2>3. \A c \in classes : ofCategory[c] \in SUBSET Exps
    BY <1>2
  <2>. QED  BY <2>1, <2>2, <2>3
<1>6. /\ exps.totalAmount = Sum(rows) /\ exps.paidAmount = Sum(paid) /\ exps.pendingAmount = Sum(pending)
      /\ \A s \in open : exps.byStatus[s] = Sum(ofStatus[s])
      /\ \A c \in classes : exps.byCategory[c] = Sum(ofCategory[c])
  <2>. HIDE DEF found
  <2>. QED  BY DEF ExpenseSection, found
<1>7. IsFiniteSet(open) /\ IsFiniteSet(classes)
  <2>1. /\ IsFiniteSet({"pending", "approved", "paid"})
        /\ open = {"pending", "approved", "paid"}
    <3>1. IsFiniteSet({"pending"} \cup {"approved"} \cup {"paid"})
      BY FS_Singleton, FS_Union
    <3>2. {"pending"} \cup {"approved"} \cup {"paid"} = {"pending", "approved", "paid"}
      OBVIOUS
    <3>. QED  BY <3>1, <3>2 DEF ExpenseStatuses
  <2>2. IsFiniteSet(classes)
    BY FiguresAssumption, FS_Singleton, FS_Union
  <2>. QED  BY <2>1, <2>2
<1>. HIDE DEF found, rows, paid, pending, exps, classes, open, ofStatus, ofCategory
<1>8. exps.paidAmount + exps.pendingAmount = exps.totalAmount
  <2>1. paid \in SUBSET Exps /\ pending \in SUBSET Exps
    BY <1>2, <1>3
  <2>2. /\ IsFiniteSet(paid) /\ IsFiniteSet(pending)
        /\ \A e \in paid \cup pending : Amount[e] \in Nat
    BY <2>1, SumsAreNumbers
  <2>3. Sum(paid \cup pending) = Sum(paid) + Sum(pending)
    BY <1>3, <2>2, TotalOfTwo DEF Sum
  <2>. QED  BY <1>3, <1>6, <2>3
<1>9. Total(exps.byStatus, open) = exps.totalAmount
  <2>1. /\ \A s \in open : IsFiniteSet(ofStatus[s])
        /\ \A s \in open : \A e \in ofStatus[s] : Amount[e] \in Nat
    BY <1>4, SumsAreNumbers
  <2>2. \A s \in open : exps.byStatus[s] = Total(Amount, ofStatus[s])
    BY <1>6 DEF Sum
  <2>3. Total(exps.byStatus, open) = Total(Amount, UNION {ofStatus[s] : s \in open})
    BY <1>4, <1>7, <2>1, <2>2, TotalOfTotals
  <2>. QED  BY <1>4, <1>6, <2>3 DEF Sum
<1>10. Total(exps.byCategory, classes) = exps.totalAmount
  <2>1. /\ \A c \in classes : IsFiniteSet(ofCategory[c])
        /\ \A c \in classes : \A e \in ofCategory[c] : Amount[e] \in Nat
    BY <1>5, SumsAreNumbers
  <2>2. \A c \in classes : exps.byCategory[c] = Total(Amount, ofCategory[c])
    BY <1>6 DEF Sum
  <2>3. Total(exps.byCategory, classes) = Total(Amount, UNION {ofCategory[c] : c \in classes})
    BY <1>5, <1>7, <2>1, <2>2, TotalOfTotals
  <2>. QED  BY <1>5, <1>6, <2>3 DEF Sum
<1>. QED  BY <1>8, <1>9, <1>10 DEF exps, open, classes

(* expenses.repository.ts, summaryForBond: what one member is told to pay is what the other is
   told to collect. *)
LEMMA BalancesAgree ==
  ASSUME NEW table \in ExpenseTables
  PROVE  BalancesMirror(table)
<1>1. SUFFICES ASSUME NEW u \in Users, NEW v \in Users, u # v
      PROVE  /\ Saldo(table, u) = -Saldo(table, v)
             /\ PorPagar(table, u) = PorCobrar(table, v)
  BY DEF BalancesMirror
<1>. DEFINE settled == {e \in Exps : /\ table[e] # NoRow /\ ~table[e].deleted
                                     /\ table[e].status \in {"approved", "paid"}}
            of(x) == {e \in settled : table[e].by = x}
<1>2. \A e \in settled : table[e].by = u \/ table[e].by = v
  <2>1. ASSUME NEW e \in settled PROVE table[e].by \in Users
    <3>1. table[e] \in ExpenseRow
      BY DEF ExpenseTables
    <3>. QED  BY <3>1 DEF ExpenseRow
  <2>. QED  BY <1>1, <2>1, FiguresAssumption
<1>3. settled \ of(u) = of(v) /\ settled \ of(v) = of(u)
  BY <1>1, <1>2
<1>4. Sum(of(u)) \in Nat /\ Sum(of(v)) \in Nat
  <2>1. of(u) \in SUBSET Exps /\ of(v) \in SUBSET Exps
    OBVIOUS
  <2>. HIDE DEF of
  <2>. QED  BY <2>1, SumsAreNumbers
<1>5. /\ Saldo(table, u) = 20 * Sum(of(u)) - 20 * Sum(settled \ of(u))
      /\ Saldo(table, v) = 20 * Sum(of(v)) - 20 * Sum(settled \ of(v))
  BY DEF Saldo
<1>. HIDE DEF settled, of
<1>6. /\ Saldo(table, u) = 20 * Sum(of(u)) - 20 * Sum(of(v))
      /\ Saldo(table, v) = 20 * Sum(of(v)) - 20 * Sum(of(u))
  BY <1>3, <1>5
<1>7. Saldo(table, u) = -Saldo(table, v) /\ Saldo(table, u) \in Int /\ Saldo(table, v) \in Int
  BY <1>4, <1>6
<1>. QED  BY <1>7 DEF PorPagar, PorCobrar

(* What report, card, list and summary tell of the money adds up, whatever the tables hold
   (build-bond-report.ts, expenses.repository.ts). *)
THEOREM MoneyAlwaysAddsUp == Spec => []MoneyAddsUp
<1>1. EverySum
  BY SameMoney, ReportAddsUp, BalancesAgree DEF EverySum
<1>2. MoneyAddsUp
  BY <1>1 DEF MoneyAddsUp
<1>. QED  BY <1>2, PTL

=============================================================================
