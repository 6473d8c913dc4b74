------------------------------ MODULE Reports ------------------------------
(***************************************************************************)
(* The PDF of a bond's report: ReportsService.requestPdf writes a row and  *)
(* hands its id to the queue, a worker of the report-pdf queue runs        *)
(* generatePdf (read the row, read the tables, render, upload, mark the    *)
(* row).  The tables are those of BondFigures and change meanwhile.        *)
(* External: BullMQ's queue (attempts, stalled jobs) and the bucket.       *)
(***************************************************************************)
EXTENDS BondFigures

CONSTANTS
  Reports,        \* rows of the report table
  Window,         \* Window[r]: the days <<from, to>> report r is asked for
  Workers,        \* runs of the processor, in one or several processes
  MaxAttempts,    \* attempts of a job: 2
  MaxStalls,      \* stalls after which BullMQ gives a job up
  LiveActs,       \* bound: rows that change while a report is made
  LiveExps,
  MaxWrites,      \* bound: changes of the tables
  QueueTakesId    \* whether BullMQ accepts the job id "report-pdf:<id>"

ASSUME ReportsAssumption ==
  /\ LiveActs \subseteq Acts /\ LiveExps \subseteq Exps
  /\ MaxAttempts \in Nat \ {0} /\ MaxStalls \in Nat /\ MaxWrites \in Nat
  /\ QueueTakesId \in BOOLEAN

VARIABLES
  activities, \* the bond's activities
  expenses,   \* and its expenses
  status,     \* status of a report, "none" before it is asked for
  stored,     \* the PDF in the reports bucket under the report's path
  fileUrl,    \* report.file_url is set
  job,        \* the report's job in the queue
  run,        \* runs of generatePdf
  writes,     \* changes of the tables so far
  lost        \* ghost: requests that never reached a queue that answered

reportVars == <<status, stored, fileUrl, job, run, lost>>
vars == <<activities, expenses, writes, reportVars>>

NoFile == [activities |-> "none"]
NoJob == [state |-> "none", left |-> 0, stalls |-> 0]
IdleRun == [report |-> "none", seen |-> "none", at |-> "idle", pdf |-> NoFile, holds |-> FALSE]

ReportsOK ==
  /\ activities \in ActivityTables /\ expenses \in ExpenseTables
  /\ \A r \in Reports :
       /\ status[r] \in {"none", "requested", "completed"}
       /\ fileUrl[r] \in BOOLEAN
       /\ job[r].state \in {"none", "waiting", "active", "done", "failed"}
       /\ job[r].left \in 0 .. MaxAttempts /\ job[r].stalls \in 0 .. MaxStalls
  /\ \A w \in Workers :
       run[w].at \in {"idle", "find", "activities", "expenses", "upload", "mark", "threw", "returned"}
  /\ writes \in 0 .. MaxWrites
  /\ lost \subseteq Reports

Init ==
  /\ activities = [a \in Acts |-> NoRow]
  /\ expenses = [e \in Exps |-> NoRow]
  /\ writes = 0
  /\ status = [r \in Reports |-> "none"]
  /\ stored = [r \in Reports |-> NoFile]
  /\ fileUrl = [r \in Reports |-> FALSE]
  /\ job = [r \in Reports |-> NoJob]
  /\ run = [w \in Workers |-> IdleRun]
  /\ lost = {}

Tables == <<activities, expenses, writes>>

(* The tables change under the worker. *)

AddActivity(a, t, u) ==
  /\ activities[a] = NoRow
  /\ activities' = [activities EXCEPT
       ![a] = [status |-> "assigned", deleted |-> FALSE, at |-> t, who |-> u]]
  /\ UNCHANGED expenses

MoveActivity(a) ==
  /\ activities[a] # NoRow /\ ~activities[a].deleted
  /\ \/ /\ activities[a].status = "assigned"
        /\ \E s \in {"done", "cancelled"} : activities' = [activities EXCEPT ![a].status = s]
     \/ activities' = [activities EXCEPT ![a].deleted = TRUE]
  /\ UNCHANGED expenses

AddExpense(e, d, u, c) ==
  /\ expenses[e] = NoRow
  /\ expenses' = [expenses EXCEPT
       ![e] = [status |-> "pending", deleted |-> FALSE, day |-> d, by |-> u, category |-> c]]
  /\ UNCHANGED activities

MoveExpense(e) ==
  /\ expenses[e] # NoRow /\ ~expenses[e].deleted
  /\ \/ /\ expenses[e].status = "pending"
        /\ \/ \E s \in {"approved", "rejected"} : expenses' = [expenses EXCEPT ![e].status = s]
           \/ expenses' = [expenses EXCEPT ![e].deleted = TRUE]
     \/ /\ expenses[e].status = "approved"
        /\ expenses' = [expenses EXCEPT ![e].status = "paid"]
  /\ UNCHANGED activities

TableNext ==
  \/ \E a \in LiveActs, t \in Instants, u \in Users : AddActivity(a, t, u)
  \/ \E a \in LiveActs : MoveActivity(a)
  \/ \E e \in LiveExps, d \in Days, u \in Users, c \in Categories \cup {NoCategory} :
       AddExpense(e, d, u, c)
  \/ \E e \in LiveExps : MoveExpense(e)

Write ==
  /\ writes < MaxWrites
  /\ writes' = writes + 1
  /\ TableNext
  /\ UNCHANGED reportVars

-----------------------------------------------------------------------------
(* The request.  The row is committed first; the error of queue.add is logged and
   swallowed. *)

Enqueue(r) ==
  \/ /\ QueueTakesId
     /\ job' = [job EXCEPT ![r] = [state |-> "waiting", left |-> MaxAttempts, stalls |-> 0]]
     /\ UNCHANGED lost
  \/ /\ ~QueueTakesId
     /\ UNCHANGED <<job, lost>>
  \/ /\ lost' = lost \cup {r}      \* Redis does not answer, or the API dies before add
     /\ UNCHANGED job

RequestPdf(r) ==
  /\ status[r] = "none"
  /\ Window[r][1] <= Window[r][2]
  /\ status' = [status EXCEPT ![r] = "requested"]
  /\ Enqueue(r)
  /\ UNCHANGED <<Tables, stored, fileUrl, run>>

-----------------------------------------------------------------------------
(* The worker. *)

Step(w, stage) == run' = [run EXCEPT ![w].at = stage]

(* BullMQ hands a waiting job to a free worker. *)
Take(w, r) ==
  /\ run[w].at = "idle"
  /\ job[r].state = "waiting"
  /\ job' = [job EXCEPT ![r].state = "active"]
  /\ run' = [run EXCEPT ![w] = [IdleRun EXCEPT !.report = r, !.at = "find", !.holds = TRUE]]
  /\ UNCHANGED <<Tables, status, stored, fileUrl, lost>>

IsFinished(s) == s \in {"completed", "delivered"}

(* Faulty variant: the finished report is not told apart. *)
FindAnyReport(w) ==
  /\ run[w].at = "find"
  /\ run' = [run EXCEPT ![w].seen = status[run[w].report], ![w].at = "activities"]
  /\ UNCHANGED <<Tables, status, stored, fileUrl, job, lost>>

FindReport(w) ==
  /\ run[w].at = "find"
  /\ LET s == status[run[w].report] IN
       run' = [run EXCEPT ![w].seen = s,
                          ![w].at = IF IsFinished(s) THEN "returned" ELSE "activities"]
  /\ UNCHANGED <<Tables, status, stored, fileUrl, job, lost>>

(* BondReportService.build: the queries are sent together and see the tables at different
   moments. *)
BuildActivities(w) ==
  /\ run[w].at = "activities"
  /\ LET days == Window[run[w].report] IN
       run' = [run EXCEPT ![w].at = "expenses",
                 ![w].pdf = [activities |-> ActivitySection(activities, days[1], days[2])]]
  /\ UNCHANGED <<Tables, status, stored, fileUrl, job, lost>>

BuildExpenses(w) ==
  /\ run[w].at = "expenses"
  /\ LET days == Window[run[w].report] IN
       run' = [run EXCEPT ![w].at = "upload",
                 ![w].pdf = [activities |-> run[w].pdf.activities,
                             expenses |-> ExpenseSection(expenses, days[1], days[2])]]
  /\ UNCHANGED <<Tables, status, stored, fileUrl, job, lost>>

(* Faulty variant: the answer of uploadObject is not looked at. *)
UploadAnyway(w) ==
  /\ run[w].at = "upload"
  /\ stored' \in {[stored EXCEPT ![run[w].report] = run[w].pdf], stored}
  /\ Step(w, "mark")
  /\ UNCHANGED <<Tables, status, fileUrl, job, lost>>

(* uploadObject with upsert; null is thrown as an error. *)
Upload(w) ==
  /\ run[w].at = "upload"
  /\ \/ /\ stored' = [stored EXCEPT ![run[w].report] = run[w].pdf]
        /\ Step(w, "mark")
     \/ Step(w, "threw") /\ UNCHANGED stored
  /\ UNCHANGED <<Tables, status, fileUrl, job, lost>>

(* markCompleted: an update by id, whatever the row says by then. *)
MarkCompleted(w) ==
  /\ run[w].at = "mark"
  /\ status' = [status EXCEPT ![run[w].report] = "completed"]
  /\ fileUrl' = [fileUrl EXCEPT ![run[w].report] = TRUE]
  /\ Step(w, "returned")
  /\ UNCHANGED <<Tables, stored, job, lost>>

(* A query of the database or the renderer fails. *)
Throw(w) ==
  /\ run[w].at \in {"find", "activities", "expenses", "mark"}
  /\ Step(w, "threw")
  /\ UNCHANGED <<Tables, status, stored, fileUrl, job, lost>>

(* Faulty variant: the processor logs the error and does not throw it again. *)
SettleQuietly(w) ==
  /\ run[w].at \in {"returned", "threw"}
  /\ job' = IF ~run[w].holds THEN job ELSE [job EXCEPT ![run[w].report].state = "done"]
  /\ run' = [run EXCEPT ![w] = IdleRun]
  /\ UNCHANGED <<Tables, status, stored, fileUrl, lost>>

(* The processor's result reaches BullMQ: an error costs an attempt.  A run that lost its
   lock is not listened to. *)
Settle(w) ==
  /\ run[w].at \in {"returned", "threw"}
  /\ LET r == run[w].report IN
     job' = CASE ~run[w].holds -> job
              [] run[w].holds /\ run[w].at = "returned" -> [job EXCEPT ![r].state = "done"]
              [] OTHER -> [job EXCEPT ![r].left = @ - 1,
                                      ![r].state = IF job[r].left > 1 THEN "waiting" ELSE "failed"]
  /\ run' = [run EXCEPT ![w] = IdleRun]
  /\ UNCHANGED <<Tables, status, stored, fileUrl, lost>>

(* The worker loses the job's lock, because its process died or is too busy to renew it; a
   dead one is gone, a busy one goes on. *)
Stall(w) ==
  /\ run[w].holds
  /\ LET r == run[w].report IN
     job' = IF job[r].stalls < MaxStalls
              THEN [job EXCEPT ![r].stalls = @ + 1, ![r].state = "waiting"]
              ELSE [job EXCEPT ![r].state = "failed"]
  /\ \/ run' = [run EXCEPT ![w].holds = FALSE]
     \/ run' = [run EXCEPT ![w] = IdleRun]
  /\ UNCHANGED <<Tables, status, stored, fileUrl, lost>>

WorkerNext(w) ==
  \/ \E r \in Reports : Take(w, r)
  \/ FindReport(w) \/ BuildActivities(w) \/ BuildExpenses(w)
  \/ Upload(w) \/ MarkCompleted(w) \/ Settle(w)

Next ==
  \/ Write
  \/ \E r \in Reports : RequestPdf(r)
  \/ \E w \in Workers : WorkerNext(w) \/ Throw(w) \/ Stall(w)

Spec == Init /\ [][Next]_vars

(* The worker process runs and is restarted when it dies; nothing obliges a table to change,
   a report to be asked for or a step to fail. *)
FairSpec == Spec /\ \A w \in Workers : WF_vars(WorkerNext(w))

-----------------------------------------------------------------------------
(* Properties. *)

(* "la fila nunca queda completed con un file_url que no existe" (reports.service.ts:80-82):
   whatever fails, is retried or runs twice, a completed report has its PDF in the bucket. *)
CompletedHasFile == \A r \in Reports : status[r] = "completed" => fileUrl[r] /\ stored[r] # NoFile

(* "un job reintentado sobre un reporte ya completado no vuelve a renderizar"
   (reports.service.ts:79-80): the PDF an administrator may have downloaded is only replaced by
   a run that had read the row before it was completed. *)
CompletedIsNotRenderedAgain ==
  [][\A r \in Reports :
       status[r] = "completed" /\ stored'[r] # stored[r] =>
         \E w \in Workers : run[w].report = r /\ run[w].seen = "requested"]_vars

(* A report whose job reached the queue is completed, unless its attempts are used up or the
   job stalled too often: no failure on the way leaves it asked for and forgotten. *)
EveryJobIsAnswered ==
  \A r \in Reports : job[r].state = "waiting" ~> status[r] = "completed" \/ job[r].state = "failed"

(* The figures agree on every pair of tables, whatever led to it: no step of this module
   matters to them, so that they are evaluated where none has been made. *)
Untouched == activities = [a \in Acts |-> NoRow] /\ expenses = [e \in Exps |-> NoRow]
             /\ \A r \in Reports : status[r] = "none"

(* Card, trend, compliance and report never count different periods: EveryPeriod of
   BondFigures (bond-health.service.ts:26-28). *)
PeriodsAgree == Untouched => EveryPeriod

(* What the report, the card, the list and the summary tell of the money adds up: EverySum of
   BondFigures (build-bond-report.ts, expenses.repository.ts). *)
MoneyAddsUp == Untouched => EverySum

(* "Si Redis no responde, se loguea y el reporte queda en requested; un reintento manual del
   admin (volver a pedirlo) es la recuperación" (report-pdf.producer.ts:11-13): only a request
   Redis did not hear, or a crash in between, leaves a report without a job. *)
StrandedOnlyByOutage ==
  \A r \in Reports : status[r] = "requested" /\ job[r].state = "none" => r \in lost
=============================================================================
