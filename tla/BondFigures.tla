---------------------------- MODULE BondFigures ----------------------------
(***************************************************************************)
(* What the administration tells about a bond, computed five times over    *)
(* from the same two tables: the report (buildBondReport), the card of the *)
(* list of bonds (aggregatesByBond), the monthly trend (trendByMonth), the *)
(* compliance of the members (findActiveMembersWithActStats) and the       *)
(* balance of an expense summary (summaryForBond).  The first is           *)
(* TypeScript over rows, the others SQL, and each writes its own filters.  *)
(*                                                                         *)
(* Instants are half days since the first day, in UTC; a month has         *)
(* DaysPerMonth days; amounts are integers, percentages hundredths of a    *)
(* percent.                                                                *)
(***************************************************************************)
EXTENDS Integers, FiniteSetsExt

CONSTANTS
  Acts, Exps,       \* rows of the bond's activities and expenses
  Users,            \* its members, at most two
  Categories, NoCategory,
  Amount,           \* Amount[e]: what expense e costs
  MaxDay, DaysPerMonth,
  Months,           \* points of the trend
  ZoneShift         \* half days the zone of database session and server is ahead of UTC

ASSUME FiguresAssumption ==
  /\ IsFiniteSet(Acts) /\ IsFiniteSet(Exps) /\ IsFiniteSet(Categories)
  /\ \A u, v, w \in Users : u = v \/ v = w \/ u = w
  /\ Amount \in [Exps -> Nat]
  /\ MaxDay \in Nat /\ DaysPerMonth \in Nat \ {0} /\ Months \in 1 .. 12
  /\ ZoneShift \in -1 .. 1

Instants == 0 .. (2 * MaxDay + 1)
Days == 0 .. MaxDay
DayOf(t) == t \div 2
MonthOf(t) == DayOf(t) \div DaysPerMonth

ActivityStatuses == {"assigned", "done", "cancelled"}
ExpenseStatuses == {"pending", "approved", "rejected", "paid"}

(* COALESCE(scheduled_start, created_at) is the row's place in time. *)
ActivityRow == [status: ActivityStatuses, deleted: BOOLEAN, at: Instants, who: Users]
ExpenseRow == [status: ExpenseStatuses, deleted: BOOLEAN, day: Days, by: Users,
               category: Categories \cup {NoCategory}]
NoRow == [status |-> "none"]

ActivityTables == [Acts -> ActivityRow \cup {NoRow}]
ExpenseTables == [Exps -> ExpenseRow \cup {NoRow}]

(* The sum of figure[x] over S. *)
Total(figure, S) == MapThenSumSet(LAMBDA x : figure[x], S)

Sum(S) == Total(Amount, S)

(* percentage: two decimals, halves up; 0 of nothing is 0. *)
Percentage(n, d) == IF d = 0 THEN 0 ELSE (20000 * n + d) \div (2 * d)

-----------------------------------------------------------------------------
(* The report. *)

(* findActivities of the days from..to, inclusive: the upper bound is the next midnight. *)
FindActivities(activities, from, to) ==
  {a \in Acts : /\ activities[a] # NoRow
                /\ ~activities[a].deleted
                /\ activities[a].at >= 2 * from
                /\ activities[a].at < 2 * (to + 1)}

(* findExpenses does not look at deleted_at: the builder does. *)
FindExpenses(expenses, from, to) ==
  {e \in Exps : expenses[e] # NoRow /\ expenses[e].day >= from /\ expenses[e].day < to + 1}

Eligible(expenses, rows) == {e \in rows : ~expenses[e].deleted /\ expenses[e].status # "rejected"}

WithStatus(expenses, rows, S) == {e \in rows : expenses[e].status \in S}

MemberFigures(activities, rows, u) ==
  LET assigned == {a \in rows : activities[a].who = u} IN
  [assigned |-> Cardinality(assigned),
   completed |-> Cardinality({a \in assigned : activities[a].status = "done"})]

ActivitySection(activities, from, to) ==
  LET rows == FindActivities(activities, from, to)
      completed == {a \in rows : activities[a].status = "done"}
  IN [total |-> Cardinality(rows),
      completed |-> Cardinality(completed),
      completionRate |-> Percentage(Cardinality(completed), Cardinality(rows)),
      byStatus |-> [s \in ActivityStatuses |-> Cardinality({a \in rows : activities[a].status = s})],
      members |-> [u \in Users |-> MemberFigures(activities, rows, u)]]

ExpenseSection(expenses, from, to) ==
  LET found == FindExpenses(expenses, from, to)
      rows == Eligible(expenses, found)
      paid == WithStatus(expenses, rows, {"paid"})
  IN [totalAmount |-> Sum(rows),
      paidAmount |-> Sum(paid),
      pendingAmount |-> Sum(WithStatus(expenses, rows, {"pending", "approved"})),
      paidAmountPercentage |-> Percentage(Sum(paid), Sum(rows)),
      byStatus |-> [s \in ExpenseStatuses |->
        Sum({e \in found : ~expenses[e].deleted /\ expenses[e].status = s})],
      byCategory |-> [c \in Categories \cup {NoCategory} |->
        Sum({e \in rows : expenses[e].category = c})]]

-----------------------------------------------------------------------------
(* What the members themselves are shown: the compliance of the month of the clock
   (getComplianceForBond), by scheduled_start, which every activity made by create() has.  The
   query joins the activities without a look at deleted_at, and its month is that of the
   server's zone. *)

Compliance(activities, m, u) ==
  LET rows == {a \in Acts : /\ activities[a] # NoRow
                            /\ activities[a].who = u
                            /\ MonthOf(activities[a].at + ZoneShift) = m}
  IN [assigned |-> Cardinality(rows),
      completed |-> Cardinality({a \in rows : activities[a].status = "done"})]

-----------------------------------------------------------------------------
(* The card of the list of bonds: one grouped query per table. *)

CardActivities(activities, from, to) ==
  LET acts == {a \in Acts : /\ activities[a] # NoRow /\ ~activities[a].deleted
                            /\ activities[a].at \in 2 * from .. 2 * to + 1}
  IN [activitiesTotal |-> Cardinality(acts),
      completionRate |->
        Percentage(Cardinality({a \in acts : activities[a].status = "done"}), Cardinality(acts))]

CardPaid(expenses, from, to) ==
  LET exps == {e \in Exps : /\ expenses[e] # NoRow /\ ~expenses[e].deleted
                            /\ expenses[e].day \in from .. to}
  IN Percentage(Sum(WithStatus(expenses, exps, {"paid"})),
                Sum(WithStatus(expenses, exps, ExpenseStatuses \ {"rejected"})))

-----------------------------------------------------------------------------
(* The trend: `Months` points that end in the month of the clock, the query from the first
   instant of the first to the first of the month after.  Only date_trunc does not say UTC: it
   cuts months in the zone of the database session. *)

(* Faulty variant: the first month of the series is left out. *)
SeriesShort(now) == {MonthOf(now) - k : k \in 0 .. (Months - 2)}

Series(now) == {MonthOf(now) - k : k \in 0 .. (Months - 1)}

FirstDay(now) == (MonthOf(now) - (Months - 1)) * DaysPerMonth
LastDay(now) == (MonthOf(now) + 1) * DaysPerMonth - 1

TrendPoint(activities, now, m) ==
  LET rows == {a \in FindActivities(activities, FirstDay(now), LastDay(now)) :
                 MonthOf(activities[a].at + ZoneShift) = m}
  IN [total |-> Cardinality(rows),
      completed |-> Cardinality({a \in rows : activities[a].status = "done"})]

Trend(activities, now) == [m \in Series(now) |-> TrendPoint(activities, now, m)]

-----------------------------------------------------------------------------
(* The balance of a member: what it paid for the other less what the other paid for it.  The
   payer's share is split_ratio_payer, here 60 of 100, so the balance of one approved
   expense is a fifth of its amount. *)

(* Faulty variant: the member who asked sees its paid expenses leave the balance. *)
SaldoUntilPaid(expenses, u) ==
  LET settled == {e \in Exps : /\ expenses[e] # NoRow /\ ~expenses[e].deleted
                               /\ expenses[e].status \in {"approved", "paid"}}
      mine == {e \in settled : expenses[e].by = u /\ expenses[e].status = "approved"}
  IN 20 * Sum(mine) - 20 * Sum({e \in settled : expenses[e].by # u})

Saldo(expenses, u) ==
  LET settled == {e \in Exps : /\ expenses[e] # NoRow /\ ~expenses[e].deleted
                               /\ expenses[e].status \in {"approved", "paid"}}
      mine == {e \in settled : expenses[e].by = u}
  IN 20 * Sum(mine) - 20 * Sum(settled \ mine)

PorPagar(expenses, u) == IF Saldo(expenses, u) < 0 THEN -Saldo(expenses, u) ELSE 0
PorCobrar(expenses, u) == IF Saldo(expenses, u) > 0 THEN Saldo(expenses, u) ELSE 0

(* The list of the expenses, filtered by status and days, and the numbers of the summary. *)
ListForBond(expenses, statuses, from, to) ==
  {e \in Exps : /\ expenses[e] # NoRow /\ ~expenses[e].deleted
                /\ expenses[e].status \in statuses
                /\ expenses[e].day >= from /\ expenses[e].day <= to}

Counts(expenses) ==
  [s \in ExpenseStatuses |-> Cardinality({e \in Exps : /\ expenses[e] # NoRow
                                                       /\ ~expenses[e].deleted
                                                       /\ expenses[e].status = s})]

-----------------------------------------------------------------------------
(* What must hold of every pair of tables. *)

(* "para que la tarjeta, la tendencia y el PDF no puedan contar períodos distintos"
   (bond-health.service.ts:26-28): for every window the card shows the counts of the report,
   each point of the trend shows those of its month, and the points add up to the report of
   the same months.  As long as nothing was deleted, a member's compliance is the report's of
   that month too. *)
CardCounts(activities) ==
  \A from \in Days : \A to \in from .. MaxDay :
    LET acts == ActivitySection(activities, from, to) IN
    CardActivities(activities, from, to) =
      [activitiesTotal |-> acts.total, completionRate |-> acts.completionRate]

PointCounts(activities) ==
  \A now \in Instants : \A m \in Series(now) :
    LET acts == ActivitySection(activities, m * DaysPerMonth, (m + 1) * DaysPerMonth - 1) IN
    TrendPoint(activities, now, m) = [total |-> acts.total, completed |-> acts.completed]

TrendCounts(activities) ==
  \A now \in Instants :
    LET trend == Trend(activities, now)
        acts == ActivitySection(activities, FirstDay(now), LastDay(now))
        months == DOMAIN trend
    IN /\ acts.total = Total([m \in months |-> trend[m].total], months)
       /\ acts.completed = Total([m \in months |-> trend[m].completed], months)

ComplianceCounts(activities) ==
  \A m \in {MonthOf(t) : t \in Instants} : \A u \in Users :
    LET from == m * DaysPerMonth
        report == ActivitySection(activities, from, from + DaysPerMonth - 1)
        deleted == {a \in Acts : activities[a] # NoRow /\ activities[a].deleted}
    IN deleted = {} => Compliance(activities, m, u) = report.members[u]

EveryPeriod ==
  \A activities \in ActivityTables :
    /\ CardCounts(activities) /\ PointCounts(activities)
    /\ TrendCounts(activities) /\ ComplianceCounts(activities)

(* The money told to the administrator and to the members adds up, whatever was asked,
   approved, paid, rejected or deleted: the card shows the report's paid percentage, every
   breakdown of the report adds up to its total (the expenses without category included), the
   list of the same days and status shows what the report sums and the summary counts, and
   what one member of a bond of two is told to pay is what the other is told to collect. *)
ShownAsReported(expenses) ==
  \A from \in Days : \A to \in from .. MaxDay :
    LET exps == ExpenseSection(expenses, from, to) IN
    /\ CardPaid(expenses, from, to) = exps.paidAmountPercentage
    /\ \A s \in ExpenseStatuses : Sum(ListForBond(expenses, {s}, from, to)) = exps.byStatus[s]

SectionsAddUp(expenses) ==
  \A from \in Days : \A to \in from .. MaxDay :
    LET exps == ExpenseSection(expenses, from, to) IN
    /\ exps.paidAmount + exps.pendingAmount = exps.totalAmount
    /\ Total(exps.byStatus, ExpenseStatuses \ {"rejected"}) = exps.totalAmount
    /\ Total(exps.byCategory, Categories \cup {NoCategory}) = exps.totalAmount

BalancesMirror(expenses) ==
  \A u, v \in Users : u # v =>
    /\ Saldo(expenses, u) = -Saldo(expenses, v)
    /\ PorPagar(expenses, u) = PorCobrar(expenses, v)

CountsListed(expenses) ==
  \A s \in ExpenseStatuses :
    Counts(expenses)[s] = Cardinality(ListForBond(expenses, {s}, 0, MaxDay))

EverySum ==
  \A expenses \in ExpenseTables :
    /\ ShownAsReported(expenses) /\ SectionsAddUp(expenses)
    /\ BalancesMirror(expenses) /\ CountsListed(expenses)
=============================================================================
