------------------------------ MODULE Recurrence ------------------------------
(***************************************************************************)
(* A series of recurring invoices.  A daily job (and, by hand, a catch-up  *)
(* run beside it) marks overdue what is past due and lets every due cycle  *)
(* spawn the draft of the next one.  Both happen in one transaction: the   *)
(* overdue sweep reads without locks and then updates by id, the due       *)
(* cycles are claimed FOR UPDATE SKIP LOCKED, and all of it commits at     *)
(* once.  Cycles are numbered in the order in which they are created; the  *)
(* tables do not record which invoice spawned which: `parent` is history.  *)
(***************************************************************************)
EXTENDS Integers, FiniteSets, FiniteSetsExt

CONSTANTS
    MaxCycles,     \* cycles of the series that are followed
    Jobs,          \* runs of the job that may overlap
    FirstDues,     \* due dates the series may start from
    Intervals,     \* \subseteq {"weekly", "monthly", "quarterly", "yearly"}
    MaxAborts      \* bound on runs that fail

Cycles == 1..MaxCycles

-----------------------------------------------------------------------------
(***************************************************************************)
(* Dates: <<months since year 0, day of the month>>.                       *)
(***************************************************************************)
Leap(y) == (y % 4 = 0 /\ y % 100 # 0) \/ y % 400 = 0

\* calendar.monthrange
DaysIn(m) ==
    CASE m % 12 = 1 -> IF Leap(m \div 12) THEN 29 ELSE 28
      [] m % 12 \in {3, 5, 8, 10} -> 30
      [] OTHER -> 31

IsDate(d) == d[2] \in 1..DaysIn(d[1])

MonthSteps == [monthly |-> 1, quarterly |-> 3, yearly |-> 12]

\* Mutant: the day is carried into a month that does not have it.
CarriesDay(d, m) == d[2]

ClampedDay(d, m) == Min({d[2], DaysIn(m)})

Advance(d, interval) ==
    IF interval = "weekly"
    THEN IF d[2] + 7 <= DaysIn(d[1]) THEN <<d[1], d[2] + 7>>
                                     ELSE <<d[1] + 1, d[2] + 7 - DaysIn(d[1])>>
    ELSE LET m == d[1] + MonthSteps[interval] IN <<m, ClampedDay(d, m)>>

ASSUME RecurrenceConstants ==
    /\ MaxCycles \in Nat \ {0} /\ MaxAborts \in Nat
    /\ FirstDues \subseteq Nat \X Nat /\ \A d \in FirstDues : IsDate(d)
    /\ Intervals \subseteq {"weekly", "monthly", "quarterly", "yearly"}

-----------------------------------------------------------------------------
VARIABLES
    cycle,      \* [Cycles -> CycleRow]
    interval,   \* of the series
    reached,    \* cycles whose due date has come
    job,        \* [Jobs -> JobRow]
    aborts      \* runs that have failed so far

recurrenceVars == <<cycle, interval, reached, job, aborts>>

CycleStatus == {"absent", "draft", "sent", "overdue", "paid", "void", "refunded"}
JobRow == [step: {"idle", "read", "claimed"}, late: SUBSET Cycles, due: SUBSET Cycles]

NoCycle == [status |-> "absent", recurring |-> FALSE, due |-> <<0, 1>>, parent |-> 0]
NoJob == [step |-> "idle", late |-> {}, due |-> {}]

Exists(c) == cycle[c].status # "absent"

RecurrenceTypeOK ==
    /\ \A c \in Cycles :
          /\ cycle[c].status \in CycleStatus /\ cycle[c].recurring \in BOOLEAN
          /\ IsDate(cycle[c].due) /\ cycle[c].parent \in 0..(c - 1)
    /\ interval \in Intervals
    /\ reached \subseteq {c \in Cycles : Exists(c)}
    /\ job \in [Jobs -> JobRow]
    /\ aborts \in 0..MaxAborts

RecurrenceInit ==
    /\ interval \in Intervals
    /\ \E d \in FirstDues : cycle = [c \in Cycles |->
          IF c = 1 THEN [status |-> "draft", recurring |-> TRUE, due |-> d, parent |-> 0]
                   ELSE NoCycle]
    /\ reached = {}
    /\ job = [j \in Jobs |-> NoJob]
    /\ aborts = 0

\* Rows some run other than j has locked, or updated and not committed.
HeldByOthers(j) ==
    UNION {job[k].late \cup job[k].due : k \in {k \in Jobs \ {j} : job[k].step = "claimed"}}

Held == UNION {job[k].late \cup job[k].due : k \in {k \in Jobs : job[k].step = "claimed"}}

-----------------------------------------------------------------------------
(***************************************************************************)
(* What happens to a cycle outside the job; each takes the row's lock.     *)
(***************************************************************************)
Moves(c, from, to) ==
    /\ cycle[c].status \in from
    /\ c \notin Held
    /\ cycle' = [cycle EXCEPT ![c].status = to]
    /\ UNCHANGED <<interval, reached, job, aborts>>

SendCycle(c) == Moves(c, {"draft"}, "sent")
PayCycle(c) == Moves(c, {"sent", "overdue"}, "paid")
VoidCycle(c) == Moves(c, {"sent", "overdue"}, "void")
RefundCycle(c) == Moves(c, {"paid"}, "refunded")

\* Time passes: a cycle falls due, never before the one that spawned it.
FallsDue(c) ==
    /\ Exists(c) /\ c \notin reached
    /\ cycle[c].parent \in reached \cup {0}
    /\ reached' = reached \cup {c}
    /\ UNCHANGED <<cycle, interval, job, aborts>>

-----------------------------------------------------------------------------
(***************************************************************************)
(* One run of the job.                                                     *)
(***************************************************************************)

\* mark_overdue_invoices, its SELECT.  What falls due today is not late yet.
JobReads(j) ==
    /\ job[j] = NoJob
    /\ \E late \in SUBSET {c \in reached : cycle[c].status = "sent"} :
          job' = [job EXCEPT ![j] = [step |-> "read", late |-> late, due |-> {}]]
    /\ UNCHANGED <<cycle, interval, reached, aborts>>

\* Mutant: a cycle that is paid no longer counts.
AwaitingPayment == {"sent", "overdue"}

\* _ACTIVE_RECURRING_STATUSES
ActiveStatuses == {"sent", "overdue", "paid"}

\* Mutant: the rows are read without locking them.
IgnoresLocks(j) == {}

\* Rows the claim of run j passes over (SKIP LOCKED).
SkippedBy(j) == HeldByOthers(j)

\* The due cycles as run j sees them, its own flushed updates included.
DueCycles(j) ==
    {c \in reached : /\ cycle[c].recurring
                     /\ cycle[c].status \in ActiveStatuses \/ c \in job[j].late
                     /\ c \notin SkippedBy(j)}

\* The sweep's UPDATE waits for the rows it needs; then the due are claimed.
JobClaims(j) ==
    /\ job[j].step = "read"
    /\ job[j].late \cap HeldByOthers(j) = {}
    /\ job' = [job EXCEPT ![j].step = "claimed", ![j].due = DueCycles(j)]
    /\ UNCHANGED <<cycle, interval, reached, aborts>>

\* is_recurring of a cycle once it has spawned its successor.
RecurringOnceSpawned(c) == FALSE

NextId == 1 + Cardinality({c \in Cycles : Exists(c)})

\* The commit.  (A series has one due cycle at a time, so that at most one
\* draft is created; the bound on cycles is in the guard.)
JobCommits(j) ==
    /\ job[j].step = "claimed"
    /\ job[j].due # {} => NextId \in Cycles
    /\ cycle' = [c \in Cycles |->
          IF c \in job[j].late \cup job[j].due
          THEN [cycle[c] EXCEPT !.status = IF c \in job[j].late THEN "overdue" ELSE @,
                                !.recurring = IF c \in job[j].due
                                              THEN RecurringOnceSpawned(c) ELSE @]
          ELSE IF c = NextId /\ job[j].due # {}
          THEN LET p == Max(job[j].due)
               IN  [status |-> "draft", recurring |-> TRUE, parent |-> p,
                    due |-> Advance(cycle[p].due, interval)]
          ELSE cycle[c]]
    /\ job' = [job EXCEPT ![j] = NoJob]
    /\ UNCHANGED <<interval, reached, aborts>>

\* The run fails; the scheduler logs it and tries again tomorrow.
JobAborts(j) ==
    /\ job[j] # NoJob
    /\ aborts < MaxAborts
    /\ aborts' = aborts + 1
    /\ job' = [job EXCEPT ![j] = NoJob]
    /\ UNCHANGED <<cycle, interval, reached>>

-----------------------------------------------------------------------------
RecurrenceNext ==
    \/ \E c \in Cycles :
          SendCycle(c) \/ PayCycle(c) \/ VoidCycle(c) \/ RefundCycle(c) \/ FallsDue(c)
    \/ \E j \in Jobs : JobReads(j) \/ JobClaims(j) \/ JobCommits(j) \/ JobAborts(j)

(***************************************************************************)
(* Fairness: the scheduler runs every day, a run that has started ends,    *)
(* and days pass.  Nobody has to send, pay or refund.                      *)
(***************************************************************************)
RecurrenceFairness ==
    /\ \A j \in Jobs : /\ WF_recurrenceVars(JobReads(j))
                       /\ WF_recurrenceVars(JobClaims(j))
                       /\ WF_recurrenceVars(JobCommits(j))
    /\ \A c \in Cycles : WF_recurrenceVars(FallsDue(c))

RecurrenceSpec == RecurrenceInit /\ [][RecurrenceNext]_recurrenceVars
RecurrenceFairSpec == RecurrenceSpec /\ RecurrenceFairness

-----------------------------------------------------------------------------
(* Exactly one row carries the series on, and no cycle was billed twice:   *)
(* overlapping runs neither lose the series nor fork it.                   *)
SeriesHasOneHead ==
    /\ Cardinality({c \in Cycles : cycle[c].recurring}) = 1
    /\ \A c, d \in Cycles : Exists(c) /\ Exists(d) /\ cycle[c].parent = cycle[d].parent
                                => c = d

(* Every cycle falls due in its own period: a month-based series visits    *)
(* each of its months once, on a day the month has, and never early; a     *)
(* weekly one steps seven days.                                            *)
PeriodsAreKept ==
    \A c \in Cycles : Exists(c) /\ cycle[c].parent # 0 =>
        LET d == cycle[c].due
            p == cycle[cycle[c].parent].due
        IN  /\ IsDate(d)
            /\ IF interval = "weekly"
               THEN (d[1] - p[1]) * DaysIn(p[1]) + d[2] - p[2] = 7
               ELSE /\ d[1] = p[1] + MonthSteps[interval]
                    /\ d[2] = p[2] \/ (d[2] < p[2] /\ d[2] = DaysIn(d[1]))

(* A cycle that was sent and is due spawns its successor, paid or not,     *)
(* unless it is voided or refunded first.                                  *)
DueCycleSpawns ==
    \A c \in 1..(MaxCycles - 1) :
        (c \in reached /\ cycle[c].status \in {"sent", "overdue", "paid"}) ~>
            (~cycle[c].recurring \/ cycle[c].status \in {"void", "refunded"})

=============================================================================
