---------------------- MODULE ScheduledTransferProofs ----------------------
(***************************************************************************)
(* For every set of schedules, any finite number of execution slots, any   *)
(* deliveries, crashes and queue failures: an occurrence has one execution *)
(* at a time; the occurrences handed to the ledger are consecutive, each   *)
(* once, none after endDate and none earlier than the jobs handed out      *)
(* again account for; a schedule no fault has hit keeps its job.           *)
(***************************************************************************)
EXTENDS ScheduleFaults, FiniteSetTheorems, TLAPS

-----------------------------------------------------------------------------
(* Types.                                                                  *)

LEMMA InitTypes == Init => TypeOK
BY SchedulesFit DEF Init, TypeOK, Rows, NoRow, Statuses, Reasons, CreateStages, CancelStages,
   WorkerStates, Idle

\* A worker that is busy works on a job of some schedule.
LEMMA BusyShape ==
  ASSUME TypeOK, NEW w \in Workers, Busy(w)
  PROVE  /\ worker[w] \in [at : WorkStages, job : Jobs, occurrence : Nat, why : Reasons]
         /\ worker[w].job \in Jobs /\ Of(w) \in Schedules /\ worker[w].occurrence \in Nat
BY DEF TypeOK, Busy, WorkerStates, Of, Jobs

LEMMA TypeStep == TypeOK /\ [Next]_vars => TypeOK'
<1> SUFFICES ASSUME TypeOK, [Next]_vars PROVE TypeOK'
  OBVIOUS
<1> DEFINE States == [at : WorkStages, job : Jobs, occurrence : Nat, why : Reasons]
<1>1. CASE UNCHANGED vars
  BY <1>1 DEF vars, TypeOK
<1>2. CASE Tick
  BY <1>2, SchedulesFit DEF Tick, TypeOK
<1>3. ASSUME NEW s \in Schedules, BeginCreate(s) \/ CreateStops(s) PROVE TypeOK'
  BY <1>3 DEF BeginCreate, CreateStops, TypeOK, CreateStages
<1>4. ASSUME NEW s \in Schedules, CreateRow(s) \/ DeleteRow(s) PROVE TypeOK'
  <2>1. /\ [status |-> "SCHEDULED", nextRunAt |-> Start[s], failureReason |-> "none"] \in Rows
        /\ NoRow \in Rows
    BY SchedulesFit DEF Rows, NoRow, Statuses, Reasons
  <2>2. QED
    BY <1>4, <2>1 DEF CreateRow, DeleteRow, TypeOK, CreateStages
<1>5. ASSUME NEW s \in Schedules, EnqueueFirst(s) PROVE TypeOK'
  <2>1. NewJob(s, Start[s]) \in Jobs
    BY SchedulesFit DEF NewJob, Jobs
  <2>2. QED
    BY <1>5, <2>1 DEF EnqueueFirst, TypeOK, CreateStages
<1>6. ASSUME NEW s \in Schedules, NEW x \in Statuses, SetStatus(s, x)
      PROVE  row' \in [Schedules -> Rows]
  BY <1>6 DEF SetStatus, TypeOK, Rows
<1>7. ASSUME NEW s \in Schedules, BeginCancel(s) \/ CancelRow(s) \/ CancelStops(s) PROVE TypeOK'
  BY <1>6, <1>7 DEF BeginCancel, CancelRow, CancelStops, TypeOK, CancelStages, Statuses
<1>8. ASSUME NEW w \in Workers, Finish(w) PROVE worker' \in [Workers -> WorkerStates]
  BY <1>8 DEF Finish, TypeOK, WorkerStates
<1>9. ASSUME NEW w \in Workers, Busy(w), NEW x \in WorkStages, Goto(w, x)
      PROVE  worker' \in [Workers -> WorkerStates]
  <2>1. [worker[w] EXCEPT !.at = x] \in States
    BY <1>9, BusyShape
  <2>2. worker' = [worker EXCEPT ![w] = [worker[w] EXCEPT !.at = x]]
    BY <1>9, Zenon DEF Goto
  <2>3. QED
    BY <2>1, <2>2 DEF TypeOK, WorkerStates
<1>10. ASSUME NEW w \in Workers, Busy(w), NEW y \in Reasons, Throws(w, y)
       PROVE  worker' \in [Workers -> WorkerStates]
  <2>1. [worker[w] EXCEPT !.at = "fail", !.why = y] \in States
    BY <1>10, BusyShape DEF WorkStages
  <2>2. worker' = [worker EXCEPT ![w] = [worker[w] EXCEPT !.at = "fail", !.why = y]]
    BY <1>10, Zenon DEF Throws
  <2>3. QED
    BY <2>1, <2>2 DEF TypeOK, WorkerStates
<1>11. ASSUME NEW w \in Workers, Deliver(w) PROVE TypeOK'
  <2>1. PICK j \in waiting :
          /\ waiting' = waiting \ {j}
          /\ worker' = [worker EXCEPT ![w] =
               [at |-> "claim", job |-> [j EXCEPT !.deliveries = @ + 1],
                occurrence |-> 0, why |-> "none"]]
    BY <1>11 DEF Deliver
  <2>2. j \in Jobs
    BY DEF TypeOK
  <2>3. [j EXCEPT !.deliveries = @ + 1] \in Jobs
    BY <2>2 DEF Jobs
  <2>4. [at |-> "claim", job |-> [j EXCEPT !.deliveries = @ + 1],
         occurrence |-> 0, why |-> "none"] \in States
    BY <2>3 DEF WorkStages, Reasons
  <2>5. worker' \in [Workers -> WorkerStates]
    BY <2>1, <2>4 DEF TypeOK, WorkerStates
  <2>6. QED
    BY <1>11, <2>1, <2>5 DEF Deliver, TypeOK
<1>12. ASSUME NEW w \in Workers, Stops(w) PROVE TypeOK'
  <2>1. worker[w].job \in Jobs
    BY <1>12, BusyShape DEF Stops
  <2>2. worker' \in [Workers -> WorkerStates]
    BY <1>8, <1>12 DEF Stops
  <2>3. QED
    BY <1>12, <2>1, <2>2 DEF Stops, TypeOK
<1>13. ASSUME NEW w \in Workers, LosesLock(w) PROVE TypeOK'
  <2>1. worker[w] \in States /\ worker[w].job \in Jobs
    BY <1>13, BusyShape DEF LosesLock
  <2>2. [worker[w] EXCEPT !.job = [worker[w].job EXCEPT !.deliveries = MaxDeliveries]] \in States
    BY <2>1, SchedulesFit DEF Jobs
  <2>3. worker' = [worker EXCEPT ![w] = [worker[w] EXCEPT !.job =
                     [worker[w].job EXCEPT !.deliveries = MaxDeliveries]]]
    BY <1>13, Zenon DEF LosesLock
  <2>4. worker' \in [Workers -> WorkerStates]
    BY <2>2, <2>3 DEF TypeOK, WorkerStates
  <2>5. QED
    BY <1>13, <2>1, <2>4 DEF LosesLock, TypeOK
<1>14. ASSUME NEW w \in Workers, Claim(w) PROVE TypeOK'
  <2>1. Busy(w) /\ Of(w) \in Schedules
    BY <1>14, BusyShape DEF Claim, At
  <2>2. worker' \in [Workers -> WorkerStates] /\ row' \in [Schedules -> Rows]
    BY <1>6, <1>8, <1>9, <1>14, <2>1 DEF Claim, WorkStages, Statuses, TypeOK
  <2>3. QED
    BY <1>14, <2>2 DEF Claim, TypeOK
<1>15. ASSUME NEW w \in Workers, Load(w) PROVE TypeOK'
  <2>1. worker[w] \in States /\ row[Of(w)].nextRunAt \in Nat
    BY <1>15, BusyShape DEF Load, At, TypeOK, Rows
  <2>2. [worker[w] EXCEPT !.at = "transfer", !.occurrence = row[Of(w)].nextRunAt] \in States
    BY <2>1 DEF WorkStages
  <2>3. worker' = [worker EXCEPT ![w] =
          [worker[w] EXCEPT !.at = "transfer", !.occurrence = row[Of(w)].nextRunAt]]
    BY <1>15, Zenon DEF Load
  <2>4. QED
    BY <1>15, <2>2, <2>3 DEF Load, TypeOK, WorkerStates
<1>16. ASSUME NEW w \in Workers, Transfer(w) PROVE TypeOK'
  <2>1. Busy(w) /\ Of(w) \in Schedules /\ worker[w].occurrence \in Nat
    BY <1>16, BusyShape DEF Transfer, At
  <2>2. worker' \in [Workers -> WorkerStates]
    BY <1>9, <1>10, <1>16, <2>1 DEF Transfer, WorkStages, Reasons
  <2>3. Append(runs[Of(w)], worker[w].occurrence) \in Seq(Nat)
    BY <2>1 DEF TypeOK
  <2>4. \/ runs' = runs
        \/ runs' = [runs EXCEPT ![Of(w)] = Append(runs[Of(w)], worker[w].occurrence)]
    BY <1>16, Zenon DEF Transfer
  <2>5. runs' \in [Schedules -> Seq(Nat)]
    BY <2>1, <2>3, <2>4 DEF TypeOK
  <2>6. QED
    BY <1>16, <2>2, <2>5 DEF Transfer, TypeOK
<1>17. ASSUME NEW w \in Workers, Busy(w) PROVE NextRun(w) \in Nat
  BY <1>17, BusyShape, SchedulesFit DEF NextRun
<1>18. ASSUME NEW w \in Workers, Close(w) PROVE TypeOK'
  <2>1. Busy(w) /\ Of(w) \in Schedules /\ NextRun(w) \in Nat
    BY <1>17, <1>18, BusyShape DEF Close, At
  <2>2. worker' \in [Workers -> WorkerStates]
    BY <1>8, <1>9, <1>10, <1>18, <2>1 DEF Close, WorkStages, Reasons
  <2>3. row' \in [Schedules -> Rows]
    BY <1>6, <1>18, <2>1 DEF Close, TypeOK, Rows, Statuses
  <2>4. QED
    BY <1>18, <2>2, <2>3 DEF Close, TypeOK
<1>19. ASSUME NEW w \in Workers, EnqueueNextRun(w) PROVE TypeOK'
  <2>1. Busy(w) /\ NewJob(Of(w), NextRun(w)) \in Jobs
    BY <1>17, <1>19, BusyShape DEF EnqueueNextRun, At, NewJob, Jobs
  <2>2. worker' \in [Workers -> WorkerStates]
    BY <1>8, <1>10, <1>19, <2>1 DEF EnqueueNextRun, Reasons
  <2>3. QED
    BY <1>19, <2>1, <2>2 DEF EnqueueNextRun, TypeOK
<1>20. ASSUME NEW w \in Workers, MarkFailed(w) PROVE TypeOK'
  <2>1. Busy(w) /\ Of(w) \in Schedules /\ worker[w].why \in Reasons
    BY <1>20, BusyShape DEF MarkFailed, At
  <2>2. worker' \in [Workers -> WorkerStates]
    BY <1>9, <1>20, <2>1 DEF MarkFailed, WorkStages
  <2>3. row' \in [Schedules -> Rows]
    BY <1>20, <2>1 DEF MarkFailed, TypeOK, Rows, Statuses
  <2>4. QED
    BY <1>20, <2>2, <2>3 DEF MarkFailed, TypeOK
<1>21. ASSUME NEW w \in Workers, Notify(w) PROVE TypeOK'
  BY <1>8, <1>21 DEF Notify, TypeOK
<1>22. QED
  BY <1>1, <1>2, <1>3, <1>4, <1>5, <1>7, <1>11, <1>12, <1>13, <1>14, <1>15, <1>16,
     <1>18, <1>19, <1>20, <1>21 DEF Next, Serve, Work

\* Rows, jobs and executions stay well formed.
THEOREM SchedTypeCorrect == Spec => []TypeOK
BY InitTypes, TypeStep, PTL DEF Spec

-----------------------------------------------------------------------------
(* The occurrences.  The invariant: the day the next run is due, and how   *)
(* the row and its only execution agree on it.                             *)

\* The day of occurrence n, counted from 0.
Slot(s, n) == Start[s] + n * Period[s]

LEMMA Slots ==
  ASSUME NEW s \in Schedules, NEW n \in Nat
  PROVE  /\ Slot(s, n) \in Nat /\ Slot(s, 0) = Start[s]
         /\ Slot(s, n + 1) = Slot(s, n) + Period[s]
<1>1. Start[s] \in Nat /\ Period[s] \in Nat
  BY SchedulesFit
<1>2. PICK p \in Nat : p = Period[s]
  BY <1>1
<1>3. n * p \in Nat /\ 0 * p = 0 /\ (n + 1) * p = n * p + p
  BY <1>2
<1>4. QED
  BY <1>1, <1>2, <1>3 DEF Slot

\* The day that follows the occurrences handed to the ledger so far.
NextDue(s) == Slot(s, Len(runs[s]))

\* The occurrences handed to the ledger are the first ones, in their order.
InOrder ==
  \A s \in Schedules : \A k \in 1..Len(runs[s]) : runs[s][k] = Slot(s, k - 1)

\* Until create() has added the first job nothing runs.
NotYetQueued ==
  \A s \in Schedules : creating[s] \in {"todo", "create", "enqueue", "delete"} =>
    /\ runs[s] = << >>
    /\ \A j \in waiting : j.schedule # s
    /\ \A w \in Workers : Busy(w) => Of(w) # s

\* While an execution holds the claim nobody else can claim.
ClaimHeld ==
  \A w \in Workers, s \in Schedules : Running(w, s) => row[s].status # "SCHEDULED"

OnSchedule ==
  \A s \in Schedules : row[s].status = "SCHEDULED" => row[s].nextRunAt = NextDue(s)

\* What the execution read is still what the row says.
ExecutionFits ==
  \A w \in Workers, s \in Schedules : Running(w, s) =>
    /\ worker[w].at \in {"load", "transfer"} => row[s].nextRunAt = NextDue(s)
    /\ worker[w].at = "transfer" => worker[w].occurrence = row[s].nextRunAt
    /\ worker[w].at = "close" =>
         Len(runs[s]) > 0 /\ worker[w].occurrence = Slot(s, Len(runs[s]) - 1)

RunInv ==
  /\ OneExecutionAtATime
  /\ InOrder
  /\ NotYetQueued
  /\ ClaimHeld
  /\ OnSchedule
  /\ ExecutionFits

LEMMA InitRuns == Init => RunInv
BY DEF Init, RunInv, OneExecutionAtATime, InOrder, NotYetQueued, ClaimHeld,
   OnSchedule, ExecutionFits, Running, Busy, NoRow, Idle

\* A step that hands nothing to the ledger, makes no row SCHEDULED, moves no
\* nextRunAt and starts no execution.
LEMMA Harmless ==
  ASSUME RunInv, NotYetQueued', runs' = runs,
         \A s \in Schedules : /\ row'[s].nextRunAt = row[s].nextRunAt
                              /\ row'[s].status = "SCHEDULED" => row[s].status = "SCHEDULED",
         \A v \in Workers, s \in Schedules : Running(v, s)' =>
           /\ Running(v, s)
           /\ worker'[v].at = worker[v].at /\ worker'[v].occurrence = worker[v].occurrence
  PROVE  RunInv'
<1>1. \A s \in Schedules : NextDue(s)' = NextDue(s)
  BY DEF NextDue
<1>2. OneExecutionAtATime' /\ InOrder'
  BY DEF RunInv, OneExecutionAtATime, InOrder
<1>3. ClaimHeld' /\ OnSchedule'
  BY <1>1 DEF RunInv, ClaimHeld, OnSchedule
<1>4. ExecutionFits'
  BY <1>1 DEF RunInv, ExecutionFits
<1>5. QED
  BY <1>2, <1>3, <1>4 DEF RunInv

\* An execution, or the queue about it, adds jobs and runs of its schedule only.
LEMMA QueuedKept ==
  ASSUME TypeOK, NotYetQueued, NEW w \in Workers, Busy(w), creating' = creating,
         \A s \in Schedules \ {Of(w)} : runs'[s] = runs[s],
         \A j \in waiting' : j \in waiting \/ j.schedule = Of(w),
         \A v \in Workers : Busy(v)' => Busy(v) /\ Of(v)' = Of(v)
  PROVE  NotYetQueued'
BY DEF NotYetQueued

\* What Goto, Throws and Finish do to the execution slots.
Others(w) == \A v \in Workers \ {w} : worker'[v] = worker[v]

LEMMA GotoMoves ==
  ASSUME TypeOK, NEW w \in Workers, Busy(w), NEW x \in WorkStages, Goto(w, x)
  PROVE  /\ Others(w) /\ Busy(w)' /\ Of(w)' = Of(w)
         /\ worker'[w].at = x /\ worker'[w].occurrence = worker[w].occurrence
         /\ worker'[w].job = worker[w].job
<1>1. worker[w] \in [at : WorkStages, job : Jobs, occurrence : Nat, why : Reasons]
  BY BusyShape
<1>2. worker' = [worker EXCEPT ![w] = [worker[w] EXCEPT !.at = x]]
  BY Zenon DEF Goto
<1>3. worker'[w] = [worker[w] EXCEPT !.at = x] /\ Others(w)
  BY <1>2 DEF TypeOK, Others
<1>4. QED
  BY <1>1, <1>3 DEF Busy, Idle, Of, WorkStages

LEMMA ThrowsMoves ==
  ASSUME TypeOK, NEW w \in Workers, Busy(w), NEW y \in Reasons, Throws(w, y)
  PROVE  /\ Others(w) /\ Busy(w)' /\ Of(w)' = Of(w)
         /\ worker'[w].at = "fail" /\ worker'[w].job = worker[w].job
<1>1. worker[w] \in [at : WorkStages, job : Jobs, occurrence : Nat, why : Reasons]
  BY BusyShape
<1>2. worker' = [worker EXCEPT ![w] = [worker[w] EXCEPT !.at = "fail", !.why = y]]
  BY Zenon DEF Throws
<1>3. worker'[w] = [worker[w] EXCEPT !.at = "fail", !.why = y] /\ Others(w)
  BY <1>2 DEF TypeOK, Others
<1>4. QED
  BY <1>1, <1>3 DEF Busy, Idle, Of

LEMMA FinishMoves ==
  ASSUME TypeOK, NEW w \in Workers, Finish(w)
  PROVE  Others(w) /\ ~Busy(w)'
BY DEF TypeOK, Finish, Others, Busy

\* After each of them the execution of w, if it still runs, is about the same
\* schedule, and the other executions are as before.
LEMMA SameSchedules ==
  ASSUME NEW w \in Workers, Busy(w), Others(w), Busy(w)' => Of(w)' = Of(w)
  PROVE  \A v \in Workers : Busy(v)' => Busy(v) /\ Of(v)' = Of(v)
BY DEF Others, Busy, Of

\* A step of w that ends its execution, or leaves it out of the claim, and at
\* most takes the row out of SCHEDULED.
LEMMA Released ==
  ASSUME TypeOK, RunInv, NEW w \in Workers, Busy(w), Others(w),
         Busy(w)' => Of(w)' = Of(w) /\ worker'[w].at \notin {"load", "transfer", "close"},
         runs' = runs, creating' = creating,
         \A j \in waiting' : j \in waiting \/ j.schedule = Of(w),
         \A s \in Schedules : /\ row'[s].nextRunAt = row[s].nextRunAt
                              /\ row'[s].status = "SCHEDULED" => row[s].status = "SCHEDULED"
  PROVE  RunInv'
<1>1. NotYetQueued'
  <2>1. \A v \in Workers : Busy(v)' => Busy(v) /\ Of(v)' = Of(v)
    BY SameSchedules
  <2>2. \A s \in Schedules \ {Of(w)} : runs'[s] = runs[s]
    OBVIOUS
  <2>3. QED
    BY <2>1, <2>2, QueuedKept DEF RunInv
<1>2. \A v \in Workers, s \in Schedules : Running(v, s)' =>
        /\ Running(v, s)
        /\ worker'[v].at = worker[v].at /\ worker'[v].occurrence = worker[v].occurrence
  BY DEF Running, Others, Busy, Of
<1>3. QED
  BY <1>1, <1>2, Harmless

\* What SetStatus does to the rows.
LEMMA StatusSet ==
  ASSUME TypeOK, NEW s \in Schedules, NEW x, SetStatus(s, x)
  PROVE  \A t \in Schedules : /\ row'[t].nextRunAt = row[t].nextRunAt
                              /\ row'[t].status = IF t = s THEN x ELSE row[t].status
BY DEF SetStatus, TypeOK, Rows

LEMMA RequestStep ==
  ASSUME TypeOK, RunInv, NEW s \in Schedules,
         Serve(s) \/ BeginCreate(s) \/ BeginCancel(s) \/ CreateStops(s) \/ CancelStops(s)
  PROVE  RunInv'
<1>1. ASSUME worker' = worker, runs' = runs, NotYetQueued',
             \A t \in Schedules : /\ row'[t].nextRunAt = row[t].nextRunAt
                                  /\ row'[t].status = "SCHEDULED" => row[t].status = "SCHEDULED"
      PROVE  RunInv'
  BY <1>1, Harmless DEF Running, Busy, Of
<1>2. CASE BeginCreate(s) \/ CreateStops(s)
  <2>1. NotYetQueued'
    BY <1>2 DEF RunInv, NotYetQueued, BeginCreate, CreateStops, Busy, Of, TypeOK
  <2>2. QED
    BY <1>1, <1>2, <2>1 DEF BeginCreate, CreateStops
<1>3. CASE EnqueueFirst(s)
  <2>1. NotYetQueued'
    BY <1>3 DEF RunInv, NotYetQueued, EnqueueFirst, Busy, Of, TypeOK, NewJob
  <2>2. QED
    BY <1>1, <1>3, <2>1 DEF EnqueueFirst
<1>4. CASE BeginCancel(s) \/ CancelRow(s) \/ CancelStops(s)
  <2>1. NotYetQueued'
    BY <1>4 DEF RunInv, NotYetQueued, BeginCancel, CancelRow, CancelStops, Busy, Of
  <2>2. \/ row' = row
        \/ SetStatus(s, "CANCELLED")
    BY <1>4 DEF BeginCancel, CancelRow, CancelStops
  <2>3. \A t \in Schedules : /\ row'[t].nextRunAt = row[t].nextRunAt
                             /\ row'[t].status = "SCHEDULED" => row[t].status = "SCHEDULED"
    BY <2>2, StatusSet
  <2>4. QED
    BY <1>1, <1>4, <2>1, <2>3 DEF BeginCancel, CancelRow, CancelStops
<1>5. CASE CreateRow(s) \/ DeleteRow(s)
  <2>1. /\ worker' = worker /\ runs' = runs
        /\ \A t \in Schedules \ {s} : row'[t] = row[t]
        /\ row'[s].status = "SCHEDULED" => row'[s].nextRunAt = Start[s]
    BY <1>5 DEF CreateRow, DeleteRow, TypeOK, NoRow
  <2>2. runs[s] = << >> /\ \A w \in Workers : Busy(w) => Of(w) # s
    BY <1>5 DEF RunInv, NotYetQueued, CreateRow, DeleteRow
  <2>3. NotYetQueued'
    BY <1>5, <2>1 DEF RunInv, NotYetQueued, CreateRow, DeleteRow, Busy, Of, TypeOK
  <2>4. /\ \A t \in Schedules : NextDue(t)' = NextDue(t)
        /\ \A w \in Workers, t \in Schedules : Running(w, t)' => t # s /\ Running(w, t)
    BY <2>1, <2>2 DEF NextDue, Running, Busy, Of
  <2>5. OneExecutionAtATime' /\ InOrder'
    BY <2>1, <2>4 DEF RunInv, OneExecutionAtATime, InOrder
  <2>6. ClaimHeld' /\ OnSchedule'
    <3>1. NextDue(s) = Start[s]
      BY <2>2, Slots DEF NextDue
    <3>2. QED
      BY <2>1, <2>4, <3>1 DEF RunInv, ClaimHeld, OnSchedule
  <2>7. ExecutionFits'
    BY <2>1, <2>4 DEF RunInv, ExecutionFits
  <2>8. QED
    BY <2>3, <2>5, <2>6, <2>7 DEF RunInv
<1>6. QED
  BY <1>2, <1>3, <1>4, <1>5 DEF Serve

LEMMA QueueStep ==
  ASSUME TypeOK, RunInv, NEW w \in Workers, Deliver(w) \/ Stops(w) \/ LosesLock(w)
  PROVE  RunInv'
<1>1. CASE Deliver(w)
  <2>1. PICK j \in waiting :
          /\ waiting' = waiting \ {j}
          /\ worker' = [worker EXCEPT ![w] =
               [at |-> "claim", job |-> [j EXCEPT !.deliveries = @ + 1],
                occurrence |-> 0, why |-> "none"]]
    BY <1>1 DEF Deliver
  <2>2. j \in Jobs
    BY DEF TypeOK
  <2>3. Others(w) /\ worker'[w].at = "claim" /\ Of(w)' = j.schedule
    BY <2>1, <2>2 DEF Others, Of, TypeOK, Jobs
  <2>4. NotYetQueued'
    BY <1>1, <2>1, <2>3 DEF RunInv, NotYetQueued, Deliver, Others, Busy, Of
  <2>5. \A v \in Workers, s \in Schedules : Running(v, s)' =>
          /\ Running(v, s)
          /\ worker'[v].at = worker[v].at /\ worker'[v].occurrence = worker[v].occurrence
    BY <2>3 DEF Running, Others, Busy, Of
  <2>6. QED
    BY <1>1, <2>4, <2>5, Harmless DEF Deliver
<1>2. CASE Stops(w)
  <2>1. /\ Busy(w) /\ Others(w) /\ ~Busy(w)'
        /\ \A j \in waiting' : j \in waiting \/ j.schedule = Of(w)
    BY <1>2, FinishMoves DEF Stops, Of
  <2>2. QED
    BY <1>2, <2>1, Released DEF Stops
<1>3. CASE LosesLock(w)
  <2>1. worker[w] \in [at : WorkStages, job : Jobs, occurrence : Nat, why : Reasons]
    BY <1>3, BusyShape DEF LosesLock
  <2>2. worker' = [worker EXCEPT ![w] = [worker[w] EXCEPT !.job =
                     [worker[w].job EXCEPT !.deliveries = MaxDeliveries]]]
    BY <1>3, Zenon DEF LosesLock
  <2>3. /\ Others(w)
        /\ worker'[w] = [worker[w] EXCEPT !.job =
                           [worker[w].job EXCEPT !.deliveries = MaxDeliveries]]
    BY <2>2 DEF TypeOK, Others
  <2>4. /\ worker'[w].at = worker[w].at /\ worker'[w].occurrence = worker[w].occurrence
        /\ Of(w)' = Of(w)
    BY <2>1, <2>3 DEF Of, Jobs
  <2>5. Busy(w)
    BY <1>3 DEF LosesLock
  <2>6. NotYetQueued'
    <3>1. \A v \in Workers : Busy(v)' => Busy(v) /\ Of(v)' = Of(v)
      BY <2>3, <2>4, <2>5, SameSchedules
    <3>2. /\ creating' = creating /\ runs' = runs
          /\ \A j \in waiting' : j \in waiting \/ j.schedule = Of(w)
      BY <1>3 DEF LosesLock, Of
    <3>3. QED
      BY <2>5, <3>1, <3>2, QueuedKept DEF RunInv
  <2>7. \A v \in Workers, s \in Schedules : Running(v, s)' =>
          /\ Running(v, s)
          /\ worker'[v].at = worker[v].at /\ worker'[v].occurrence = worker[v].occurrence
    BY <2>3, <2>4, <2>5 DEF Running, Others, Busy, Of
  <2>8. QED
    BY <1>3, <2>6, <2>7, Harmless DEF LosesLock
<1>4. QED
  BY <1>1, <1>2, <1>3

\* A claim: the row leaves SCHEDULED, so no other execution holds one.
LEMMA ClaimStep ==
  ASSUME TypeOK, RunInv, NEW w \in Workers, Claim(w)
  PROVE  RunInv'
<1> DEFINE s == Of(w)
<1>1. Busy(w) /\ s \in Schedules
  BY BusyShape DEF Claim, At
<1>2. CASE row[s].status # "SCHEDULED"
  <2>1. Finish(w) /\ row' = row
    BY <1>2 DEF Claim
  <2>2. Others(w) /\ ~Busy(w)'
    BY <2>1, FinishMoves
  <2>3. QED
    BY <1>1, <2>1, <2>2, Released DEF Claim
<1>3. CASE row[s].status = "SCHEDULED"
  <2>1. Goto(w, "load") /\ SetStatus(s, "PROCESSING")
    BY <1>3 DEF Claim
  <2>2. /\ Others(w) /\ Busy(w)' /\ Of(w)' = s /\ worker'[w].at = "load"
    BY <1>1, <2>1, GotoMoves DEF WorkStages
  <2>3. \A t \in Schedules : /\ row'[t].nextRunAt = row[t].nextRunAt
                             /\ row'[t].status = IF t = s THEN "PROCESSING" ELSE row[t].status
    BY <1>1, <2>1, StatusSet
  <2>4. /\ runs' = runs /\ creating' = creating /\ waiting' = waiting
        /\ \A t \in Schedules : NextDue(t)' = NextDue(t)
    BY DEF Claim, NextDue
  <2>5. NotYetQueued'
    <3>1. \A v \in Workers : Busy(v)' => Busy(v) /\ Of(v)' = Of(v)
      BY <1>1, <2>2, SameSchedules
    <3>2. QED
      BY <1>1, <2>4, <3>1, QueuedKept DEF RunInv
  <2>6. /\ \A v \in Workers : ~Running(v, s)
        /\ \A v \in Workers, t \in Schedules : v # w =>
             /\ Running(v, t)' <=> Running(v, t)
             /\ worker'[v] = worker[v]
        /\ \A t \in Schedules : Running(w, t)' <=> t = s
    BY <1>1, <1>3, <2>2 DEF RunInv, ClaimHeld, Running, Others, Busy, Of
  <2>7. OneExecutionAtATime' /\ InOrder'
    BY <2>4, <2>6 DEF RunInv, OneExecutionAtATime, InOrder
  <2>8. ClaimHeld' /\ OnSchedule'
    BY <2>3, <2>4, <2>6 DEF RunInv, ClaimHeld, OnSchedule
  <2>9. ExecutionFits'
    BY <1>1, <1>3, <2>2, <2>3, <2>4, <2>6 DEF RunInv, ExecutionFits, OnSchedule
  <2>10. QED
    BY <2>5, <2>7, <2>8, <2>9 DEF RunInv
<1>4. QED
  BY <1>2, <1>3

\* A step inside the claim: only w runs s, so the others do not notice.
LEMMA OnlyRunner ==
  ASSUME RunInv, NEW w \in Workers, NEW s \in Schedules, Running(w, s), Others(w),
         Busy(w)' => Of(w)' = Of(w)
  PROVE  /\ \A v \in Workers, t \in Schedules : v # w =>
              /\ Running(v, t)' <=> Running(v, t)
              /\ Running(v, t) => t # s
              /\ worker'[v] = worker[v]
         /\ \A t \in Schedules : Running(w, t)' => t = s
BY DEF RunInv, OneExecutionAtATime, Running, Others, Busy, Of

LEMMA LoadStep ==
  ASSUME TypeOK, RunInv, NEW w \in Workers, Load(w)
  PROVE  RunInv'
<1> DEFINE s == Of(w)
<1>1. Busy(w) /\ s \in Schedules /\ Running(w, s) /\ worker[w].at = "load"
  BY BusyShape DEF Load, At, Running
<1>2. worker[w] \in [at : WorkStages, job : Jobs, occurrence : Nat, why : Reasons]
  BY <1>1, BusyShape
<1>3. worker' = [worker EXCEPT ![w] =
        [worker[w] EXCEPT !.at = "transfer", !.occurrence = row[s].nextRunAt]]
  BY Zenon DEF Load
<1>4. /\ Others(w)
      /\ worker'[w] = [worker[w] EXCEPT !.at = "transfer", !.occurrence = row[s].nextRunAt]
  BY <1>3 DEF TypeOK, Others
<1>5. /\ worker'[w].at = "transfer" /\ worker'[w].occurrence = row[s].nextRunAt
      /\ Busy(w)' /\ Of(w)' = s
  BY <1>2, <1>4 DEF Of, Busy, Idle
<1>6. /\ runs' = runs /\ creating' = creating /\ waiting' = waiting /\ row' = row
      /\ \A t \in Schedules : NextDue(t)' = NextDue(t)
  BY DEF Load, NextDue
<1>7. NotYetQueued'
  <2>1. \A v \in Workers : Busy(v)' => Busy(v) /\ Of(v)' = Of(v)
    BY <1>1, <1>4, <1>5, SameSchedules
  <2>2. QED
    BY <1>1, <1>6, <2>1, QueuedKept DEF RunInv
<1>8. /\ \A v \in Workers, t \in Schedules : v # w =>
           /\ Running(v, t)' <=> Running(v, t)
           /\ Running(v, t) => t # s
           /\ worker'[v] = worker[v]
      /\ \A t \in Schedules : Running(w, t)' => t = s
  BY <1>1, <1>4, <1>5, OnlyRunner
<1>9. OneExecutionAtATime' /\ InOrder'
  BY <1>6, <1>8 DEF RunInv, OneExecutionAtATime, InOrder
<1>10. ClaimHeld' /\ OnSchedule'
  BY <1>1, <1>6, <1>8 DEF RunInv, ClaimHeld, OnSchedule
<1>11. ExecutionFits'
  BY <1>1, <1>5, <1>6, <1>8 DEF RunInv, ExecutionFits
<1>12. QED
  BY <1>7, <1>9, <1>10, <1>11 DEF RunInv

LEMMA Appended ==
  ASSUME NEW q \in Seq(Nat), NEW d \in Nat
  PROVE  /\ Len(Append(q, d)) = Len(q) + 1 /\ Len(q) \in Nat
         /\ Append(q, d)[Len(q) + 1] = d
         /\ \A i \in 1..Len(q) : Append(q, d)[i] = q[i] /\ q[i] \in Nat
OBVIOUS

LEMMA TransferStep ==
  ASSUME TypeOK, RunInv, NEW w \in Workers, Transfer(w)
  PROVE  RunInv'
<1> DEFINE s == Of(w)
<1> DEFINE day == worker[w].occurrence
<1>1. Busy(w) /\ s \in Schedules /\ Running(w, s) /\ worker[w].at = "transfer" /\ day \in Nat
  BY BusyShape DEF Transfer, At, Running
<1>2. /\ row' = row /\ creating' = creating /\ waiting' = waiting
  BY DEF Transfer
<1>3. CASE runs' = runs /\ \E why \in {"rejected", "mfa", "error"} : Throws(w, why)
  <2>1. Others(w) /\ Busy(w)' /\ Of(w)' = Of(w) /\ worker'[w].at = "fail"
    BY <1>1, <1>3, ThrowsMoves DEF Reasons
  <2>2. QED
    BY <1>1, <1>2, <1>3, <2>1, Released
<1>4. CASE /\ runs' = [runs EXCEPT ![s] = Append(runs[s], day)]
           /\ Goto(w, "close") \/ Throws(w, "error")
  <2>1. /\ Others(w) /\ Of(w)' = s /\ Busy(w)'
        /\ \/ worker'[w].at = "close" /\ worker'[w].occurrence = day
           \/ worker'[w].at = "fail"
    BY <1>1, <1>4, GotoMoves, ThrowsMoves DEF WorkStages, Reasons
  <2>2. runs[s] \in Seq(Nat)
    BY <1>1 DEF TypeOK
  <2>3. /\ Len(runs'[s]) = Len(runs[s]) + 1 /\ Len(runs[s]) \in Nat
        /\ runs'[s][Len(runs[s]) + 1] = day
        /\ \A k \in 1..Len(runs[s]) : runs'[s][k] = runs[s][k]
        /\ \A t \in Schedules \ {s} : runs'[t] = runs[t]
    <3>1. runs'[s] = Append(runs[s], day) /\ \A t \in Schedules \ {s} : runs'[t] = runs[t]
      BY <1>1, <1>4, <2>2 DEF TypeOK
    <3>2. QED
      BY <1>1, <2>2, <3>1, Appended
  <2>4. \A t \in Schedules \ {s} : NextDue(t)' = NextDue(t)
    BY <2>3 DEF NextDue
  <2>5. NotYetQueued'
    <3>1. \A v \in Workers : Busy(v)' => Busy(v) /\ Of(v)' = Of(v)
      BY <1>1, <2>1, SameSchedules
    <3>2. \A j \in waiting' : j \in waiting \/ j.schedule = Of(w)
      BY <1>2
    <3>3. QED
      BY <1>1, <1>2, <2>3, <3>1, <3>2, QueuedKept DEF RunInv
  <2>6. /\ \A v \in Workers, t \in Schedules : v # w =>
             /\ Running(v, t)' <=> Running(v, t)
             /\ Running(v, t) => t # s
             /\ worker'[v] = worker[v]
        /\ \A t \in Schedules : Running(w, t)' => t = s
    BY <1>1, <2>1, OnlyRunner
  <2>7. OneExecutionAtATime'
    BY <2>6 DEF RunInv, OneExecutionAtATime
  <2>8. InOrder'
    <3>1. day = NextDue(s)
      BY <1>1 DEF RunInv, ExecutionFits
    <3>2. \A k \in 1..Len(runs'[s]) : runs'[s][k] = Slot(s, k - 1)
      BY <1>1, <2>3, <3>1 DEF RunInv, InOrder, NextDue
    <3>3. QED
      BY <2>3, <3>2 DEF RunInv, InOrder
  <2>9. ClaimHeld' /\ OnSchedule'
    BY <1>1, <1>2, <2>4, <2>6 DEF RunInv, ClaimHeld, OnSchedule
  <2>10. ExecutionFits'
    <3>1. ASSUME NEW v \in Workers \ {w}, NEW t \in Schedules, Running(v, t)'
          PROVE  Running(v, t) /\ t # s /\ worker'[v] = worker[v]
      BY <2>6, <3>1
    <3>2. ASSUME NEW t \in Schedules, Running(w, t)'
          PROVE  /\ t = s /\ worker'[w].at = "close" /\ Len(runs'[t]) > 0
                 /\ worker'[w].occurrence = Slot(t, Len(runs'[t]) - 1)
      <4>1. t = s /\ worker'[w].at = "close" /\ worker'[w].occurrence = day
        BY <2>1, <2>6, <3>2 DEF Running
      <4>2. day = Slot(s, Len(runs[s])) /\ Len(runs'[s]) - 1 = Len(runs[s])
        BY <1>1, <2>3 DEF RunInv, ExecutionFits, NextDue
      <4>3. QED
        BY <2>3, <4>1, <4>2
    <3>3. ASSUME NEW v \in Workers, NEW t \in Schedules, Running(v, t)'
          PROVE  /\ worker'[v].at \in {"load", "transfer"} => row'[t].nextRunAt = NextDue(t)'
                 /\ worker'[v].at = "transfer" => worker'[v].occurrence = row'[t].nextRunAt
                 /\ worker'[v].at = "close" =>
                      Len(runs'[t]) > 0 /\ worker'[v].occurrence = Slot(t, Len(runs'[t]) - 1)
      <4>1. CASE v = w
        BY <3>2, <3>3, <4>1
      <4>2. CASE v # w
        BY <1>2, <2>3, <2>4, <3>1, <3>3, <4>2 DEF RunInv, ExecutionFits
      <4>3. QED
        BY <4>1, <4>2
    <3>4. QED
      BY <3>3 DEF ExecutionFits
  <2>11. QED
    BY <2>5, <2>7, <2>8, <2>9, <2>10 DEF RunInv
<1>5. QED
  BY <1>3, <1>4 DEF Transfer

LEMMA CloseStep ==
  ASSUME TypeOK, RunInv, NEW w \in Workers, Close(w)
  PROVE  RunInv'
<1> DEFINE s == Of(w)
<1>1. Busy(w) /\ s \in Schedules /\ Running(w, s) /\ worker[w].at = "close"
  BY BusyShape DEF Close, At, Running
<1>2. /\ runs' = runs /\ creating' = creating /\ waiting' = waiting
      /\ \A j \in waiting' : j \in waiting \/ j.schedule = Of(w)
  BY DEF Close
<1>3. CASE (SetStatus(s, "COMPLETED") /\ Finish(w)) \/ (Throws(w, "error") /\ row' = row)
  <2>1. \A t \in Schedules : /\ row'[t].nextRunAt = row[t].nextRunAt
                             /\ row'[t].status = "SCHEDULED" => row[t].status = "SCHEDULED"
    BY <1>1, <1>3, StatusSet
  <2>2. Others(w) /\ (Busy(w)' => Of(w)' = Of(w) /\ worker'[w].at = "fail")
    BY <1>1, <1>3, FinishMoves, ThrowsMoves DEF Reasons
  <2>3. QED
    BY <1>1, <1>2, <2>1, <2>2, Released
<1>4. CASE /\ row' = [row EXCEPT ![s].status = "SCHEDULED", ![s].nextRunAt = NextRun(w)]
           /\ Goto(w, "enqueue")
  <2>1. /\ Others(w) /\ Busy(w)' /\ Of(w)' = Of(w) /\ worker'[w].at = "enqueue"
    BY <1>1, <1>4, GotoMoves DEF WorkStages
  <2>2. /\ row'[s].nextRunAt = NextRun(w)
        /\ \A t \in Schedules \ {s} : row'[t] = row[t]
    BY <1>1, <1>4 DEF TypeOK, Rows
  <2>3. \A t \in Schedules : NextDue(t)' = NextDue(t)
    BY <1>2 DEF NextDue
  <2>4. NextRun(w) = NextDue(s)
    <3>1. PICK n \in Nat : n + 1 = Len(runs[s]) /\ worker[w].occurrence = Slot(s, n)
      <4>1. Len(runs[s]) \in Nat
        BY <1>1 DEF TypeOK
      <4>2. Len(runs[s]) > 0 /\ worker[w].occurrence = Slot(s, Len(runs[s]) - 1)
        BY <1>1 DEF RunInv, ExecutionFits
      <4>3. Len(runs[s]) - 1 \in Nat /\ (Len(runs[s]) - 1) + 1 = Len(runs[s])
        BY <4>1, <4>2
      <4>4. QED
        BY <4>2, <4>3
    <3>2. QED
      BY <1>1, <3>1, Slots DEF NextRun, NextDue
  <2>5. /\ \A v \in Workers, t \in Schedules : v # w =>
             /\ Running(v, t)' <=> Running(v, t)
             /\ Running(v, t) => t # s
             /\ worker'[v] = worker[v]
        /\ \A t \in Schedules : ~Running(w, t)'
    BY <1>1, <2>1, OnlyRunner DEF Running
  <2>6. NotYetQueued'
    <3>1. \A v \in Workers : Busy(v)' => Busy(v) /\ Of(v)' = Of(v)
      BY <1>1, <2>1, SameSchedules
    <3>2. QED
      BY <1>1, <1>2, <3>1, QueuedKept DEF RunInv
  <2>7. OneExecutionAtATime' /\ InOrder'
    BY <1>2, <2>5 DEF RunInv, OneExecutionAtATime, InOrder
  <2>8. ClaimHeld' /\ OnSchedule'
    BY <2>2, <2>3, <2>4, <2>5 DEF RunInv, ClaimHeld, OnSchedule
  <2>9. ExecutionFits'
    BY <1>2, <2>2, <2>3, <2>5 DEF RunInv, ExecutionFits
  <2>10. QED
    BY <2>6, <2>7, <2>8, <2>9 DEF RunInv
<1>5. QED
  BY <1>3, <1>4 DEF Close

\* The end of an execution: adding the next job, marking the row FAILED, notifying.
LEMMA EndStep ==
  ASSUME TypeOK, RunInv, NEW w \in Workers, EnqueueNextRun(w) \/ MarkFailed(w) \/ Notify(w)
  PROVE  RunInv'
<1>1. /\ Busy(w) /\ Of(w) \in Schedules
      /\ worker[w].at \in {"enqueue", "fail", "notify"}
  BY BusyShape DEF EnqueueNextRun, MarkFailed, Notify, At
<1>2. runs' = runs /\ creating' = creating
  BY DEF EnqueueNextRun, MarkFailed, Notify
<1>3. \A j \in waiting' : j \in waiting \/ j.schedule = Of(w)
  BY DEF EnqueueNextRun, MarkFailed, Notify, NewJob
<1>4. \A t \in Schedules : /\ row'[t].nextRunAt = row[t].nextRunAt
                           /\ row'[t].status = "SCHEDULED" => row[t].status = "SCHEDULED"
  <2>1. CASE MarkFailed(w)
    BY <1>1, <2>1 DEF MarkFailed, TypeOK, Rows
  <2>2. QED
    BY <2>1 DEF EnqueueNextRun, Notify
<1>5. /\ Others(w)
      /\ Busy(w)' => Of(w)' = Of(w) /\ worker'[w].at \in {"fail", "notify"}
  BY <1>1, GotoMoves, ThrowsMoves, FinishMoves
     DEF EnqueueNextRun, MarkFailed, Notify, WorkStages, Reasons
<1>6. QED
  BY <1>1, <1>2, <1>3, <1>4, <1>5, Released

LEMMA RunStep == TypeOK /\ RunInv /\ [Next]_vars => RunInv'
<1> SUFFICES ASSUME TypeOK, RunInv, [Next]_vars PROVE RunInv'
  OBVIOUS
<1>1. CASE UNCHANGED vars \/ Tick
  <2>1. UNCHANGED <<row, runs, waiting, creating, worker>>
    BY <1>1 DEF vars, Tick
  <2>2. NotYetQueued'
    BY <2>1 DEF RunInv, NotYetQueued, Busy, Of
  <2>3. QED
    BY <2>1, <2>2, Harmless DEF Running, Busy, Of
<1>2. ASSUME NEW w \in Workers, Work(w) PROVE RunInv'
  BY <1>2, ClaimStep, LoadStep, TransferStep, CloseStep, EndStep DEF Work
<1>3. QED
  BY <1>1, <1>2, RequestStep, QueueStep DEF Next

\* OneExecutionAtATime (ScheduledTransferWorker's claim): however often BullMQ
\* hands out a job, one execution at most is between its claim and its close.
THEOREM SchedOneExecution == Spec => []OneExecutionAtATime
<1>1. Init => TypeOK /\ RunInv
  BY InitTypes, InitRuns
<1>2. TypeOK /\ RunInv /\ [Next]_vars => (TypeOK /\ RunInv)'
  BY TypeStep, RunStep
<1>3. TypeOK /\ RunInv => OneExecutionAtATime
  BY DEF RunInv
<1>4. QED
  BY <1>1, <1>2, <1>3, PTL DEF Spec

-----------------------------------------------------------------------------
(* Cancellation.                                                           *)

\* A step of one execution leaves the other schedules alone, and one that is
\* still before its claim, or past its end, leaves a CANCELLED row alone too.
LEMMA CancelledRowStays ==
  ASSUME TypeOK, [Next]_vars, NEW s \in Schedules, row[s].status = "CANCELLED",
         ~Claimed(s), creating[s] \in {"done", "failed"}
  PROVE  row'[s] = row[s] /\ runs'[s] = runs[s]
<1>1. ASSUME NEW t \in Schedules, CreateRow(t) \/ DeleteRow(t)
      PROVE  row'[s] = row[s] /\ runs'[s] = runs[s]
  BY <1>1 DEF CreateRow, DeleteRow, TypeOK
<1>2. ASSUME NEW t \in Schedules, CancelRow(t)
      PROVE  row'[s] = row[s] /\ runs'[s] = runs[s]
  BY <1>2 DEF CancelRow, SetStatus, TypeOK, Rows
<1>3. ASSUME NEW w \in Workers, Work(w), Of(w) = s
      PROVE  row'[s] = row[s] /\ runs'[s] = runs[s]
  BY <1>3 DEF Work, Claim, Load, Transfer, Close, EnqueueNextRun, MarkFailed, Notify, At, Claimed
<1>4. ASSUME NEW w \in Workers, Work(w), Of(w) # s
      PROVE  row'[s] = row[s] /\ runs'[s] = runs[s]
  BY <1>4 DEF Work, Claim, Load, Transfer, Close, EnqueueNextRun, MarkFailed, Notify,
     SetStatus, TypeOK
<1>5. CASE \/ UNCHANGED vars \/ Tick
           \/ \E t \in Schedules : EnqueueFirst(t) \/ BeginCreate(t) \/ BeginCancel(t)
                                     \/ CreateStops(t) \/ CancelStops(t)
           \/ \E w \in Workers : Deliver(w) \/ Stops(w) \/ LosesLock(w)
  BY <1>5 DEF vars, Tick, EnqueueFirst, BeginCreate, BeginCancel, CreateStops, CancelStops,
     Deliver, Stops, LosesLock
<1>6. QED
  BY <1>1, <1>2, <1>3, <1>4, <1>5 DEF Next, Serve

\* CancelledIsNoOp (cancel's comment): a job that fires after the cancellation
\* changes neither the row nor the ledger.
THEOREM SchedCancelled == Spec => CancelledIsNoOp
<1>1. TypeOK /\ [Next]_vars =>
        [\A s \in Schedules :
           (row[s].status = "CANCELLED" /\ ~Claimed(s) /\ creating[s] \in {"done", "failed"})
             => row'[s] = row[s] /\ runs'[s] = runs[s]]_<<row, runs>>
  BY CancelledRowStays
<1>2. QED
  BY <1>1, InitTypes, TypeStep, PTL DEF Spec, CancelledIsNoOp

-----------------------------------------------------------------------------
(* Schedules no fault has hit.  The invariant: such a schedule has at most *)
(* one token, a job in the queue or an execution, and none before create() *)
(* has added the first job; the row's status says where the token is.      *)

JobsOf(s) == {j \in waiting : j.schedule = s}
On(w, s) == Busy(w) /\ Of(w) = s

NotCreated(s) == creating[s] \in {"todo", "create", "failed"} =>
  row[s].status = "ABSENT" /\ JobsOf(s) = {} /\ \A w \in Workers : ~On(w, s)

OneToken(s) ==
  /\ \A i, j \in JobsOf(s) : i = j
  /\ \A v, w \in Workers : On(v, s) /\ On(w, s) => v = w
  /\ \A w \in Workers : On(w, s) => JobsOf(s) = {}

ScheduledFits(s) == row[s].status = "SCHEDULED" =>
  \/ creating[s] \in {"enqueue", "delete"}
  \/ \E j \in JobsOf(s) : j.due = row[s].nextRunAt
  \/ \E w \in Workers : On(w, s) /\ worker[w].at \in {"claim", "enqueue", "fail"}

StageFits(s) == \A w \in Workers : On(w, s) =>
  /\ worker[w].at = "enqueue" => NextRun(w) = row[s].nextRunAt
  /\ worker[w].at = "notify" => row[s].status # "SCHEDULED"

Sound(s) == NotCreated(s) /\ OneToken(s) /\ ScheduledFits(s) /\ StageFits(s)

LEMMA InitSound ==
  ASSUME Init, NEW s \in Schedules PROVE Sound(s)
BY DEF Init, Sound, NotCreated, OneToken, ScheduledFits, StageFits, JobsOf, On,
   Busy, NoRow

\* A step that is about other schedules.
LEMMA Unmoved ==
  ASSUME NEW s \in Schedules, Sound(s),
         row'[s] = row[s], runs'[s] = runs[s], creating'[s] = creating[s],
         JobsOf(s)' = JobsOf(s),
         \A w \in Workers : On(w, s)' => On(w, s) /\ worker'[w] = worker[w],
         \A w \in Workers : On(w, s) => On(w, s)'
  PROVE  Sound(s)'
<1>2. NotCreated(s)' /\ OneToken(s)' /\ ScheduledFits(s)'
  BY DEF Sound, NotCreated, OneToken, ScheduledFits
<1>3. StageFits(s)'
  BY DEF Sound, StageFits, NextRun, Of, On
<1>4. QED
  BY <1>2, <1>3 DEF Sound

\* create() and cancel() of any schedule t; only a crash of create() hits it.
LEMMA RequestKeeps ==
  ASSUME TypeOK, RunInv, NEW s \in Schedules, Sound(s), NEW t \in Schedules,
         Serve(t) \/ BeginCreate(t) \/ BeginCancel(t) \/ CreateStops(t) \/ CancelStops(t),
         ~CreateStops(s)
  PROVE  Sound(s)'
<1>1. /\ worker' = worker /\ runs' = runs
      /\ NextDue(s)' = NextDue(s)
      /\ \A w \in Workers : On(w, s)' <=> On(w, s)
  BY DEF Serve, BeginCreate, BeginCancel, CreateStops, CancelStops, CreateRow, EnqueueFirst,
     DeleteRow, CancelRow, NextDue, On, Busy, Of
<1>2. CASE t # s
  <2>1. row'[s] = row[s] /\ creating'[s] = creating[s]
    BY <1>2 DEF Serve, BeginCreate, BeginCancel, CreateStops, CancelStops, CreateRow,
       EnqueueFirst, DeleteRow, CancelRow, SetStatus, TypeOK
  <2>2. JobsOf(s)' = JobsOf(s)
    BY <1>2 DEF Serve, BeginCreate, BeginCancel, CreateStops, CancelStops, CreateRow,
       EnqueueFirst, DeleteRow, CancelRow, JobsOf, NewJob
  <2>3. QED
    BY <1>1, <2>1, <2>2, Unmoved
<1>3. CASE BeginCreate(s) \/ BeginCancel(s) \/ CancelStops(s)
  <2>1. row' = row /\ JobsOf(s)' = JobsOf(s)
    BY <1>1, <1>3 DEF BeginCreate, BeginCancel, CancelStops, JobsOf
  <2>2. creating'[s] = creating[s] \/ (creating[s] = "todo" /\ creating'[s] = "create")
    BY <1>3 DEF BeginCreate, BeginCancel, CancelStops, TypeOK
  <2>3. NotCreated(s)' /\ OneToken(s)' /\ ScheduledFits(s)'
    BY <1>1, <2>1, <2>2 DEF Sound, NotCreated, OneToken, ScheduledFits
  <2>4. StageFits(s)'
    BY <1>1, <2>1 DEF Sound, StageFits, NextRun, Of
  <2>5. QED
    BY <2>3, <2>4 DEF Sound
<1>4. CASE CreateRow(s) \/ EnqueueFirst(s) \/ DeleteRow(s)
  <2>1. /\ runs[s] = << >> /\ JobsOf(s) = {} /\ \A w \in Workers : ~On(w, s)'
    BY <1>1, <1>4 DEF RunInv, NotYetQueued, CreateRow, EnqueueFirst, DeleteRow, JobsOf, On
  <2>2. CASE CreateRow(s)
    <3>1. /\ row'[s] = [status |-> "SCHEDULED", nextRunAt |-> Start[s], failureReason |-> "none"]
          /\ creating'[s] = "enqueue" /\ JobsOf(s)' = {}
      BY <2>1, <2>2 DEF CreateRow, TypeOK, JobsOf
    <3>2. QED
      BY <1>1, <2>1, <3>1 DEF Sound, NotCreated, OneToken, ScheduledFits, StageFits
  <2>3. CASE DeleteRow(s)
    <3>1. row'[s] = NoRow /\ JobsOf(s)' = {}
      BY <2>1, <2>3 DEF DeleteRow, TypeOK, JobsOf
    <3>2. QED
      BY <1>1, <2>1, <3>1 DEF Sound, NotCreated, OneToken, ScheduledFits, StageFits, NoRow
  <2>4. CASE EnqueueFirst(s)
    <3>1. row' = row
      BY <2>4 DEF EnqueueFirst
    <3>2. \/ creating'[s] = "done" /\ JobsOf(s)' = {NewJob(s, Start[s])}
          \/ creating'[s] = "delete" /\ JobsOf(s)' = {}
      BY <2>1, <2>4 DEF EnqueueFirst, TypeOK, JobsOf, NewJob
    <3>3. NewJob(s, Start[s]).due = Start[s] 
      BY DEF NewJob
    <3>4. row[s].status = "SCHEDULED" => row[s].nextRunAt = Start[s]
      BY <2>1, Slots DEF RunInv, OnSchedule, NextDue
    <3>5. QED
      BY <2>1, <3>1, <3>2, <3>3, <3>4 DEF Sound, NotCreated, OneToken, ScheduledFits,
         StageFits
  <2>5. QED
    BY <1>4, <2>2, <2>3, <2>4
<1>5. CASE CancelRow(s)
  <2>1. /\ row' = row \/ (row[s].status # "ABSENT" /\ SetStatus(s, "CANCELLED"))
        /\ creating' = creating /\ JobsOf(s)' = JobsOf(s)
    BY <1>5 DEF CancelRow, JobsOf
  <2>2. /\ row'[s].nextRunAt = row[s].nextRunAt
        /\ \/ row'[s].status = row[s].status
           \/ row[s].status # "ABSENT" /\ row'[s].status = "CANCELLED"
    BY <2>1, StatusSet
  <2>4. NotCreated(s)' /\ OneToken(s)' /\ ScheduledFits(s)'
    BY <1>1, <2>1, <2>2 DEF Sound, NotCreated, OneToken, ScheduledFits
  <2>5. StageFits(s)'
    BY <1>1, <2>2 DEF Sound, StageFits, NextRun, Of
  <2>6. QED
    BY <2>4, <2>5 DEF Sound
<1>6. QED
  BY <1>2, <1>3, <1>4, <1>5 DEF Serve

\* A step of an execution, or of the queue about it, of another schedule.
LEMMA OtherToken ==
  ASSUME NEW s \in Schedules, Sound(s), NEW w \in Workers, Busy(w), Of(w) # s,
         Others(w), Busy(w)' => Of(w)' = Of(w),
         row'[s] = row[s], runs'[s] = runs[s], creating' = creating, JobsOf(s)' = JobsOf(s)
  PROVE  Sound(s)'
<1>1. \A v \in Workers : On(v, s)' <=> On(v, s) /\ v # w
  BY DEF Others, On, Busy, Of
<1>2. \A v \in Workers : On(v, s) => v # w
  BY DEF On
<1>3. QED
  BY <1>1, <1>2, Unmoved DEF Others

LEMMA QueueKeeps ==
  ASSUME TypeOK, RunInv, NEW s \in Schedules, Sound(s), NEW w \in Workers,
         Deliver(w) \/ ((Stops(w) \/ LosesLock(w)) /\ Of(w) # s)
  PROVE  Sound(s)'
<1>1. row' = row /\ runs' = runs /\ creating' = creating
  BY DEF Deliver, Stops, LosesLock
<1>2. CASE Deliver(w)
  <2>1. PICK j \in waiting :
          /\ waiting' = waiting \ {j}
          /\ worker' = [worker EXCEPT ![w] =
               [at |-> "claim", job |-> [j EXCEPT !.deliveries = @ + 1],
                occurrence |-> 0, why |-> "none"]]
    BY <1>2 DEF Deliver
  <2>2. j \in Jobs /\ ~Busy(w)
    BY <1>2 DEF TypeOK, Deliver
  <2>3. Others(w) /\ worker'[w].at = "claim" /\ Of(w)' = j.schedule /\ Busy(w)'
    BY <2>1, <2>2 DEF Others, Of, TypeOK, Jobs, Busy, Idle
  <2>4. \A v \in Workers \ {w} : On(v, s)' = On(v, s) /\ worker'[v] = worker[v]
    BY <2>3 DEF Others, On, Busy, Of
  <2>5. CASE j.schedule # s
    <3>1. JobsOf(s)' = JobsOf(s) /\ ~On(w, s) /\ ~On(w, s)'
      BY <2>1, <2>2, <2>3, <2>5 DEF JobsOf, On
    <3>2. QED
      BY <1>1, <2>4, <3>1, Unmoved
  <2>6. CASE j.schedule = s
    <3>1. JobsOf(s) = {j} /\ JobsOf(s)' = {} /\ \A v \in Workers : ~On(v, s)
      BY <2>1, <2>6 DEF Sound, OneToken, JobsOf
    <3>2. On(w, s)' /\ \A v \in Workers : On(v, s)' => v = w
      BY <2>3, <2>4, <2>6, <3>1 DEF On
    <3>3. NotCreated(s)' /\ OneToken(s)'
      BY <1>1, <3>1, <3>2 DEF Sound, NotCreated, OneToken
    <3>4. ScheduledFits(s)'
      BY <1>1, <2>3, <3>2 DEF Sound, ScheduledFits
    <3>5. StageFits(s)'
      BY <2>3, <3>2 DEF StageFits
    <3>6. QED
      BY <3>3, <3>4, <3>5 DEF Sound
  <2>7. QED
    BY <2>5, <2>6
<1>3. CASE (Stops(w) \/ LosesLock(w)) /\ Of(w) # s
  <2>1. Busy(w) /\ worker[w] \in [at : WorkStages, job : Jobs, occurrence : Nat, why : Reasons]
    BY <1>3, BusyShape DEF Stops, LosesLock
  <2>2. Others(w)
    BY <1>3 DEF Stops, LosesLock, Finish, Others, TypeOK
  <2>3. Busy(w)' => Of(w)' = Of(w)
    <3>1. CASE Stops(w)
      BY <3>1, FinishMoves DEF Stops
    <3>2. CASE LosesLock(w)
      <4>1. worker' = [worker EXCEPT ![w] = [worker[w] EXCEPT !.job =
                         [worker[w].job EXCEPT !.deliveries = MaxDeliveries]]]
        BY <3>2, Zenon DEF LosesLock
      <4>2. QED
        BY <2>1, <4>1 DEF TypeOK, Of, Jobs
    <3>3. QED
      BY <1>3, <3>1, <3>2
  <2>4. JobsOf(s)' = JobsOf(s)
    BY <1>3 DEF Stops, LosesLock, JobsOf, Of
  <2>5. QED
    BY <1>1, <1>3, <2>1, <2>2, <2>3, <2>4, OtherToken
<1>4. QED
  BY <1>2, <1>3

\* While an execution has the token there is no job and no other execution.
LEMMA Alone ==
  ASSUME TypeOK, RunInv, NEW s \in Schedules, Sound(s), NEW w \in Workers, On(w, s),
         Others(w), creating' = creating
  PROVE  /\ JobsOf(s) = {} /\ \A v \in Workers : On(v, s)' => v = w
         /\ creating'[s] = "done" /\ NotCreated(s)'
<1>1. JobsOf(s) = {} /\ \A v \in Workers : On(v, s)' => v = w
  BY DEF Sound, OneToken, On, Others, Busy, Of
<1>2. creating[s] \notin {"todo", "create", "failed"}
  BY DEF Sound, NotCreated
<1>3. creating[s] \notin {"enqueue", "delete"}
  BY DEF RunInv, NotYetQueued, On
<1>4. creating[s] = "done"
  BY <1>2, <1>3 DEF TypeOK, CreateStages
<1>5. QED
  BY <1>1, <1>4 DEF NotCreated

\* The execution of s ends, and its row is not SCHEDULED.
LEMMA TokenEnds ==
  ASSUME TypeOK, RunInv, NEW s \in Schedules, Sound(s), NEW w \in Workers, On(w, s),
         Finish(w), creating' = creating, waiting' = waiting,
         row'[s].status # "SCHEDULED"
  PROVE  Sound(s)'
<1>1. Others(w) /\ ~Busy(w)'
  BY FinishMoves
<1>2. JobsOf(s)' = {} /\ (\A v \in Workers : ~On(v, s)') /\ NotCreated(s)'
  BY <1>1, Alone DEF JobsOf, On
<1>3. QED
  BY <1>2 DEF Sound, OneToken, ScheduledFits, StageFits

\* The worker, whatever throws in it, leaves the token where the row's status says
\* it is.
LEMMA WorkKeeps ==
  ASSUME TypeOK, RunInv, NEW s \in Schedules, Sound(s), NEW w \in Workers, Work(w)
  PROVE  Sound(s)'
<1>1. /\ Busy(w) /\ Of(w) \in Schedules /\ worker[w].occurrence \in Nat
      /\ worker[w] \in [at : WorkStages, job : Jobs, occurrence : Nat, why : Reasons]
  BY BusyShape DEF Work, Claim, Load, Transfer, Close, EnqueueNextRun, MarkFailed, Notify, At
<1>2. /\ creating' = creating
      /\ waiting' = waiting \/ (EnqueueNextRun(w) /\ waiting' = waiting \cup {NewJob(Of(w), NextRun(w))})
  BY DEF Work, Claim, Load, Transfer, Close, EnqueueNextRun, MarkFailed, Notify
<1>3. ASSUME Load(w)
      PROVE  /\ Others(w) /\ Busy(w)' /\ Of(w)' = Of(w) /\ worker'[w].at = "transfer"
  <2>1. worker' = [worker EXCEPT ![w] =
          [worker[w] EXCEPT !.at = "transfer", !.occurrence = row[Of(w)].nextRunAt]]
    BY <1>3, Zenon DEF Load
  <2>2. Others(w) /\ worker'[w] =
          [worker[w] EXCEPT !.at = "transfer", !.occurrence = row[Of(w)].nextRunAt]
    BY <2>1 DEF TypeOK, Others
  <2>3. QED
    BY <1>1, <2>2 DEF Busy, Of, Idle
<1>4. Others(w) /\ (Busy(w)' => Of(w)' = Of(w))
  BY <1>1, <1>3, GotoMoves, ThrowsMoves, FinishMoves
     DEF Work, Claim, Transfer, Close, EnqueueNextRun, MarkFailed, Notify, WorkStages, Reasons
<1>5. CASE Of(w) # s
  <2>1. row'[s] = row[s] /\ runs'[s] = runs[s]
    BY <1>1, <1>5 DEF Work, Claim, Load, Transfer, Close, EnqueueNextRun, MarkFailed, Notify,
       SetStatus, TypeOK
  <2>2. JobsOf(s)' = JobsOf(s)
    BY <1>2, <1>5 DEF JobsOf, NewJob
  <2>3. QED
    BY <1>1, <1>2, <1>4, <1>5, <2>1, <2>2, OtherToken
<1>6. CASE Of(w) = s
  <2>1. On(w, s)
    BY <1>1, <1>6 DEF On
  <2>2. /\ JobsOf(s) = {} /\ \A v \in Workers : On(v, s)' => v = w
        /\ creating'[s] = "done" /\ NotCreated(s)'
    BY <1>2, <1>4, <2>1, Alone
  <2>3. ASSUME waiting' = waiting PROVE OneToken(s)'
    BY <2>2, <2>3 DEF OneToken, JobsOf
  <2>4. ASSUME waiting' = waiting, On(w, s)', worker'[w].at = "fail", row' = row
        PROVE  Sound(s)'
    <3>1. OneToken(s)'
      BY <2>3, <2>4
    <3>2. ScheduledFits(s)' /\ StageFits(s)'
      BY <2>2, <2>4 DEF ScheduledFits, StageFits
    <3>3. QED
      BY <2>2, <3>1, <3>2 DEF Sound
  <2>5. ASSUME waiting' = waiting, On(w, s)', row'[s].status # "SCHEDULED",
               worker'[w].at \notin {"enqueue"}
        PROVE  Sound(s)'
    <3>1. OneToken(s)'
      BY <2>3, <2>5
    <3>2. ScheduledFits(s)' /\ StageFits(s)'
      BY <2>2, <2>5 DEF ScheduledFits, StageFits
    <3>3. QED
      BY <2>2, <3>1, <3>2 DEF Sound
  <2>6. Running(w, s) => row[s].status # "SCHEDULED"
    BY <1>1, <1>6 DEF RunInv, ClaimHeld
  <2>7. CASE Claim(w)
    <3>1. CASE row[s].status = "SCHEDULED"
      <4>1. Goto(w, "load") /\ SetStatus(s, "PROCESSING") /\ waiting' = waiting
        BY <1>6, <2>7, <3>1 DEF Claim
      <4>2. On(w, s)' /\ worker'[w].at = "load"
        BY <1>1, <1>6, <4>1, GotoMoves DEF On, WorkStages
      <4>3. row'[s].status = "PROCESSING"
        BY <4>1, StatusSet
      <4>4. QED
        BY <2>5, <4>1, <4>2, <4>3
    <3>2. CASE row[s].status # "SCHEDULED"
      BY <1>2, <1>6, <2>1, <2>7, <3>2, TokenEnds DEF Claim
    <3>3. QED
      BY <3>1, <3>2
  <2>8. CASE Load(w)
    <3>1. /\ On(w, s)' /\ worker'[w].at = "transfer" /\ row' = row /\ waiting' = waiting
          /\ Running(w, s)
      BY <1>1, <1>3, <1>6, <2>8 DEF On, Load, At, Running
    <3>2. QED
      BY <2>5, <2>6, <3>1
  <2>9. CASE Transfer(w)
    <3>1. /\ row' = row /\ waiting' = waiting /\ Running(w, s)
          /\ (Goto(w, "close") \/ \E why \in Reasons : Throws(w, why))
      BY <1>1, <1>6, <2>9 DEF Transfer, At, Running, Reasons
    <3>2. On(w, s)' /\ worker'[w].at \in {"close", "fail"}
      BY <1>1, <1>6, <3>1, GotoMoves, ThrowsMoves DEF On, WorkStages
    <3>3. QED
      BY <2>5, <2>6, <3>1, <3>2
  <2>10. CASE Close(w)
    <3>1. worker[w].at = "close" /\ waiting' = waiting /\ Running(w, s)
      BY <1>1, <1>6, <2>10 DEF Close, At, Running
    <3>2. CASE SetStatus(s, "COMPLETED") /\ Finish(w)
      <4>1. row'[s].status = "COMPLETED"
        BY <3>2, StatusSet
      <4>2. QED
        BY <1>2, <2>1, <3>1, <3>2, <4>1, TokenEnds
    <3>3. CASE /\ Goto(w, "enqueue")
               /\ row' = [row EXCEPT ![s].status = "SCHEDULED", ![s].nextRunAt = NextRun(w)]
      <4>1. On(w, s)' /\ worker'[w].at = "enqueue" /\ worker'[w].occurrence = worker[w].occurrence
        BY <1>1, <1>6, <3>3, GotoMoves DEF On, WorkStages
      <4>2. row'[s].nextRunAt = NextRun(w)
        BY <3>3 DEF TypeOK, Rows
      <4>3. NextRun(w)' = NextRun(w)
        BY <1>6, <4>1 DEF NextRun, On
      <4>4. OneToken(s)'
        BY <2>3, <3>1
      <4>5. ScheduledFits(s)' /\ StageFits(s)'
        BY <2>2, <4>1, <4>2, <4>3 DEF ScheduledFits, StageFits
      <4>6. QED
        BY <2>2, <4>4, <4>5 DEF Sound
    <3>4. CASE Throws(w, "error") /\ row' = row
      <4>1. On(w, s)' /\ worker'[w].at = "fail"
        BY <1>1, <1>6, <3>4, ThrowsMoves DEF On, Reasons
      <4>2. QED
        BY <2>4, <3>1, <3>4, <4>1
    <3>5. QED
      BY <1>6, <2>10, <3>2, <3>3, <3>4 DEF Close
  <2>11. CASE EnqueueNextRun(w)
    <3>1. worker[w].at = "enqueue" /\ row' = row /\ NextRun(w) = row[s].nextRunAt
      BY <2>1, <2>11 DEF EnqueueNextRun, At, Sound, StageFits
    <3>2. CASE waiting' = waiting \cup {NewJob(s, NextRun(w))} /\ Finish(w)
      <4>1. \A v \in Workers : ~On(v, s)'
        BY <2>2, <3>2, FinishMoves DEF On
      <4>2. JobsOf(s)' = {NewJob(s, NextRun(w))} /\ NewJob(s, NextRun(w)).due = row[s].nextRunAt
        BY <2>2, <3>1, <3>2 DEF JobsOf, NewJob
      <4>3. OneToken(s)' /\ StageFits(s)'
        BY <4>1, <4>2 DEF OneToken, StageFits
      <4>4. ScheduledFits(s)'
        BY <3>1, <4>1, <4>2 DEF ScheduledFits
      <4>5. QED
        BY <2>2, <4>3, <4>4 DEF Sound
    <3>3. CASE Throws(w, "error") /\ waiting' = waiting
      <4>1. On(w, s)' /\ worker'[w].at = "fail"
        BY <1>1, <1>6, <3>3, ThrowsMoves DEF On, Reasons
      <4>2. QED
        BY <2>4, <3>1, <3>3, <4>1
    <3>4. QED
      BY <1>6, <2>11, <3>2, <3>3 DEF EnqueueNextRun
  <2>12. CASE MarkFailed(w)
    <3>1. On(w, s)' /\ worker'[w].at = "notify" /\ waiting' = waiting
      BY <1>1, <1>6, <2>12, GotoMoves DEF MarkFailed, On, WorkStages
    <3>2. row'[s].status = "FAILED"
      BY <1>6, <2>12 DEF MarkFailed, TypeOK, Rows
    <3>3. QED
      BY <2>5, <3>1, <3>2
  <2>13. CASE Notify(w)
    <3>1. worker[w].at = "notify" /\ row[s].status # "SCHEDULED"
      BY <2>1, <2>13 DEF Notify, At, Sound, StageFits
    <3>2. QED
      BY <1>2, <2>1, <2>13, <3>1, TokenEnds DEF Notify
  <2>14. QED
    BY <2>7, <2>8, <2>9, <2>10, <2>11, <2>12, <2>13 DEF Work
<1>7. QED
  BY <1>5, <1>6

SparedInv == TypeOK /\ RunInv /\ \A s \in Spared : Sound(s)

LEMMA InitSpared == FaultInit => SparedInv
BY InitTypes, InitRuns, InitSound DEF FaultInit, SparedInv, Spared

LEMMA SparedStep == SparedInv /\ [FaultNext]_faultVars => SparedInv'
<1> SUFFICES ASSUME SparedInv, [FaultNext]_faultVars PROVE SparedInv'
  OBVIOUS
<1>1. [Next]_vars
  BY DEF FaultNext, faultVars
<1>2. TypeOK' /\ RunInv'
  BY <1>1, TypeStep, RunStep DEF SparedInv
<1>3. ASSUME NEW s \in Spared' PROVE Sound(s)'
  <2>1. s \in Schedules /\ Sound(s)
    BY <1>3 DEF SparedInv, FaultNext, faultVars, Spared
  <2>2. CASE UNCHANGED vars \/ Tick
    <3>1. UNCHANGED <<row, runs, waiting, creating, worker>>
      BY <2>2 DEF vars, Tick
    <3>2. /\ JobsOf(s)' = JobsOf(s)
          /\ \A w \in Workers : (On(w, s)' <=> On(w, s)) /\ worker'[w] = worker[w]
      BY <3>1 DEF JobsOf, On, Busy, Of
    <3>3. QED
      BY <2>1, <3>1, <3>2, Unmoved
  <2>3. CASE FaultNext
    <3>1. Next /\ ~Hits(s)
      BY <1>3, <2>1, <2>3 DEF FaultNext, Spared
    <3>2. ASSUME NEW t \in Schedules,
                 Serve(t) \/ BeginCreate(t) \/ BeginCancel(t) \/ CreateStops(t) \/ CancelStops(t)
          PROVE  Sound(s)'
      BY <2>1, <3>1, <3>2, RequestKeeps DEF SparedInv, Hits
    <3>3. ASSUME NEW w \in Workers, Deliver(w) \/ Stops(w) \/ LosesLock(w)
          PROVE  Sound(s)'
      <4>1. Deliver(w) \/ ((Stops(w) \/ LosesLock(w)) /\ Of(w) # s)
        BY <3>1, <3>3 DEF Hits, Stops, LosesLock
      <4>2. QED
        BY <2>1, <4>1, QueueKeeps DEF SparedInv
    <3>4. ASSUME NEW w \in Workers, Work(w)
          PROVE  Sound(s)'
      BY <2>1, <3>4, WorkKeeps DEF SparedInv
    <3>5. QED
      BY <2>2, <3>1, <3>2, <3>3, <3>4 DEF Next
  <2>4. QED
    BY <2>2, <2>3 DEF faultVars
<1>4. QED
  BY <1>2, <1>3 DEF SparedInv

\* RowHasJob (create's compensation, onOccurrenceSucceeded): a SCHEDULED row no
\* fault has hit has its job, an execution of it, or is about to get one.
THEOREM SparedRowHasJob == FaultSpec => []RowHasJob
<1>1. SparedInv => RowHasJob
  <2> SUFFICES ASSUME SparedInv, NEW s \in Spared, row[s].status = "SCHEDULED"
               PROVE  \/ creating[s] \in {"enqueue", "delete"}
                      \/ \E j \in waiting : j.schedule = s /\ j.due = row[s].nextRunAt
                      \/ \E w \in Workers : At(w, "claim") /\ Of(w) = s
                      \/ \E w \in Workers : (At(w, "enqueue") \/ At(w, "fail")) /\ Of(w) = s
    BY DEF RowHasJob
  <2>1. ScheduledFits(s)
    BY DEF SparedInv, Sound
  <2>2. QED
    BY <2>1 DEF ScheduledFits, JobsOf, On, At
<1>2. QED
  BY <1>1, InitSpared, SparedStep, PTL DEF FaultSpec

-----------------------------------------------------------------------------
(* No occurrence beyond endDate.                                           *)

\* What the row names may be paid: it is the first or the schedule repeats, and it
\* is not after endDate.
Payable(s) ==
  /\ Len(runs[s]) > 0 => Period[s] # 0
  /\ End[s] # 0 => row[s].nextRunAt <= End[s]

EndInv == \A s \in Schedules :
  /\ creating[s] # "todo" => (End[s] # 0 => Start[s] < End[s])
  /\ row[s].status = "SCHEDULED" => Payable(s)
  /\ \A w \in Workers : On(w, s) /\ worker[w].at \in {"load", "transfer"} => Payable(s)
  /\ \A k \in 1..Len(runs[s]) :
       (k > 1 => Period[s] # 0) /\ (End[s] # 0 => runs[s][k] <= End[s])

LEMMA InitEnds == Init => EndInv
<1> SUFFICES ASSUME Init PROVE EndInv
  OBVIOUS
<1>1. \A s \in Schedules : creating[s] = "todo" /\ row[s].status = "ABSENT" /\ Len(runs[s]) = 0
  BY DEF Init, NoRow
<1>2. \A s \in Schedules, w \in Workers : ~On(w, s)
  BY DEF Init, On, Busy
<1>3. ASSUME NEW s \in Schedules PROVE 1..Len(runs[s]) = {}
  BY <1>1, <1>3
<1>4. QED
  BY <1>1, <1>2, <1>3 DEF EndInv

\* A step that hands nothing to the ledger, makes no row SCHEDULED and claims nothing.
LEMMA EndsKept ==
  ASSUME EndInv, NEW s \in Schedules, runs'[s] = runs[s],
         creating'[s] # "todo" => creating[s] # "todo" \/ (End[s] # 0 => Start[s] < End[s]),
         row'[s].status = "SCHEDULED" => row[s].status = "SCHEDULED",
         row'[s].nextRunAt = row[s].nextRunAt,
         \A w \in Workers : On(w, s)' /\ worker'[w].at \in {"load", "transfer"} =>
           \/ row[s].status = "SCHEDULED"
           \/ On(w, s) /\ worker[w].at \in {"load", "transfer"}
  PROVE  /\ creating'[s] # "todo" => (End[s] # 0 => Start[s] < End[s])
         /\ row'[s].status = "SCHEDULED" => Payable(s)'
         /\ \A w \in Workers : On(w, s)' /\ worker'[w].at \in {"load", "transfer"} => Payable(s)'
         /\ \A k \in 1..Len(runs'[s]) :
              (k > 1 => Period[s] # 0) /\ (End[s] # 0 => runs'[s][k] <= End[s])
BY DEF EndInv, Payable

\* What a step of an execution does to its slot, and what it leaves alone.
LEMMA WorkMoves ==
  ASSUME TypeOK, NEW w \in Workers, Work(w)
  PROVE  /\ Busy(w) /\ Of(w) \in Schedules /\ Others(w)
         /\ creating' = creating /\ today' = today
         /\ Busy(w)' => Of(w)' = Of(w) /\ worker'[w].job = worker[w].job
         /\ Busy(w)' /\ worker'[w].at \in {"claim", "load", "transfer"} =>
              worker[w].at \in {"claim", "load"}
         /\ Busy(w)' /\ worker'[w].at \in {"load", "transfer"} =>
              row[Of(w)].status = "SCHEDULED" \/ worker[w].at = "load"
         /\ Busy(w)' /\ worker'[w].at = "enqueue" =>
              Close(w) /\ worker'[w].occurrence = worker[w].occurrence
         /\ Busy(w)' /\ worker'[w].at = "close" => Transfer(w) /\ runs' # runs
         /\ \A s \in Schedules \ {Of(w)} : row'[s] = row[s] /\ runs'[s] = runs[s]
<1>1. /\ Busy(w) /\ Of(w) \in Schedules
      /\ worker[w] \in [at : WorkStages, job : Jobs, occurrence : Nat, why : Reasons]
  BY BusyShape DEF Work, Claim, Load, Transfer, Close, EnqueueNextRun, MarkFailed, Notify, At
<1>2. creating' = creating /\ today' = today
  BY DEF Work, Claim, Load, Transfer, Close, EnqueueNextRun, MarkFailed, Notify
<1>3. \A s \in Schedules \ {Of(w)} : row'[s] = row[s] /\ runs'[s] = runs[s]
  BY <1>1 DEF Work, Claim, Load, Transfer, Close, EnqueueNextRun, MarkFailed, Notify, SetStatus,
     TypeOK
<1>4. CASE Load(w)
  <2>1. worker' = [worker EXCEPT ![w] =
          [worker[w] EXCEPT !.at = "transfer", !.occurrence = row[Of(w)].nextRunAt]]
    BY <1>4, Zenon DEF Load
  <2>2. Others(w) /\ worker'[w] =
          [worker[w] EXCEPT !.at = "transfer", !.occurrence = row[Of(w)].nextRunAt]
    BY <2>1 DEF TypeOK, Others
  <2>3. /\ worker'[w].at = "transfer" /\ worker'[w].job = worker[w].job
        /\ Of(w)' = Of(w) /\ worker[w].at = "load"
    BY <1>1, <1>4, <2>2 DEF Of, Load, At
  <2>4. QED
    BY <1>1, <1>2, <1>3, <2>2, <2>3
<1>5. CASE Claim(w)
  <2>1. /\ worker[w].at = "claim"
        /\ \/ row[Of(w)].status = "SCHEDULED" /\ Goto(w, "load")
           \/ Finish(w)
    BY <1>5 DEF Claim, At
  <2>2. Others(w) /\ (Busy(w)' => /\ Of(w)' = Of(w) /\ worker'[w].job = worker[w].job
                                  /\ worker'[w].at = "load" /\ row[Of(w)].status = "SCHEDULED")
    BY <1>1, <2>1, GotoMoves, FinishMoves DEF WorkStages
  <2>3. QED
    BY <1>1, <1>2, <1>3, <2>1, <2>2
<1>6. CASE Transfer(w)
  <2>1. \/ Goto(w, "close") /\ runs' = [runs EXCEPT ![Of(w)] = Append(@, worker[w].occurrence)]
        \/ \E why \in Reasons : Throws(w, why)
    BY <1>6 DEF Transfer, Reasons
  <2>2. runs[Of(w)] \in Seq(Nat) /\ worker[w].occurrence \in Nat
    BY <1>1 DEF TypeOK
  <2>3. runs' = [runs EXCEPT ![Of(w)] = Append(@, worker[w].occurrence)] => runs' # runs
    <3>1. Len(Append(runs[Of(w)], worker[w].occurrence)) = Len(runs[Of(w)]) + 1
          /\ Len(runs[Of(w)]) \in Nat
      BY <2>2, Appended
    <3>2. QED
      BY <1>1, <3>1 DEF TypeOK
  <2>4. Others(w) /\ (Busy(w)' => /\ Of(w)' = Of(w) /\ worker'[w].job = worker[w].job
                                  /\ \/ worker'[w].at = "fail"
                                     \/ worker'[w].at = "close" /\ runs' # runs)
    BY <1>1, <2>1, <2>3, GotoMoves, ThrowsMoves DEF WorkStages
  <2>5. QED
    BY <1>1, <1>2, <1>3, <1>6, <2>4
<1>7. CASE Close(w)
  <2>1. Finish(w) \/ Goto(w, "enqueue") \/ Throws(w, "error")
    BY <1>7 DEF Close
  <2>2. Others(w) /\ (Busy(w)' => /\ Of(w)' = Of(w) /\ worker'[w].job = worker[w].job
                                  /\ \/ worker'[w].at = "fail"
                                     \/ /\ worker'[w].at = "enqueue"
                                        /\ worker'[w].occurrence = worker[w].occurrence)
    BY <1>1, <2>1, GotoMoves, ThrowsMoves, FinishMoves DEF WorkStages, Reasons
  <2>3. QED
    BY <1>1, <1>2, <1>3, <1>7, <2>2
<1>8. CASE EnqueueNextRun(w) \/ MarkFailed(w) \/ Notify(w)
  <2>1. Finish(w) \/ Goto(w, "notify") \/ Throws(w, "error")
    BY <1>8 DEF EnqueueNextRun, MarkFailed, Notify
  <2>2. Others(w) /\ (Busy(w)' => /\ Of(w)' = Of(w) /\ worker'[w].job = worker[w].job
                                  /\ worker'[w].at \in {"fail", "notify"})
    BY <1>1, <2>1, GotoMoves, ThrowsMoves, FinishMoves DEF WorkStages, Reasons
  <2>3. QED
    BY <1>1, <1>2, <1>3, <2>2
<1>9. QED
  BY <1>4, <1>5, <1>6, <1>7, <1>8 DEF Work

\* EndInv for one schedule, to be proved of it after a step.
EndsFit(s) ==
  /\ creating[s] # "todo" => (End[s] # 0 => Start[s] < End[s])
  /\ row[s].status = "SCHEDULED" => Payable(s)
  /\ \A w \in Workers : On(w, s) /\ worker[w].at \in {"load", "transfer"} => Payable(s)
  /\ \A k \in 1..Len(runs[s]) :
       (k > 1 => Period[s] # 0) /\ (End[s] # 0 => runs[s][k] <= End[s])

\* The queue starts and moves no execution.
LEMMA QueueRuns ==
  ASSUME TypeOK, NEW w \in Workers, Deliver(w) \/ Stops(w) \/ LosesLock(w), NEW s \in Schedules
  PROVE  \A v \in Workers : Running(v, s)' => Running(v, s) /\ worker'[v].at = worker[v].at
<1>1. CASE Deliver(w)
  <2>1. PICK j \in waiting : worker' = [worker EXCEPT ![w] =
               [at |-> "claim", job |-> [j EXCEPT !.deliveries = @ + 1],
                occurrence |-> 0, why |-> "none"]]
    BY <1>1 DEF Deliver
  <2>2. Others(w) /\ worker'[w].at = "claim"
    BY <2>1 DEF Others, TypeOK
  <2>3. QED
    BY <2>2 DEF Running, Others, Busy, Of
<1>2. CASE Stops(w)
  BY <1>2, FinishMoves DEF Stops, Running, Others, Busy, Of
<1>3. CASE LosesLock(w)
  <2>1. Busy(w) /\ worker[w] \in [at : WorkStages, job : Jobs, occurrence : Nat, why : Reasons]
    BY <1>3, BusyShape DEF LosesLock
  <2>2. worker' = [worker EXCEPT ![w] = [worker[w] EXCEPT !.job =
                     [worker[w].job EXCEPT !.deliveries = MaxDeliveries]]]
    BY <1>3, Zenon DEF LosesLock
  <2>3. /\ Others(w)
        /\ worker'[w] = [worker[w] EXCEPT !.job =
                           [worker[w].job EXCEPT !.deliveries = MaxDeliveries]]
    BY <2>2 DEF TypeOK, Others
  <2>4. worker'[w].at = worker[w].at /\ Of(w)' = Of(w)
    BY <2>1, <2>3 DEF Of, Jobs
  <2>5. QED
    BY <2>1, <2>3, <2>4 DEF Running, Others, Busy, Of
<1>4. QED
  BY <1>1, <1>2, <1>3

LEMMA EndsStep == TypeOK /\ RunInv /\ EndInv /\ [Next]_vars => EndInv'
<1> SUFFICES ASSUME TypeOK, RunInv, EndInv, [Next]_vars, NEW s \in Schedules
             PROVE  EndsFit(s)'
  BY DEF EndInv, EndsFit
<1>1. ASSUME row' = row, runs' = runs, creating'[s] # "todo" => creating[s] # "todo",
             \A w \in Workers : On(w, s)' /\ worker'[w].at \in {"load", "transfer"} =>
               On(w, s) /\ worker[w].at \in {"load", "transfer"}
      PROVE  EndsFit(s)'
  BY <1>1, EndsKept DEF EndsFit
<1>2. CASE UNCHANGED vars \/ Tick
  BY <1>1, <1>2 DEF vars, Tick, On, Busy, Of
<1>3. ASSUME NEW t \in Schedules,
             Serve(t) \/ BeginCreate(t) \/ BeginCancel(t) \/ CreateStops(t) \/ CancelStops(t)
      PROVE  EndsFit(s)'
  <2>1. /\ runs' = runs /\ worker' = worker
        /\ \A w \in Workers : On(w, s)' <=> On(w, s)
    BY <1>3 DEF Serve, BeginCreate, BeginCancel, CreateStops, CancelStops, CreateRow, EnqueueFirst,
       DeleteRow, CancelRow, On, Busy, Of
  <2>2. CASE CreateRow(s)
    <3>1. /\ row'[s].status = "SCHEDULED" /\ row'[s].nextRunAt = Start[s]
          /\ creating[s] = "create"
      BY <2>2 DEF CreateRow, TypeOK
    <3>2. Len(runs[s]) = 0 /\ \A w \in Workers : ~On(w, s)
      BY <3>1 DEF RunInv, NotYetQueued, On
    <3>3. (End[s] # 0 => Start[s] < End[s]) /\ Start[s] \in Nat /\ End[s] \in Nat
      BY <3>1, SchedulesFit DEF EndInv
    <3>4. Payable(s)'
      BY <2>1, <3>1, <3>2, <3>3 DEF Payable
    <3>5. QED
      BY <2>1, <3>2, <3>3, <3>4 DEF EndsFit
  <2>3. CASE ~CreateRow(s)
    <3>1. creating'[s] # "todo" => creating[s] # "todo" \/ (End[s] # 0 => Start[s] < End[s])
      BY <1>3 DEF Serve, BeginCreate, BeginCancel, CreateStops, CancelStops, CreateRow,
         EnqueueFirst, DeleteRow, CancelRow, TypeOK
    <3>2. CASE DeleteRow(s)
      <4>1. row'[s] = NoRow /\ Len(runs[s]) = 0 /\ \A w \in Workers : ~On(w, s)
        BY <3>2 DEF DeleteRow, TypeOK, RunInv, NotYetQueued, On
      <4>2. QED
        BY <2>1, <3>1, <4>1 DEF EndsFit, NoRow, EndInv
    <3>3. CASE ~DeleteRow(s)
      <4>1. \/ row'[s] = row[s]
            \/ SetStatus(s, "CANCELLED")
        BY <1>3, <2>3, <3>3 DEF Serve, BeginCreate, BeginCancel, CreateStops, CancelStops,
           CreateRow, EnqueueFirst, DeleteRow, CancelRow, SetStatus, TypeOK
      <4>2. /\ row'[s].status = "SCHEDULED" => row[s].status = "SCHEDULED"
            /\ row'[s].nextRunAt = row[s].nextRunAt
        BY <4>1, StatusSet
      <4>3. QED
        BY <2>1, <3>1, <4>2, EndsKept DEF EndsFit
    <3>4. QED
      BY <3>2, <3>3
  <2>4. QED
    BY <2>2, <2>3
<1>4. ASSUME NEW w \in Workers, Deliver(w) \/ Stops(w) \/ LosesLock(w)
      PROVE  EndsFit(s)'
  <2>1. row' = row /\ runs' = runs /\ creating' = creating
    BY <1>4 DEF Deliver, Stops, LosesLock
  <2>2. \A v \in Workers : Running(v, s)' => Running(v, s) /\ worker'[v].at = worker[v].at
    BY <1>4, QueueRuns
  <2>3. QED
    BY <1>1, <2>1, <2>2 DEF Running, On
<1>5. ASSUME NEW w \in Workers, Work(w), Of(w) # s
      PROVE  EndsFit(s)'
  <2>1. /\ Others(w) /\ (Busy(w)' => Of(w)' = Of(w)) /\ creating' = creating
        /\ row'[s] = row[s] /\ runs'[s] = runs[s]
    BY <1>5, WorkMoves
  <2>2. \A v \in Workers : On(v, s)' => On(v, s) /\ worker'[v] = worker[v]
    BY <1>5, <2>1 DEF Others, On, Busy, Of
  <2>3. QED
    BY <2>1, <2>2, EndsKept DEF EndsFit
<1>6. ASSUME NEW w \in Workers, Work(w), Of(w) = s
      PROVE  EndsFit(s)'
  <2>1. /\ Busy(w) /\ Others(w) /\ (Busy(w)' => Of(w)' = s) /\ creating' = creating
        /\ Busy(w)' /\ worker'[w].at \in {"load", "transfer"} =>
             row[s].status = "SCHEDULED" \/ worker[w].at = "load"
    BY <1>6, WorkMoves
  <2>2. \A v \in Workers : On(v, s)' /\ worker'[v].at \in {"load", "transfer"} =>
          \/ row[s].status = "SCHEDULED"
          \/ On(v, s) /\ worker[v].at \in {"load", "transfer"}
    BY <1>6, <2>1 DEF Others, On, Busy, Of
  <2>3. ASSUME runs'[s] = runs[s], row'[s].nextRunAt = row[s].nextRunAt,
               row'[s].status = "SCHEDULED" => row[s].status = "SCHEDULED"
        PROVE  EndsFit(s)'
    BY <2>1, <2>2, <2>3, EndsKept DEF EndsFit
  <2>4. CASE Transfer(w) /\ runs' # runs
    <3>1. /\ Running(w, s) /\ worker[w].at = "transfer" /\ On(w, s)
          /\ worker[w].occurrence \in Nat
      BY <1>6, <2>1, <2>4, BusyShape DEF Transfer, At, Running, On
    <3>2. /\ row[s].nextRunAt = NextDue(s) /\ worker[w].occurrence = row[s].nextRunAt
          /\ Payable(s) /\ row[s].status # "SCHEDULED"
      BY <3>1 DEF RunInv, ExecutionFits, ClaimHeld, EndInv
    <3>3. runs' = [runs EXCEPT ![s] = Append(runs[s], worker[w].occurrence)] /\ runs[s] \in Seq(Nat)
      BY <1>6, <2>4 DEF Transfer, TypeOK
    <3>4. runs'[s] = Append(runs[s], worker[w].occurrence)
      BY <3>3 DEF TypeOK
    <3>5. /\ Len(runs'[s]) = Len(runs[s]) + 1 /\ Len(runs[s]) \in Nat
          /\ runs'[s][Len(runs[s]) + 1] = worker[w].occurrence
          /\ \A k \in 1..Len(runs[s]) : runs'[s][k] = runs[s][k]
      BY <3>1, <3>3, <3>4, Appended
    <3>6. row' = row
      BY <2>4 DEF Transfer
    <3>7. \A k \in 1..Len(runs'[s]) :
            (k > 1 => Period[s] # 0) /\ (End[s] # 0 => runs'[s][k] <= End[s])
      BY <3>2, <3>5 DEF EndInv, Payable
    <3>8. \A v \in Workers : ~(On(v, s)' /\ worker'[v].at \in {"load", "transfer"})
      <4>1. ~(On(w, s)' /\ worker'[w].at \in {"load", "transfer"})
        BY <2>1, <3>1, <3>2 DEF On
      <4>2. \A v \in Workers \ {w} : ~Running(v, s)'
        BY <2>1, <3>1, <1>6, OnlyRunner
      <4>3. QED
        BY <4>1, <4>2 DEF Running, On
    <3>9. QED
      BY <2>1, <3>2, <3>6, <3>7, <3>8 DEF EndsFit, EndInv
  <2>5. CASE Close(w)
    <3>1. /\ Running(w, s) /\ worker[w].at = "close" /\ runs' = runs
      BY <1>6, <2>1, <2>5 DEF Close, At, Running
    <3>2. CASE /\ Period[s] # 0 /\ (End[s] # 0 => NextRun(w) <= End[s])
               /\ row' = [row EXCEPT ![s].status = "SCHEDULED", ![s].nextRunAt = NextRun(w)]
               /\ Goto(w, "enqueue")
      <4>1. row'[s].nextRunAt = NextRun(w)
        BY <3>2 DEF TypeOK, Rows
      <4>2. Payable(s)'
        BY <3>1, <3>2, <4>1 DEF Payable
      <4>3. QED
        BY <2>1, <3>1, <4>2 DEF EndsFit, EndInv
    <3>3. CASE (SetStatus(s, "COMPLETED") \/ row' = row)
      <4>1. /\ row'[s].nextRunAt = row[s].nextRunAt
            /\ row'[s].status = "SCHEDULED" => row[s].status = "SCHEDULED"
        BY <3>3, StatusSet
      <4>2. QED
        BY <2>3, <3>1, <4>1
    <3>4. QED
      BY <1>6, <2>5, <3>2, <3>3 DEF Close
  <2>6. CASE ~(Transfer(w) /\ runs' # runs) /\ ~Close(w)
    <3>1. runs' = runs
      BY <1>6, <2>6 DEF Work, Claim, Load, Transfer, Close, EnqueueNextRun, MarkFailed, Notify
    <3>2. \/ row' = row
          \/ SetStatus(s, "PROCESSING")
          \/ row' = [row EXCEPT ![s].status = "FAILED", ![s].failureReason = worker[w].why]
      BY <1>6, <2>6 DEF Work, Claim, Load, Transfer, Close, EnqueueNextRun, MarkFailed, Notify
    <3>3. /\ row'[s].nextRunAt = row[s].nextRunAt
          /\ row'[s].status = "SCHEDULED" => row[s].status = "SCHEDULED"
      BY <3>2 DEF SetStatus, TypeOK, Rows
    <3>4. QED
      BY <2>3, <3>1, <3>3
  <2>7. QED
    BY <2>4, <2>5, <2>6
<1>7. QED
  BY <1>2, <1>3, <1>4, <1>5, <1>6 DEF Next

-----------------------------------------------------------------------------
(* How early an occurrence can be paid.  The invariant: the days whose job *)
(* was added, each once, are the first occurrences; and the executions not *)
(* past the ledger, with the occurrences handed to it, are not more than   *)
(* the jobs handed out.                                                    *)

\* An execution that has closed an occurrence is about to add the job for day d.
Adds(w, s, d) == At(w, "enqueue") /\ Of(w) = s /\ NextRun(w) = d

\* The job for day d is about to be added, is waiting for the first time, or was
\* handed out.
Out(s, d) ==
  \/ d \in first[s]
  \/ NewJob(s, d) \in waiting
  \/ \E w \in Workers : Adds(w, s, d)

Closing(s) == \E w \in Workers : Running(w, s) /\ worker[w].at = "close"

\* The days out are occurrences handed to the ledger, or the next one.
DaysFit(s) == \A d \in Nat : Out(s, d) =>
  \E n \in 0..Len(runs[s]) : d = Slot(s, n) /\ (Closing(s) => n < Len(runs[s]))

\* No day is out twice.
DaysOnce(s) == \A d \in Nat :
  /\ NewJob(s, d) \in waiting => d \notin first[s]
  /\ \A w \in Workers : Adds(w, s, d) => d \notin first[s] /\ NewJob(s, d) \notin waiting
  /\ \A v, w \in Workers : Adds(v, s, d) /\ Adds(w, s, d) => v = w

\* What was delivered was handed out a first time, on its day or later.
HandedFirst(s) ==
  /\ first[s] \subseteq 0..today /\ again[s] \in Nat
  /\ creating[s] \in {"todo", "create", "enqueue", "delete"} => first[s] = {}
  /\ \A j \in JobsOf(s) : j.deliveries > 0 => first[s] # {}
  /\ \A w \in Workers : On(w, s) => worker[w].job.deliveries > 0 /\ first[s] # {}
  /\ Len(runs[s]) > 0 => first[s] # {}

\* The executions that are not past the ledger.
Pending(s) ==
  {w \in Workers : On(w, s) /\ worker[w].at \in {"claim", "load", "transfer"}}

PaidByHanding(s) ==
  Len(runs[s]) + Cardinality(Pending(s)) <= Cardinality(first[s]) + again[s]

Turn(s) == DaysFit(s) /\ DaysOnce(s) /\ HandedFirst(s) /\ PaidByHanding(s)

LEMMA PendingFinite ==
  ASSUME NEW s \in Schedules
  PROVE  IsFiniteSet(Pending(s)) /\ Cardinality(Pending(s)) \in Nat
BY FaultsAreBounded, FS_Subset, FS_CardinalityType DEF Pending

LEMMA FirstFinite ==
  ASSUME TypeOK, NEW s \in Schedules, HandedFirst(s)
  PROVE  IsFiniteSet(first[s]) /\ Cardinality(first[s]) \in Nat
<1>1. IsFiniteSet(0..today)
  BY FS_Interval DEF TypeOK
<1>2. QED
  BY <1>1, FS_Subset, FS_CardinalityType DEF HandedFirst

LEMMA TurnNumbers ==
  ASSUME TypeOK, NEW s \in Schedules, Turn(s)
  PROVE  /\ Len(runs[s]) \in Nat /\ again[s] \in Nat
         /\ IsFiniteSet(first[s]) /\ Cardinality(first[s]) \in Nat
<1>1. HandedFirst(s)
  BY DEF Turn
<1>2. IsFiniteSet(first[s]) /\ Cardinality(first[s]) \in Nat
  BY <1>1, FirstFinite
<1>3. runs[s] \in Seq(Nat) /\ again[s] \in Nat
  BY <1>1 DEF TypeOK, HandedFirst
<1>4. QED
  BY <1>2, <1>3

LEMMA InitTurn ==
  ASSUME FaultInit, NEW s \in Schedules
  PROVE  Turn(s)
<1>1. /\ first[s] = {} /\ again[s] = 0 /\ waiting = {} /\ today = 0
      /\ Len(runs[s]) = 0 /\ \A w \in Workers : ~Busy(w)
  BY DEF FaultInit, Init, Busy
<1>2. DaysFit(s) /\ DaysOnce(s) /\ HandedFirst(s)
  BY <1>1 DEF DaysFit, DaysOnce, HandedFirst, Out, Adds, At, On, JobsOf
<1>3. Pending(s) = {}
  BY <1>1 DEF Pending, On
<1>4. QED
  BY <1>1, <1>2, <1>3, FS_EmptySet DEF Turn, PaidByHanding

\* A step that hands out no job of s, adds none, and brings no execution to its
\* close or out of it.
LEMMA TurnKept ==
  ASSUME TypeOK, TypeOK', NEW s \in Schedules, Turn(s),
         first'[s] = first[s], again'[s] = again[s], runs'[s] = runs[s], today' >= today,
         creating'[s] \in {"todo", "create", "enqueue", "delete"} =>
           creating[s] \in {"todo", "create", "enqueue", "delete"},
         \A j \in waiting' : j.schedule = s =>
           j \in waiting \/ (j.deliveries > 0 /\ first[s] # {}),
         \A w \in Workers : On(w, s)' =>
           /\ On(w, s) /\ worker'[w].job.deliveries > 0
           /\ worker'[w].at \in {"claim", "load", "transfer"} =>
                worker[w].at \in {"claim", "load", "transfer"}
           /\ worker'[w].at = "close" => worker[w].at = "close"
           /\ worker'[w].at = "enqueue" =>
                worker[w].at = "enqueue" /\ worker'[w].occurrence = worker[w].occurrence
  PROVE  Turn(s)'
<1>1. ASSUME NEW d \in Nat, NewJob(s, d) \in waiting' PROVE NewJob(s, d) \in waiting
  BY <1>1 DEF NewJob
<1>2. ASSUME NEW d \in Nat, NEW w \in Workers, Adds(w, s, d)' PROVE Adds(w, s, d)
  <2>1. On(w, s)' /\ worker'[w].at = "enqueue" /\ worker'[w].occurrence + Period[s] = d
    BY <1>2 DEF Adds, At, On, NextRun
  <2>2. QED
    BY <2>1 DEF Adds, At, On, NextRun
<1>3. Closing(s)' => Closing(s)
  BY DEF Closing, Running, On
<1>4. DaysFit(s)'
  <2>1. \A d \in Nat : Out(s, d)' => Out(s, d)
    BY <1>1, <1>2 DEF Out
  <2>2. Closing(s) \/ ~Closing(s)'
    BY <1>3
  <2>3. ASSUME NEW d \in Nat, Out(s, d)'
        PROVE  \E n \in 0..Len(runs'[s]) : d = Slot(s, n) /\ (Closing(s)' => n < Len(runs'[s]))
    BY <2>1, <2>2, <2>3 DEF Turn, DaysFit
  <2>4. QED
    BY <2>3 DEF DaysFit
<1>5. DaysOnce(s)'
  BY <1>1, <1>2 DEF Turn, DaysOnce
<1>6. HandedFirst(s)'
  <2>1. first[s] \subseteq 0..today'
    BY DEF Turn, HandedFirst, TypeOK
  <2>2. QED
    BY <2>1 DEF Turn, HandedFirst, JobsOf
<1>7. PaidByHanding(s)'
  <2>1. Pending(s)' \subseteq Pending(s)
    BY DEF Pending
  <2>2. /\ Cardinality(Pending(s)') <= Cardinality(Pending(s))
        /\ Cardinality(Pending(s)') \in Nat /\ Cardinality(Pending(s)) \in Nat
    BY <2>1, PendingFinite, FS_Subset, FS_CardinalityType
  <2>3. Len(runs[s]) \in Nat /\ Cardinality(first[s]) \in Nat /\ again[s] \in Nat
    BY TurnNumbers
  <2>4. QED
    BY <2>2, <2>3 DEF Turn, PaidByHanding
<1>8. QED
  BY <1>4, <1>5, <1>6, <1>7 DEF Turn

\* The history of a step that hands out nothing, and of one that hands out j.
LEMMA NothingHanded ==
  ASSUME FaultNext, NEW s \in Schedules, again[s] \in Nat, \A w \in Workers : ~Handed(w, s)
  PROVE  first'[s] = first[s] /\ again'[s] = again[s]
<1>1. {w \in Workers : Handed(w, s) /\ worker'[w].job.deliveries = 1} = {}
  OBVIOUS
<1>2. first'[s] = first[s] \cup {}
  BY <1>1 DEF FaultNext
<1>3. again'[s] = again[s] + 0
  BY DEF FaultNext
<1>4. QED
  BY <1>2, <1>3

LEMMA OneHanded ==
  ASSUME FaultNext, NEW s \in Schedules, again[s] \in Nat, NEW w \in Workers, Handed(w, s),
         \A v \in Workers : Handed(v, s) => v = w
  PROVE  /\ worker'[w].job.deliveries = 1 =>
              first'[s] = first[s] \cup {worker'[w].job.due} /\ again'[s] = again[s]
         /\ worker'[w].job.deliveries # 1 => first'[s] = first[s]
         /\ worker'[w].job.deliveries > 1 => again'[s] = again[s] + 1
<1> DEFINE New == {v \in Workers : Handed(v, s) /\ worker'[v].job.deliveries = 1}
<1>1. first'[s] = first[s] \cup {worker'[v].job.due : v \in New}
  BY DEF FaultNext
<1>2. CASE worker'[w].job.deliveries = 1
  <2>1. New = {w}
    BY <1>2
  <2>2. {worker'[v].job.due : v \in New} = {worker'[w].job.due}
    BY <2>1
  <2>3. again'[s] = again[s] + 0
    BY <1>2 DEF FaultNext
  <2>4. QED
    BY <1>1, <1>2, <2>2, <2>3
<1>3. CASE worker'[w].job.deliveries # 1
  <2>1. New = {}
    BY <1>3
  <2>2. {worker'[v].job.due : v \in New} = {}
    BY <2>1
  <2>3. worker'[w].job.deliveries > 1 => again'[s] = again[s] + 1
    BY DEF FaultNext
  <2>4. QED
    BY <1>1, <1>3, <2>2, <2>3
<1>4. QED
  BY <1>2, <1>3

\* A repeating schedule reaches a later day with each occurrence.
LEMMA SlotsGrow ==
  ASSUME NEW s \in Schedules, Period[s] # 0, NEW m \in Nat, NEW n \in Nat, m < n
  PROVE  Slot(s, m) < Slot(s, n)
<1>1. PICK p \in Nat \ {0} : p = Period[s]
  BY SchedulesFit
<1>2. PICK a \in Nat : a = Start[s]
  BY SchedulesFit
<1>3. PICK k \in Nat : n = m + 1 + k
  <2>1. n - m - 1 \in Nat /\ n = m + 1 + (n - m - 1)
    OBVIOUS
  <2>2. QED
    BY <2>1
<1>4. n * p = m * p + p + k * p /\ k * p \in Nat /\ m * p \in Nat
  BY <1>1, <1>3
<1>5. QED
  BY <1>1, <1>2, <1>4 DEF Slot

\* create() adds the first job.
LEMMA TurnEnqueuesFirst ==
  ASSUME TypeOK, TypeOK', RunInv, NEW s \in Schedules, Turn(s), EnqueueFirst(s),
         waiting' = waiting \cup {NewJob(s, Start[s])},
         first'[s] = first[s], again'[s] = again[s]
  PROVE  Turn(s)'
<1>1. /\ runs[s] = << >> /\ JobsOf(s) = {} /\ \A w \in Workers : ~On(w, s)
      /\ first[s] = {}
  BY DEF RunInv, NotYetQueued, EnqueueFirst, Turn, HandedFirst, JobsOf, On
<1>2. /\ runs' = runs /\ Len(runs[s]) = 0 /\ today' = today
      /\ \A w \in Workers : ~On(w, s)'
      /\ JobsOf(s)' = {NewJob(s, Start[s])}
  BY <1>1 DEF EnqueueFirst, On, Busy, Of, JobsOf, NewJob
<1>3. \A d \in Nat : /\ NewJob(s, d) \in waiting' => d = Start[s]
                     /\ \A w \in Workers : ~Adds(w, s, d)'
  <2>1. \A d \in Nat : NewJob(s, d) \in waiting' => NewJob(s, d) \in JobsOf(s)'
    BY DEF JobsOf, NewJob
  <2>2. \A d \in Nat : NewJob(s, d) = NewJob(s, Start[s]) => d = Start[s]
    BY DEF NewJob
  <2>3. \A d \in Nat, w \in Workers : Adds(w, s, d)' => On(w, s)'
    BY DEF Adds, On, At
  <2>4. QED
    BY <1>2, <2>1, <2>2, <2>3
<1>4. DaysFit(s)'
  <2>1. Slot(s, 0) = Start[s]
    BY Slots
  <2>2. ~Closing(s)'
    BY <1>2 DEF Closing, Running, On
  <2>3. ASSUME NEW d \in Nat, Out(s, d)'
        PROVE  \E n \in 0..Len(runs'[s]) : d = Slot(s, n) /\ (Closing(s)' => n < Len(runs'[s]))
    <3>1. d = Start[s]
      BY <1>1, <1>3, <2>3 DEF Out
    <3>2. 0 \in 0..Len(runs'[s])
      BY <1>2
    <3>3. QED
      BY <2>1, <2>2, <3>1, <3>2
  <2>4. QED
    BY <2>3 DEF DaysFit
<1>5. DaysOnce(s)'
  BY <1>1, <1>3 DEF DaysOnce
<1>6. HandedFirst(s)'
  <2>1. \A j \in JobsOf(s)' : j.deliveries = 0
    BY <1>2 DEF NewJob
  <2>2. QED
    BY <1>1, <1>2, <2>1 DEF Turn, HandedFirst
<1>7. PaidByHanding(s)'
  <2>1. Pending(s)' = {} /\ Pending(s) = {}
    BY <1>1, <1>2 DEF Pending
  <2>2. QED
    BY <1>2, <2>1 DEF Turn, PaidByHanding
<1>8. QED
  BY <1>4, <1>5, <1>6, <1>7 DEF Turn

\* onOccurrenceSucceeded adds the next one.
LEMMA TurnEnqueuesNext ==
  ASSUME TypeOK, TypeOK', RunInv, NEW s \in Schedules, Turn(s), NEW w \in Workers, On(w, s),
         worker[w].at = "enqueue", Finish(w), waiting' = waiting \cup {NewJob(s, NextRun(w))},
         runs' = runs, creating' = creating, today' = today,
         first'[s] = first[s], again'[s] = again[s]
  PROVE  Turn(s)'
<1> DEFINE day == NextRun(w)
<1>1. day \in Nat /\ Adds(w, s, day)
  <2>1. worker[w].occurrence \in Nat
    BY BusyShape DEF On
  <2>2. QED
    BY <2>1, SchedulesFit DEF NextRun, Adds, At, On
<1>2. /\ Others(w) /\ ~On(w, s)'
      /\ \A v \in Workers : On(v, s)' => v # w /\ On(v, s) /\ worker'[v] = worker[v]
  BY FinishMoves DEF On, Others, Busy, Of
<1>3. \A d \in Nat, v \in Workers : Adds(v, s, d)' => v # w /\ Adds(v, s, d)
  BY <1>2 DEF Adds, At, On, NextRun, Others, Busy, Of
<1>4. \A d \in Nat : NewJob(s, d) \in waiting' => NewJob(s, d) \in waiting \/ d = day
  BY DEF NewJob
<1>5. Closing(s)' => Closing(s)
  BY <1>2 DEF Closing, Running, On
<1>6. DaysFit(s)'
  <2>1. \A d \in Nat : Out(s, d)' => Out(s, d)
    BY <1>1, <1>3, <1>4 DEF Out
  <2>2. ASSUME NEW d \in Nat, Out(s, d)'
        PROVE  \E n \in 0..Len(runs'[s]) : d = Slot(s, n) /\ (Closing(s)' => n < Len(runs'[s]))
    BY <1>5, <2>1, <2>2 DEF Turn, DaysFit
  <2>3. QED
    BY <2>2 DEF DaysFit
<1>7. DaysOnce(s)'
  <2>1. ASSUME NEW d \in Nat, NewJob(s, d) \in waiting' PROVE d \notin first[s]
    BY <1>1, <1>4, <2>1 DEF Turn, DaysOnce
  <2>2. ASSUME NEW d \in Nat, NEW v \in Workers, Adds(v, s, d)'
        PROVE  d \notin first[s] /\ NewJob(s, d) \notin waiting'
    BY <1>1, <1>3, <1>4, <2>2 DEF Turn, DaysOnce
  <2>3. QED
    BY <1>3, <2>1, <2>2 DEF Turn, DaysOnce
<1>8. HandedFirst(s)'
  <2>1. first[s] # {}
    BY DEF Turn, HandedFirst
  <2>2. QED
    BY <1>2, <2>1 DEF Turn, HandedFirst
<1>9. PaidByHanding(s)'
  <2>1. Pending(s)' = Pending(s)
    BY <1>2 DEF Pending, Others, On, Busy, Of
  <2>2. QED
    BY <2>1 DEF Turn, PaidByHanding
<1>10. QED
  BY <1>6, <1>7, <1>8, <1>9 DEF Turn

\* An execution pays: its occurrence becomes the last one handed to the ledger.
LEMMA TurnPays ==
  ASSUME TypeOK, TypeOK', RunInv, NEW s \in Schedules, Turn(s), NEW w \in Workers,
         Transfer(w), runs' # runs, Of(w) = s, first'[s] = first[s], again'[s] = again[s]
  PROVE  Turn(s)'
<1>1. /\ Busy(w) /\ On(w, s) /\ Running(w, s) /\ worker[w].at = "transfer"
      /\ worker[w].occurrence \in Nat
  BY BusyShape DEF Transfer, At, On, Running
<1>2. /\ Others(w) /\ creating' = creating /\ today' = today /\ waiting' = waiting
      /\ Busy(w)' => /\ Of(w)' = s /\ worker'[w].job = worker[w].job
                     /\ worker'[w].at \notin {"claim", "load", "transfer", "enqueue"}
  <2>1. Work(w) /\ waiting' = waiting
    BY DEF Work, Transfer
  <2>2. Busy(w)' /\ worker'[w].at = "enqueue" => FALSE
    BY <1>1, <2>1, WorkMoves DEF Close, At
  <2>3. QED
    BY <1>1, <2>1, <2>2, WorkMoves
<1>3. Len(runs'[s]) = Len(runs[s]) + 1 /\ Len(runs[s]) \in Nat
  <2>1. runs' = [runs EXCEPT ![s] = Append(runs[s], worker[w].occurrence)] /\ runs[s] \in Seq(Nat)
    BY DEF Transfer, TypeOK
  <2>2. runs'[s] = Append(runs[s], worker[w].occurrence)
    BY <2>1 DEF TypeOK
  <2>3. QED
    BY <1>1, <2>1, <2>2, Appended
<1>4. \A v \in Workers : On(v, s)' => On(v, s) /\ (v # w => worker'[v] = worker[v])
  BY <1>1, <1>2 DEF On, Others, Busy, Of
<1>5. \A d \in Nat, v \in Workers : Adds(v, s, d)' => Adds(v, s, d)
  BY <1>2, <1>4 DEF Adds, At, On, NextRun, Others, Busy, Of
<1>6. DaysFit(s)'
  <2>1. \A d \in Nat : Out(s, d)' => Out(s, d)
    BY <1>2, <1>5 DEF Out
  <2>2. ASSUME NEW d \in Nat, Out(s, d)'
        PROVE  \E n \in 0..Len(runs'[s]) : d = Slot(s, n) /\ (Closing(s)' => n < Len(runs'[s]))
    <3>1. PICK n \in 0..Len(runs[s]) : d = Slot(s, n)
      BY <2>1, <2>2 DEF Turn, DaysFit
    <3>2. n \in 0..Len(runs'[s]) /\ n < Len(runs'[s])
      BY <1>3
    <3>3. QED
      BY <3>1, <3>2
  <2>3. QED
    BY <2>2 DEF DaysFit
<1>7. DaysOnce(s)'
  BY <1>2, <1>5 DEF Turn, DaysOnce
<1>8. HandedFirst(s)'
  <2>1. first[s] # {} /\ \A v \in Workers : On(v, s)' => worker'[v].job.deliveries > 0
    BY <1>1, <1>2, <1>4 DEF Turn, HandedFirst, On
  <2>2. JobsOf(s)' = JobsOf(s)
    BY <1>2 DEF JobsOf
  <2>3. QED
    BY <1>2, <2>1, <2>2 DEF Turn, HandedFirst
<1>9. PaidByHanding(s)'
  <2>1. w \in Pending(s) /\ Pending(s)' = Pending(s) \ {w}
    BY <1>1, <1>2, <1>4 DEF Pending, On, Others, Busy, Of
  <2>2. /\ Cardinality(Pending(s) \ {w}) = Cardinality(Pending(s)) - 1
        /\ Cardinality(Pending(s)) \in Nat
    BY <2>1, PendingFinite, FS_RemoveElement
  <2>3. Cardinality(first[s]) \in Nat /\ again[s] \in Nat
    BY TurnNumbers
  <2>4. QED
    BY <1>3, <2>1, <2>2, <2>3 DEF Turn, PaidByHanding
<1>10. QED
  BY <1>6, <1>7, <1>8, <1>9 DEF Turn

\* The close of an occurrence: the next day was never out.
LEMMA TurnCloses ==
  ASSUME TypeOK, TypeOK', RunInv, NEW s \in Schedules, Turn(s), NEW w \in Workers,
         Close(w), Goto(w, "enqueue"), Period[s] # 0, Of(w) = s,
         first'[s] = first[s], again'[s] = again[s]
  PROVE  Turn(s)'
<1> DEFINE n == Len(runs[s])
<1>1. /\ Busy(w) /\ On(w, s) /\ Running(w, s) /\ worker[w].at = "close"
      /\ worker[w].occurrence \in Nat /\ Closing(s)
  BY BusyShape DEF Close, At, On, Running, Closing
<1>2. /\ Others(w) /\ creating' = creating /\ today' = today /\ waiting' = waiting /\ runs' = runs
      /\ On(w, s)' /\ worker'[w].at = "enqueue" /\ worker'[w].job = worker[w].job
      /\ worker'[w].occurrence = worker[w].occurrence
  BY <1>1, GotoMoves DEF Close, On, WorkStages
<1>3. n \in Nat /\ NextRun(w)' = Slot(s, n)
  <2>1. n \in Nat /\ n > 0 /\ worker[w].occurrence = Slot(s, n - 1)
    BY <1>1 DEF RunInv, ExecutionFits, TypeOK
  <2>2. n - 1 \in Nat /\ (n - 1) + 1 = n
    BY <2>1
  <2>3. Slot(s, n) = Slot(s, n - 1) + Period[s]
    BY <2>2, Slots
  <2>4. QED
    BY <1>2, <2>1, <2>3 DEF NextRun, On
<1>4. \A v \in Workers \ {w} : /\ worker'[v] = worker[v] /\ (On(v, s)' <=> On(v, s))
                               /\ \A d \in Nat : Adds(v, s, d)' <=> Adds(v, s, d)
  BY <1>2 DEF Others, On, Busy, Of, Adds, At, NextRun
<1>5. \A d \in Nat : Adds(w, s, d)' => d = Slot(s, n)
  BY <1>3 DEF Adds
<1>6. \A d \in Nat : Out(s, d) => \E i \in 0..(n - 1) : d = Slot(s, i)
  <2>1. ASSUME NEW d \in Nat, Out(s, d) PROVE \E i \in 0..(n - 1) : d = Slot(s, i)
    <3>1. PICK i \in 0..n : d = Slot(s, i) /\ i < n
      BY <1>1, <2>1 DEF Turn, DaysFit
    <3>2. i \in 0..(n - 1)
      BY <1>3, <3>1
    <3>3. QED
      BY <3>1, <3>2
  <2>2. QED
    BY <2>1
<1>7. \A d \in Nat : Out(s, d) => d # Slot(s, n)
  <2>1. ASSUME NEW i \in 0..(n - 1) PROVE Slot(s, i) # Slot(s, n)
    <3>1. i \in Nat /\ i < n
      BY <1>3
    <3>2. Slot(s, i) < Slot(s, n) /\ Slot(s, i) \in Nat /\ Slot(s, n) \in Nat
      BY <1>3, <3>1, SlotsGrow, Slots
    <3>3. QED
      BY <3>2
  <2>2. QED
    BY <1>6, <2>1
<1>8. DaysFit(s)'
  <2>1. ~Closing(s)'
    <3>1. \A v \in Workers \ {w} : ~Running(v, s)
      BY <1>1 DEF RunInv, OneExecutionAtATime
    <3>2. QED
      BY <1>2, <1>4, <3>1 DEF Closing, Running, On
  <2>2. ASSUME NEW d \in Nat, Out(s, d)'
        PROVE  \E i \in 0..Len(runs'[s]) : d = Slot(s, i) /\ (Closing(s)' => i < Len(runs'[s]))
    <3>1. Out(s, d) \/ d = Slot(s, n)
      BY <1>2, <1>4, <1>5, <2>2 DEF Out
    <3>2. PICK i \in 0..n : d = Slot(s, i)
      BY <1>3, <1>6, <3>1
    <3>3. QED
      BY <1>2, <2>1, <3>2
  <2>3. QED
    BY <2>2 DEF DaysFit
<1>9. DaysOnce(s)'
  <2>1. ASSUME NEW d \in Nat, NEW v \in Workers, Adds(v, s, d)'
        PROVE  d \notin first[s] /\ NewJob(s, d) \notin waiting
    <3>1. CASE v = w
      <4>1. ~Out(s, d)
        BY <1>5, <1>7, <2>1, <3>1
      <4>2. QED
        BY <4>1 DEF Out
    <3>2. CASE v # w
      BY <1>4, <2>1, <3>2 DEF Turn, DaysOnce
    <3>3. QED
      BY <3>1, <3>2
  <2>2. ASSUME NEW d \in Nat, NEW u \in Workers, NEW v \in Workers, Adds(u, s, d)', Adds(v, s, d)'
        PROVE  u = v
    <3>1. CASE u = w /\ v # w
      <4>1. Out(s, d) /\ d = Slot(s, n)
        BY <1>4, <1>5, <2>2, <3>1 DEF Out
      <4>2. QED
        BY <1>7, <4>1
    <3>2. CASE v = w /\ u # w
      <4>1. Out(s, d) /\ d = Slot(s, n)
        BY <1>4, <1>5, <2>2, <3>2 DEF Out
      <4>2. QED
        BY <1>7, <4>1
    <3>3. CASE u # w /\ v # w
      BY <1>4, <2>2, <3>3 DEF Turn, DaysOnce
    <3>4. QED
      BY <3>1, <3>2, <3>3
  <2>3. QED
    BY <1>2, <2>1, <2>2 DEF Turn, DaysOnce
<1>10. HandedFirst(s)'
  <2>1. \A v \in Workers : On(v, s)' => On(v, s) /\ worker'[v].job = worker[v].job
    BY <1>1, <1>2, <1>4
  <2>2. JobsOf(s)' = JobsOf(s)
    BY <1>2 DEF JobsOf
  <2>3. QED
    BY <1>2, <2>1, <2>2 DEF Turn, HandedFirst
<1>11. PaidByHanding(s)'
  <2>1. Pending(s)' = Pending(s)
    BY <1>1, <1>2, <1>4 DEF Pending
  <2>2. QED
    BY <1>2, <2>1 DEF Turn, PaidByHanding
<1>12. QED
  BY <1>8, <1>9, <1>10, <1>11 DEF Turn

\* BullMQ hands out j, a job of s.
LEMMA TurnDelivers ==
  ASSUME TypeOK, TypeOK', RunInv, FaultNext, NEW s \in Schedules, Turn(s), NEW w \in Workers,
         ~Busy(w), NEW j \in waiting, j.schedule = s, j.due <= today, waiting' = waiting \ {j},
         worker' = [worker EXCEPT ![w] =
           [at |-> "claim", job |-> [j EXCEPT !.deliveries = @ + 1],
            occurrence |-> 0, why |-> "none"]],
         runs' = runs, creating' = creating, today' = today
  PROVE  Turn(s)'
<1>1. j \in Jobs /\ j.due \in Nat /\ j.deliveries \in Nat /\ j \in JobsOf(s)
  BY DEF TypeOK, Jobs, JobsOf
<1>2. /\ Others(w) /\ On(w, s)' /\ worker'[w].at = "claim"
      /\ worker'[w].job.due = j.due /\ worker'[w].job.deliveries = j.deliveries + 1
  <2>1. /\ Others(w)
        /\ worker'[w] = [at |-> "claim", job |-> [j EXCEPT !.deliveries = @ + 1],
                         occurrence |-> 0, why |-> "none"]
    BY DEF TypeOK, Others
  <2>2. /\ worker'[w].at = "claim" /\ worker'[w].job = [j EXCEPT !.deliveries = @ + 1]
        /\ Busy(w)'
    BY <2>1 DEF Busy, Idle
  <2>3. QED
    BY <1>1, <2>1, <2>2 DEF Jobs, On, Of
<1>3. \A v \in Workers \ {w} : /\ worker'[v] = worker[v] /\ (On(v, s)' <=> On(v, s))
                               /\ \A d \in Nat : Adds(v, s, d)' <=> Adds(v, s, d)
  BY <1>2 DEF Others, On, Busy, Of, Adds, At, NextRun
<1>4. \A d \in Nat : ~Adds(w, s, d)'
  BY <1>2 DEF Adds, At
<1>5. Closing(s)' => Closing(s)
  BY <1>2, <1>3 DEF Closing, Running, On
<1>6. /\ Handed(w, s) /\ \A v \in Workers : Handed(v, s) => v = w
      /\ again[s] \in Nat
  <2>1. Handed(w, s)
    BY <1>2 DEF Handed, On
  <2>2. \A v \in Workers \ {w} : ~Handed(v, s)
    BY <1>2 DEF Handed, Others, Busy
  <2>3. QED
    BY <2>1, <2>2, TurnNumbers
<1>7. /\ j.deliveries = 0 => first'[s] = first[s] \cup {j.due} /\ again'[s] = again[s]
      /\ j.deliveries # 0 => first'[s] = first[s] /\ again'[s] = again[s] + 1
  <2>1. /\ worker'[w].job.deliveries = 1 =>
             first'[s] = first[s] \cup {worker'[w].job.due} /\ again'[s] = again[s]
        /\ worker'[w].job.deliveries # 1 => first'[s] = first[s]
        /\ worker'[w].job.deliveries > 1 => again'[s] = again[s] + 1
    BY <1>6, OneHanded
  <2>2. QED
    BY <1>1, <1>2, <2>1
<1>8. creating[s] \notin {"todo", "create", "enqueue", "delete"}
  BY <1>1 DEF RunInv, NotYetQueued
<1>9. /\ Pending(s)' = Pending(s) \cup {w} /\ w \notin Pending(s)
      /\ Cardinality(Pending(s) \cup {w}) = Cardinality(Pending(s)) + 1
      /\ Cardinality(Pending(s)) \in Nat
  <2>1. Pending(s)' = Pending(s) \cup {w} /\ w \notin Pending(s)
    BY <1>2, <1>3 DEF Pending, On
  <2>2. QED
    BY <2>1, PendingFinite, FS_AddElement
<1>10. CASE j.deliveries = 0
  <2>1. j = NewJob(s, j.due)
    BY <1>1, <1>10 DEF Jobs, NewJob
  <2>2. Out(s, j.due) /\ j.due \notin first[s] /\ \A v \in Workers : ~Adds(v, s, j.due)
    BY <1>1, <2>1 DEF Out, Turn, DaysOnce
  <2>3. first'[s] = first[s] \cup {j.due} /\ again'[s] = again[s]
    BY <1>7, <1>10
  <2>4. \A d \in Nat : NewJob(s, d) \in waiting' => NewJob(s, d) \in waiting /\ d # j.due
    BY <2>1
  <2>5. DaysFit(s)'
    <3>1. \A d \in Nat : Out(s, d)' => Out(s, d)
      BY <1>3, <1>4, <2>2, <2>3, <2>4 DEF Out
    <3>2. ASSUME NEW d \in Nat, Out(s, d)'
          PROVE  \E n \in 0..Len(runs'[s]) : d = Slot(s, n) /\ (Closing(s)' => n < Len(runs'[s]))
      BY <1>5, <3>1, <3>2 DEF Turn, DaysFit
    <3>3. QED
      BY <3>2 DEF DaysFit
  <2>6. DaysOnce(s)'
    <3>1. ASSUME NEW d \in Nat, NewJob(s, d) \in waiting' PROVE d \notin first'[s]
      BY <2>3, <2>4, <3>1 DEF Turn, DaysOnce
    <3>2. ASSUME NEW d \in Nat, NEW v \in Workers, Adds(v, s, d)'
          PROVE  /\ d \notin first'[s] /\ NewJob(s, d) \notin waiting'
                 /\ v # w /\ Adds(v, s, d)
      BY <1>3, <1>4, <2>2, <2>3, <2>4, <3>2 DEF Turn, DaysOnce
    <3>3. QED
      BY <3>1, <3>2 DEF Turn, DaysOnce
  <2>7. HandedFirst(s)'
    <3>1. first'[s] \subseteq 0..today' /\ first'[s] # {} /\ again'[s] \in Nat
      BY <1>1, <1>6, <2>3 DEF Turn, HandedFirst, TypeOK
    <3>2. \A v \in Workers : On(v, s)' => worker'[v].job.deliveries > 0
      BY <1>1, <1>2, <1>3 DEF Turn, HandedFirst
    <3>3. QED
      BY <1>8, <3>1, <3>2 DEF HandedFirst
  <2>8. PaidByHanding(s)'
    <3>1. /\ Cardinality(first[s] \cup {j.due}) = Cardinality(first[s]) + 1
          /\ Cardinality(first[s]) \in Nat /\ again[s] \in Nat /\ Len(runs[s]) \in Nat
      BY <2>2, TurnNumbers, FS_AddElement
    <3>2. QED
      BY <1>9, <2>3, <3>1 DEF Turn, PaidByHanding
  <2>9. QED
    BY <2>5, <2>6, <2>7, <2>8 DEF Turn
<1>11. CASE j.deliveries # 0
  <2>1. first'[s] = first[s] /\ again'[s] = again[s] + 1
    BY <1>7, <1>11
  <2>2. \A d \in Nat : NewJob(s, d) \in waiting' => NewJob(s, d) \in waiting
    OBVIOUS
  <2>3. DaysFit(s)'
    <3>1. \A d \in Nat : Out(s, d)' => Out(s, d)
      BY <1>3, <1>4, <2>1, <2>2 DEF Out
    <3>2. ASSUME NEW d \in Nat, Out(s, d)'
          PROVE  \E n \in 0..Len(runs'[s]) : d = Slot(s, n) /\ (Closing(s)' => n < Len(runs'[s]))
      BY <1>5, <3>1, <3>2 DEF Turn, DaysFit
    <3>3. QED
      BY <3>2 DEF DaysFit
  <2>4. DaysOnce(s)'
    <3>1. ASSUME NEW d \in Nat, NEW v \in Workers, Adds(v, s, d)'
          PROVE  v # w /\ Adds(v, s, d)
      BY <1>3, <1>4, <3>1
    <3>2. QED
      BY <2>1, <2>2, <3>1 DEF Turn, DaysOnce
  <2>5. HandedFirst(s)'
    <3>1. first'[s] \subseteq 0..today' /\ first'[s] # {} /\ again'[s] \in Nat
      BY <1>1, <1>6, <1>11, <2>1 DEF Turn, HandedFirst
    <3>2. \A v \in Workers : On(v, s)' => worker'[v].job.deliveries > 0
      BY <1>1, <1>2, <1>3 DEF Turn, HandedFirst
    <3>3. QED
      BY <1>8, <3>1, <3>2 DEF HandedFirst
  <2>6. PaidByHanding(s)'
    <3>1. Cardinality(first[s]) \in Nat /\ again[s] \in Nat /\ Len(runs[s]) \in Nat
      BY TurnNumbers
    <3>2. QED
      BY <1>9, <2>1, <3>1 DEF Turn, PaidByHanding
  <2>7. QED
    BY <2>3, <2>4, <2>5, <2>6 DEF Turn
<1>12. QED
  BY <1>10, <1>11

\* create(), cancel(), the clock.
LEMMA TurnRequests ==
  ASSUME TypeOK, TypeOK', RunInv, FaultNext, NEW s \in Schedules, Turn(s),
         \/ Tick
         \/ \E t \in Schedules : \/ Serve(t) \/ BeginCreate(t) \/ BeginCancel(t)
                                \/ CreateStops(t) \/ CancelStops(t)
  PROVE  Turn(s)'
<1>1. /\ worker' = worker /\ runs' = runs /\ today' >= today
      /\ \/ EnqueueFirst(s) /\ waiting' = waiting \cup {NewJob(s, Start[s])}
         \/ \A j \in waiting' : j.schedule = s => j \in waiting
  BY DEF Tick, Serve, BeginCreate, BeginCancel, CreateStops, CancelStops, CreateRow, EnqueueFirst,
     DeleteRow, CancelRow, TypeOK, NewJob
<1>2. \A w \in Workers : ~Handed(w, s) /\ (On(w, s)' <=> On(w, s))
  BY <1>1 DEF Handed, Busy, On, Of
<1>3. first'[s] = first[s] /\ again'[s] = again[s]
  BY <1>2, NothingHanded, TurnNumbers
<1>4. creating'[s] \in {"todo", "create", "enqueue", "delete"} =>
        creating[s] \in {"todo", "create", "enqueue", "delete"}
  BY DEF Tick, Serve, BeginCreate, BeginCancel, CreateStops, CancelStops, CreateRow, EnqueueFirst,
     DeleteRow, CancelRow, TypeOK
<1>5. CASE EnqueueFirst(s) /\ waiting' = waiting \cup {NewJob(s, Start[s])}
  BY <1>3, <1>5, TurnEnqueuesFirst
<1>6. CASE \A j \in waiting' : j.schedule = s => j \in waiting
  <2>1. \A w \in Workers : On(w, s)' => On(w, s) /\ worker[w].job.deliveries > 0
    BY <1>2 DEF Turn, HandedFirst
  <2>2. QED
    BY <1>1, <1>3, <1>4, <1>6, <2>1, TurnKept
<1>7. QED
  BY <1>1, <1>5, <1>6

LEMMA TurnQueues ==
  ASSUME TypeOK, TypeOK', RunInv, FaultNext, NEW s \in Schedules, Turn(s), NEW w \in Workers,
         Deliver(w) \/ Stops(w) \/ LosesLock(w)
  PROVE  Turn(s)'
<1>1. runs' = runs /\ creating' = creating /\ today' = today /\ today \in Nat
  BY DEF Deliver, Stops, LosesLock, TypeOK
<1>2. CASE Deliver(w)
  <2>1. PICK j \in waiting :
          /\ j.due <= today /\ waiting' = waiting \ {j}
          /\ worker' = [worker EXCEPT ![w] =
               [at |-> "claim", job |-> [j EXCEPT !.deliveries = @ + 1],
                occurrence |-> 0, why |-> "none"]]
    BY <1>2 DEF Deliver
  <2>2. ~Busy(w) /\ j \in Jobs
    BY <1>2 DEF Deliver, TypeOK
  <2>3. CASE j.schedule = s
    BY <1>1, <2>1, <2>2, <2>3, TurnDelivers
  <2>4. CASE j.schedule # s
    <3>1. Others(w) /\ Of(w)' = j.schedule
      BY <2>1, <2>2 DEF Others, TypeOK, Of, Jobs
    <3>2. \A v \in Workers : ~Handed(v, s) /\ (On(v, s)' => On(v, s) /\ worker'[v] = worker[v])
      BY <2>2, <2>4, <3>1 DEF Handed, Others, Busy, On, Of
    <3>3. first'[s] = first[s] /\ again'[s] = again[s]
      BY <3>2, NothingHanded, TurnNumbers
    <3>4. \A v \in Workers : On(v, s) => worker[v].job.deliveries > 0
      BY DEF Turn, HandedFirst
    <3>5. \A v \in Workers : On(v, s)' =>
            /\ On(v, s) /\ worker'[v].job.deliveries > 0 /\ worker'[v].at = worker[v].at
            /\ worker'[v].occurrence = worker[v].occurrence
      BY <3>2, <3>4
    <3>6. (\A i \in waiting' : i \in waiting) /\ today' >= today
      BY <1>1, <2>1
    <3>7. QED
      BY <1>1, <3>3, <3>5, <3>6, TurnKept
  <2>5. QED
    BY <2>3, <2>4
<1>3. CASE Stops(w) \/ LosesLock(w)
  <2>1. /\ Busy(w) /\ waiting' = waiting \cup {worker[w].job}
        /\ worker[w] \in [at : WorkStages, job : Jobs, occurrence : Nat, why : Reasons]
    BY <1>3, BusyShape DEF Stops, LosesLock
  <2>2. ASSUME LosesLock(w)
        PROVE  /\ Others(w) /\ worker'[w].at = worker[w].at /\ Of(w)' = Of(w)
               /\ worker'[w].occurrence = worker[w].occurrence
               /\ worker'[w].job.deliveries = MaxDeliveries
    <3>1. worker' = [worker EXCEPT ![w] = [worker[w] EXCEPT !.job =
                       [worker[w].job EXCEPT !.deliveries = MaxDeliveries]]]
      BY <2>2, Zenon DEF LosesLock
    <3>2. /\ Others(w)
          /\ worker'[w] = [worker[w] EXCEPT !.job =
                             [worker[w].job EXCEPT !.deliveries = MaxDeliveries]]
      BY <3>1 DEF TypeOK, Others
    <3>3. worker'[w].job = [worker[w].job EXCEPT !.deliveries = MaxDeliveries]
      BY <2>1, <3>2
    <3>4. QED
      BY <2>1, <3>2, <3>3 DEF Of, Jobs
  <2>3. Others(w) /\ (Stops(w) => ~Busy(w)')
    BY <1>3, <2>2, FinishMoves DEF Stops
  <2>4. \A v \in Workers : Busy(v)' => Busy(v) /\ Of(v)' = Of(v)
    BY <1>3, <2>1, <2>2, <2>3 DEF Others, Busy, Of
  <2>5. first'[s] = first[s] /\ again'[s] = again[s]
    <3>1. \A v \in Workers : ~Handed(v, s)
      BY <2>4 DEF Handed
    <3>2. QED
      BY <3>1, NothingHanded, TurnNumbers
  <2>6. ASSUME NEW v \in Workers, On(v, s)'
        PROVE  /\ On(v, s) /\ worker'[v].job.deliveries > 0
               /\ worker'[v].at = worker[v].at /\ worker'[v].occurrence = worker[v].occurrence
    <3>1. On(v, s) /\ worker[v].job.deliveries > 0
      BY <2>4, <2>6 DEF On, Turn, HandedFirst
    <3>2. CASE v # w
      BY <2>3, <3>1, <3>2 DEF Others
    <3>3. CASE v = w
      <4>1. LosesLock(w) /\ worker[w].job.deliveries < MaxDeliveries
        BY <1>3, <2>3, <2>6, <3>3 DEF On, LosesLock
      <4>2. worker[w].job.deliveries \in Nat /\ MaxDeliveries \in Nat
        BY <2>1, SchedulesFit DEF Jobs
      <4>3. QED
        BY <2>2, <3>1, <3>3, <4>1, <4>2
    <3>4. QED
      BY <3>2, <3>3
  <2>7. ASSUME NEW j \in waiting', j.schedule = s
        PROVE  j \in waiting \/ (j.deliveries > 0 /\ first[s] # {})
    <3>1. CASE j = worker[w].job
      BY <2>1, <2>7, <3>1 DEF Turn, HandedFirst, On, Of
    <3>2. QED
      BY <2>1, <2>7, <3>1
  <2>8. QED
    BY <1>1, <2>5, <2>6, <2>7, TurnKept
<1>4. QED
  BY <1>2, <1>3

LEMMA TurnWorks ==
  ASSUME TypeOK, TypeOK', RunInv, FaultNext, NEW s \in Schedules, Turn(s), NEW w \in Workers,
         Work(w)
  PROVE  Turn(s)'
<1>1. /\ Busy(w) /\ Of(w) \in Schedules /\ Others(w) /\ creating' = creating /\ today' = today
      /\ Busy(w)' => Of(w)' = Of(w) /\ worker'[w].job = worker[w].job
      /\ Busy(w)' /\ worker'[w].at \in {"claim", "load", "transfer"} =>
           worker[w].at \in {"claim", "load"}
      /\ today \in Nat
  BY WorkMoves DEF TypeOK
<1>2. \A v \in Workers : Busy(v)' => Busy(v) /\ Of(v)' = Of(v) /\ worker'[v].job = worker[v].job
  BY <1>1 DEF Others, Busy, Of
<1>3. first'[s] = first[s] /\ again'[s] = again[s]
  <2>1. \A v \in Workers : ~Handed(v, s)
    BY <1>2 DEF Handed
  <2>2. QED
    BY <2>1, NothingHanded, TurnNumbers
<1>4. CASE Of(w) = s /\ Transfer(w) /\ runs' # runs
  BY <1>3, <1>4, TurnPays
<1>5. CASE Of(w) = s /\ Close(w) /\ Goto(w, "enqueue")
  <2>1. Period[s] # 0
    <3>1. Busy(w)' /\ worker'[w].at = "enqueue"
      BY <1>1, <1>5, GotoMoves DEF WorkStages
    <3>2. ~Finish(w)
      BY <3>1, FinishMoves
    <3>3. ~Throws(w, "error")
      BY <1>1, <3>1, ThrowsMoves DEF Reasons
    <3>4. QED
      BY <1>5, <3>2, <3>3 DEF Close
  <2>2. QED
    BY <1>3, <1>5, <2>1, TurnCloses
<1>6. CASE Of(w) = s /\ EnqueueNextRun(w) /\ waiting' # waiting
  <2>1. /\ On(w, s) /\ worker[w].at = "enqueue" /\ Finish(w)
        /\ waiting' = waiting \cup {NewJob(s, NextRun(w))} /\ runs' = runs
    BY <1>1, <1>6 DEF EnqueueNextRun, At, On
  <2>2. QED
    BY <1>1, <1>3, <2>1, TurnEnqueuesNext
<1>7. CASE /\ ~(Of(w) = s /\ Transfer(w) /\ runs' # runs)
           /\ ~(Of(w) = s /\ Close(w) /\ Goto(w, "enqueue"))
           /\ ~(Of(w) = s /\ EnqueueNextRun(w) /\ waiting' # waiting)
  <2>1. runs'[s] = runs[s]
    <3>1. CASE Of(w) # s
      BY <3>1, WorkMoves
    <3>2. CASE Of(w) = s
      BY <1>7, <3>2 DEF Work, Claim, Load, Transfer, Close, EnqueueNextRun, MarkFailed, Notify
    <3>3. QED
      BY <3>1, <3>2
  <2>2. \A j \in waiting' : j.schedule = s => j \in waiting
    <3>1. CASE EnqueueNextRun(w)
      BY <1>7, <3>1 DEF EnqueueNextRun, NewJob
    <3>2. CASE ~EnqueueNextRun(w)
      BY <3>2 DEF Work, Claim, Load, Transfer, Close, MarkFailed, Notify
    <3>3. QED
      BY <3>1, <3>2
  <2>3. ASSUME NEW v \in Workers, On(v, s)'
        PROVE  /\ On(v, s) /\ worker'[v].job.deliveries > 0
               /\ worker'[v].at \in {"claim", "load", "transfer"} =>
                    worker[v].at \in {"claim", "load", "transfer"}
               /\ worker'[v].at = "close" => worker[v].at = "close"
               /\ worker'[v].at = "enqueue" =>
                    worker[v].at = "enqueue" /\ worker'[v].occurrence = worker[v].occurrence
    <3>1. On(v, s) /\ worker'[v].job.deliveries > 0
      BY <1>2, <2>3 DEF On, Turn, HandedFirst
    <3>2. CASE v # w
      BY <1>1, <3>1, <3>2 DEF Others
    <3>3. CASE v = w
      <4>1. Busy(w)' /\ Of(w) = s
        BY <2>3, <3>1, <3>3 DEF On
      <4>2. worker'[w].at # "close"
        BY <1>7, <4>1, WorkMoves
      <4>3. worker'[w].at # "enqueue"
        <5>1. SUFFICES ASSUME worker'[w].at = "enqueue" PROVE FALSE
          OBVIOUS
        <5>2. Close(w)
          BY <4>1, <5>1, WorkMoves
        <5>3. ~Throws(w, "error")
          BY <1>1, <5>1, ThrowsMoves DEF Reasons
        <5>4. ~Finish(w)
          BY <4>1, FinishMoves
        <5>5. QED
          BY <1>7, <4>1, <5>2, <5>3, <5>4 DEF Close
      <4>4. QED
        BY <1>1, <3>1, <3>3, <4>1, <4>2, <4>3
    <3>4. QED
      BY <3>2, <3>3
  <2>4. QED
    BY <1>1, <1>3, <2>1, <2>2, <2>3, TurnKept
<1>8. QED
  BY <1>4, <1>5, <1>6, <1>7

TurnInv == TypeOK /\ RunInv /\ EndInv /\ \A s \in Schedules : Turn(s)

LEMMA TurnStep == TurnInv /\ [FaultNext]_faultVars => TurnInv'
<1> SUFFICES ASSUME TurnInv, [FaultNext]_faultVars PROVE TurnInv'
  OBVIOUS
<1>1. TypeOK /\ TypeOK' /\ RunInv /\ RunInv' /\ EndInv'
  <2>1. [Next]_vars
    BY DEF FaultNext, faultVars
  <2>2. QED
    BY <2>1, TypeStep, RunStep, EndsStep DEF TurnInv
<1>2. ASSUME NEW s \in Schedules PROVE Turn(s)'
  <2>1. Turn(s)
    BY DEF TurnInv
  <2>2. CASE UNCHANGED faultVars
    <3>1. /\ UNCHANGED <<today, runs, waiting, creating, worker, first, again>>
          /\ today \in Nat
      BY <1>1, <2>2 DEF faultVars, vars, TypeOK
    <3>2. \A w \in Workers : On(w, s)' => On(w, s) /\ worker[w].job.deliveries > 0
      BY <2>1, <3>1 DEF On, Busy, Of, Turn, HandedFirst
    <3>3. QED
      BY <1>1, <2>1, <3>1, <3>2, TurnKept
  <2>3. CASE FaultNext
    BY <1>1, <2>1, <2>3, TurnRequests, TurnQueues, TurnWorks DEF FaultNext, Next
  <2>4. QED
    BY <2>2, <2>3
<1>3. QED
  BY <1>1, <1>2 DEF TurnInv

\* So many days handed out mean that the last of them has come.
LEMMA FirstDays ==
  ASSUME TypeOK, NEW s \in Schedules, Turn(s), NEW m \in Nat, today < Slot(s, m)
  PROVE  Cardinality(first[s]) <= m
<1> DEFINE Days == {Slot(s, i) : i \in 0..(m - 1)}
<1>1. \A i, n \in Nat : i <= n => Slot(s, i) <= Slot(s, n)
  <2>1. ASSUME NEW i \in Nat, NEW n \in Nat, i < n PROVE Slot(s, i) <= Slot(s, n)
    <3>1. CASE Period[s] # 0
      <4>1. Slot(s, i) < Slot(s, n) /\ Slot(s, i) \in Nat /\ Slot(s, n) \in Nat
        BY <2>1, <3>1, SlotsGrow, Slots
      <4>2. QED
        BY <4>1
    <3>2. CASE Period[s] = 0
      BY <3>2, SchedulesFit DEF Slot
    <3>3. QED
      BY <3>1, <3>2
  <2>2. \A n \in Nat : Slot(s, n) <= Slot(s, n)
    BY Slots
  <2>3. ASSUME NEW i \in Nat, NEW n \in Nat, i <= n PROVE Slot(s, i) <= Slot(s, n)
    <3>1. i < n \/ i = n
      BY <2>3
    <3>2. QED
      BY <2>1, <2>2, <3>1
  <2>4. QED
    BY <2>3
<1>2. first[s] \subseteq Days
  <2>1. ASSUME NEW d \in first[s] PROVE d \in Days
    <3>1. d \in Nat /\ d <= today /\ today \in Nat /\ Out(s, d) /\ Len(runs[s]) \in Nat
      BY TurnNumbers DEF Turn, HandedFirst, Out, TypeOK
    <3>2. PICK n \in Nat : d = Slot(s, n)
      BY <3>1 DEF Turn, DaysFit
    <3>3. n < m
      <4>1. CASE m <= n
        <5>1. Slot(s, m) <= d /\ Slot(s, m) \in Nat
          BY <1>1, <3>2, <4>1, Slots
        <5>2. QED
          BY <3>1, <5>1
      <4>2. QED
        BY <4>1
    <3>4. n \in 0..(m - 1)
      BY <3>3
    <3>5. QED
      BY <3>2, <3>4
  <2>2. QED
    BY <2>1
<1>3. IsFiniteSet(0..(m - 1)) /\ Cardinality(0..(m - 1)) = m
  BY FS_Interval
<1>4. IsFiniteSet(Days) /\ Cardinality(Days) <= m
  <2> DEFINE f == [i \in 0..(m - 1) |-> Slot(s, i)]
  <2>1. f \in Surjection(0..(m - 1), Days)
    BY DEF Surjection
  <2>2. QED
    BY <1>3, <2>1, FS_Surjection
<1>5. QED
  BY <1>2, <1>4, FS_Subset, FS_CardinalityType

\* OccurrencesInTurn (the worker's claim of a duplicate delivery): the occurrences
\* handed to the ledger are the first ones, each once, up to endDate, and each one
\* paid before its day is matched by a job handed out again.
THEOREM SchedInTurn == FaultSpec => []OccurrencesInTurn
<1>1. FaultInit => TurnInv
  BY InitTypes, InitRuns, InitEnds, InitTurn DEF FaultInit, TurnInv
<1>2. TurnInv => OccurrencesInTurn
  <2> SUFFICES ASSUME TurnInv, NEW s \in Schedules, NEW k \in 1..Len(runs[s])
               PROVE  /\ runs[s][k] = Start[s] + (k - 1) * Period[s]
                      /\ k > 1 => Period[s] # 0
                      /\ End[s] # 0 => runs[s][k] <= End[s]
                      /\ runs[s][k] <= today + again[s] * Period[s]
    BY DEF OccurrencesInTurn
  <2>1. /\ TypeOK /\ Turn(s) /\ today \in Nat /\ Len(runs[s]) \in Nat /\ again[s] \in Nat
        /\ Cardinality(first[s]) \in Nat
    BY TurnNumbers DEF TurnInv, TypeOK
  <2>2. runs[s][k] = Slot(s, k - 1) /\ Slot(s, k - 1) = Start[s] + (k - 1) * Period[s]
    BY DEF TurnInv, RunInv, InOrder, Slot
  <2>3. (k > 1 => Period[s] # 0) /\ (End[s] # 0 => runs[s][k] <= End[s])
    BY DEF TurnInv, EndInv
  <2>4. k <= Cardinality(first[s]) + again[s]
    <3>1. Len(runs[s]) + Cardinality(Pending(s)) <= Cardinality(first[s]) + again[s]
      BY <2>1 DEF Turn, PaidByHanding
    <3>2. QED
      BY <2>1, <3>1, PendingFinite
  <2>5. Slot(s, k - 1) <= today + again[s] * Period[s]
    <3>1. PICK p \in Nat : p = Period[s]
      BY SchedulesFit
    <3>2. PICK a \in Nat : a = Start[s]
      BY SchedulesFit
    <3>3. PICK g \in Nat : g = again[s]
      BY <2>1
    <3>4. /\ \A n \in Nat : Slot(s, n) = a + n * p
          /\ again[s] * Period[s] = g * p
      BY <3>1, <3>2, <3>3, Zenon DEF Slot
    <3>5. CASE k - 1 >= g
      <4>1. PICK m \in Nat : m = k - 1 - g
        BY <2>1, <3>5
      <4>2. Cardinality(first[s]) > m
        BY <2>1, <2>4, <3>3, <4>1
      <4>3. Slot(s, m) <= today
        <5>1. ~(today < Slot(s, m))
          BY <2>1, <4>2, FirstDays
        <5>2. Slot(s, m) \in Nat
          BY Slots
        <5>3. QED
          BY <2>1, <5>1, <5>2
      <4>4. k - 1 = m + g /\ (m + g) * p = m * p + g * p /\ m * p \in Nat /\ g * p \in Nat
        <5>1. k - 1 = m + g
          BY <2>1, <4>1
        <5>2. QED
          BY <5>1
      <4>5. Slot(s, m) = a + m * p /\ Slot(s, k - 1) = a + (m * p + g * p)
        <5>1. Slot(s, k - 1) = Slot(s, m + g) /\ m + g \in Nat
          BY <4>4
        <5>2. QED
          BY <3>4, <4>4, <5>1
      <4>6. QED
        <5>1. a + m * p <= today
          BY <3>4, <4>3
        <5>2. ASSUME NEW x \in Nat, NEW y \in Nat, a + x <= today
              PROVE  a + (x + y) <= today + y
          BY <2>1, <5>2
        <5>3. a + (m * p + g * p) <= today + g * p
          BY <4>4, <5>1, <5>2
        <5>4. QED
          BY <3>4, <4>5, <5>3
    <3>6. CASE k - 1 < g
      <4>1. Slot(s, 0) <= today
        <5>1. first[s] # {} /\ IsFiniteSet(first[s])
          BY <2>1, TurnNumbers DEF Turn, HandedFirst
        <5>2. ~(today < Slot(s, 0))
          BY <2>1, <5>1, FirstDays, FS_EmptySet
        <5>3. QED
          BY <2>1, <5>2, Slots
      <4>2. PICK n \in Nat, i \in Nat : n = k - 1 /\ g = n + i
        <5>1. k - 1 \in Nat /\ g - (k - 1) \in Nat /\ g = (k - 1) + (g - (k - 1))
          BY <2>1, <3>6
        <5>2. QED
          BY <5>1
      <4>3. g * p = n * p + i * p /\ i * p \in Nat /\ n * p \in Nat
        BY <4>2
      <4>4. Slot(s, 0) = a
        BY <3>2, Slots
      <4>5. Slot(s, k - 1) = a + n * p
        <5>1. Slot(s, k - 1) = Slot(s, n)
          BY <4>2
        <5>2. QED
          BY <3>4, <4>2, <5>1
      <4>6. QED
        <5>1. a <= today
          BY <4>1, <4>4
        <5>2. ASSUME NEW x \in Nat, NEW y \in Nat PROVE a + x <= today + (x + y)
          BY <2>1, <5>1
        <5>3. a + n * p <= today + (n * p + i * p)
          BY <4>3, <5>2
        <5>4. QED
          BY <3>4, <4>3, <4>5, <5>3
    <3>7. QED
      BY <2>1, <3>3, <3>5, <3>6
  <2>6. QED
    BY <2>2, <2>3, <2>5
<1>3. QED
  BY <1>1, <1>2, TurnStep, PTL DEF FaultSpec
=============================================================================
