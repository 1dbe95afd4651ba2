------------------------- MODULE ScheduledTransfers -------------------------
(***************************************************************************)
(* ScheduledTransfersService (create, cancel), ScheduledTransferWorker and *)
(* the BullMQ queue between them.  A schedule is one row and, while it is  *)
(* SCHEDULED, one delayed job; the job only says which row to look at.     *)
(* Time is counted in days.  The transfer itself is MoneyMovement's        *)
(* handler, seen from the worker: it returns (posted, or held for review), *)
(* or throws, before or after it committed.                                *)
(***************************************************************************)
EXTENDS Integers, Sequences

CONSTANTS
  Schedules,      \* ids of scheduled transfers
  Start,          \* [Schedules -> Nat], day of the first occurrence
  Period,         \* [Schedules -> Nat], days between two; 0 is ONE_TIME
  End,            \* [Schedules -> Nat], endDate; 0 is none
  External,       \* the schedules of wires to a saved beneficiary
  Workers,        \* concurrent executions of the worker's process()
  MaxDeliveries,  \* how often BullMQ hands out one job at most
  Horizon,        \* bound: the last day
  QueueFails,     \* TRUE: adding a job may throw
  LateErrors,     \* TRUE: a transfer may throw after it committed
  Crashes         \* TRUE: a process may die, or the database throw, at any await

ASSUME SchedulesFit ==
  /\ Start \in [Schedules -> Nat]
  /\ Period \in [Schedules -> Nat]
  /\ End \in [Schedules -> Nat]
  /\ External \subseteq Schedules
  /\ MaxDeliveries \in Nat /\ Horizon \in Nat
  /\ {QueueFails, LateErrors, Crashes} \subseteq BOOLEAN

VARIABLES
  today,       \* the clock
  row,         \* [Schedules -> Rows]                  scheduled_transfers
  runs,        \* [Schedules -> Seq(Nat)], occurrences handed to the ledger
  waiting,     \* jobs in the queue, delayed or ready
  creating,    \* [Schedules -> CreateStages]
  cancelling,  \* [Schedules -> CancelStages]
  worker       \* [Workers -> WorkerStates]

vars == <<today, row, runs, waiting, creating, cancelling, worker>>

-----------------------------------------------------------------------------
Statuses == {"ABSENT", "SCHEDULED", "PROCESSING", "COMPLETED", "FAILED", "CANCELLED"}
Reasons == {"none", "rejected", "mfa", "error"}
Rows == [status : Statuses, nextRunAt : Nat, failureReason : Reasons]

NoRow == [status |-> "ABSENT", nextRunAt |-> 0, failureReason |-> "none"]

\* A job: its payload (the schedule), the day it is due, which with the
\* schedule makes the jobId, and how often it was delivered.  A jobId never
\* comes twice, since nextRunAt only grows.
Jobs == [schedule : Schedules, due : Nat, deliveries : Nat]
NewJob(s, due) == [schedule |-> s, due |-> due, deliveries |-> 0]

CreateStages == {"todo", "create", "enqueue", "delete", "done", "failed"}
CancelStages == {"todo", "update", "done"}
WorkStages == {"claim", "load", "transfer", "close", "enqueue", "fail", "notify"}

Idle == [at |-> "idle"]
Busy(w) == worker[w] # Idle
WorkerStates ==
  {Idle} \cup [at : WorkStages, job : Jobs, occurrence : Nat, why : Reasons]

Of(w) == worker[w].job.schedule

At(w, stage) == Busy(w) /\ worker[w].at = stage
Goto(w, stage) == worker' = [worker EXCEPT ![w].at = stage]
Throws(w, why) == worker' = [worker EXCEPT ![w].at = "fail", ![w].why = why]
Finish(w) == worker' = [worker EXCEPT ![w] = Idle]

SetStatus(s, status) == row' = [row EXCEPT ![s].status = status]

Init ==
  /\ today = 0
  /\ row = [s \in Schedules |-> NoRow]
  /\ runs = [s \in Schedules |-> << >>]
  /\ waiting = {}
  /\ creating = [s \in Schedules |-> "todo"]
  /\ cancelling = [s \in Schedules |-> "todo"]
  /\ worker = [w \in Workers |-> Idle]

Tick ==
  /\ today < Horizon
  /\ today' = today + 1
  /\ UNCHANGED <<row, runs, waiting, creating, cancelling, worker>>

-----------------------------------------------------------------------------
(* ScheduledTransfersService.create                                        *)

\* The accounts are the customer's and ACTIVE, startAt is in the future and
\* endDate after it; otherwise nothing happens.
BeginCreate(s) ==
  /\ creating[s] = "todo"
  /\ today < Start[s]
  /\ End[s] # 0 => Start[s] < End[s] /\ Period[s] # 0
  /\ creating' = [creating EXCEPT ![s] = "create"]
  /\ UNCHANGED <<today, row, runs, waiting, cancelling, worker>>

CreateRow(s) ==
  /\ creating[s] = "create"
  /\ row' = [row EXCEPT ![s] = [status |-> "SCHEDULED", nextRunAt |-> Start[s],
                                failureReason |-> "none"]]
  /\ creating' = [creating EXCEPT ![s] = "enqueue"]
  /\ UNCHANGED <<today, runs, waiting, cancelling, worker>>

EnqueueFirst(s) ==
  /\ creating[s] = "enqueue"
  /\ \/ /\ waiting' = waiting \cup {NewJob(s, Start[s])}
        /\ creating' = [creating EXCEPT ![s] = "done"]
     \/ /\ QueueFails
        /\ creating' = [creating EXCEPT ![s] = "delete"]
        /\ UNCHANGED waiting
  /\ UNCHANGED <<today, row, runs, cancelling, worker>>

DeleteRow(s) ==
  /\ creating[s] = "delete"
  /\ row' = [row EXCEPT ![s] = NoRow]
  /\ creating' = [creating EXCEPT ![s] = "failed"]
  /\ UNCHANGED <<today, runs, waiting, cancelling, worker>>

CreateStops(s) ==
  /\ Crashes
  /\ creating[s] \in {"create", "enqueue", "delete"}
  /\ creating' = [creating EXCEPT ![s] = "failed"]
  /\ UNCHANGED <<today, row, runs, waiting, cancelling, worker>>

-----------------------------------------------------------------------------
(* ScheduledTransfersService.cancel: check, then an update by id.          *)

BeginCancel(s) ==
  /\ cancelling[s] = "todo"
  /\ row[s].status = "SCHEDULED"
  /\ cancelling' = [cancelling EXCEPT ![s] = "update"]
  /\ UNCHANGED <<today, row, runs, waiting, creating, worker>>

CancelRow(s) ==
  /\ cancelling[s] = "update"
  /\ IF row[s].status = "ABSENT"
     THEN cancelling' = [cancelling EXCEPT ![s] = "todo"] /\ UNCHANGED row
     ELSE cancelling' = [cancelling EXCEPT ![s] = "done"] /\ SetStatus(s, "CANCELLED")
  /\ UNCHANGED <<today, runs, waiting, creating, worker>>

CancelStops(s) ==
  /\ Crashes
  /\ cancelling[s] = "update"
  /\ cancelling' = [cancelling EXCEPT ![s] = "todo"]
  /\ UNCHANGED <<today, row, runs, waiting, creating, worker>>

-----------------------------------------------------------------------------
(* The queue.                                                              *)

\* BullMQ hands a due job to a free execution slot.
Deliver(w) ==
  /\ ~Busy(w)
  /\ \E j \in waiting :
       /\ j.due <= today
       /\ j.deliveries < MaxDeliveries
       /\ waiting' = waiting \ {j}
       /\ worker' = [worker EXCEPT ![w] =
            [at |-> "claim", job |-> [j EXCEPT !.deliveries = @ + 1],
             occurrence |-> 0, why |-> "none"]]
  /\ UNCHANGED <<today, row, runs, creating, cancelling>>

\* The execution dies or its job throws: BullMQ keeps the job for another
\* delivery (backoff after a throw, the stalled check after a death).
Stops(w) ==
  /\ Crashes
  /\ Busy(w)
  /\ waiting' = waiting \cup {worker[w].job}
  /\ Finish(w)
  /\ UNCHANGED <<today, row, runs, creating, cancelling>>

\* The execution loses its lock on the job while it goes on: BullMQ delivers
\* the job again and ignores what this execution reports about it.
LosesLock(w) ==
  /\ Crashes
  /\ Busy(w)
  /\ worker[w].job.deliveries < MaxDeliveries
  /\ waiting' = waiting \cup {worker[w].job}
  /\ worker' = [worker EXCEPT ![w].job.deliveries = MaxDeliveries]
  /\ UNCHANGED <<today, row, runs, creating, cancelling>>

-----------------------------------------------------------------------------
(* ScheduledTransferWorker.process                                         *)

\* Faulty variant: the claim is an update by id.
ClaimUnguarded(w) ==
  /\ At(w, "claim")
  /\ SetStatus(Of(w), "PROCESSING")
  /\ Goto(w, "load")
  /\ UNCHANGED <<today, runs, waiting, creating, cancelling>>

\* UPDATE ... WHERE status = 'SCHEDULED'; zero rows is a no-op.
Claim(w) ==
  /\ At(w, "claim")
  /\ IF row[Of(w)].status = "SCHEDULED"
     THEN SetStatus(Of(w), "PROCESSING") /\ Goto(w, "load")
     ELSE Finish(w) /\ UNCHANGED row
  /\ UNCHANGED <<today, runs, waiting, creating, cancelling>>

Load(w) ==
  /\ At(w, "load")
  /\ worker' = [worker EXCEPT ![w].at = "transfer", ![w].occurrence = row[Of(w)].nextRunAt]
  /\ UNCHANGED <<today, row, runs, waiting, creating, cancelling>>

\* The worker passes no mfaCode: a wire always asks for one, an internal
\* transfer that is flagged asks for one or is held, which counts as done.
Transfer(w) ==
  /\ At(w, "transfer")
  /\ \/ /\ Of(w) \notin External
        /\ runs' = [runs EXCEPT ![Of(w)] = Append(@, worker[w].occurrence)]
        /\ \/ Goto(w, "close")
           \/ LateErrors /\ Throws(w, "error")
     \/ /\ \E why \in {"rejected", "mfa", "error"} :
             (why = "error" => Crashes) /\ Throws(w, why)
        /\ UNCHANGED runs
  /\ UNCHANGED <<today, row, waiting, creating, cancelling>>

\* Faulty variant: the next run counts from today, not from the occurrence.
NextFromToday(w) == today + Period[Of(w)]

NextRun(w) == worker[w].occurrence + Period[Of(w)]

\* onOccurrenceSucceeded, its update; still inside the try block.
Close(w) ==
  /\ At(w, "close")
  /\ LET s == Of(w)
     IN  \/ /\ Period[s] = 0 \/ (End[s] # 0 /\ NextRun(w) > End[s])
            /\ SetStatus(s, "COMPLETED")
            /\ Finish(w)
         \/ /\ Period[s] # 0 /\ (End[s] # 0 => NextRun(w) <= End[s])
            /\ row' = [row EXCEPT ![s].status = "SCHEDULED", ![s].nextRunAt = NextRun(w)]
            /\ Goto(w, "enqueue")
         \/ Crashes /\ Throws(w, "error") /\ UNCHANGED row
  /\ UNCHANGED <<today, runs, waiting, creating, cancelling>>

\* Faulty variant: the next job is never added.
EnqueueNothing(w) ==
  /\ At(w, "enqueue")
  /\ Finish(w)
  /\ UNCHANGED <<today, row, runs, waiting, creating, cancelling>>

EnqueueNextRun(w) ==
  /\ At(w, "enqueue")
  /\ \/ waiting' = waiting \cup {NewJob(Of(w), NextRun(w))} /\ Finish(w)
     \/ QueueFails /\ Throws(w, "error") /\ UNCHANGED waiting
  /\ UNCHANGED <<today, row, runs, creating, cancelling>>

\* The catch block: an update by id, then the TRANSFER_FAILED_EMAIL.
MarkFailed(w) ==
  /\ At(w, "fail")
  /\ row' = [row EXCEPT ![Of(w)].status = "FAILED", ![Of(w)].failureReason = worker[w].why]
  /\ Goto(w, "notify")
  /\ UNCHANGED <<today, runs, waiting, creating, cancelling>>

Notify(w) ==
  /\ At(w, "notify")
  /\ Finish(w)
  /\ UNCHANGED <<today, row, runs, waiting, creating, cancelling>>

-----------------------------------------------------------------------------
Serve(s) ==
  CreateRow(s) \/ EnqueueFirst(s) \/ DeleteRow(s) \/ CancelRow(s)

Work(w) ==
  \/ Claim(w) \/ Load(w) \/ Transfer(w) \/ Close(w)
  \/ EnqueueNextRun(w) \/ MarkFailed(w) \/ Notify(w)

Next ==
  \/ Tick
  \/ \E s \in Schedules :
       Serve(s) \/ BeginCreate(s) \/ BeginCancel(s) \/ CreateStops(s) \/ CancelStops(s)
  \/ \E w \in Workers : Work(w) \/ Deliver(w) \/ Stops(w) \/ LosesLock(w)

Spec == Init /\ [][Next]_vars

-----------------------------------------------------------------------------
TypeOK ==
  /\ today \in 0..Horizon
  /\ row \in [Schedules -> Rows]
  /\ runs \in [Schedules -> Seq(Nat)]
  /\ waiting \subseteq Jobs
  /\ creating \in [Schedules -> CreateStages]
  /\ cancelling \in [Schedules -> CancelStages]
  /\ worker \in [Workers -> WorkerStates]

(* Whatever crashes, is delivered twice or is cancelled meanwhile.         *)

\* Between its claim and the update that closes it, an occurrence has one
\* execution: claiming is atomic, so two deliveries never both transfer.
Running(w, s) ==
  /\ Busy(w)
  /\ worker[w].at \in {"load", "transfer", "close"}
  /\ Of(w) = s

OneExecutionAtATime ==
  \A s \in Schedules, v, w \in Workers : Running(v, s) /\ Running(w, s) => v = w

\* A job that fires after the cancellation is a no-op: once nothing claimed
\* before it is still under way, neither the row nor its runs change again.
Claimed(s) ==
  \E w \in Workers : Busy(w) /\ Of(w) = s /\ worker[w].at \notin {"claim", "notify"}

CancelledIsNoOp ==
  [][\A s \in Schedules :
       (row[s].status = "CANCELLED" /\ ~Claimed(s) /\ creating[s] \in {"done", "failed"})
         => row'[s] = row[s] /\ runs'[s] = runs[s]]_<<row, runs>>
=============================================================================
