---------------------------- MODULE JobDelivery -----------------------------
(***************************************************************************)
(* What is produced outside a request: messages (e-mail, SMS, push),       *)
(* receipts and statements.  A producer stores what is to be done and adds *)
(* a BullMQ job; the workers of email-, sms-, notification- and            *)
(* receipt-service take the jobs.  An item is one such piece of work and   *)
(* has one job.  E-mail and SMS workers are the same program.              *)
(***************************************************************************)
EXTENDS Integers, FiniteSets

CONSTANTS
  Items,        \* messages, receipts and statements to be produced
  Workers,      \* concurrent executions of the workers' process()
  MaxAttempts,  \* BullMQ's "attempts" (the adapter's default is 5)
  MaxStalls,    \* BullMQ's maxStalledCount (its default is 1)
  Faults        \* TRUE: any await may throw and any process may die

Kinds == {"mail", "push", "receipt", "statement"}

ASSUME DeliveryParameters ==
  /\ IsFiniteSet(Workers)
  /\ MaxAttempts \in Nat \ {0}
  /\ MaxStalls \in Nat
  /\ Faults \in BOOLEAN

VARIABLES
  kind,      \* [Items -> Kinds], what is asked for
  producer,  \* [Items -> ProducerStages]
  record,    \* [Items -> RecordStates], notifications or statement_requests
  row,       \* [Items -> Rows], email_queue or sms_queue
  job,       \* [Items -> Jobs]
  out,       \* [Items -> Nat], copies handed over or rows created
  worker,    \* [Workers -> WorkerStates]
  broken     \* history: [Items -> Nat], attempts broken off once they had effects

vars == <<kind, producer, record, row, job, out, worker, broken>>

-----------------------------------------------------------------------------
ProducerStages ==
  {"todo", "createRow", "enqueue", "publish", "done", "skipped", "failed"}
RecordStates == {"ABSENT", "QUEUED", "SENT", "RUNNING", "COMPLETED"}
RowStates == {"ABSENT", "PENDING", "PROCESSING", "SENT", "FAILED"}
Rows == [status : RowStates, attempts : Nat]
JobStates == {"absent", "waiting", "active", "completed", "failed"}
Jobs == [state : JobStates, made : Nat, stalls : Nat]
WorkStages ==
  {"mark", "send", "record", "publish", "markFailed", "throw",
   "push", "generate", "claim", "create", "close", "return"}

Idle == [at |-> "idle"]
\* locked: this execution still holds BullMQ's lock on the job; gave: it has
\* handed over or claimed something.
WorkerStates ==
  {Idle} \cup [at : WorkStages, item : Items, locked : BOOLEAN, gave : BOOLEAN]

Busy(w) == worker[w] # Idle
At(w, stage) == Busy(w) /\ worker[w].at = stage
On(w) == worker[w].item
Goto(w, stage) == worker' = [worker EXCEPT ![w].at = stage]

Init ==
  /\ kind \in [Items -> Kinds]
  /\ producer = [i \in Items |-> "todo"]
  /\ record = [i \in Items |-> "ABSENT"]
  /\ row = [i \in Items |-> [status |-> "ABSENT", attempts |-> 0]]
  /\ job = [i \in Items |-> [state |-> "absent", made |-> 0, stalls |-> 0]]
  /\ out = [i \in Items |-> 0]
  /\ worker = [w \in Workers |-> Idle]
  /\ broken = [i \in Items |-> 0]

-----------------------------------------------------------------------------
(* The producers: sendEmail, sendSms, sendPush, StatementsService.request, *)
(* and the receipt job the transfer handlers add after their commit.       *)

Proceed(i, stage) == producer' = [producer EXCEPT ![i] = stage]

\* The notification or the request is stored, QUEUED; a receipt has no row.
CreateRecord(i) ==
  /\ producer[i] = "todo"
  /\ \/ /\ kind[i] \in {"mail", "push", "statement"}
        /\ record' = [record EXCEPT ![i] = "QUEUED"]
        /\ Proceed(i, IF kind[i] = "mail" THEN "createRow" ELSE "enqueue")
     \/ /\ kind[i] = "receipt"
        /\ Proceed(i, "enqueue")
        /\ UNCHANGED record
     \/ \* the template is missing or inactive
        /\ kind[i] \in {"mail", "push"}
        /\ Proceed(i, "skipped")
        /\ UNCHANGED record
  /\ UNCHANGED <<kind, row, job, out, worker, broken>>

CreateRow(i) ==
  /\ producer[i] = "createRow"
  /\ row' = [row EXCEPT ![i].status = "PENDING"]
  /\ Proceed(i, "enqueue")
  /\ UNCHANGED <<kind, record, job, out, worker, broken>>

Enqueue(i) ==
  /\ producer[i] = "enqueue"
  /\ job' = [job EXCEPT ![i].state = "waiting"]
  /\ Proceed(i, IF kind[i] \in {"mail", "push"} THEN "publish" ELSE "done")
  /\ UNCHANGED <<kind, record, row, out, worker, broken>>

PublishQueued(i) ==
  /\ producer[i] = "publish"
  /\ Proceed(i, "done")
  /\ UNCHANGED <<kind, record, row, job, out, worker, broken>>

\* Whatever was stored so far stays.
ProducerFails(i) ==
  /\ Faults
  /\ producer[i] \in {"createRow", "enqueue", "publish"}
  /\ Proceed(i, "failed")
  /\ UNCHANGED <<kind, record, row, job, out, worker, broken>>

-----------------------------------------------------------------------------
(* BullMQ.                                                                 *)

FirstStage(i) ==
  CASE kind[i] = "mail" -> "mark"
    [] kind[i] = "push" -> "push"
    [] kind[i] = "receipt" -> "generate"
    [] kind[i] = "statement" -> "claim"

Deliver(w, i) ==
  /\ ~Busy(w)
  /\ job[i].state = "waiting"
  /\ job' = [job EXCEPT ![i].state = "active"]
  /\ worker' = [worker EXCEPT ![w] =
       [at |-> FirstStage(i), item |-> i, locked |-> TRUE, gave |-> FALSE]]
  /\ UNCHANGED <<kind, producer, record, row, out, broken>>

Count(w) ==
  broken' = [broken EXCEPT ![On(w)] = @ + (IF worker[w].gave THEN 1 ELSE 0)]

\* process() returned.  An execution that lost its lock is not listened to.
Return(w) ==
  /\ At(w, "return")
  /\ job' = IF worker[w].locked THEN [job EXCEPT ![On(w)].state = "completed"] ELSE job
  /\ worker' = [worker EXCEPT ![w] = Idle]
  /\ UNCHANGED <<kind, producer, record, row, out, broken>>

\* Faulty variant: the job is kept, and never tried again.
Forgotten(j) == [j EXCEPT !.made = @ + 1]

Retried(j) ==
  [state |-> IF j.made + 1 < MaxAttempts THEN "waiting" ELSE "failed",
   made |-> j.made + 1, stalls |-> j.stalls]

\* process() threw: the job waits for its next attempt, or has had its last.
Throw(w) ==
  /\ At(w, "throw")
  /\ job' = IF worker[w].locked THEN [job EXCEPT ![On(w)] = Retried(@)] ELSE job
  /\ Count(w)
  /\ worker' = [worker EXCEPT ![w] = Idle]
  /\ UNCHANGED <<kind, producer, record, row, out>>

Stalled(j) ==
  [state |-> IF j.stalls < MaxStalls THEN "waiting" ELSE "failed",
   made |-> j.made, stalls |-> j.stalls + 1]

\* The process dies; the stalled check finds the job without a lock.
Dies(w) ==
  /\ Faults
  /\ Busy(w)
  /\ job' = IF worker[w].locked THEN [job EXCEPT ![On(w)] = Stalled(@)] ELSE job
  /\ Count(w)
  /\ worker' = [worker EXCEPT ![w] = Idle]
  /\ UNCHANGED <<kind, producer, record, row, out>>

\* The execution does not renew its lock in time and goes on.
LosesLock(w) ==
  /\ Faults
  /\ Busy(w)
  /\ worker[w].locked
  /\ job' = [job EXCEPT ![On(w)] = Stalled(@)]
  /\ broken' = [broken EXCEPT ![On(w)] = @ + 1]
  /\ worker' = [worker EXCEPT ![w].locked = FALSE]
  /\ UNCHANGED <<kind, producer, record, row, out>>

-----------------------------------------------------------------------------
(* EmailWorker.process and SmsWorker.process                               *)

\* Outside the try block: if it throws, the row keeps its status.
MarkProcessing(w) ==
  /\ At(w, "mark")
  /\ \/ /\ row' = [row EXCEPT ![On(w)] = [status |-> "PROCESSING", attempts |-> @.attempts + 1]]
        /\ Goto(w, "send")
     \/ /\ Faults
        /\ Goto(w, "throw")
        /\ UNCHANGED row
  /\ UNCHANGED <<kind, producer, record, job, out, broken>>

HandOver(w, stage) ==
  /\ out' = [out EXCEPT ![On(w)] = @ + 1]
  /\ worker' = [worker EXCEPT ![w].at = stage, ![w].gave = TRUE]

\* Faulty variant: an error of the gateway is answered by another send.
SendAgain(w) ==
  /\ At(w, "send")
  /\ HandOver(w, "record") \/ (Faults /\ HandOver(w, "send"))
  /\ UNCHANGED <<kind, producer, record, row, job, broken>>

\* gateway.send; it may also fail after the provider took the message.
Send(w) ==
  /\ At(w, "send")
  /\ \/ HandOver(w, "record")
     \/ Faults /\ HandOver(w, "markFailed")
     \/ Faults /\ Goto(w, "markFailed") /\ UNCHANGED out
  /\ UNCHANGED <<kind, producer, record, row, job, broken>>

RecordSent(w) ==
  /\ At(w, "record")
  /\ \/ /\ row' = [row EXCEPT ![On(w)].status = "SENT"]
        /\ record' = [record EXCEPT ![On(w)] = "SENT"]
        /\ Goto(w, "publish")
     \/ /\ Faults
        /\ Goto(w, "markFailed")
        /\ UNCHANGED <<row, record>>
  /\ UNCHANGED <<kind, producer, job, out, broken>>

\* NOTIFICATION_SENT, still inside the try block.
PublishSent(w) ==
  /\ At(w, "publish")
  /\ \/ Goto(w, "return")
     \/ Faults /\ Goto(w, "markFailed")
  /\ UNCHANGED <<kind, producer, record, row, job, out, broken>>

\* The catch block: the row is FAILED whatever it was, and the error goes on.
MarkFailed(w) ==
  /\ At(w, "markFailed")
  /\ \/ row' = [row EXCEPT ![On(w)].status = "FAILED"]
     \/ Faults /\ UNCHANGED row
  /\ Goto(w, "throw")
  /\ UNCHANGED <<kind, producer, record, job, out, broken>>

-----------------------------------------------------------------------------
(* PushWorker, ReceiptWorker with ReceiptGeneratorService, StatementWorker *)

\* Delivery is simulated: the notification becomes SENT.
Push(w) ==
  /\ At(w, "push")
  /\ \/ /\ record' = [record EXCEPT ![On(w)] = "SENT"]
        /\ HandOver(w, "return")
     \/ /\ Faults
        /\ Goto(w, "throw")
        /\ UNCHANGED <<kind, record, out>>
  /\ UNCHANGED <<kind, producer, row, job, broken>>

\* A reference number no receipt has (five draws, then an error) and a new row,
\* whether or not the transaction has a receipt already.  (generate returns early
\* if the transaction is not found: no job leads there, since every producer adds
\* its job after the commit and no code deletes a transaction.)
GenerateReceipt(w) ==
  /\ At(w, "generate")
  /\ \/ HandOver(w, "return")
     \/ Faults /\ HandOver(w, "throw")
     \/ Faults /\ Goto(w, "throw") /\ UNCHANGED out
  /\ UNCHANGED <<kind, producer, record, row, job, broken>>

\* Faulty variant: the claim is an update by id.
ClaimUnguarded(w) ==
  /\ At(w, "claim")
  /\ record' = [record EXCEPT ![On(w)] = "RUNNING"]
  /\ worker' = [worker EXCEPT ![w].at = "create", ![w].gave = TRUE]
  /\ UNCHANGED <<kind, producer, row, job, out, broken>>

\* UPDATE ... WHERE status = 'QUEUED'; zero rows is the end of the job.
ClaimStatement(w) ==
  /\ At(w, "claim")
  /\ \/ /\ record[On(w)] = "QUEUED"
        /\ record' = [record EXCEPT ![On(w)] = "RUNNING"]
        /\ worker' = [worker EXCEPT ![w].at = "create", ![w].gave = TRUE]
     \/ /\ record[On(w)] # "QUEUED"
        /\ Goto(w, "return")
        /\ UNCHANGED record
     \/ /\ Faults
        /\ Goto(w, "throw")
        /\ UNCHANGED record
  /\ UNCHANGED <<kind, producer, row, job, out, broken>>

CreateStatement(w) ==
  /\ At(w, "create")
  /\ \/ HandOver(w, "close")
     \/ Faults /\ Goto(w, "throw") /\ UNCHANGED out
  /\ UNCHANGED <<kind, producer, record, row, job, broken>>

CloseStatement(w) ==
  /\ At(w, "close")
  /\ \/ /\ record' = [record EXCEPT ![On(w)] = "COMPLETED"]
        /\ Goto(w, "return")
     \/ /\ Faults
        /\ Goto(w, "throw")
        /\ UNCHANGED record
  /\ UNCHANGED <<kind, producer, row, job, out, broken>>

-----------------------------------------------------------------------------
Produce(i) == CreateRecord(i) \/ CreateRow(i) \/ Enqueue(i) \/ PublishQueued(i)

Work(w) ==
  \/ MarkProcessing(w) \/ Send(w) \/ RecordSent(w) \/ PublishSent(w) \/ MarkFailed(w)
  \/ Push(w) \/ GenerateReceipt(w)
  \/ ClaimStatement(w) \/ CreateStatement(w) \/ CloseStatement(w)
  \/ Return(w) \/ Throw(w)

Next ==
  \/ \E i \in Items : Produce(i) \/ ProducerFails(i)
  \/ \E w \in Workers :
       Work(w) \/ Dies(w) \/ LosesLock(w) \/ \E i \in Items : Deliver(w, i)

Spec == Init /\ [][Next]_vars

\* The event loops run what is pending; BullMQ hands out every waiting job.
FairSpec ==
  /\ Spec
  /\ \A w \in Workers : WF_vars(Work(w))
  /\ \A i \in Items : SF_vars(\E w \in Workers : Deliver(w, i))

-----------------------------------------------------------------------------
TypeOK ==
  /\ kind \in [Items -> Kinds]
  /\ producer \in [Items -> ProducerStages]
  /\ record \in [Items -> RecordStates]
  /\ row \in [Items -> Rows]
  /\ job \in [Items -> Jobs]
  /\ out \in [Items -> Nat]
  /\ worker \in [Workers -> WorkerStates]
  /\ broken \in [Items -> Nat]

\* A second copy of a message or a second receipt comes only from an attempt
\* that broke off after its effect, or whose job was handed out again meanwhile.
ExtraCopiesHaveACause ==
  \A i \in Items : out[i] <= 1 + broken[i]

\* A statement request yields at most one statement, though its job may be
\* delivered again and while an earlier execution still runs.
OneStatementPerRequest ==
  \A i \in Items : kind[i] = "statement" => out[i] <= 1

(* Under fairness.                                                         *)

\* What a producer enqueued comes out, or its job is kept as failed; a statement
\* may also be left RUNNING by an attempt that broke off.
EnqueuedComesOut ==
  \A i \in Items :
    job[i].state # "absent" ~>
      \/ out[i] >= 1
      \/ job[i].state = "failed"
      \/ kind[i] = "statement" /\ broken[i] >= 1
=============================================================================
