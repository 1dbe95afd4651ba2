----------------------------- MODULE EdgeProofs -----------------------------
(***************************************************************************)
(* The two edges of the platform: the workers, through which its messages, *)
(* receipts and statements leave it, and the tab, through which work       *)
(* comes in.  For any number of items and executions, attempts and stalls, *)
(* and with every kind of failure: what JobDelivery says of extra copies   *)
(* and of statements.  For any tour and any number of presses: what Tab    *)
(* says of the lists on the screen and of calls made twice.                *)
(***************************************************************************)
EXTENDS JobDelivery, Tab, FiniteSetTheorems, TLAPS

-----------------------------------------------------------------------------
(* The workers: types.                                                     *)

Executions == [at : WorkStages, item : Items, locked : BOOLEAN, gave : BOOLEAN]

LEMMA BusyShape ==
  ASSUME TypeOK, NEW w \in Workers, Busy(w)
  PROVE  worker[w] \in Executions /\ On(w) \in Items
BY DEF TypeOK, Busy, WorkerStates, Executions, On

LEMMA AtIsBusy ==
  ASSUME NEW w \in Workers, NEW s, At(w, s)
  PROVE  Busy(w) /\ worker[w].at = s
BY DEF At

\* Moving on, handing over and ending keep the types of what they change.
LEMMA GotoTyped ==
  ASSUME TypeOK, NEW w \in Workers, Busy(w), NEW s \in WorkStages, Goto(w, s)
  PROVE  worker' \in [Workers -> WorkerStates]
<1>1. [worker[w] EXCEPT !.at = s] \in Executions
  BY BusyShape DEF Executions
<1>2. worker' = [worker EXCEPT ![w] = [worker[w] EXCEPT !.at = s]]
  BY Zenon DEF Goto
<1> QED
  BY <1>1, <1>2 DEF TypeOK, WorkerStates, Executions

LEMMA GivesTyped ==
  ASSUME TypeOK, NEW w \in Workers, Busy(w), NEW s \in WorkStages,
         worker' = [worker EXCEPT ![w].at = s, ![w].gave = TRUE]
  PROVE  worker' \in [Workers -> WorkerStates]
<1>1. [worker[w] EXCEPT !.at = s, !.gave = TRUE] \in Executions
  BY BusyShape DEF Executions
<1>2. worker' = [worker EXCEPT ![w] = [worker[w] EXCEPT !.at = s, !.gave = TRUE]]
  BY Zenon DEF TypeOK
<1> QED
  BY <1>1, <1>2 DEF TypeOK, WorkerStates, Executions

LEMMA HandOverTyped ==
  ASSUME TypeOK, NEW w \in Workers, Busy(w), NEW s \in WorkStages, HandOver(w, s)
  PROVE  worker' \in [Workers -> WorkerStates] /\ out' \in [Items -> Nat]
<1>1. worker' \in [Workers -> WorkerStates]
  BY GivesTyped DEF HandOver
<1>2. out' \in [Items -> Nat]
  BY BusyShape DEF HandOver, TypeOK
<1> QED
  BY <1>1, <1>2

LEMMA EndTyped ==
  ASSUME TypeOK, NEW w \in Workers, worker' = [worker EXCEPT ![w] = Idle]
  PROVE  worker' \in [Workers -> WorkerStates]
BY DEF TypeOK, WorkerStates

LEMMA CountTyped ==
  ASSUME TypeOK, NEW w \in Workers, Busy(w), Count(w)
  PROVE  broken' \in [Items -> Nat]
BY BusyShape DEF Count, TypeOK, Executions

\* What BullMQ makes of a job is a job.
LEMMA JobTyped ==
  ASSUME NEW j \in Jobs
  PROVE  /\ Retried(j) \in Jobs
         /\ Stalled(j) \in Jobs
         /\ \A s \in JobStates : [j EXCEPT !.state = s] \in Jobs
BY DeliveryParameters DEF Retried, Stalled, Jobs, JobStates

LEMMA TypeStep == TypeOK /\ [Next]_vars => TypeOK'
<1> SUFFICES ASSUME TypeOK, [Next]_vars PROVE TypeOK'
  OBVIOUS
<1>1. CASE UNCHANGED vars
  BY <1>1 DEF TypeOK, vars
<1>2. ASSUME NEW i \in Items, CreateRecord(i) PROVE TypeOK'
  BY <1>2 DEF TypeOK, CreateRecord, Proceed, ProducerStages, RecordStates
<1>3. ASSUME NEW i \in Items, CreateRow(i) PROVE TypeOK'
  <2>1. [row[i] EXCEPT !.status = "PENDING"] \in Rows
    BY DEF TypeOK, Rows, RowStates
  <2>2. row' = [row EXCEPT ![i] = [row[i] EXCEPT !.status = "PENDING"]]
    BY <1>3, Zenon DEF CreateRow
  <2> QED
    BY <1>3, <2>1, <2>2 DEF TypeOK, CreateRow, Proceed, ProducerStages
<1>4. ASSUME NEW i \in Items, Enqueue(i) PROVE TypeOK'
  <2>1. [job[i] EXCEPT !.state = "waiting"] \in Jobs
    BY JobTyped DEF TypeOK, JobStates
  <2>2. job' = [job EXCEPT ![i] = [job[i] EXCEPT !.state = "waiting"]]
    BY <1>4, Zenon DEF Enqueue
  <2> QED
    BY <1>4, <2>1, <2>2 DEF TypeOK, Enqueue, Proceed, ProducerStages
<1>5. ASSUME NEW i \in Items, PublishQueued(i) \/ ProducerFails(i) PROVE TypeOK'
  BY <1>5 DEF TypeOK, PublishQueued, ProducerFails, Proceed, ProducerStages
<1>6. ASSUME NEW w \in Workers, NEW i \in Items, Deliver(w, i) PROVE TypeOK'
  <2>1. [job[i] EXCEPT !.state = "active"] \in Jobs
    BY JobTyped DEF TypeOK, JobStates
  <2>2. job' = [job EXCEPT ![i] = [job[i] EXCEPT !.state = "active"]]
    BY <1>6, Zenon DEF Deliver
  <2>3. FirstStage(i) \in WorkStages
    BY DEF TypeOK, Kinds, FirstStage, WorkStages
  <2>4. [at |-> FirstStage(i), item |-> i, locked |-> TRUE, gave |-> FALSE] \in WorkerStates
    BY <2>3 DEF WorkerStates
  <2> QED
    BY <1>6, <2>1, <2>2, <2>4 DEF TypeOK, Deliver
<1>7. ASSUME NEW w \in Workers, Return(w) PROVE TypeOK'
  <2>1. On(w) \in Items
    BY <1>7, AtIsBusy, BusyShape DEF Return
  <2>2. [job[On(w)] EXCEPT !.state = "completed"] \in Jobs
    BY <2>1, JobTyped DEF TypeOK, JobStates
  <2>3. \/ job' = job
        \/ job' = [job EXCEPT ![On(w)] = [job[On(w)] EXCEPT !.state = "completed"]]
    BY <1>7, Zenon DEF Return
  <2> QED
    BY <1>7, <2>1, <2>2, <2>3, EndTyped DEF TypeOK, Return
<1>8. ASSUME NEW w \in Workers, Throw(w) \/ Dies(w) PROVE TypeOK'
  <2>1. Busy(w) /\ On(w) \in Items
    BY <1>8, AtIsBusy, BusyShape DEF Throw, Dies
  <2>2. Retried(job[On(w)]) \in Jobs /\ Stalled(job[On(w)]) \in Jobs
    BY <2>1, JobTyped DEF TypeOK
  <2>3. \/ job' = job
        \/ job' = [job EXCEPT ![On(w)] = Retried(job[On(w)])]
        \/ job' = [job EXCEPT ![On(w)] = Stalled(job[On(w)])]
    BY <1>8, Zenon DEF Throw, Dies
  <2> QED
    BY <1>8, <2>1, <2>2, <2>3, EndTyped, CountTyped DEF TypeOK, Throw, Dies
<1>9. ASSUME NEW w \in Workers, LosesLock(w) PROVE TypeOK'
  <2>1. Busy(w) /\ On(w) \in Items /\ worker[w] \in Executions
    BY <1>9, BusyShape DEF LosesLock
  <2>2. Stalled(job[On(w)]) \in Jobs
    BY <2>1, JobTyped DEF TypeOK
  <2>3. [worker[w] EXCEPT !.locked = FALSE] \in WorkerStates
    BY <2>1 DEF Executions, WorkerStates
  <2>4. worker' = [worker EXCEPT ![w] = [worker[w] EXCEPT !.locked = FALSE]]
    BY <1>9, Zenon DEF LosesLock
  <2>5. broken' \in [Items -> Nat]
    BY <1>9, <2>1 DEF LosesLock, TypeOK
  <2>6. job' = [job EXCEPT ![On(w)] = Stalled(job[On(w)])]
    BY <1>9, Zenon DEF LosesLock
  <2> QED
    BY <1>9, <2>1, <2>2, <2>3, <2>4, <2>5, <2>6 DEF TypeOK, LosesLock
<1>10. ASSUME NEW w \in Workers, MarkProcessing(w) \/ RecordSent(w) \/ MarkFailed(w) PROVE TypeOK'
  <2>1. Busy(w) /\ On(w) \in Items
    BY <1>10, AtIsBusy, BusyShape DEF MarkProcessing, RecordSent, MarkFailed
  <2>2. worker' \in [Workers -> WorkerStates]
    BY <1>10, <2>1, GotoTyped DEF MarkProcessing, RecordSent, MarkFailed, WorkStages
  <2>3. row' \in [Items -> Rows]
    <3>1. /\ [status |-> "PROCESSING", attempts |-> row[On(w)].attempts + 1] \in Rows
          /\ [row[On(w)] EXCEPT !.status = "SENT"] \in Rows
          /\ [row[On(w)] EXCEPT !.status = "FAILED"] \in Rows
      BY <2>1 DEF TypeOK, Rows, RowStates
    <3>2. \/ row' = row
          \/ row' = [row EXCEPT ![On(w)] = [status |-> "PROCESSING", attempts |-> row[On(w)].attempts + 1]]
          \/ row' = [row EXCEPT ![On(w)] = [row[On(w)] EXCEPT !.status = "SENT"]]
          \/ row' = [row EXCEPT ![On(w)] = [row[On(w)] EXCEPT !.status = "FAILED"]]
      BY <1>10, Zenon DEF MarkProcessing, RecordSent, MarkFailed
    <3> QED
      BY <2>1, <3>1, <3>2 DEF TypeOK
  <2>4. record' \in [Items -> RecordStates]
    BY <1>10, <2>1 DEF MarkProcessing, RecordSent, MarkFailed, TypeOK, RecordStates
  <2> QED
    BY <1>10, <2>2, <2>3, <2>4 DEF MarkProcessing, RecordSent, MarkFailed, TypeOK
<1>11. ASSUME NEW w \in Workers,
              Send(w) \/ PublishSent(w) \/ Push(w) \/ GenerateReceipt(w) \/ CreateStatement(w)
       PROVE  TypeOK'
  <2>1. Busy(w) /\ On(w) \in Items
    BY <1>11, AtIsBusy, BusyShape DEF Send, PublishSent, Push, GenerateReceipt, CreateStatement
  <2>2. worker' \in [Workers -> WorkerStates] /\ out' \in [Items -> Nat]
    BY <1>11, <2>1, GotoTyped, HandOverTyped
       DEF Send, PublishSent, Push, GenerateReceipt, CreateStatement, WorkStages, TypeOK
  <2>3. record' \in [Items -> RecordStates]
    BY <1>11, <2>1 DEF Send, PublishSent, Push, GenerateReceipt, CreateStatement, TypeOK, RecordStates
  <2> QED
    BY <1>11, <2>2, <2>3 DEF Send, PublishSent, Push, GenerateReceipt, CreateStatement, TypeOK
<1>12. ASSUME NEW w \in Workers, ClaimStatement(w) \/ CloseStatement(w) PROVE TypeOK'
  <2>1. Busy(w) /\ On(w) \in Items
    BY <1>12, AtIsBusy, BusyShape DEF ClaimStatement, CloseStatement
  <2>2. worker' \in [Workers -> WorkerStates]
    BY <1>12, <2>1, GotoTyped, GivesTyped DEF ClaimStatement, CloseStatement, WorkStages
  <2>3. record' \in [Items -> RecordStates]
    BY <1>12, <2>1 DEF ClaimStatement, CloseStatement, TypeOK, RecordStates
  <2> QED
    BY <1>12, <2>2, <2>3 DEF ClaimStatement, CloseStatement, TypeOK
<1> QED
  BY <1>1, <1>2, <1>3, <1>4, <1>5, <1>6, <1>7, <1>8, <1>9, <1>10, <1>11, <1>12
     DEF Next, Produce, Work

\* Every reachable state of producers, jobs, rows and executions is well typed.
THEOREM DeliveryTypeCorrect == Spec => []TypeOK
<1>1. Init => TypeOK
  BY DEF Init, TypeOK, ProducerStages, RecordStates, Rows, RowStates, Jobs, JobStates, WorkerStates
<1> QED
  BY <1>1, TypeStep, PTL DEF Spec

-----------------------------------------------------------------------------
(* How the steps of one execution change it.                               *)

LEMMA Moved ==
  ASSUME TypeOK, NEW w \in Workers, Busy(w), NEW s \in WorkStages, Goto(w, s)
  PROVE  /\ Busy(w)' /\ worker'[w].at = s /\ On(w)' = On(w)
         /\ worker'[w].locked = worker[w].locked
         /\ worker'[w].gave = worker[w].gave
         /\ \A v \in Workers \ {w} : worker'[v] = worker[v]
<1>1. worker' = [worker EXCEPT ![w] = [worker[w] EXCEPT !.at = s]]
  BY Zenon DEF Goto
<1>2. worker'[w] = [worker[w] EXCEPT !.at = s]
  BY <1>1 DEF TypeOK
<1> QED
  BY <1>1, <1>2, BusyShape DEF TypeOK, Busy, On, Executions, Idle, WorkStages

LEMMA Gave ==
  ASSUME TypeOK, NEW w \in Workers, Busy(w), NEW s \in WorkStages,
         worker' = [worker EXCEPT ![w].at = s, ![w].gave = TRUE]
  PROVE  /\ Busy(w)' /\ worker'[w].at = s /\ On(w)' = On(w)
         /\ worker'[w].locked = worker[w].locked
         /\ worker'[w].gave = TRUE
         /\ \A v \in Workers \ {w} : worker'[v] = worker[v]
<1>1. worker' = [worker EXCEPT ![w] = [worker[w] EXCEPT !.at = s, !.gave = TRUE]]
  BY Zenon DEF TypeOK
<1>2. worker'[w] = [worker[w] EXCEPT !.at = s, !.gave = TRUE]
  BY <1>1 DEF TypeOK
<1> QED
  BY <1>1, <1>2, BusyShape DEF TypeOK, Busy, On, Executions, Idle, WorkStages

LEMMA Ended ==
  ASSUME TypeOK, NEW w \in Workers, worker' = [worker EXCEPT ![w] = Idle]
  PROVE  ~Busy(w)' /\ \A v \in Workers \ {w} : worker'[v] = worker[v]
BY DEF TypeOK, Busy

LEMMA Lost ==
  ASSUME TypeOK, NEW w \in Workers, LosesLock(w)
  PROVE  /\ Busy(w) /\ Busy(w)' /\ On(w)' = On(w)
         /\ worker'[w].at = worker[w].at /\ worker'[w].gave = worker[w].gave
         /\ ~worker'[w].locked
         /\ \A v \in Workers \ {w} : worker'[v] = worker[v]
<1>0. Busy(w)
  BY DEF LosesLock
<1>1. worker' = [worker EXCEPT ![w] = [worker[w] EXCEPT !.locked = FALSE]]
  BY Zenon DEF LosesLock
<1>2. worker'[w] = [worker[w] EXCEPT !.locked = FALSE]
  BY <1>1 DEF TypeOK
<1> QED
  BY <1>0, <1>1, <1>2, BusyShape DEF TypeOK, Busy, On, Executions, Idle, WorkStages

\* The kinds of step an execution makes: it moves on, it hands something over,
\* it claims a statement, or it ends.
Moves(w) ==
  /\ \/ worker[w].at = "mark" /\ Goto(w, "send")
     \/ /\ worker[w].at \in {"send", "record", "publish"}
        /\ \E s \in {"publish", "markFailed"} : Goto(w, s)
     \/ \E s \in {"return", "throw"} : Goto(w, s)
  /\ UNCHANGED <<kind, producer, job, out, broken>>
Gives(w) ==
  /\ worker[w].at \in {"send", "push", "generate", "create"}
  /\ \/ worker[w].at = "send" /\ \E s \in {"record", "markFailed"} : HandOver(w, s)
     \/ worker[w].at = "create" /\ HandOver(w, "close")
     \/ \E s \in {"return", "throw"} : HandOver(w, s)
  /\ UNCHANGED <<kind, producer, job, broken>>
Claims(w) ==
  /\ At(w, "claim") /\ record[On(w)] = "QUEUED"
  /\ record' = [record EXCEPT ![On(w)] = "RUNNING"]
  /\ worker' = [worker EXCEPT ![w].at = "create", ![w].gave = TRUE]
  /\ UNCHANGED <<kind, producer, job, out, broken>>
Ends(w) ==
  /\ worker' = [worker EXCEPT ![w] = Idle]
  /\ \/ /\ At(w, "return")
        /\ job' = IF worker[w].locked THEN [job EXCEPT ![On(w)].state = "completed"] ELSE job
        /\ UNCHANGED broken
     \/ /\ \/ job' = IF worker[w].locked THEN [job EXCEPT ![On(w)] = Retried(@)] ELSE job
           \/ job' = IF worker[w].locked THEN [job EXCEPT ![On(w)] = Stalled(@)] ELSE job
        /\ Count(w)
  /\ UNCHANGED <<kind, producer, record, row, out>>

\* The producer of i has not added its job yet.
Early(i) == producer[i] \in {"todo", "createRow", "enqueue"}

\* Which stages belong to which kind of item, and when something was given.
Fits(w) ==
  /\ worker[w].at \in {"claim", "create", "close"} => kind[On(w)] = "statement"
  /\ worker[w].at \in {"mark", "send", "record", "publish", "markFailed", "push", "generate"}
       => kind[On(w)] # "statement"
  /\ worker[w].at \in {"mark", "send", "push", "generate", "claim"} => ~worker[w].gave
  /\ worker[w].locked => job[On(w)].state = "active"

Locks ==
  /\ \A i \in Items : Early(i) => job[i].state = "absent"
  /\ \A w \in Workers : Busy(w) => ~Early(On(w))
  /\ \A w \in Workers : Busy(w) => Fits(w)
  /\ \A v, w \in Workers :
       Busy(v) /\ Busy(w) /\ worker[v].locked /\ worker[w].locked /\ On(v) = On(w) => v = w

LEMMA StepKinds ==
  ASSUME TypeOK, NEW w \in Workers, Work(w) \/ Dies(w)
  PROVE  Busy(w) /\ (Moves(w) \/ Gives(w) \/ Claims(w) \/ Ends(w))
<1>1. CASE MarkProcessing(w) \/ RecordSent(w) \/ PublishSent(w) \/ MarkFailed(w) \/ CloseStatement(w)
  BY <1>1, AtIsBusy
     DEF MarkProcessing, RecordSent, PublishSent, MarkFailed, CloseStatement, Moves
<1>2. CASE Send(w) \/ Push(w) \/ GenerateReceipt(w) \/ CreateStatement(w)
  BY <1>2, AtIsBusy DEF Send, Push, GenerateReceipt, CreateStatement, Moves, Gives
<1>3. CASE ClaimStatement(w)
  BY <1>3, AtIsBusy DEF ClaimStatement, Claims, Moves
<1>4. CASE Return(w) \/ Throw(w) \/ Dies(w)
  BY <1>4, AtIsBusy DEF Return, Throw, Dies, Ends
<1> QED
  BY <1>1, <1>2, <1>3, <1>4 DEF Work

LEMMA MoveFits ==
  ASSUME TypeOK, Locks, NEW w \in Workers, Busy(w), Moves(w) \/ Gives(w) \/ Claims(w)
  PROVE  Busy(w)' /\ On(w)' = On(w) /\ worker'[w].locked = worker[w].locked /\ Fits(w)'
         /\ \A v \in Workers \ {w} : worker'[v] = worker[v]
<1>0. Fits(w) /\ kind' = kind /\ job' = job
  BY DEF Locks, Moves, Gives, Claims
<1>1. CASE Moves(w)
  <2>1. ASSUME NEW s \in WorkStages, Goto(w, s)
        PROVE  /\ Busy(w)' /\ worker'[w].at = s /\ On(w)' = On(w)
               /\ worker'[w].locked = worker[w].locked
               /\ worker'[w].gave = worker[w].gave
               /\ \A v \in Workers \ {w} : worker'[v] = worker[v]
    BY <2>1, Moved
  <2>2. \/ worker[w].at = "mark" /\ Goto(w, "send")
        \/ worker[w].at \in {"send", "record", "publish"} /\ Goto(w, "publish")
        \/ worker[w].at \in {"send", "record", "publish"} /\ Goto(w, "markFailed")
        \/ Goto(w, "return")
        \/ Goto(w, "throw")
    BY <1>1 DEF Moves
  <2> QED
    BY <1>0, <2>1, <2>2 DEF Fits, WorkStages
<1>2. CASE Gives(w)
  <2>1. ASSUME NEW s \in WorkStages, HandOver(w, s)
        PROVE  /\ Busy(w)' /\ worker'[w].at = s /\ On(w)' = On(w)
               /\ worker'[w].locked = worker[w].locked
               /\ \A v \in Workers \ {w} : worker'[v] = worker[v]
    BY <2>1, Gave DEF HandOver
  <2>2. \/ worker[w].at = "send" /\ HandOver(w, "record")
        \/ worker[w].at = "send" /\ HandOver(w, "markFailed")
        \/ worker[w].at = "create" /\ HandOver(w, "close")
        \/ HandOver(w, "return")
        \/ HandOver(w, "throw")
    BY <1>2 DEF Gives
  <2> QED
    BY <1>0, <2>1, <2>2 DEF Fits, WorkStages
<1>3. CASE Claims(w)
  BY <1>0, <1>3, Gave DEF Claims, At, Fits, WorkStages
<1> QED
  BY <1>1, <1>2, <1>3

\* An item has no job, and no execution, before its producer adds the job.
LEMMA EarlyStep ==
  TypeOK /\ Locks /\ [Next]_vars => \A i \in Items : Early(i)' => job'[i].state = "absent"
<1> SUFFICES ASSUME TypeOK, Locks, [Next]_vars, NEW i \in Items, Early(i)'
             PROVE  job'[i].state = "absent"
  OBVIOUS
<1>1. CASE UNCHANGED vars
  BY <1>1 DEF Locks, Early, vars
<1>2. ASSUME NEW k \in Items, Produce(k) \/ ProducerFails(k) PROVE job'[i].state = "absent"
  BY <1>2 DEF Produce, CreateRecord, CreateRow, Enqueue, PublishQueued, ProducerFails, Proceed,
              TypeOK, Locks, Early
<1>3. ASSUME NEW w \in Workers, NEW k \in Items, Deliver(w, k) PROVE job'[i].state = "absent"
  BY <1>3 DEF Deliver, TypeOK, Locks, Early
<1>4. ASSUME NEW w \in Workers, Busy(w),
             Moves(w) \/ Gives(w) \/ Claims(w) \/ Ends(w) \/ LosesLock(w)
      PROVE  job'[i].state = "absent"
  <2>1. producer' = producer
    BY <1>4 DEF Moves, Gives, Claims, Ends, LosesLock
  <2>2. \/ job' = job
        \/ worker[w].locked /\ \E j : job' = [job EXCEPT ![On(w)] = j]
    BY <1>4, Zenon DEF Moves, Gives, Claims, Ends, LosesLock
  <2>3. worker[w].locked => On(w) # i
    BY <1>4, <2>1 DEF Locks, Fits, Early
  <2> QED
    BY <2>1, <2>2, <2>3 DEF Locks, Early, TypeOK
<1>5. \A w \in Workers : LosesLock(w) => Busy(w)
  BY DEF LosesLock
<1> QED
  BY <1>1, <1>2, <1>3, <1>4, <1>5, StepKinds DEF Next

LEMMA EarlyIsUntouched ==
  TypeOK /\ Locks /\ [Next]_vars => \A w \in Workers : Busy(w)' => ~Early(On(w))'
<1> SUFFICES ASSUME TypeOK, Locks, [Next]_vars, NEW w \in Workers, Busy(w)'
             PROVE  ~Early(On(w))'
  OBVIOUS
<1>1. CASE UNCHANGED vars
  BY <1>1 DEF Locks, Early, Busy, On, vars
<1>2. ASSUME NEW k \in Items, Produce(k) \/ ProducerFails(k) PROVE ~Early(On(w))'
  <2>1. worker' = worker
    BY <1>2 DEF Produce, CreateRecord, CreateRow, Enqueue, PublishQueued, ProducerFails
  <2>2. Busy(w) /\ On(w) \in Items
    BY <2>1, BusyShape DEF Busy
  <2> QED
    BY <1>2, <2>1, <2>2
       DEF Produce, CreateRecord, CreateRow, Enqueue, PublishQueued, ProducerFails, Proceed,
           TypeOK, Locks, Early, On
<1>3. ASSUME NEW v \in Workers, NEW k \in Items, Deliver(v, k) PROVE ~Early(On(w))'
  <2>1. ~Early(k) /\ producer' = producer
    BY <1>3 DEF Deliver, Locks
  <2> QED
    BY <1>3, <2>1 DEF Deliver, TypeOK, Locks, Early, Busy, On
<1>4. ASSUME NEW v \in Workers, Busy(v),
             Moves(v) \/ Gives(v) \/ Claims(v) \/ Ends(v) \/ LosesLock(v)
      PROVE  ~Early(On(w))'
  <2>1. producer' = producer
    BY <1>4 DEF Moves, Gives, Claims, Ends, LosesLock
  <2>2. /\ \A u \in Workers \ {v} : worker'[u] = worker[u]
        /\ Busy(v)' => On(v)' = On(v)
    <3>1. CASE Moves(v) \/ Gives(v) \/ Claims(v)
      BY <1>4, <3>1, MoveFits
    <3>2. CASE Ends(v)
      BY <3>2, Ended DEF Ends
    <3>3. CASE LosesLock(v)
      BY <3>3, Lost
    <3> QED
      BY <1>4, <3>1, <3>2, <3>3
  <2>3. Busy(w) /\ On(w)' = On(w)
    BY <1>4, <2>2 DEF Busy, On
  <2> QED
    BY <2>1, <2>3 DEF Locks, Early
<1>5. \A v \in Workers : LosesLock(v) => Busy(v)
  BY DEF LosesLock
<1> QED
  BY <1>1, <1>2, <1>3, <1>4, <1>5, StepKinds DEF Next

LEMMA LocksStep == TypeOK /\ Locks /\ [Next]_vars => Locks'
<1> SUFFICES ASSUME TypeOK, Locks, [Next]_vars PROVE Locks'
  OBVIOUS
<1>0. /\ \A i \in Items : Early(i)' => job'[i].state = "absent"
      /\ \A w \in Workers : Busy(w)' => ~Early(On(w))'
  BY EarlyStep, EarlyIsUntouched
<1>1. CASE UNCHANGED vars
  BY <1>0, <1>1 DEF Locks, Fits, Busy, On, vars
<1>2. ASSUME NEW i \in Items, Produce(i) \/ ProducerFails(i) PROVE Locks'
  <2>1. worker' = worker /\ kind' = kind
    BY <1>2 DEF Produce, CreateRecord, CreateRow, Enqueue, PublishQueued, ProducerFails
  <2>2. ASSUME NEW w \in Workers, Busy(w), worker[w].locked PROVE job'[On(w)].state = "active"
    <3>1. job[On(w)].state = "active" /\ On(w) \in Items
      BY <2>2, BusyShape DEF Locks, Fits
    <3>2. CASE UNCHANGED job
      BY <3>1, <3>2
    <3>3. CASE Enqueue(i)
      BY <3>1, <3>3 DEF Enqueue, Locks, Early, TypeOK
    <3> QED
      BY <1>2, <3>2, <3>3 DEF Produce, CreateRecord, CreateRow, PublishQueued, ProducerFails
  <2> QED
    BY <1>0, <2>1, <2>2 DEF Locks, Fits, Busy, On
<1>3. ASSUME NEW w \in Workers, NEW i \in Items, Deliver(w, i) PROVE Locks'
  <2>1. /\ worker'[w] = [at |-> FirstStage(i), item |-> i, locked |-> TRUE, gave |-> FALSE]
        /\ \A v \in Workers \ {w} : worker'[v] = worker[v]
        /\ job[i].state = "waiting" /\ job'[i].state = "active"
        /\ \A j \in Items \ {i} : job'[j] = job[j]
        /\ kind' = kind
    BY <1>3 DEF Deliver, TypeOK, Jobs
  <2>2. \A v \in Workers \ {w} : Busy(v) /\ worker[v].locked => On(v) # i
    BY <2>1 DEF Locks, Fits
  <2>3. \A v \in Workers \ {w} : Busy(v) => On(v) \in Items
    BY BusyShape
  <2>4. ASSUME NEW v \in Workers \ {w}, Busy(v)' PROVE Fits(v)'
    BY <2>1, <2>2, <2>3, <2>4 DEF Locks, Fits, Busy, On
  <2>5. Fits(w)'
    <3>1. /\ kind[i] \in Kinds
          /\ FirstStage(i) = "claim" <=> kind[i] = "statement"
          /\ FirstStage(i) \in {"mark", "push", "generate", "claim"}
      BY DEF TypeOK, Kinds, FirstStage
    <3> QED
      BY <2>1, <3>1 DEF Fits, On
  <2>6. \A u, v \in Workers :
          Busy(u)' /\ Busy(v)' /\ worker'[u].locked /\ worker'[v].locked /\ On(u)' = On(v)' => u = v
    BY <2>1, <2>2 DEF Locks, Busy, On
  <2> QED
    BY <1>0, <2>4, <2>5, <2>6 DEF Locks
<1>4. ASSUME NEW w \in Workers, Busy(w), Moves(w) \/ Gives(w) \/ Claims(w) PROVE Locks'
  <2>1. /\ Busy(w)' /\ On(w)' = On(w) /\ worker'[w].locked = worker[w].locked /\ Fits(w)'
        /\ \A v \in Workers \ {w} : worker'[v] = worker[v]
    BY <1>4, MoveFits
  <2>2. job' = job /\ kind' = kind
    BY <1>4 DEF Moves, Gives, Claims
  <2> QED
    BY <1>0, <1>4, <2>1, <2>2 DEF Locks, Fits, Busy, On
<1>5. ASSUME NEW w \in Workers, Busy(w), Ends(w) \/ LosesLock(w) PROVE Locks'
  <2>1. On(w) \in Items
    BY <1>5, BusyShape
  <2>2. /\ \A v \in Workers \ {w} : worker'[v] = worker[v]
        /\ ~(Busy(w)' /\ worker'[w].locked)
        /\ Busy(w)' => On(w)' = On(w) /\ worker'[w].at = worker[w].at /\ worker'[w].gave = worker[w].gave
    <3>1. CASE Ends(w)
      BY <3>1, Ended DEF Ends
    <3>2. CASE LosesLock(w)
      BY <3>2, Lost
    <3> QED
      BY <1>5, <3>1, <3>2
  <2>3. /\ kind' = kind
        /\ \A i \in Items : ~worker[w].locked \/ i # On(w) => job'[i] = job[i]
    <3>1. \/ job' = job
          \/ worker[w].locked /\ \E j : job' = [job EXCEPT ![On(w)] = j]
      BY <1>5, Zenon DEF Ends, LosesLock
    <3> QED
      BY <1>5, <2>1, <3>1 DEF TypeOK, Ends, LosesLock
  <2>4. ASSUME NEW v \in Workers \ {w}, Busy(v)' PROVE Fits(v)'
    <3>1. Busy(v) /\ On(v) \in Items /\ On(v)' = On(v)
      BY <2>2, <2>4, BusyShape DEF Busy, On
    <3>2. worker[v].locked => job'[On(v)] = job[On(v)]
      BY <1>5, <2>3, <3>1 DEF Locks
    <3> QED
      BY <2>2, <2>3, <3>1, <3>2 DEF Locks, Fits
  <2>5. Busy(w)' => Fits(w)'
    BY <1>5, <2>2, <2>3 DEF Locks, Fits
  <2> QED
    BY <1>0, <2>2, <2>4, <2>5 DEF Locks, Busy, On
<1>6. \A w \in Workers : LosesLock(w) => Busy(w)
  BY DEF LosesLock
<1> QED
  BY <1>1, <1>2, <1>3, <1>4, <1>5, <1>6, StepKinds DEF Next

LEMMA LocksHold == Spec => [](TypeOK /\ Locks)
<1>1. Init => Locks
  BY DEF Init, Locks, Busy
<1> QED
  BY <1>1, DeliveryTypeCorrect, LocksStep, PTL DEF Spec

-----------------------------------------------------------------------------
(* Statements.  Only one execution ever claims a request, and only while   *)
(* nothing was created for it.                                             *)

Creating(w, i) == At(w, "create") /\ On(w) = i

Claimed(i) ==
  /\ producer[i] = "todo" => record[i] = "ABSENT"
  /\ record[i] \in {"ABSENT", "QUEUED"} =>
       out[i] = 0 /\ \A w \in Workers : ~Creating(w, i)
  /\ (\E w \in Workers : Creating(w, i)) => out[i] = 0
  /\ \A v, w \in Workers : Creating(v, i) /\ Creating(w, i) => v = w
  /\ out[i] <= 1

Statements == \A i \in Items : kind[i] = "statement" => Claimed(i)

\* What an execution does to the request of a statement.
LEMMA RecordStep ==
  ASSUME TypeOK, Locks, NEW w \in Workers, Work(w) \/ Dies(w),
         NEW i \in Items, kind[i] = "statement"
  PROVE  \/ record'[i] = record[i]
         \/ record'[i] = "COMPLETED" /\ On(w) = i
         \/ record'[i] = "RUNNING" /\ Claims(w) /\ On(w) = i
<1>1. Busy(w) /\ Fits(w) /\ On(w) \in Items
  BY StepKinds, BusyShape DEF Locks
<1>2. CASE RecordSent(w) \/ Push(w)
  BY <1>1, <1>2 DEF RecordSent, Push, At, Fits, TypeOK
<1>3. CASE ClaimStatement(w)
  BY <1>1, <1>3 DEF ClaimStatement, Claims, TypeOK
<1>4. CASE CloseStatement(w)
  BY <1>1, <1>4 DEF CloseStatement, TypeOK
<1>5. CASE UNCHANGED record
  BY <1>5
<1> QED
  BY <1>2, <1>3, <1>4, <1>5
     DEF Work, MarkProcessing, Send, PublishSent, MarkFailed, GenerateReceipt, CreateStatement,
         Return, Throw, Dies

LEMMA StatementsStep == TypeOK /\ Locks /\ Statements /\ [Next]_vars => Statements'
<1> SUFFICES ASSUME TypeOK, Locks, Statements, [Next]_vars,
                    NEW i \in Items, kind'[i] = "statement"
             PROVE  Claimed(i)'
  BY DEF Statements
<1>0. kind' = kind /\ Claimed(i)
  BY DEF Statements, Next, vars, Produce, CreateRecord, CreateRow, Enqueue, PublishQueued,
         ProducerFails, Deliver, Work, MarkProcessing, Send, RecordSent, PublishSent, MarkFailed,
         Push, GenerateReceipt, ClaimStatement, CreateStatement, CloseStatement, Return, Throw,
         Dies, LosesLock
<1>1. CASE UNCHANGED vars
  BY <1>0, <1>1 DEF Claimed, Creating, At, Busy, On, vars
<1>2. ASSUME NEW k \in Items, Produce(k) \/ ProducerFails(k) PROVE Claimed(i)'
  <2>1. UNCHANGED <<worker, out>>
    BY <1>2 DEF Produce, CreateRecord, CreateRow, Enqueue, PublishQueued, ProducerFails
  <2>2. \/ record'[i] = record[i] /\ (producer'[i] = "todo" => producer[i] = "todo")
        \/ producer[i] = "todo" /\ producer'[i] # "todo" /\ record'[i] = "QUEUED"
    BY <1>0, <1>2 DEF Produce, CreateRecord, CreateRow, Enqueue, PublishQueued, ProducerFails,
                      Proceed, TypeOK
  <2> QED
    BY <1>0, <2>1, <2>2 DEF Claimed, Creating, At, Busy, On
<1>3. ASSUME NEW w \in Workers, NEW k \in Items, Deliver(w, k) PROVE Claimed(i)'
  <2>1. /\ worker'[w].at # "create"
        /\ \A v \in Workers \ {w} : worker'[v] = worker[v]
    BY <1>3 DEF Deliver, TypeOK, FirstStage, Kinds
  <2> QED
    BY <1>0, <1>3, <2>1 DEF Deliver, Claimed, Creating, At, Busy, On
<1>4. ASSUME NEW w \in Workers, LosesLock(w) PROVE Claimed(i)'
  <2>1. \A v \in Workers : Creating(v, i)' <=> Creating(v, i)
    BY <1>4, Lost DEF Creating, At, Busy, On
  <2> QED
    BY <1>0, <1>4, <2>1 DEF LosesLock, Claimed
<1>5. ASSUME NEW w \in Workers, Work(w) \/ Dies(w) PROVE Claimed(i)'
  <2>0. /\ Busy(w) /\ On(w) \in Items /\ Fits(w)
        /\ Moves(w) \/ Gives(w) \/ Claims(w) \/ Ends(w)
    BY <1>5, StepKinds, BusyShape DEF Locks
  <2>1. producer' = producer
    BY <2>0 DEF Moves, Gives, Claims, Ends
  <2>2. \/ record'[i] = record[i] \/ record'[i] = "COMPLETED"
        \/ record'[i] = "RUNNING" /\ Claims(w) /\ On(w) = i
    BY <1>0, <1>5, RecordStep
  <2>3. \A v \in Workers \ {w} : Creating(v, i)' <=> Creating(v, i)
    <3>1. \A v \in Workers \ {w} : worker'[v] = worker[v]
      BY <2>0, MoveFits, Ended, <1>5 DEF Ends, Locks
    <3> QED
      BY <3>1 DEF Creating, At, Busy, On
  <2>4. CASE Claims(w) /\ On(w) = i
    <3>1. record[i] = "QUEUED" /\ record'[i] = "RUNNING" /\ out' = out
      BY <2>4 DEF Claims, TypeOK
    <3> QED
      BY <1>0, <2>1, <2>3, <3>1 DEF Claimed
  <2>5. CASE Moves(w) \/ Ends(w) \/ (Claims(w) /\ On(w) # i)
    <3>1. out' = out
      BY <2>5 DEF Moves, Ends, Claims
    <3>2. ~Creating(w, i)'
      <4>1. CASE Moves(w)
        BY <2>0, <4>1, Moved DEF Moves, Creating, At, WorkStages
      <4>2. CASE Ends(w)
        BY <4>2, Ended DEF Ends, Creating, At
      <4>3. CASE Claims(w) /\ On(w) # i
        BY <2>0, <4>3, Gave DEF Claims, Creating, At, WorkStages
      <4> QED
        BY <2>5, <4>1, <4>2, <4>3
    <3>3. record'[i] \in {"ABSENT", "QUEUED"} => record'[i] = record[i]
      BY <2>2
    <3>4. producer[i] = "todo" => On(w) # i
      BY <2>0 DEF Locks, Early
    <3>5. producer[i] = "todo" => record'[i] = record[i]
      BY <1>0, <1>5, <3>4, RecordStep
    <3> QED
      BY <1>0, <2>1, <2>3, <3>1, <3>2, <3>3, <3>5 DEF Claimed
  <2>6. CASE Gives(w)
    <3>1. /\ \E s \in WorkStages \ {"create"} : HandOver(w, s)
          /\ worker[w].at # "claim"
      BY <2>6 DEF Gives, WorkStages
    <3>2. /\ worker'[w].at # "create"
          /\ \A j \in Items \ {On(w)} : out'[j] = out[j]
          /\ out'[On(w)] = out[On(w)] + 1
      BY <2>0, <3>1, Gave DEF HandOver, TypeOK
    <3>3. ~Creating(w, i)'
      BY <3>2 DEF Creating, At
    <3>4. ~Claims(w)
      BY <3>1 DEF Claims, At
    <3>5. On(w) = i => Creating(w, i)
      BY <1>0, <2>0, <2>6 DEF Gives, Fits, Creating, At
    <3>6. producer[i] = "todo" => On(w) # i
      BY <2>0 DEF Locks, Early
    <3>7. On(w) = i => out[i] = 0 /\ record[i] \notin {"ABSENT", "QUEUED"}
      BY <1>0, <3>5 DEF Claimed
    <3>8. \/ record'[i] = record[i]
          \/ record'[i] = "COMPLETED" /\ On(w) = i
      BY <1>0, <1>5, <3>4, RecordStep
    <3>9. On(w) = i => \A v \in Workers : ~Creating(v, i)'
      BY <1>0, <2>3, <3>3, <3>5 DEF Claimed
    <3>10. CASE On(w) = i
      BY <1>0, <2>1, <3>2, <3>6, <3>7, <3>8, <3>9, <3>10 DEF Claimed
    <3>11. CASE On(w) # i
      BY <1>0, <2>1, <2>3, <3>2, <3>3, <3>8, <3>11 DEF Claimed
    <3> QED
      BY <3>10, <3>11
  <2> QED
    BY <2>0, <2>4, <2>5, <2>6
<1> QED
  BY <1>1, <1>2, <1>3, <1>4, <1>5 DEF Next

\* A statement request yields at most one statement, however often its job is
\* delivered and whatever overlaps or fails.
THEOREM DeliveryOneStatement == Spec => []OneStatementPerRequest
<1>1. Init => Statements
  BY DEF Init, Statements, Claimed, Creating, At, Busy
<1>2. TypeOK /\ Statements => OneStatementPerRequest
  BY DEF Statements, Claimed, OneStatementPerRequest
<1> QED
  BY <1>1, <1>2, LocksHold, StatementsStep, PTL DEF Spec

-----------------------------------------------------------------------------
(* Extra copies.  An execution that lost its lock is paid for in advance,   *)
(* when the lock is lost; the one that holds the lock, when it breaks off;  *)
(* the one whose job completes is the one copy that needs no cause.         *)

Owed(i) ==
  {w \in Workers : Busy(w) /\ On(w) = i /\ ~worker[w].locked /\ ~worker[w].gave}

Holds(w, i) == Busy(w) /\ On(w) = i /\ worker[w].locked /\ worker[w].gave

Standing(i) == job[i].state = "completed" \/ \E w \in Workers : Holds(w, i)

Accounted(i) ==
  out[i] + Cardinality(Owed(i)) <= broken[i] + (IF Standing(i) THEN 1 ELSE 0)

AllAccounted == \A i \in Items : kind[i] # "statement" => Accounted(i)

\* How a step of one execution changes the number of those owed.
LEMMA OwedStep ==
  ASSUME NEW w \in Workers, NEW i \in Items,
         \A v \in Workers \ {w} : worker'[v] = worker[v]
  PROVE  /\ Cardinality(Owed(i)) \in Nat
         /\ Cardinality(Owed(i)') \in Nat
         /\ Cardinality(Owed(i)') = Cardinality(Owed(i))
                - (IF w \in Owed(i) THEN 1 ELSE 0) + (IF w \in Owed(i)' THEN 1 ELSE 0)
<1> DEFINE Others == Owed(i) \ {w}
<1>1. IsFiniteSet(Owed(i))
  BY DeliveryParameters, FS_Subset DEF Owed
<1>2. Cardinality(Owed(i)) \in Nat
  BY <1>1, FS_CardinalityType
<1>3. /\ IsFiniteSet(Others)
      /\ Cardinality(Others) = Cardinality(Owed(i)) - (IF w \in Owed(i) THEN 1 ELSE 0)
  BY <1>1, <1>2, FS_RemoveElement
<1>4. Owed(i)' = IF w \in Owed(i)' THEN Others \cup {w} ELSE Others
  BY DEF Owed, Busy, On
<1>5. Cardinality(Others) \in Nat
  BY <1>3, FS_CardinalityType
<1>6. Cardinality(Others \cup {w}) = Cardinality(Others) + 1
  BY <1>3, FS_AddElement
<1>7. Cardinality(Owed(i)') = Cardinality(Others) + (IF w \in Owed(i)' THEN 1 ELSE 0)
  <2>1. CASE w \in Owed(i)'
    BY <1>4, <1>6, <2>1
  <2>2. CASE w \notin Owed(i)'
    BY <1>4, <1>5, <2>2
  <2> QED
    BY <2>1, <2>2
<1> QED
  BY <1>2, <1>3, <1>5, <1>7

LEMMA AccountedStep ==
  TypeOK /\ Locks /\ AllAccounted /\ [Next]_vars => AllAccounted'
<1> SUFFICES ASSUME TypeOK, Locks, AllAccounted, [Next]_vars,
                    NEW i \in Items, kind'[i] # "statement"
             PROVE  Accounted(i)'
  BY DEF AllAccounted
<1>0. kind' = kind /\ kind[i] # "statement" /\ Accounted(i)
  BY DEF AllAccounted, Next, vars, Produce, CreateRecord, CreateRow, Enqueue, PublishQueued,
         ProducerFails, Deliver, Work, MarkProcessing, Send, RecordSent, PublishSent, MarkFailed,
         Push, GenerateReceipt, ClaimStatement, CreateStatement, CloseStatement, Return, Throw,
         Dies, LosesLock
<1>t. out[i] \in Nat /\ broken[i] \in Nat /\ job[i].state \in JobStates
  BY DEF TypeOK, Jobs
<1>1. CASE UNCHANGED vars
  BY <1>0, <1>1 DEF Accounted, Owed, Standing, Holds, Busy, On, vars
<1>2. ASSUME NEW k \in Items, Produce(k) \/ ProducerFails(k) PROVE Accounted(i)'
  <2>1. UNCHANGED <<worker, out, broken>>
    BY <1>2 DEF Produce, CreateRecord, CreateRow, Enqueue, PublishQueued, ProducerFails
  <2>2. job'[i].state = "completed" <=> job[i].state = "completed"
    <3>1. CASE Enqueue(k)
      <4>1. job[k].state = "absent"
        BY <3>1 DEF Enqueue, Locks, Early
      <4> QED
        BY <3>1, <4>1 DEF Enqueue, TypeOK, Jobs
    <3>2. CASE UNCHANGED job
      BY <3>2
    <3> QED
      BY <1>2, <3>1, <3>2 DEF Produce, CreateRecord, CreateRow, PublishQueued, ProducerFails
  <2> QED
    BY <1>0, <2>1, <2>2 DEF Accounted, Owed, Standing, Holds, Busy, On
<1>3. ASSUME NEW w \in Workers, NEW k \in Items, Deliver(w, k) PROVE Accounted(i)'
  <2>1. /\ ~Busy(w) /\ worker'[w].locked /\ ~worker'[w].gave
        /\ \A v \in Workers \ {w} : worker'[v] = worker[v]
    BY <1>3 DEF Deliver, TypeOK
  <2>2. job'[i].state = "completed" <=> job[i].state = "completed"
    BY <1>3 DEF Deliver, TypeOK
  <2>3. Standing(i)' <=> Standing(i)
    BY <2>1, <2>2 DEF Standing, Holds, Busy, On
  <2>4. w \notin Owed(i) /\ w \notin Owed(i)'
    BY <2>1 DEF Owed
  <2> QED
    BY <1>0, <1>3, <1>t, <2>1, <2>3, <2>4, OwedStep DEF Deliver, Accounted
<1>4. ASSUME NEW w \in Workers, Busy(w),
             Moves(w) \/ Gives(w) \/ Claims(w) \/ Ends(w) \/ LosesLock(w)
      PROVE  Accounted(i)'
  <2>1. On(w) \in Items /\ worker[w] \in Executions /\ Fits(w)
    BY <1>4, BusyShape DEF Locks
  <2>2. \A v \in Workers \ {w} : worker'[v] = worker[v]
    <3>1. CASE Moves(w) \/ Gives(w) \/ Claims(w)
      BY <1>4, <3>1, MoveFits
    <3>2. CASE Ends(w)
      BY <3>2, Ended DEF Ends
    <3>3. CASE LosesLock(w)
      BY <3>3 DEF LosesLock, TypeOK
    <3> QED
      BY <1>4, <3>1, <3>2, <3>3
  <2>3. /\ Cardinality(Owed(i)) \in Nat
        /\ Cardinality(Owed(i)') = Cardinality(Owed(i))
              - (IF w \in Owed(i) THEN 1 ELSE 0) + (IF w \in Owed(i)' THEN 1 ELSE 0)
    BY <2>2, OwedStep
  <2>4. worker[w].locked /\ On(w) = i =>
          /\ job[i].state = "active"
          /\ \A v \in Workers : Holds(v, i) => v = w
    BY <1>4, <2>1 DEF Locks, Fits, Holds
  <2>5. \A v \in Workers \ {w} : Holds(v, i)' <=> Holds(v, i)
    BY <2>2 DEF Holds, Busy, On
  <2>6. CASE Moves(w) \/ (Claims(w) /\ On(w) # i)
    <3>1. Busy(w)' /\ On(w)' = On(w) /\ worker'[w].locked = worker[w].locked
      BY <1>4, <2>6, MoveFits
    <3>2. Moves(w) => worker'[w].gave = worker[w].gave
      BY <1>4, Moved DEF Moves, WorkStages
    <3>3. /\ Holds(w, i)' <=> Holds(w, i)
          /\ w \in Owed(i)' <=> w \in Owed(i)
      BY <1>4, <2>6, <3>1, <3>2 DEF Holds, Owed
    <3>4. UNCHANGED <<job, out, broken>>
      BY <2>6 DEF Moves, Claims
    <3> QED
      BY <1>0, <2>3, <2>5, <3>3, <3>4 DEF Accounted, Standing
  <2>7. CASE Claims(w) /\ On(w) = i
    BY <1>0, <1>4, <2>1, <2>7 DEF Claims, At, Fits
  <2>8. CASE Gives(w)
    <3>1. /\ Busy(w)' /\ On(w)' = On(w) /\ worker'[w].locked = worker[w].locked
          /\ worker'[w].gave
      <4>1. \E s \in WorkStages : HandOver(w, s)
        BY <2>8 DEF Gives, WorkStages
      <4> QED
        BY <1>4, <4>1, Gave DEF HandOver
    <3>2. /\ UNCHANGED <<job, broken>>
          /\ out'[i] = out[i] + (IF On(w) = i THEN 1 ELSE 0)
      BY <2>1, <2>8 DEF Gives, HandOver, TypeOK
    <3>3. w \notin Owed(i)'
      BY <3>1 DEF Owed
    <3>4. CASE On(w) # i
      BY <1>0, <1>t, <2>3, <2>5, <3>1, <3>2, <3>3, <3>4 DEF Accounted, Standing, Holds, Owed
    <3>5. On(w) = i => ~worker[w].gave
      BY <1>0, <2>1, <2>8 DEF Gives, Fits
    <3>6. CASE On(w) = i /\ worker[w].locked
      <4>1. ~Standing(i) /\ w \notin Owed(i)
        BY <2>4, <3>5, <3>6 DEF Standing, Holds, Owed
      <4>2. Standing(i)'
        BY <3>1, <3>6 DEF Standing, Holds
      <4> QED
        BY <1>0, <1>t, <2>3, <3>2, <3>3, <3>6, <4>1, <4>2 DEF Accounted
    <3>7. CASE On(w) = i /\ ~worker[w].locked
      <4>1. w \in Owed(i)
        BY <1>4, <3>5, <3>7 DEF Owed
      <4>2. Standing(i)' <=> Standing(i)
        BY <2>5, <3>1, <3>2, <3>7 DEF Standing, Holds
      <4> QED
        BY <1>0, <1>t, <2>3, <3>2, <3>3, <3>7, <4>1, <4>2 DEF Accounted
    <3> QED
      BY <3>4, <3>6, <3>7
  <2>9. CASE Ends(w) \/ LosesLock(w)
    <3>1. out' = out
      BY <2>9 DEF Ends, LosesLock
    <3>2. ~Holds(w, i)'
      BY <2>9, Ended, Lost DEF Ends, Holds
    <3>e. Ends(w) => w \notin Owed(i)'
      BY Ended DEF Ends, Owed
    <3>3. CASE On(w) # i
      <4>1. job'[i] = job[i] /\ broken'[i] = broken[i]
        <5>1. /\ job' = job \/ \E j : job' = [job EXCEPT ![On(w)] = j]
              /\ broken' = broken \/ \E n : broken' = [broken EXCEPT ![On(w)] = n]
          BY <2>9, Zenon DEF Ends, LosesLock, Count
        <5> QED
          BY <2>1, <3>3, <5>1 DEF TypeOK
      <4>2. w \notin Owed(i) /\ ~Holds(w, i)
        BY <3>3 DEF Owed, Holds
      <4>3. w \notin Owed(i)'
        <5>1. CASE LosesLock(w)
          BY <3>3, <5>1, Lost DEF Owed
        <5> QED
          BY <2>9, <3>e, <5>1
      <4> QED
        BY <1>0, <2>3, <2>5, <3>1, <3>2, <4>1, <4>2, <4>3 DEF Accounted, Standing
    <3>4. CASE On(w) = i /\ LosesLock(w)
      <4>1. broken'[i] = broken[i] + 1 /\ worker[w].locked
        BY <3>4 DEF LosesLock, TypeOK
      <4>2. w \notin Owed(i)
        BY <4>1 DEF Owed
      <4>3. ~worker[w].gave => ~Standing(i)
        BY <2>4, <3>4, <4>1 DEF Standing, Holds
      <4>4. worker[w].gave => w \notin Owed(i)'
        BY <3>4, Lost DEF Owed
      <4> QED
        BY <1>0, <1>t, <2>3, <3>1, <4>1, <4>2, <4>3, <4>4 DEF Accounted
    <3>5. CASE On(w) = i /\ Ends(w) /\ ~worker[w].locked
      <4>1. job' = job /\ broken'[i] \in Nat /\ broken'[i] >= broken[i]
        BY <1>t, <2>1, <3>5 DEF Ends, Count, TypeOK, Executions
      <4>2. Standing(i)' <=> Standing(i)
        BY <2>5, <3>2, <3>5, <4>1 DEF Standing, Holds
      <4> QED
        BY <1>0, <1>t, <2>3, <3>1, <3>e, <3>5, <4>1, <4>2 DEF Accounted
    <3>6. CASE On(w) = i /\ Ends(w) /\ worker[w].locked
      <4>1. w \notin Owed(i)
        BY <3>6 DEF Owed
      <4>2. ~worker[w].gave => ~Standing(i)
        BY <2>4, <3>6 DEF Standing, Holds
      <4>3. \/ Standing(i)' /\ broken'[i] = broken[i]
            \/ broken'[i] = broken[i] + (IF worker[w].gave THEN 1 ELSE 0)
        <5>1. CASE /\ job' = [job EXCEPT ![i].state = "completed"]
                   /\ broken' = broken
          BY <5>1 DEF Standing, TypeOK, Jobs
        <5>2. CASE Count(w)
          BY <2>1, <3>6, <5>2 DEF Count, TypeOK
        <5> QED
          BY <3>6, <5>1, <5>2 DEF Ends
      <4>4. worker[w].gave \in BOOLEAN
        BY <2>1 DEF Executions
      <4> QED
        BY <1>0, <1>t, <2>3, <3>1, <3>e, <3>6, <4>1, <4>2, <4>3, <4>4 DEF Accounted
    <3> QED
      BY <2>9, <3>3, <3>4, <3>5, <3>6
  <2> QED
    BY <1>4, <2>6, <2>7, <2>8, <2>9
<1>5. \A w \in Workers : LosesLock(w) => Busy(w)
  BY DEF LosesLock
<1> QED
  BY <1>1, <1>2, <1>3, <1>4, <1>5, StepKinds DEF Next

\* For any number of attempts, stalls and overlapping executions, there are no
\* more copies of a message, receipt or statement than one plus those whose
\* attempt broke off or whose lock was lost.
THEOREM DeliveryExtraCopies == Spec => []ExtraCopiesHaveACause
<1>1. Init => AllAccounted
  <2>1. ASSUME Init, NEW i \in Items PROVE Owed(i) = {}
    BY <2>1 DEF Init, Owed, Busy
  <2> QED
    BY <2>1, FS_EmptySet DEF Init, AllAccounted, Accounted
<1>2. TypeOK /\ AllAccounted /\ OneStatementPerRequest => ExtraCopiesHaveACause
  <2> SUFFICES ASSUME TypeOK, AllAccounted, OneStatementPerRequest, NEW i \in Items
               PROVE  out[i] <= 1 + broken[i]
    BY DEF ExtraCopiesHaveACause
  <2>1. out[i] \in Nat /\ broken[i] \in Nat
    BY DEF TypeOK
  <2>2. Cardinality(Owed(i)) \in Nat
    BY DeliveryParameters, FS_Subset, FS_CardinalityType DEF Owed
  <2> QED
    BY <2>1, <2>2 DEF AllAccounted, Accounted, OneStatementPerRequest
<1> QED
  BY <1>1, <1>2, LocksHold, AccountedStep, DeliveryOneStatement, PTL DEF Spec

-----------------------------------------------------------------------------
(* The tab: what its operators and its steps do.                           *)

EntryRows(n) == [seen : 0..n, stale : BOOLEAN, fetch : {"none", "asked", "answered"},
                 read : 0..n, failed : BOOLEAN, overtaken : BOOLEAN, crossed : BOOLEAN]

\* What is not about the fetch stays.
SameData(e, y) ==
  y.seen = e.seen /\ y.failed = e.failed /\ y.crossed = e.crossed
SameFetch(e, y) == y.fetch = e.fetch /\ y.read = e.read /\ y.overtaken = e.overtaken

LEMMA RefetchFits ==
  ASSUME NEW n \in Nat, NEW e \in EntryRows(n), NEW y, y = Refetch(e)
  PROVE  /\ y \in EntryRows(n) /\ SameData(e, y) /\ y.stale = e.stale
         /\ \/ SameFetch(e, y) /\ e.fetch # "none" /\ e.seen = 0
            \/ y.fetch = "asked"
<1>1. PICK z : z = [e EXCEPT !.fetch = "asked", !.read = 0, !.overtaken = FALSE]
  OBVIOUS
<1>2. /\ z \in EntryRows(n) /\ z.seen = e.seen /\ z.failed = e.failed /\ z.crossed = e.crossed
      /\ z.stale = e.stale /\ z.fetch = "asked"
  <2>1. z.seen = e.seen /\ z.fetch = "asked" /\ z.read = 0
    BY <1>1 DEF EntryRows
  <2>2. z.failed = e.failed /\ z.crossed = e.crossed /\ z.stale = e.stale
    BY <1>1 DEF EntryRows
  <2>3. z \in EntryRows(n)
    <3>1. 0 \in 0..n
      OBVIOUS
    <3>2. QED
      BY <1>1, <3>1, Zenon DEF EntryRows
  <2>4. QED
    BY <2>1, <2>2, <2>3
<1>3. CASE e.fetch # "none" /\ e.seen = 0
  BY <1>3 DEF Refetch, SameData, SameFetch
<1>4. CASE ~(e.fetch # "none" /\ e.seen = 0)
  BY <1>1, <1>2, <1>4 DEF Refetch, SameData
<1>5. QED
  BY <1>3, <1>4

LEMMA MountFits ==
  ASSUME NEW n \in Nat, NEW e \in EntryRows(n), NEW y, y = Mount(e)
  PROVE  /\ y \in EntryRows(n) /\ SameData(e, y) /\ y.stale = e.stale
         /\ \/ SameFetch(e, y) /\ (e.fetch # "none" \/ (~e.stale /\ e.seen # 0))
            \/ y.fetch = "asked"
<1>1. CASE e.fetch = "none" /\ (e.stale \/ e.seen = 0)
  <2>1. y = Refetch(e)
    BY <1>1 DEF Mount
  <2>2. QED
    BY <1>1, <2>1, RefetchFits
<1>2. CASE ~(e.fetch = "none" /\ (e.stale \/ e.seen = 0))
  <2>1. y = e
    BY <1>2 DEF Mount
  <2>2. QED
    BY <1>2, <2>1 DEF SameData, SameFetch, EntryRows
<1>3. QED
  BY <1>1, <1>2

LEMMA InvalidateFits ==
  ASSUME NEW n \in Nat, NEW e \in EntryRows(n), NEW y, y = Invalidate(e)
  PROVE  /\ y \in EntryRows(n) /\ SameData(e, y) /\ y.stale
         /\ y.fetch = "answered" => y.overtaken
         /\ Watching /\ e.seen # 0 => y.fetch = "asked"
         /\ Watching /\ e.fetch # "none" => y.fetch # "none"
<1>1. PICK z : z = [e EXCEPT !.stale = TRUE, !.overtaken = e.fetch = "answered"]
  OBVIOUS
<1>2. /\ z \in EntryRows(n) /\ z.seen = e.seen /\ z.failed = e.failed /\ z.crossed = e.crossed
      /\ z.stale /\ z.fetch = e.fetch /\ (z.fetch = "answered" => z.overtaken)
  BY <1>1 DEF EntryRows
<1>3. CASE Watching
  <2>1. y = Refetch(z)
    BY <1>1, <1>3 DEF Invalidate
  <2>2. QED
    BY <1>2, <1>3, <2>1, RefetchFits DEF SameData, SameFetch
<1>4. CASE ~Watching
  <2>1. y = z
    BY <1>1, <1>4 DEF Invalidate
  <2>2. QED
    BY <1>2, <1>4, <2>1 DEF SameData
<1>5. QED
  BY <1>3, <1>4

LEMMA NoEntryFits == \A n \in Nat : NoEntry \in EntryRows(n) /\ NoEntry.seen = 0 /\ NoEntry.fetch = "none"
BY DEF NoEntry, EntryRows

LEMMA StepsFit ==
  ASSUME TabTypeOK
  PROVE  /\ tour.steps \in Seq(StepRows) /\ Len(tour.steps) \in Nat \ {0}
         /\ Steps = 1..Len(tour.steps)
         /\ \A k \in Steps : tour.steps[k] \in StepRows
         /\ tour.code \in BOOLEAN /\ tour.refetches \in BOOLEAN
<1>1. tour \in Tours
  BY DEF TabTypeOK
<1>2. tour.steps \in Seq(StepRows) /\ tour.steps # << >>
  BY <1>1, ToursFit
<1>3. QED
  BY <1>1, <1>2, ToursFit DEF Steps

LEMMA NoPressFits == /\ NoPress \in PressRows /\ NoPress.stage = "none" /\ NoPress.step = 1
                     /\ NoPress.mine = 0 /\ ~NoPress.here /\ ~NoPress.deaf /\ ~NoPress.told
                     /\ ~NoPress.awaits
BY DEF NoPress, PressRows

LEMMA InitTab == TabInit => TabTypeOK
<1> SUFFICES ASSUME TabInit PROVE TabTypeOK
  OBVIOUS
<1>1. tour.steps \in Seq(StepRows) /\ tour.steps # << >>
  BY ToursFit DEF TabInit
<1>2. 1 \in Steps
  BY <1>1 DEF Steps
<1>3. entry \in EntryRows(1)
  <2>1. NoEntry \in EntryRows(1)
    BY NoEntryFits
  <2>2. Refetch(NoEntry) \in EntryRows(1)
    BY <2>1, RefetchFits
  <2>3. QED
    BY <2>1, <2>2 DEF TabInit
<1>4. presses \in [Presses -> PressRows] /\ \A i \in Presses : presses[i] = NoPress
  BY NoPressFits DEF TabInit
<1>5. \A i \in Presses : presses[i].step \in Steps /\ presses[i].mine <= version
  BY <1>2, <1>4, NoPressFits DEF TabInit
<1>6. /\ tour \in Tours /\ at \in {tour.page, tour.viewer, "away"} /\ version = 1
      /\ done \in [Steps -> Nat] /\ owed \in 0..version /\ muddled \in BOOLEAN
  <2>1. done = [k \in Steps |-> 0] /\ owed = 0 /\ muddled = FALSE
    BY DEF TabInit
  <2>2. done \in [Steps -> Nat]
    BY <2>1
  <2>3. tour \in Tours /\ at = tour.page /\ version = 1
    BY DEF TabInit
  <2>4. muddled \in BOOLEAN
    BY <2>1, Zenon
  <2>5. owed \in 0..version
    BY <2>1, <2>3
  <2>6. QED
    BY <2>2, <2>3, <2>4, <2>5, Zenon
<1>7. QED
  BY <1>3, <1>4, <1>5, <1>6 DEF TabTypeOK, EntryRows

-----------------------------------------------------------------------------
(* How its steps change a press.                                           *)

\* What is not about the wait for a fetch stays.
SamePress(p, r) ==
  /\ r.stage = p.stage /\ r.step = p.step /\ r.mine = p.mine
  /\ r.here = p.here /\ r.deaf = p.deaf /\ r.told = p.told

LEMMA UnwaitFits ==
  ASSUME NEW p \in [Presses -> PressRows], NEW y, y = Unwait(p)
  PROVE  /\ y \in [Presses -> PressRows]
         /\ \A j \in Presses : SamePress(p[j], y[j]) /\ ~y[j].awaits
<1>1. ASSUME NEW j \in Presses
      PROVE  y[j] \in PressRows /\ SamePress(p[j], y[j]) /\ ~y[j].awaits
  <2>1. PICK z : z = [p[j] EXCEPT !.awaits = FALSE]
    OBVIOUS
  <2>2. y[j] = z
    BY <2>1 DEF Unwait
  <2>3. p[j] \in PressRows
    OBVIOUS
  <2>4. z \in PressRows
    BY <2>1, <2>3 DEF PressRows
  <2>5. z.stage = p[j].stage /\ z.step = p[j].step /\ z.mine = p[j].mine /\ ~z.awaits
    BY <2>1, <2>3 DEF PressRows
  <2>6. z.here = p[j].here /\ z.deaf = p[j].deaf /\ z.told = p[j].told
    BY <2>1, <2>3 DEF PressRows
  <2>7. QED
    BY <2>2, <2>4, <2>5, <2>6 DEF SamePress
<1>2. y \in [Presses -> PressRows]
  BY <1>1 DEF Unwait
<1>3. QED
  BY <1>1, <1>2

LEMMA LeftFits ==
  ASSUME NEW p \in PressRows, NEW y, y = Left(p)
  PROVE  /\ y \in PressRows /\ ~y.here /\ y.step = p.step /\ y.mine = p.mine /\ y.told = p.told
         /\ y.deaf = p.deaf /\ y.awaits = p.awaits
         /\ y.stage = p.stage \/ (p.stage = "code" /\ y.stage = "over")
<1>1. ASSUME NEW z, NEW s \in {"none", "asked", "done", "refused", "late", "wants code", "code",
                               "settling", "over"}, z = [p EXCEPT !.stage = s, !.here = FALSE]
      PROVE  /\ z \in PressRows /\ ~z.here /\ z.step = p.step /\ z.mine = p.mine
             /\ z.told = p.told /\ z.deaf = p.deaf /\ z.awaits = p.awaits /\ z.stage = s
  <2>1. z \in PressRows
    BY <1>1 DEF PressRows
  <2>2. z.step = p.step /\ z.mine = p.mine /\ z.stage = s /\ ~z.here
    BY <1>1 DEF PressRows
  <2>3. z.told = p.told /\ z.deaf = p.deaf /\ z.awaits = p.awaits
    BY <1>1 DEF PressRows
  <2>4. QED
    BY <2>1, <2>2, <2>3
<1>2. CASE p.stage = "code"
  BY <1>1, <1>2 DEF Left
<1>3. CASE p.stage # "code"
  <2>1. PICK z : z = [p EXCEPT !.here = FALSE]
    OBVIOUS
  <2>2. y = z
    BY <1>3, <2>1 DEF Left
  <2>3. z \in PressRows
    BY <2>1 DEF PressRows
  <2>4. z.step = p.step /\ z.mine = p.mine /\ z.stage = p.stage /\ ~z.here
    BY <2>1 DEF PressRows
  <2>5. z.told = p.told /\ z.deaf = p.deaf /\ z.awaits = p.awaits
    BY <2>1 DEF PressRows
  <2>6. QED
    BY <2>2, <2>3, <2>4, <2>5
<1>4. QED
  BY <1>2, <1>3

\* One press becomes r in p, the others stay.
LEMMA PressTurns ==
  ASSUME NEW p \in [Presses -> PressRows], NEW i \in Presses, NEW r \in PressRows,
         NEW q, q = [p EXCEPT ![i] = r]
  PROVE  /\ q \in [Presses -> PressRows] /\ q[i] = r
         /\ \A j \in Presses \ {i} : q[j] = p[j]
OBVIOUS

\* A press goes to stage s and is otherwise the same.
Goes(i, s) ==
  /\ presses' \in [Presses -> PressRows]
  /\ presses'[i].stage = s /\ presses'[i].step = presses[i].step
  /\ presses'[i].mine = presses[i].mine
  /\ presses'[i].here = presses[i].here /\ presses'[i].deaf = presses[i].deaf
  /\ presses'[i].told = presses[i].told
  /\ \A j \in Presses \ {i} : presses'[j] = presses[j]

Stages == {"none", "asked", "done", "refused", "late", "wants code", "code", "settling", "over"}

LEMMA MarkGoes ==
  ASSUME TabTypeOK, NEW i \in Presses, NEW s \in Stages, Mark(i, s)
  PROVE  Goes(i, s)
<1>1. presses \in [Presses -> PressRows] /\ presses[i] \in PressRows
  BY DEF TabTypeOK
<1>2. PICK z : z = [presses[i] EXCEPT !.stage = s]
  OBVIOUS
<1>3. z \in PressRows
  BY <1>1, <1>2 DEF PressRows, Stages
<1>4. z.stage = s /\ z.step = presses[i].step /\ z.mine = presses[i].mine
  BY <1>1, <1>2 DEF PressRows
<1>5. z.here = presses[i].here /\ z.deaf = presses[i].deaf /\ z.told = presses[i].told
  BY <1>1, <1>2 DEF PressRows
<1>6. presses' = [presses EXCEPT ![i] = z]
  BY <1>2 DEF Mark, Becomes
<1>7. presses' \in [Presses -> PressRows] /\ presses'[i] = z
      /\ \A j \in Presses \ {i} : presses'[j] = presses[j]
  BY <1>1, <1>3, <1>6, PressTurns
<1>8. QED
  BY <1>4, <1>5, <1>7 DEF Goes

LEMMA PressDoes ==
  ASSUME TabTypeOK, NEW i \in Presses, Press(i)
  PROVE  /\ presses' \in [Presses -> PressRows]
         /\ presses'[i].stage = "asked" /\ presses'[i].step = 1 /\ presses'[i].mine = 0
         /\ presses'[i].here /\ ~presses'[i].deaf /\ ~presses'[i].told
         /\ \A j \in Presses \ {i} : presses'[j] = presses[j]
<1>1. PICK coded \in BOOLEAN :
        Becomes(i, [NoPress EXCEPT !.stage = "asked", !.here = TRUE, !.coded = coded])
  <2>1. {FALSE} \cup {presses[j].coded /\ presses[j].here : j \in 1..(i - 1)} \subseteq BOOLEAN
    OBVIOUS
  <2>2. QED
    BY <2>1, Zenon DEF Press
<1>2. PICK z : z = [NoPress EXCEPT !.stage = "asked", !.here = TRUE, !.coded = coded]
  OBVIOUS
<1>3. z \in PressRows
  BY <1>2 DEF NoPress, PressRows
<1>4. z.stage = "asked" /\ z.step = 1 /\ z.mine = 0
  BY <1>2 DEF NoPress
<1>5. z.here /\ ~z.deaf /\ ~z.told
  BY <1>2 DEF NoPress
<1>6. presses' = [presses EXCEPT ![i] = z]
  BY <1>1, <1>2 DEF Becomes
<1>7. presses \in [Presses -> PressRows]
  BY DEF TabTypeOK
<1>8. QED
  BY <1>3, <1>4, <1>5, <1>6, <1>7, PressTurns

LEMMA EntersDoes ==
  ASSUME TabTypeOK, NEW i \in Presses, EntersCode(i)
  PROVE  Goes(i, "asked")
<1>1. presses \in [Presses -> PressRows] /\ presses[i] \in PressRows
  BY DEF TabTypeOK
<1>2. PICK z : z = [presses[i] EXCEPT !.stage = "asked", !.coded = TRUE]
  OBVIOUS
<1>3. z \in PressRows
  BY <1>1, <1>2 DEF PressRows
<1>4. z.stage = "asked" /\ z.step = presses[i].step /\ z.mine = presses[i].mine
  BY <1>1, <1>2 DEF PressRows
<1>5. z.here = presses[i].here /\ z.deaf = presses[i].deaf /\ z.told = presses[i].told
  BY <1>1, <1>2 DEF PressRows
<1>6. presses' = [presses EXCEPT ![i] = z]
  BY <1>2 DEF EntersCode, Becomes
<1>7. presses' \in [Presses -> PressRows] /\ presses'[i] = z
      /\ \A j \in Presses \ {i} : presses'[j] = presses[j]
  BY <1>1, <1>3, <1>6, PressTurns
<1>8. QED
  BY <1>4, <1>5, <1>7 DEF Goes

LEMMA ExecutesDoes ==
  ASSUME TabTypeOK, NEW i \in Presses, Executes(i)
  PROVE  /\ presses' \in [Presses -> PressRows]
         /\ presses'[i].stage = "done" /\ presses'[i].step = presses[i].step
         /\ presses'[i].mine \in {presses[i].mine, version'}
         /\ presses'[i].here = presses[i].here /\ presses'[i].deaf = presses[i].deaf
         /\ presses'[i].told = presses[i].told
         /\ version' \in {version, version + 1}
         /\ \A j \in Presses \ {i} : presses'[j] = presses[j]
<1>1. presses \in [Presses -> PressRows] /\ presses[i] \in PressRows /\ version \in Nat
  BY DEF TabTypeOK
<1>2. PICK n \in {version, version + 1} :
        /\ version' = n
        /\ Becomes(i, [presses[i] EXCEPT !.stage = "done",
                                        !.mine = IF n # version THEN n ELSE @])
  BY DEF Executes
<1>3. PICK z : z = [presses[i] EXCEPT !.stage = "done",
                                     !.mine = IF n # version THEN n ELSE presses[i].mine]
  OBVIOUS
<1>4. n \in Nat
  BY <1>1, <1>2
<1>5. z \in PressRows
  BY <1>1, <1>3, <1>4 DEF PressRows
<1>6. z.stage = "done" /\ z.step = presses[i].step /\ z.mine \in {presses[i].mine, n}
  BY <1>1, <1>3 DEF PressRows
<1>7. z.here = presses[i].here /\ z.deaf = presses[i].deaf /\ z.told = presses[i].told
  BY <1>1, <1>3 DEF PressRows
<1>8. presses' = [presses EXCEPT ![i] = z]
  BY <1>2, <1>3 DEF Becomes
<1>9. QED
  BY <1>1, <1>2, <1>5, <1>6, <1>7, <1>8, PressTurns

LEMMA ErrorDoes ==
  ASSUME TabTypeOK, NEW i \in Presses, HearsError(i)
  PROVE  /\ presses' \in [Presses -> PressRows]
         /\ presses'[i].stage = "over" /\ presses'[i].step = presses[i].step
         /\ presses'[i].mine = presses[i].mine
         /\ presses'[i].here = presses[i].here /\ presses'[i].deaf = presses[i].deaf
         /\ \A j \in Presses \ {i} : presses'[j] = presses[j]
<1>1. presses \in [Presses -> PressRows] /\ presses[i] \in PressRows
  BY DEF TabTypeOK
<1>3. PICK z : z = [presses[i] EXCEPT !.stage = "over", !.told = tour.says = "always"]
  OBVIOUS
<1>4. z \in PressRows
  BY <1>1, <1>3 DEF PressRows
<1>5. z.stage = "over" /\ z.step = presses[i].step /\ z.mine = presses[i].mine
  BY <1>1, <1>3 DEF PressRows
<1>6. z.here = presses[i].here /\ z.deaf = presses[i].deaf
  BY <1>1, <1>3 DEF PressRows
<1>7. presses' = [presses EXCEPT ![i] = z]
  BY <1>3 DEF HearsError, Becomes
<1>8. QED
  BY <1>1, <1>4, <1>5, <1>6, <1>7, PressTurns

LEMMA ConcludesDoes ==
  ASSUME TabTypeOK, NEW i \in Presses, NEW all \in [Presses -> PressRows], NEW e,
         SamePress(presses[i], all[i]), Concludes(i, all, e)
  PROVE  /\ presses' \in [Presses -> PressRows]
         /\ presses'[i].mine = presses[i].mine
         /\ presses'[i].here = presses[i].here /\ presses'[i].deaf = presses[i].deaf
         /\ \A j \in Presses \ {i} : presses'[j] = all[j]
         /\ \/ /\ ~LastStep(i) /\ presses'[i].stage = "asked"
               /\ presses'[i].step = presses[i].step + 1 /\ presses'[i].told = presses[i].told
               /\ muddled' = muddled /\ entry' = e
            \/ /\ LastStep(i) /\ presses'[i].stage = "over"
               /\ presses'[i].step = presses[i].step /\ (presses'[i].told <=> Tells(i))
               /\ muddled' = (muddled \/ ~Tells(i))
               /\ entry' \in {e, Refetch(e)}
<1>1. all[i] \in PressRows /\ presses[i] \in PressRows
  BY DEF TabTypeOK
<1>2. CASE ~LastStep(i)
  <2>1. PICK z : z = [all[i] EXCEPT !.stage = "asked", !.step = presses[i].step + 1]
    OBVIOUS
  <2>2. presses[i].step + 1 \in Nat
    <3>1. presses[i].step \in Nat
      BY <1>1 DEF PressRows
    <3>2. QED
      BY <3>1
  <2>3. z \in PressRows
    BY <1>1, <2>1, <2>2 DEF PressRows
  <2>4. z.stage = "asked" /\ z.step = presses[i].step + 1 /\ z.mine = all[i].mine
    BY <1>1, <2>1 DEF PressRows
  <2>5. z.here = all[i].here /\ z.deaf = all[i].deaf /\ z.told = all[i].told
    BY <1>1, <2>1 DEF PressRows
  <2>6. presses' = [all EXCEPT ![i] = z] /\ muddled' = muddled /\ entry' = e
    BY <1>2, <2>1 DEF Concludes
  <2>7. presses' \in [Presses -> PressRows] /\ presses'[i] = z
        /\ \A j \in Presses \ {i} : presses'[j] = all[j]
    BY <2>3, <2>6, PressTurns
  <2>8. QED
    BY <1>2, <2>4, <2>5, <2>6, <2>7 DEF SamePress
<1>3. CASE LastStep(i)
  <2>1. PICK z : z = [all[i] EXCEPT !.stage = "over", !.told = Tells(i)]
    OBVIOUS
  <2>2. z \in PressRows
    BY <1>1, <2>1 DEF PressRows, Tells
  <2>3. z.stage = "over" /\ z.step = all[i].step /\ z.mine = all[i].mine
    BY <1>1, <2>1 DEF PressRows
  <2>4. z.here = all[i].here /\ z.deaf = all[i].deaf /\ (z.told <=> Tells(i))
    BY <1>1, <2>1 DEF PressRows
  <2>5. presses' = [all EXCEPT ![i] = z] /\ muddled' = (muddled \/ ~Tells(i))
        /\ entry' = (IF tour.refetches THEN Refetch(e) ELSE e)
    BY <1>3, <2>1 DEF Concludes
  <2>6. presses' \in [Presses -> PressRows] /\ presses'[i] = z
        /\ \A j \in Presses \ {i} : presses'[j] = all[j]
    BY <2>2, <2>5, PressTurns
  <2>7. QED
    BY <1>3, <2>3, <2>4, <2>5, <2>6 DEF SamePress
<1>4. QED
  BY <1>2, <1>3

\* A hook's answer comes: who else waited for a fetch may stop waiting, and the
\* mutation waits itself or is over.
LEMMA HearsDoes ==
  ASSUME TabTypeOK, NEW i \in Presses, Hears(i)
  PROVE  /\ presses' \in [Presses -> PressRows]
         /\ presses[i].stage = "done"
         /\ presses'[i].mine = presses[i].mine
         /\ presses'[i].here = presses[i].here /\ presses'[i].deaf = presses[i].deaf
         /\ \A j \in Presses \ {i} : SamePress(presses[j], presses'[j])
         /\ \E e : /\ e = (IF Step(i).covers THEN Invalidate(entry) ELSE entry)
                   /\ entry' \in {e, Refetch(e)}
         /\ \/ /\ presses'[i].stage = "settling" /\ presses'[i].step = presses[i].step
               /\ presses'[i].told = presses[i].told /\ muddled' = muddled
               /\ Step(i).covers /\ Watching => presses'[i].awaits
            \/ /\ ~LastStep(i) /\ presses'[i].stage = "asked"
               /\ presses'[i].step = presses[i].step + 1 /\ presses'[i].told = presses[i].told
               /\ muddled' = muddled
            \/ /\ LastStep(i) /\ presses'[i].stage = "over"
               /\ presses'[i].step = presses[i].step /\ (presses'[i].told <=> Tells(i))
               /\ muddled' = (muddled \/ ~Tells(i))
<1>1. presses \in [Presses -> PressRows] /\ presses[i] \in PressRows
  BY DEF TabTypeOK
<1>2. PICK all : all = (IF Step(i).covers /\ Watching THEN Superseded(presses) ELSE presses)
  OBVIOUS
<1>3. PICK e : e = (IF Step(i).covers THEN Invalidate(entry) ELSE entry)
  OBVIOUS
<1>4. /\ all \in [Presses -> PressRows]
      /\ \A j \in Presses : SamePress(presses[j], all[j])
  <2>1. CASE all = presses
    BY <1>1, <2>1 DEF SamePress
  <2>2. CASE all = Unwait(presses)
    BY <1>1, <2>2, UnwaitFits
  <2>3. QED
    BY <1>2, <2>1, <2>2 DEF Superseded
<1>5. CASE Step(i).waits
  <2>1. PICK z : z = [all[i] EXCEPT !.stage = "settling", !.awaits = Step(i).covers /\ Watching]
    OBVIOUS
  <2>2. all[i] \in PressRows
    BY <1>4
  <2>3. z \in PressRows
    BY <2>1, <2>2 DEF PressRows
  <2>4. z.stage = "settling" /\ z.step = all[i].step /\ z.mine = all[i].mine
    BY <2>1, <2>2 DEF PressRows
  <2>5. z.here = all[i].here /\ z.deaf = all[i].deaf /\ z.told = all[i].told
    BY <2>1, <2>2 DEF PressRows
  <2>6. z.awaits = (Step(i).covers /\ Watching)
    BY <2>1, <2>2 DEF PressRows
  <2>7. /\ presses' = [all EXCEPT ![i] = z] /\ entry' = e /\ muddled' = muddled
        /\ presses[i].stage = "done"
    BY <1>2, <1>3, <1>5, <2>1 DEF Hears
  <2>8. presses' \in [Presses -> PressRows] /\ presses'[i] = z
        /\ \A j \in Presses \ {i} : presses'[j] = all[j]
    BY <1>4, <2>3, <2>7, PressTurns
  <2>9. QED
    BY <1>3, <1>4, <2>4, <2>5, <2>6, <2>7, <2>8 DEF SamePress
<1>6. CASE ~Step(i).waits
  <2>1. Concludes(i, all, e) /\ presses[i].stage = "done"
    BY <1>2, <1>3, <1>6 DEF Hears
  <2>2. QED
    BY <1>3, <1>4, <2>1, ConcludesDoes
<1>7. QED
  BY <1>5, <1>6

LEMMA SettlesDoes ==
  ASSUME TabTypeOK, NEW i \in Presses, Settles(i)
  PROVE  /\ presses' \in [Presses -> PressRows]
         /\ presses'[i].mine = presses[i].mine
         /\ presses'[i].here = presses[i].here /\ presses'[i].deaf = presses[i].deaf
         /\ \A j \in Presses \ {i} : presses'[j] = presses[j]
         /\ entry' \in {entry, Refetch(entry)}
         /\ \/ /\ ~LastStep(i) /\ presses'[i].stage = "asked"
               /\ presses'[i].step = presses[i].step + 1 /\ presses'[i].told = presses[i].told
               /\ muddled' = muddled
            \/ /\ LastStep(i) /\ presses'[i].stage = "over"
               /\ presses'[i].step = presses[i].step /\ (presses'[i].told <=> Tells(i))
               /\ muddled' = (muddled \/ ~Tells(i))
<1>1. presses \in [Presses -> PressRows] /\ SamePress(presses[i], presses[i])
  BY DEF TabTypeOK, SamePress
<1>2. Concludes(i, presses, entry)
  BY DEF Settles
<1>3. PICK all : all = presses
  OBVIOUS
<1>4. PICK e : e = entry
  OBVIOUS
<1>5. QED
  BY <1>1, <1>2, ConcludesDoes

LEMMA ReloadDoes ==
  ASSUME TabTypeOK, Reload
  PROVE  /\ presses' \in [Presses -> PressRows]
         /\ \A j \in Presses :
              /\ ~presses'[j].here /\ presses'[j].deaf
              /\ presses'[j].step = presses[j].step /\ presses'[j].mine = presses[j].mine
              /\ presses'[j].told = presses[j].told
              /\ presses'[j].stage = presses[j].stage
                 \/ (presses[j].stage = "code" /\ presses'[j].stage = "over")
<1>1. presses \in [Presses -> PressRows]
  BY DEF TabTypeOK
<1>2. ASSUME NEW j \in Presses
      PROVE  /\ presses'[j] \in PressRows
             /\ ~presses'[j].here /\ presses'[j].deaf
             /\ presses'[j].step = presses[j].step /\ presses'[j].mine = presses[j].mine
             /\ presses'[j].told = presses[j].told
             /\ presses'[j].stage = presses[j].stage
                \/ (presses[j].stage = "code" /\ presses'[j].stage = "over")
  <2>1. PICK y : y = Left(presses[j])
    OBVIOUS
  <2>2. /\ y \in PressRows /\ ~y.here /\ y.step = presses[j].step /\ y.mine = presses[j].mine
        /\ y.told = presses[j].told
        /\ y.stage = presses[j].stage \/ (presses[j].stage = "code" /\ y.stage = "over")
    BY <1>1, <2>1, LeftFits
  <2>3. PICK z : z = [y EXCEPT !.deaf = TRUE, !.awaits = FALSE]
    OBVIOUS
  <2>4. z \in PressRows
    BY <2>2, <2>3 DEF PressRows
  <2>5. z.stage = y.stage /\ z.step = y.step /\ z.mine = y.mine
    BY <2>2, <2>3 DEF PressRows
  <2>6. ~z.here /\ z.deaf /\ z.told = y.told
    BY <2>2, <2>3 DEF PressRows
  <2>7. presses'[j] = z
    BY <2>1, <2>3 DEF Reload
  <2>8. QED
    BY <2>2, <2>4, <2>5, <2>6, <2>7
<1>3. presses' \in [Presses -> PressRows]
  BY <1>2 DEF Reload
<1>4. QED
  BY <1>2, <1>3

LEMMA VisitDoes ==
  ASSUME TabTypeOK, NEW page, Visit(page)
  PROVE  /\ presses' \in [Presses -> PressRows]
         /\ \A j \in Presses :
              /\ ~presses'[j].here /\ presses'[j].deaf = presses[j].deaf
              /\ presses'[j].step = presses[j].step /\ presses'[j].mine = presses[j].mine
              /\ presses'[j].told = presses[j].told
              /\ presses'[j].stage = presses[j].stage
                 \/ (presses[j].stage = "code" /\ presses'[j].stage = "over")
<1>1. presses \in [Presses -> PressRows]
  BY DEF TabTypeOK
<1>2. presses' = [j \in Presses |-> Left(presses[j])]
  BY DEF Visit
<1>3. QED
  BY <1>1, <1>2, LeftFits

-----------------------------------------------------------------------------
(* How its steps change the entry.                                         *)

\* What a step does to the entry.
Asks(e, y) == SameData(e, y) /\ y.stale = e.stale
              /\ (SameFetch(e, y) \/ y.fetch = "asked")

LEMMA Typed == TabTypeOK =>
  /\ version \in Nat \ {0} /\ entry \in EntryRows(version)
  /\ presses \in [Presses -> PressRows] /\ tour \in Tours
BY DEF TabTypeOK, EntryRows

LEMMA EntryGrows ==
  ASSUME NEW n \in Nat, NEW e \in EntryRows(n)
  PROVE  e \in EntryRows(n + 1)
BY DEF EntryRows

LEMMA QuietCache ==
  ASSUME TabTypeOK, Ages \/ Collected
  PROVE  /\ entry' \in EntryRows(version)
         /\ \/ SameData(entry, entry') /\ SameFetch(entry, entry') /\ entry'.stale
            \/ entry'.seen = 0 /\ entry'.fetch = "none" /\ ~Watching
         /\ UNCHANGED <<tour, at, version, presses, done, owed, muddled>>
<1>1. entry \in EntryRows(version) /\ version \in Nat
  BY Typed
<1>2. CASE Ages
  <2>1. PICK z : z = [entry EXCEPT !.stale = TRUE]
    OBVIOUS
  <2>2. z \in EntryRows(version) /\ z.stale
    BY <1>1, <2>1 DEF EntryRows
  <2>3. SameData(entry, z) /\ SameFetch(entry, z)
    BY <1>1, <2>1 DEF EntryRows, SameData, SameFetch
  <2>4. entry' = z
    BY <1>2, <2>1 DEF Ages
  <2>5. QED
    BY <1>2, <2>2, <2>3, <2>4 DEF Ages
<1>3. CASE Collected
  BY <1>1, <1>3, NoEntryFits DEF Collected
<1>4. QED
  BY <1>2, <1>3

LEMMA Fetches ==
  ASSUME TabTypeOK, Polls \/ PressRetry
  PROVE  /\ entry' \in EntryRows(version) /\ Asks(entry, entry')
         /\ UNCHANGED <<tour, at, version, presses, done, owed, muddled>>
<1>1. entry' = Refetch(entry) /\ UNCHANGED <<tour, at, version, presses, done, owed, muddled>>
  BY DEF Polls, PressRetry
<1>2. QED
  BY <1>1, Typed, RefetchFits DEF Asks

LEMMA ReadsDoes ==
  ASSUME TabTypeOK, ServiceReads
  PROVE  /\ entry' \in EntryRows(version) /\ SameData(entry, entry') /\ entry'.stale = entry.stale
         /\ entry'.fetch = "answered" /\ entry'.read = version
         /\ UNCHANGED <<tour, at, version, presses, done, owed, muddled>>
<1>1. entry \in EntryRows(version) /\ version \in Nat
  BY Typed
<1>2. PICK z : z = [entry EXCEPT !.fetch = "answered", !.read = version]
  OBVIOUS
<1>3. version \in 0..version
  BY <1>1
<1>4. z \in EntryRows(version)
  BY <1>1, <1>2, <1>3, Zenon DEF EntryRows
<1>5. SameData(entry, z) /\ z.stale = entry.stale
  BY <1>1, <1>2 DEF EntryRows, SameData
<1>6. z.fetch = "answered" /\ z.read = version
  BY <1>1, <1>2 DEF EntryRows
<1>7. entry' = z
  BY <1>2 DEF ServiceReads
<1>8. QED
  BY <1>4, <1>5, <1>6, <1>7 DEF ServiceReads

LEMMA LandsDoes ==
  ASSUME TabTypeOK, Lands
  PROVE  /\ entry' \in EntryRows(version) /\ entry.fetch = "answered"
         /\ entry'.seen = entry.read /\ entry'.fetch = "none"
         /\ entry'.crossed = entry.overtaken
         /\ UNCHANGED <<tour, at, version, done, owed, muddled>>
         /\ presses' \in [Presses -> PressRows]
         /\ \A j \in Presses : SamePress(presses[j], presses'[j])
<1>1. entry \in EntryRows(version) /\ version \in Nat
  BY Typed
<1>2. PICK z : z = [entry EXCEPT !.seen = entry.read, !.read = 0, !.stale = FALSE,
                                 !.fetch = "none", !.failed = FALSE, !.crossed = entry.overtaken,
                                 !.overtaken = FALSE]
  OBVIOUS
<1>3. 0 \in 0..version
  BY <1>1
<1>4. z \in EntryRows(version)
  BY <1>1, <1>2, <1>3, Zenon DEF EntryRows
<1>5. z.seen = entry.read /\ z.fetch = "none"
  BY <1>1, <1>2 DEF EntryRows
<1>6. z.crossed = entry.overtaken
  BY <1>1, <1>2 DEF EntryRows
<1>7. entry' = z /\ presses' = Unwait(presses)
  BY <1>2 DEF Lands
<1>8. QED
  BY <1>4, <1>5, <1>6, <1>7, Typed, UnwaitFits DEF Lands

LEMMA FailsDoes ==
  ASSUME TabTypeOK, FetchFails
  PROVE  /\ entry' \in EntryRows(version) /\ entry'.fetch = "none" /\ entry'.failed
         /\ entry'.seen = entry.seen /\ entry'.stale = entry.stale
         /\ entry'.crossed = entry.crossed
         /\ UNCHANGED <<tour, at, version, done, owed, muddled>>
         /\ presses' \in [Presses -> PressRows]
         /\ \A j \in Presses : SamePress(presses[j], presses'[j])
<1>1. entry \in EntryRows(version) /\ version \in Nat
  BY Typed
<1>2. PICK z : z = [entry EXCEPT !.read = 0, !.fetch = "none", !.failed = TRUE,
                                 !.overtaken = FALSE]
  OBVIOUS
<1>3. 0 \in 0..version
  BY <1>1
<1>4. z \in EntryRows(version)
  BY <1>1, <1>2, <1>3, Zenon DEF EntryRows
<1>5. z.seen = entry.seen /\ z.fetch = "none" /\ z.failed
  BY <1>1, <1>2 DEF EntryRows
<1>6. z.crossed = entry.crossed /\ z.stale = entry.stale
  BY <1>1, <1>2 DEF EntryRows
<1>7. entry' = z /\ presses' = Unwait(presses)
  BY <1>2 DEF FetchFails
<1>8. QED
  BY <1>4, <1>5, <1>6, <1>7, Typed, UnwaitFits DEF FetchFails

\* The steps of a press that change its stage alone, and nothing else.
Plain(i) == Refuses(i) \/ BreaksAfter(i) \/ AsksForCode(i) \/ ShowsCard(i) \/ EntersCode(i)
            \/ CancelsCode(i)

LEMMA PlainDoes ==
  ASSUME TabTypeOK, NEW i \in Presses, Plain(i)
  PROVE  /\ UNCHANGED <<tour, at, version, entry, done, owed, muddled>>
         /\ \/ presses[i].stage = "asked" /\ Goes(i, "refused")
            \/ presses[i].stage = "done" /\ Goes(i, "late")
            \/ presses[i].stage = "asked" /\ tour.code /\ Goes(i, "wants code")
            \/ presses[i].stage = "wants code" /\ presses[i].here /\ Goes(i, "code")
            \/ presses[i].stage = "wants code" /\ ~presses[i].here /\ Goes(i, "over")
            \/ presses[i].stage = "code" /\ (Goes(i, "asked") \/ Goes(i, "over"))
<1>1. {"refused", "late", "wants code", "code", "over", "asked"} \subseteq Stages
  BY DEF Stages
<1>2. CASE Refuses(i) \/ BreaksAfter(i) \/ AsksForCode(i)
  BY <1>1, <1>2, MarkGoes DEF Refuses, BreaksAfter, AsksForCode
<1>3. CASE ShowsCard(i) \/ CancelsCode(i)
  BY <1>1, <1>3, MarkGoes DEF ShowsCard, CancelsCode
<1>4. CASE EntersCode(i)
  BY <1>4, EntersDoes DEF EntersCode
<1>5. QED
  BY <1>2, <1>3, <1>4 DEF Plain

TypesAgain ==
  /\ tour' = tour /\ version' \in {version, version + 1}
  /\ at' \in {tour.page, tour.viewer, "away"}
  /\ entry' \in EntryRows(version')
  /\ presses' \in [Presses -> PressRows]
  /\ \A j \in Presses : presses'[j].step \in Steps /\ presses'[j].mine <= version'
  /\ done' \in [Steps -> Nat]
  /\ owed' \in 0..version'
  /\ muddled' \in BOOLEAN

LEMMA TypesGoOn ==
  ASSUME TabTypeOK, TypesAgain
  PROVE  TabTypeOK'
<1>1. version' \in Nat \ {0}
  BY Typed DEF TypesAgain
<1>2. Steps' = Steps /\ tour' \in Tours
  BY Typed DEF TypesAgain, Steps
<1>3. QED
  BY <1>1, <1>2 DEF TypesAgain, TabTypeOK, EntryRows

LEMMA PressesFit ==
  ASSUME TabTypeOK, NEW j \in Presses
  PROVE  /\ presses[j] \in PressRows /\ presses[j].step \in Steps /\ presses[j].step \in Nat
         /\ presses[j].mine \in Nat /\ presses[j].mine <= version
         /\ 1 \in Steps
         /\ ~LastStep(j) => presses[j].step + 1 \in Steps
<1>1. presses[j] \in PressRows /\ presses[j].step \in Steps /\ presses[j].mine <= version
  BY DEF TabTypeOK
<1>2. presses[j].mine \in Nat /\ presses[j].step \in Nat
  BY <1>1 DEF PressRows
<1>3. Steps = 1..Len(tour.steps) /\ Len(tour.steps) \in Nat \ {0}
  BY StepsFit
<1>4. QED
  BY <1>1, <1>2, <1>3 DEF LastStep

LEMMA OwnTypes ==
  ASSUME TabTypeOK, NEW i \in Presses, Press(i) \/ Executes(i) \/ Plain(i) \/ HearsError(i)
  PROVE  TypesAgain
<1>1. /\ version \in Nat \ {0} /\ entry \in EntryRows(version) /\ owed \in 0..version
      /\ presses \in [Presses -> PressRows] /\ done \in [Steps -> Nat]
      /\ at \in {tour.page, tour.viewer, "away"}
  BY Typed DEF TabTypeOK
<1>2. \A j \in Presses : presses[j].step \in Steps /\ presses[j].mine <= version /\ 1 \in Steps
                         /\ presses[j].mine \in Nat
  BY PressesFit
<1>3. muddled \in BOOLEAN
  BY DEF TabTypeOK
<1>4. CASE Press(i)
  <2>1. /\ UNCHANGED <<tour, at, version, entry, done, owed, muddled>>
        /\ presses' \in [Presses -> PressRows]
        /\ presses'[i].step = 1 /\ presses'[i].mine = 0
        /\ \A j \in Presses \ {i} : presses'[j] = presses[j]
    BY <1>4, PressDoes DEF Press
  <2>2. \A j \in Presses : presses'[j].step \in Steps /\ presses'[j].mine <= version
    BY <1>1, <1>2, <2>1
  <2>3. QED
    BY <1>1, <1>3, <2>1, <2>2 DEF TypesAgain
<1>5. CASE Plain(i)
  <2>1. /\ UNCHANGED <<tour, at, version, entry, done, owed, muddled>>
        /\ presses' \in [Presses -> PressRows]
        /\ presses'[i].step = presses[i].step /\ presses'[i].mine = presses[i].mine
        /\ \A j \in Presses \ {i} : presses'[j] = presses[j]
    BY <1>5, PlainDoes DEF Goes
  <2>2. \A j \in Presses : presses'[j].step \in Steps /\ presses'[j].mine <= version
    BY <1>1, <1>2, <2>1
  <2>3. QED
    BY <1>1, <1>3, <2>1, <2>2 DEF TypesAgain
<1>6. CASE HearsError(i)
  <2>1. /\ UNCHANGED <<tour, at, version, entry, done, owed>>
        /\ presses' \in [Presses -> PressRows]
        /\ presses'[i].step = presses[i].step /\ presses'[i].mine = presses[i].mine
        /\ \A j \in Presses \ {i} : presses'[j] = presses[j]
    BY <1>6, ErrorDoes DEF HearsError
  <2>2. \A j \in Presses : presses'[j].step \in Steps /\ presses'[j].mine <= version
    BY <1>1, <1>2, <2>1
  <2>3. muddled' \in BOOLEAN
    BY <1>6 DEF HearsError
  <2>4. QED
    BY <1>1, <2>1, <2>2, <2>3 DEF TypesAgain
<1>7. CASE Executes(i)
  <2>1. /\ UNCHANGED <<tour, at, entry, owed, muddled>>
        /\ presses' \in [Presses -> PressRows] /\ version' \in {version, version + 1}
        /\ presses'[i].step = presses[i].step /\ presses'[i].mine \in {presses[i].mine, version'}
        /\ \A j \in Presses \ {i} : presses'[j] = presses[j]
    BY <1>7, ExecutesDoes DEF Executes
  <2>2. \A j \in Presses : presses'[j].step \in Steps /\ presses'[j].mine <= version'
    BY <1>1, <1>2, <2>1
  <2>3. entry' \in EntryRows(version') /\ owed' \in 0..version'
    BY <1>1, <2>1, EntryGrows
  <2>4. done' \in [Steps -> Nat]
    <3>1. done' = done \/ done' = [done EXCEPT ![presses[i].step] = @ + 1]
      BY <1>7 DEF Executes
    <3>2. QED
      BY <1>1, <1>2, <3>1
  <2>5. QED
    BY <1>1, <1>3, <2>1, <2>2, <2>3, <2>4 DEF TypesAgain
<1>8. QED
  BY <1>4, <1>5, <1>6, <1>7

LEMMA AnswerTypes ==
  ASSUME TabTypeOK, NEW i \in Presses, Hears(i) \/ Settles(i)
  PROVE  TypesAgain
<1>1. /\ version \in Nat \ {0} /\ entry \in EntryRows(version) /\ owed \in 0..version
      /\ presses \in [Presses -> PressRows] /\ done \in [Steps -> Nat]
      /\ at \in {tour.page, tour.viewer, "away"} /\ muddled \in BOOLEAN
  BY Typed DEF TabTypeOK
<1>2. \A j \in Presses : presses[j].step \in Steps /\ presses[j].mine <= version
                         /\ presses[j].mine \in Nat
  BY PressesFit
<1>3. ASSUME NEW e, e \in EntryRows(version), entry' \in {e, Refetch(e)}
      PROVE  entry' \in EntryRows(version)
  BY <1>1, <1>3, RefetchFits
<1>4. entry' \in EntryRows(version)
  <2>1. CASE Hears(i)
    <3>1. PICK e : /\ e = (IF Step(i).covers THEN Invalidate(entry) ELSE entry)
                   /\ entry' \in {e, Refetch(e)}
      BY <2>1, HearsDoes
    <3>2. e \in EntryRows(version)
      BY <1>1, <3>1, InvalidateFits
    <3>3. QED
      BY <1>3, <3>1, <3>2
  <2>2. CASE Settles(i)
    BY <1>1, <1>3, <2>2, SettlesDoes
  <2>3. QED
    BY <2>1, <2>2
<1>5. /\ UNCHANGED <<tour, at, version, done>>
      /\ owed' \in 0..version
  BY <1>1, <1>2 DEF Hears, Settles
<1>6. /\ presses' \in [Presses -> PressRows] /\ presses'[i].mine = presses[i].mine
      /\ presses'[i].step = presses[i].step
         \/ (~LastStep(i) /\ presses'[i].step = presses[i].step + 1)
      /\ \A j \in Presses \ {i} : presses'[j].step = presses[j].step
                                  /\ presses'[j].mine = presses[j].mine
  BY HearsDoes, SettlesDoes DEF SamePress
<1>7. muddled' \in BOOLEAN
  BY <1>1, HearsDoes, SettlesDoes
<1>8. \A j \in Presses : presses'[j].step \in Steps /\ presses'[j].mine <= version
  BY <1>2, <1>6, PressesFit
<1>9. QED
  BY <1>1, <1>4, <1>5, <1>6, <1>7, <1>8 DEF TypesAgain

LEMMA TabTypes ==
  ASSUME TabTypeOK,
         \/ Ages \/ Collected \/ Polls \/ PressRetry \/ ServiceReads \/ Lands \/ FetchFails
         \/ Reload \/ \E page \in {tour.page, tour.viewer, "away"} : Visit(page)
  PROVE  TypesAgain
<1>1. /\ version \in Nat \ {0} /\ entry \in EntryRows(version) /\ owed \in 0..version
      /\ presses \in [Presses -> PressRows] /\ done \in [Steps -> Nat]
      /\ at \in {tour.page, tour.viewer, "away"} /\ muddled \in BOOLEAN
  BY Typed DEF TabTypeOK
<1>2. \A j \in Presses : presses[j].step \in Steps /\ presses[j].mine <= version
  BY PressesFit
<1>3. CASE Ages \/ Collected \/ Polls \/ PressRetry \/ ServiceReads
  <2>1. /\ UNCHANGED <<tour, at, version, presses, done, owed, muddled>>
        /\ entry' \in EntryRows(version)
    BY <1>3, QuietCache, Fetches, ReadsDoes
  <2>2. QED
    BY <1>1, <1>2, <2>1 DEF TypesAgain
<1>4. CASE Lands \/ FetchFails
  <2>1. /\ UNCHANGED <<tour, at, version, done, owed, muddled>>
        /\ entry' \in EntryRows(version) /\ presses' \in [Presses -> PressRows]
        /\ \A j \in Presses : SamePress(presses[j], presses'[j])
    BY <1>4, LandsDoes, FailsDoes
  <2>2. QED
    BY <1>1, <1>2, <2>1 DEF TypesAgain, SamePress
<1>5. CASE Reload \/ \E page \in {tour.page, tour.viewer, "away"} : Visit(page)
  <2>1. /\ UNCHANGED <<tour, version, done, owed>>
        /\ at' \in {tour.page, tour.viewer, "away"}
    BY <1>5 DEF Reload, Visit
  <2>2. /\ presses' \in [Presses -> PressRows]
        /\ \A j \in Presses : presses'[j].step = presses[j].step
                              /\ presses'[j].mine = presses[j].mine
    BY <1>5, ReloadDoes, VisitDoes
  <2>3. entry' \in {entry, Mount(entry), NoEntry, Refetch(NoEntry)}
    BY <1>5 DEF Reload, Visit
  <2>4. entry' \in EntryRows(version)
    BY <1>1, <2>3, MountFits, NoEntryFits, RefetchFits
  <2>5. muddled' \in BOOLEAN
    BY <1>5 DEF Reload, Visit
  <2>6. QED
    BY <1>1, <1>2, <2>1, <2>2, <2>4, <2>5 DEF TypesAgain
<1>6. QED
  BY <1>3, <1>4, <1>5

LEMMA TabCases == TabNext =>
  \/ Ages \/ Collected \/ Polls \/ PressRetry \/ ServiceReads \/ Lands \/ FetchFails
  \/ Reload \/ \E page \in {tour.page, tour.viewer, "away"} : Visit(page)
  \/ \E i \in Presses : \/ Press(i) \/ Executes(i) \/ Plain(i) \/ HearsError(i)
                        \/ Hears(i) \/ Settles(i)
BY Zenon DEF TabNext, Plain

LEMMA TabTypeStep == TabTypeOK /\ [TabNext]_tabVars => TabTypeOK'
<1> SUFFICES ASSUME TabTypeOK, [TabNext]_tabVars PROVE TabTypeOK'
  OBVIOUS
<1>1. CASE UNCHANGED tabVars
  BY <1>1 DEF tabVars, TabTypeOK, Steps
<1>2. CASE TabNext
  <2>1. TypesAgain
    BY <1>2, TabCases, OwnTypes, AnswerTypes, TabTypes
  <2>2. QED
    BY <2>1, TypesGoOn
<1>3. QED
  BY <1>1, <1>2

\* TabTypeOK: the tab, its cache and its presses keep their form, and nobody has
\* seen or owes a version that there is not yet.
THEOREM TabTypeCorrect == TabSpec => []TabTypeOK
BY InitTab, TabTypeStep, PTL DEF TabSpec

-----------------------------------------------------------------------------
(* Who is answered, and who presses again.                                 *)

\* The button stands still while a press of it runs.
Guarded == tour.guard \in {"pending", "mount"}
Open(p) == p.stage \notin {"none", "over"}

\* What is reported done is over; as long as the user can know what became of
\* the presses, whoever waits for an answer is still on the page, and where the
\* button stands still meanwhile he is the only one.
HonestInv ==
  /\ \A j \in Presses : presses[j].told => presses[j].stage = "over"
  /\ muddled \/ \A j \in Presses : Open(presses[j]) => presses[j].here /\ ~presses[j].deaf
  /\ muddled \/ ~Guarded \/ \A i, j \in Presses :
       Open(presses[i]) /\ (Open(presses[j]) \/ presses[j].told) => i = j

\* A step that opens no press, reports none and takes nobody away.
LEMMA HonestStays ==
  ASSUME HonestInv, tour' = tour, muddled => muddled',
         \A j \in Presses :
           /\ presses'[j].told => presses[j].told
           /\ presses[j].stage = "over" => presses'[j].stage = "over"
           /\ muddled' \/ (Open(presses'[j]) =>
                Open(presses[j]) /\ presses'[j].here = presses[j].here
                /\ presses'[j].deaf = presses[j].deaf)
  PROVE  HonestInv'
<1>1. \A j \in Presses : presses'[j].told => presses'[j].stage = "over"
  BY DEF HonestInv
<1>2. muddled' \/ \A j \in Presses : Open(presses'[j]) => presses'[j].here /\ ~presses'[j].deaf
  BY DEF HonestInv
<1>3. muddled' \/ ~Guarded' \/ \A i, j \in Presses :
        Open(presses'[i]) /\ (Open(presses'[j]) \/ presses'[j].told) => i = j
  BY DEF HonestInv, Guarded
<1>4. QED
  BY <1>1, <1>2, <1>3 DEF HonestInv, Open, Guarded

\* A step of the one open press: it stays open or is over.
LEMMA HonestMoves ==
  ASSUME HonestInv, tour' = tour, muddled => muddled', NEW i \in Presses, Open(presses[i]),
         presses'[i].here = presses[i].here, presses'[i].deaf = presses[i].deaf,
         presses'[i].told => presses'[i].stage = "over",
         \A j \in Presses \ {i} : SamePress(presses[j], presses'[j])
  PROVE  HonestInv'
<1>1. \A j \in Presses : presses'[j].told => presses'[j].stage = "over"
  BY DEF HonestInv, SamePress
<1>2. muddled' \/ \A j \in Presses : Open(presses'[j]) => presses'[j].here /\ ~presses'[j].deaf
  BY DEF HonestInv, SamePress, Open
<1>3. muddled' \/ ~Guarded' \/ \A k, j \in Presses :
        Open(presses'[k]) /\ (Open(presses'[j]) \/ presses'[j].told) => k = j
  <2> SUFFICES ASSUME ~muddled, Guarded, NEW k \in Presses, NEW j \in Presses,
                      Open(presses'[k]), Open(presses'[j]) \/ presses'[j].told, k # j
               PROVE  FALSE
    BY DEF Guarded
  <2>1. \A x \in Presses \ {i} : ~Open(presses[x]) /\ ~presses[x].told
    BY DEF HonestInv
  <2>2. \A x \in Presses \ {i} : ~Open(presses'[x]) /\ ~presses'[x].told
    BY <2>1 DEF SamePress, Open
  <2>3. QED
    BY <2>2
<1>4. QED
  BY <1>1, <1>2, <1>3 DEF HonestInv, Open, Guarded

LEMMA HonestStep ==
  ASSUME TabTypeOK, HonestInv, TabNext
  PROVE  HonestInv'
<1>1. CASE Ages \/ Collected \/ Polls \/ PressRetry \/ ServiceReads
  <2>1. UNCHANGED <<tour, presses, muddled>>
    BY <1>1, QuietCache, Fetches, ReadsDoes
  <2>2. QED
    BY <2>1 DEF HonestInv, Guarded, Open
<1>2. CASE Lands \/ FetchFails
  <2>1. UNCHANGED <<tour, muddled>> /\ \A j \in Presses : SamePress(presses[j], presses'[j])
    BY <1>2, LandsDoes, FailsDoes
  <2>2. QED
    BY <2>1, HonestStays DEF SamePress, Open
<1>3. CASE Reload
  <2>1. tour' = tour /\ muddled' = (muddled \/ \E i \in Presses : Open(presses[i]))
    BY <1>3 DEF Reload, Unanswered, Open
  <2>2. muddled' \/ \A j \in Presses : ~Open(presses[j])
    BY <2>1
  <2>3. \A j \in Presses :
          /\ presses'[j].told = presses[j].told
          /\ presses'[j].stage = presses[j].stage
             \/ (presses[j].stage = "code" /\ presses'[j].stage = "over")
    BY <1>3, ReloadDoes
  <2>4. QED
    BY <2>1, <2>2, <2>3, HonestStays DEF Open
<1>4. ASSUME NEW page, Visit(page) PROVE HonestInv'
  <2>1. tour' = tour
        /\ muddled' = (muddled \/ \E i \in Presses : presses[i].here /\ Open(presses[i]))
    BY <1>4 DEF Visit, Unanswered, Open
  <2>2. muddled' \/ \A j \in Presses : ~Open(presses[j])
    BY <2>1 DEF HonestInv
  <2>3. \A j \in Presses :
          /\ presses'[j].told = presses[j].told
          /\ presses'[j].stage = presses[j].stage
             \/ (presses[j].stage = "code" /\ presses'[j].stage = "over")
    BY <1>4, VisitDoes
  <2>4. QED
    BY <2>1, <2>2, <2>3, HonestStays DEF Open
<1>5. ASSUME NEW i \in Presses, Press(i) PROVE HonestInv'
  <2>1. /\ UNCHANGED <<tour, muddled>> /\ presses[i].stage = "none"
        /\ \A j \in Presses : ~presses[j].told /\ ~Blocked(presses[j])
    BY <1>5 DEF Press
  <2>2. /\ presses'[i].stage = "asked" /\ presses'[i].here /\ ~presses'[i].deaf
        /\ ~presses'[i].told /\ \A j \in Presses \ {i} : presses'[j] = presses[j]
    BY <1>5, PressDoes
  <2>3. muddled \/ ~Guarded \/ \A j \in Presses : ~Open(presses[j])
    <3> SUFFICES ASSUME ~muddled, Guarded, NEW j \in Presses, Open(presses[j]) PROVE FALSE
      OBVIOUS
    <3>1. presses[j].here /\ presses[j] \in PressRows
      BY PressesFit DEF HonestInv
    <3>2. presses[j].stage = "code" \/ Running(presses[j])
      BY <3>1 DEF Open, Running, PressRows
    <3>3. QED
      BY <2>1, <3>1, <3>2 DEF Blocked, Guarded, Open
  <2>4. \A j \in Presses : presses'[j].told => presses'[j].stage = "over"
    BY <2>1, <2>2
  <2>5. muddled \/ \A j \in Presses : Open(presses'[j]) => presses'[j].here /\ ~presses'[j].deaf
    BY <2>2 DEF HonestInv
  <2>6. muddled \/ ~Guarded \/ \A k, j \in Presses :
          Open(presses'[k]) /\ (Open(presses'[j]) \/ presses'[j].told) => k = j
    BY <2>1, <2>2, <2>3
  <2>7. QED
    BY <2>1, <2>4, <2>5, <2>6 DEF HonestInv, Open, Guarded
<1>6. ASSUME NEW i \in Presses, Executes(i) \/ Hears(i) \/ Settles(i) PROVE HonestInv'
  <2>1. Open(presses[i]) /\ tour' = tour /\ ~presses[i].told
    BY <1>6 DEF Executes, Hears, Settles, Open, HonestInv
  <2>2. muddled => muddled'
    BY <1>6, HearsDoes, SettlesDoes DEF Executes
  <2>3. /\ presses'[i].here = presses[i].here /\ presses'[i].deaf = presses[i].deaf
        /\ presses'[i].told => presses'[i].stage = "over"
        /\ \A j \in Presses \ {i} : SamePress(presses[j], presses'[j])
    BY <1>6, <2>1, ExecutesDoes, HearsDoes, SettlesDoes DEF SamePress
  <2>4. QED
    BY <2>1, <2>2, <2>3, HonestMoves
<1>7. ASSUME NEW i \in Presses, Plain(i) PROVE HonestInv'
  <2>1. /\ UNCHANGED <<tour, muddled>> /\ Open(presses[i])
        /\ presses'[i].here = presses[i].here /\ presses'[i].deaf = presses[i].deaf
        /\ presses'[i].told = presses[i].told
        /\ \A j \in Presses \ {i} : SamePress(presses[j], presses'[j])
    BY <1>7, PlainDoes DEF Goes, SamePress, Open
  <2>2. ~presses[i].told
    BY <2>1 DEF HonestInv, Open
  <2>3. QED
    BY <2>1, <2>2, HonestMoves
<1>8. ASSUME NEW i \in Presses, HearsError(i) PROVE HonestInv'
  <2>1. tour' = tour /\ Open(presses[i]) /\ (muddled => muddled')
    BY <1>8 DEF HearsError, Open
  <2>2. /\ presses'[i].stage = "over"
        /\ \A j \in Presses \ {i} : SamePress(presses[j], presses'[j])
    BY <1>8, ErrorDoes DEF SamePress
  <2>3. presses'[i].here = presses[i].here /\ presses'[i].deaf = presses[i].deaf
    BY <1>8, ErrorDoes
  <2>4. QED
    BY <2>1, <2>2, <2>3, HonestMoves
<1>9. QED
  BY <1>1, <1>2, <1>3, <1>4, <1>5, <1>6, <1>7, <1>8, TabCases

\* Press j was reported done, or is past step k.
Took(j, k) ==
  \/ presses[j].told
  \/ Open(presses[j]) /\ (presses[j].step > k \/ (presses[j].step = k
       /\ presses[j].stage \in {"done", "late", "settling"}))

\* What a second call would do again is done once, by a press that has gone on
\* or was reported done.
OnceInv ==
  /\ \A j \in Presses : presses[j].stage \in {"wants code", "code"} => tour.code
  /\ \A k \in Steps : ~Repeatable(tour, k) => done[k] <= 1
  /\ KeepsOut(tour) => muddled \/ \A k \in Steps : Repeatable(tour, k) =>
       done[k] = 0 \/ (done[k] = 1 /\ \E j \in Presses : Took(j, k))

LEMMA OnceStays ==
  ASSUME OnceInv, tour' = tour, done' = done, muddled => muddled',
         \A j \in Presses : presses'[j].stage \in {"wants code", "code"} => tour.code,
         KeepsOut(tour) => muddled' \/ \A j \in Presses, k \in Steps :
           Repeatable(tour, k) /\ Took(j, k) => Took(j, k)'
  PROVE  OnceInv'
<1>1. Steps' = Steps /\ (KeepsOut(tour)' <=> KeepsOut(tour)) /\ \A k : Repeatable(tour, k)' <=> Repeatable(tour, k)
  BY DEF Steps, KeepsOut, Repeatable, Guarded
<1>2. \A j \in Presses : presses'[j].stage \in {"wants code", "code"} => tour'.code
  OBVIOUS
<1>3. \A k \in Steps : ~Repeatable(tour, k) => done'[k] <= 1
  BY DEF OnceInv
<1>4. KeepsOut(tour) => muddled' \/ \A k \in Steps : Repeatable(tour, k) =>
        done'[k] = 0 \/ (done'[k] = 1 /\ \E j \in Presses : Took(j, k)')
  BY DEF OnceInv
<1>5. QED
  BY <1>1, <1>2, <1>3, <1>4 DEF OnceInv

LEMMA OnceExecutes ==
  ASSUME TabTypeOK, HonestInv, OnceInv, NEW i \in Presses, Executes(i)
  PROVE  OnceInv'
<1>1. /\ presses'[i].stage = "done" /\ presses'[i].step = presses[i].step
      /\ presses'[i].told = presses[i].told
      /\ \A j \in Presses \ {i} : presses'[j] = presses[j]
  BY ExecutesDoes
<1>2. /\ UNCHANGED <<tour, muddled>> /\ presses[i].stage = "asked" /\ Step(i).served
      /\ \/ done' = done /\ ~(Step(i).again = "again" \/ done[presses[i].step] = 0)
         \/ /\ done' = [done EXCEPT ![presses[i].step] = @ + 1]
            /\ Step(i).again = "again" \/ done[presses[i].step] = 0
  BY DEF Executes
<1>3. Steps' = Steps /\ (KeepsOut(tour)' <=> KeepsOut(tour)) /\ \A k : Repeatable(tour, k)' <=> Repeatable(tour, k)
  BY <1>2 DEF Steps, KeepsOut, Repeatable, Guarded
<1>4. /\ presses[i].step \in Steps /\ presses[i].step \in Nat /\ done \in [Steps -> Nat]
      /\ \A k \in Steps : k \in Nat
  BY PressesFit, StepsFit DEF TabTypeOK
<1>5. \A k \in Steps : done'[k] = done[k]
        \/ (k = presses[i].step /\ done'[k] = done[k] + 1 /\ (Repeatable(tour, k) \/ done[k] = 0))
  BY <1>2, <1>4 DEF Step, Repeatable
<1>6. \A j \in Presses, k \in Steps : Took(j, k) => Took(j, k)'
  <2>1. \A k \in Steps : Took(i, k) => Took(i, k)'
    BY <1>1, <1>2 DEF Took, Open
  <2>2. \A j \in Presses \ {i}, k \in Steps : Took(j, k) => Took(j, k)'
    BY <1>1 DEF Took, Open
  <2>3. QED
    BY <2>1, <2>2
<1>7. \A k \in Steps : ~Repeatable(tour, k) => done'[k] <= 1
  <2> SUFFICES ASSUME NEW k \in Steps, ~Repeatable(tour, k) PROVE done'[k] <= 1
    OBVIOUS
  <2>1. done[k] <= 1
    BY DEF OnceInv
  <2>2. done'[k] = done[k] \/ (done'[k] = done[k] + 1 /\ done[k] = 0)
    BY <1>5
  <2>3. QED
    BY <2>1, <2>2
<1>8. KeepsOut(tour) => muddled \/ \A k \in Steps : Repeatable(tour, k) =>
        done'[k] = 0 \/ (done'[k] = 1 /\ \E j \in Presses : Took(j, k)')
  <2> SUFFICES ASSUME KeepsOut(tour), ~muddled, NEW k \in Steps, Repeatable(tour, k)
               PROVE  done'[k] = 0 \/ (done'[k] = 1 /\ \E j \in Presses : Took(j, k)')
    OBVIOUS
  <2>1. done[k] = 0 \/ (done[k] = 1 /\ \E j \in Presses : Took(j, k))
    BY DEF OnceInv
  <2>2. CASE done'[k] = done[k]
    BY <1>6, <2>1, <2>2
  <2>3. CASE k = presses[i].step /\ done'[k] = done[k] + 1
    <3>1. ~\E j \in Presses : Took(j, k)
      <4> SUFFICES ASSUME NEW j \in Presses, Took(j, k) PROVE FALSE
        OBVIOUS
      <4>1. Guarded /\ Open(presses[i])
        BY <1>2 DEF KeepsOut, Guarded, Steps, Open
      <4>2. i = j
        BY <4>1 DEF HonestInv, Took
      <4>3. ~presses[i].told
        BY <1>2 DEF HonestInv
      <4>4. QED
        BY <1>2, <1>4, <2>3, <4>2, <4>3 DEF Took
    <3>2. done'[k] = 1
      BY <2>1, <2>3, <3>1
    <3>3. Took(i, k)'
      BY <1>1, <2>3 DEF Took, Open
    <3>4. QED
      BY <3>2, <3>3
  <2>4. QED
    BY <1>5, <2>2, <2>3
<1>9. \A j \in Presses : presses'[j].stage \in {"wants code", "code"} => tour'.code
  BY <1>1, <1>2 DEF OnceInv
<1>10. QED
  BY <1>2, <1>3, <1>7, <1>8, <1>9 DEF OnceInv

LEMMA OnceStep ==
  ASSUME TabTypeOK, HonestInv, OnceInv, TabNext
  PROVE  OnceInv'
<1>0. /\ \A k \in Steps : k \in Nat \ {0}
      /\ \A j \in Presses : presses[j].step \in Steps /\ presses[j].step \in Nat
  BY StepsFit, PressesFit
<1>1. CASE Ages \/ Collected \/ Polls \/ PressRetry \/ ServiceReads
  <2>1. UNCHANGED <<tour, presses, muddled, done>>
    BY <1>1, QuietCache, Fetches, ReadsDoes
  <2>2. QED
    BY <2>1, OnceStays DEF OnceInv, Took, Open
<1>2. CASE Lands \/ FetchFails
  <2>1. UNCHANGED <<tour, muddled, done>> /\ \A j \in Presses : SamePress(presses[j], presses'[j])
    BY <1>2, LandsDoes, FailsDoes
  <2>2. QED
    BY <2>1, OnceStays DEF OnceInv, SamePress, Open, Took
<1>3. CASE Reload \/ \E page \in {tour.page, tour.viewer, "away"} : Visit(page)
  <2>1. UNCHANGED <<tour, done>> /\ (muddled => muddled')
    BY <1>3 DEF Reload, Visit
  <2>2. muddled' \/ \A j \in Presses : ~Open(presses[j])
    BY <1>3 DEF Reload, Visit, Unanswered, Open, HonestInv
  <2>3. \A j \in Presses :
          /\ presses'[j].told = presses[j].told
          /\ presses'[j].stage = presses[j].stage
             \/ (presses[j].stage = "code" /\ presses'[j].stage = "over")
    BY <1>3, ReloadDoes, VisitDoes
  <2>4. \A j \in Presses : presses'[j].stage \in {"wants code", "code"} => tour.code
    BY <2>3 DEF OnceInv
  <2>5. muddled' \/ \A j \in Presses, k \in Steps : Took(j, k) => Took(j, k)'
    BY <2>2, <2>3 DEF Took
  <2>6. QED
    BY <2>1, <2>4, <2>5, OnceStays
<1>4. ASSUME NEW i \in Presses, Press(i) PROVE OnceInv'
  <2>1. UNCHANGED <<tour, muddled, done>> /\ presses[i].stage = "none"
    BY <1>4 DEF Press
  <2>2. presses'[i].stage = "asked" /\ \A j \in Presses \ {i} : presses'[j] = presses[j]
    BY <1>4, PressDoes
  <2>3. \A k : ~Took(i, k)
    BY <2>1 DEF Took, Open, HonestInv
  <2>4. \A j \in Presses, k \in Steps : Took(j, k) => Took(j, k)'
    BY <2>2, <2>3 DEF Took, Open
  <2>5. \A j \in Presses : presses'[j].stage \in {"wants code", "code"} => tour.code
    BY <2>2 DEF OnceInv
  <2>6. QED
    BY <2>1, <2>4, <2>5, OnceStays
<1>5. ASSUME NEW i \in Presses, Hears(i) \/ Settles(i) PROVE OnceInv'
  <2>1. UNCHANGED <<tour, done>> /\ (muddled => muddled') /\ presses[i].stage \in {"done", "settling"}
    BY <1>5, HearsDoes, SettlesDoes DEF Hears, Settles
  <2>2. /\ \A j \in Presses \ {i} : SamePress(presses[j], presses'[j])
        /\ \/ presses'[i].stage = "settling" /\ presses'[i].step = presses[i].step
           \/ presses'[i].stage = "asked" /\ presses'[i].step = presses[i].step + 1
           \/ presses'[i].stage = "over" /\ (presses'[i].told \/ muddled')
    BY <1>5, HearsDoes, SettlesDoes DEF SamePress
  <2>3. ~presses[i].told
    BY <2>1 DEF HonestInv
  <2>4. \A j \in Presses \ {i}, k \in Steps : Took(j, k) => Took(j, k)'
    BY <2>2 DEF Took, Open, SamePress
  <2>5. \A k \in Steps : Took(i, k) => Took(i, k)' \/ muddled'
    BY <1>0, <2>1, <2>2, <2>3 DEF Took, Open
  <2>6. \A j \in Presses : presses'[j].stage \in {"wants code", "code"} => tour.code
    BY <2>2 DEF OnceInv, SamePress
  <2>7. QED
    BY <2>1, <2>4, <2>5, <2>6, OnceStays
<1>6. ASSUME NEW i \in Presses, Plain(i) PROVE OnceInv'
  <2>1. UNCHANGED <<tour, muddled, done>>
    BY <1>6, PlainDoes
  <2>2. /\ presses'[i].step = presses[i].step /\ presses'[i].told = presses[i].told
        /\ \A j \in Presses \ {i} : presses'[j] = presses[j]
    BY <1>6, PlainDoes DEF Goes
  <2>3. \/ presses[i].stage = "asked" /\ presses'[i].stage = "refused"
        \/ presses[i].stage = "done" /\ presses'[i].stage = "late"
        \/ presses[i].stage = "asked" /\ tour.code /\ presses'[i].stage = "wants code"
        \/ presses[i].stage = "wants code" /\ presses[i].here /\ presses'[i].stage = "code"
        \/ presses[i].stage = "wants code" /\ ~presses[i].here /\ presses'[i].stage = "over"
        \/ presses[i].stage = "code" /\ presses'[i].stage \in {"asked", "over"}
    BY <1>6, PlainDoes DEF Goes
  <2>4. \A j \in Presses \ {i}, k \in Steps : Took(j, k) => Took(j, k)'
    BY <2>2 DEF Took, Open
  <2>5. KeepsOut(tour) => \A k \in Steps : Repeatable(tour, k) /\ Took(i, k) => Took(i, k)' \/ muddled
    <3>1. CASE presses'[i].stage # "over"
      BY <2>2, <2>3, <3>1 DEF Took, Open
    <3>2. CASE presses'[i].stage = "over"
      <4>1. presses[i].stage \in {"wants code", "code"} /\ tour.code
        BY <2>3, <3>2 DEF OnceInv
      <4>2. ASSUME KeepsOut(tour), NEW k \in Steps, Repeatable(tour, k) PROVE presses[i].step <= k
        <5>1. Len(tour.steps) = 1
          BY <4>1, <4>2 DEF KeepsOut, Steps
        <5>2. Steps = 1..1
          BY <5>1, StepsFit
        <5>3. QED
          BY <1>0, <5>2
      <4>3. ~presses[i].told
        BY <4>1 DEF HonestInv
      <4>4. ASSUME KeepsOut(tour), NEW k \in Steps, Repeatable(tour, k) PROVE ~Took(i, k)
        <5>1. presses[i].step <= k /\ ~(presses[i].step > k)
          BY <1>0, <4>2, <4>4
        <5>2. QED
          BY <4>1, <4>3, <5>1 DEF Took
      <4>5. QED
        BY <4>4
    <3>3. QED
      BY <3>1, <3>2
  <2>6. \A j \in Presses : presses'[j].stage \in {"wants code", "code"} => tour.code
    BY <2>2, <2>3 DEF OnceInv
  <2>7. KeepsOut(tour) => muddled' \/ \A j \in Presses, k \in Steps :
           Repeatable(tour, k) /\ Took(j, k) => Took(j, k)'
    BY <2>1, <2>4, <2>5
  <2>8. QED
    BY <2>1, <2>6, <2>7, OnceStays
<1>7. ASSUME NEW i \in Presses, HearsError(i) PROVE OnceInv'
  <2>1. /\ UNCHANGED <<tour, done>> /\ presses[i].stage \in {"refused", "late"}
        /\ muddled' = (muddled \/ presses[i].stage = "late" \/ presses[i].step > 1)
    BY <1>7 DEF HearsError
  <2>2. /\ presses'[i].stage = "over"
        /\ \A j \in Presses \ {i} : presses'[j] = presses[j]
    BY <1>7, ErrorDoes
  <2>3. \A j \in Presses \ {i}, k \in Steps : Took(j, k) => Took(j, k)'
    BY <2>2 DEF Took, Open
  <2>4. ~presses[i].told
    BY <2>1 DEF HonestInv
  <2>5. \A k \in Steps : Took(i, k) => muddled'
    <3> SUFFICES ASSUME NEW k \in Steps, Took(i, k) PROVE muddled'
      OBVIOUS
    <3>1. presses[i].step > k \/ presses[i].stage = "late"
      BY <2>1, <2>4 DEF Took
    <3>2. presses[i].step > k => presses[i].step > 1
      BY <1>0
    <3>3. QED
      BY <2>1, <3>1, <3>2
  <2>6. \A j \in Presses : presses'[j].stage \in {"wants code", "code"} => tour.code
    BY <2>2 DEF OnceInv
  <2>7. QED
    BY <2>1, <2>3, <2>5, <2>6, OnceStays
<1>8. QED
  BY <1>1, <1>2, <1>3, <1>4, <1>5, <1>6, <1>7, OnceExecutes, TabCases

LEMMA InitHonest == TabInit => HonestInv /\ OnceInv
<1> SUFFICES ASSUME TabInit PROVE HonestInv /\ OnceInv
  OBVIOUS
<1>1. \A j \in Presses : presses[j].stage = "none" /\ ~presses[j].told
  BY NoPressFits DEF TabInit
<1>2. HonestInv
  BY <1>1 DEF HonestInv, Open
<1>3. \A k \in Steps : done[k] = 0
  BY DEF TabInit
<1>4. OnceInv
  <2>1. \A k \in Steps : done[k] <= 1
    BY <1>3
  <2>2. QED
    BY <1>1, <1>3, <2>1 DEF OnceInv
<1>5. QED
  BY <1>2, <1>4

\* NotDoneTwice: where the button stands still during what a second call would
\* do again, nobody who was not told does it twice, however often he presses.
THEOREM TabDoesOnce == TabSpec => [](KeepsOut(tour) => NotDoneTwice)
<1>1. TabInit => HonestInv /\ OnceInv
  BY InitHonest
<1>2. TabTypeOK /\ HonestInv /\ OnceInv /\ [TabNext]_tabVars => HonestInv' /\ OnceInv'
  <2> SUFFICES ASSUME TabTypeOK, HonestInv, OnceInv, [TabNext]_tabVars
               PROVE  HonestInv' /\ OnceInv'
    OBVIOUS
  <2>1. CASE UNCHANGED tabVars
    <3>1. HonestInv'
      BY <2>1 DEF tabVars, HonestInv, Open, Guarded
    <3>2. OnceInv'
      BY <2>1, OnceStays DEF tabVars, OnceInv, Took, Open
    <3>3. QED
      BY <3>1, <3>2
  <2>2. CASE TabNext
    BY <2>2, HonestStep, OnceStep
  <2>3. QED
    BY <2>1, <2>2
<1>3. TabTypeOK /\ OnceInv => (KeepsOut(tour) => NotDoneTwice)
  <2> SUFFICES ASSUME TabTypeOK, OnceInv, KeepsOut(tour), ~muddled, NEW k \in Steps
               PROVE  done[k] <= 1
    BY DEF NotDoneTwice
  <2>1. done[k] = 0 \/ done[k] = 1 \/ done[k] <= 1
    BY DEF OnceInv
  <2>2. QED
    BY <2>1
<1>4. QED
  BY <1>1, <1>2, <1>3, TabTypeCorrect, PTL DEF TabSpec

-----------------------------------------------------------------------------
(* What the screen shows.                                                  *)

\* An answer on its way is no older than what is owed, or known to be overtaken;
\* data that is older is marked, and where it is on the screen it is being
\* fetched, or could not be.
ShownInv ==
  /\ entry.fetch = "answered" => entry.overtaken \/ entry.read >= owed
  /\ entry.seen # 0 /\ entry.seen < owed =>
       entry.crossed \/ (entry.stale /\ (Watching => entry.fetch # "none" \/ entry.failed))

\* A step after which nothing more is owed and the entry is the same or asked for.
LEMMA ShownKept ==
  ASSUME ShownInv, NEW e, Asks(entry, e), entry' \in {e, Refetch(e)}, owed' = owed,
         UNCHANGED <<tour, at>>, TabTypeOK, e \in EntryRows(version)
  PROVE  ShownInv'
<1>1. Asks(entry, entry')
  BY Typed, RefetchFits DEF Asks, SameData, SameFetch
<1>2. QED
  BY <1>1 DEF ShownInv, Asks, SameData, SameFetch, Watching

LEMMA ShownStep ==
  ASSUME TabTypeOK, ShownInv, CoversAll(tour), TabNext
  PROVE  ShownInv'
<1>1. /\ version \in Nat /\ entry \in EntryRows(version) /\ owed \in Nat /\ owed <= version
      /\ Asks(entry, entry)
  BY Typed DEF TabTypeOK, Asks, SameData, SameFetch
<1>2. CASE Ages \/ Collected
  <2>1. QED
    BY <1>2, QuietCache DEF ShownInv, SameData, SameFetch, Watching
<1>3. CASE Polls \/ PressRetry
  <2>1. Asks(entry, entry') /\ UNCHANGED <<tour, at, owed>>
    BY <1>3, Fetches
  <2>2. QED
    BY <2>1 DEF ShownInv, Asks, SameData, SameFetch, Watching
<1>4. CASE ServiceReads
  BY <1>1, <1>4, ReadsDoes DEF ShownInv, SameData, Watching
<1>5. CASE Lands
  <2>1. /\ entry.fetch = "answered" /\ entry'.seen = entry.read /\ entry'.fetch = "none"
        /\ entry'.crossed = entry.overtaken /\ owed' = owed
    BY <1>5, LandsDoes
  <2>2. entry.overtaken \/ entry.read >= owed
    BY <2>1 DEF ShownInv
  <2>3. entry'.crossed \/ ~(entry'.seen < owed')
    <3>1. entry.read \in Nat /\ owed \in Nat
      BY <1>1 DEF EntryRows
    <3>2. QED
      BY <2>1, <2>2, <3>1
  <2>4. QED
    BY <2>1, <2>3 DEF ShownInv
<1>6. CASE FetchFails
  BY <1>6, FailsDoes DEF ShownInv, Watching
<1>7. CASE Reload
  <2>1. entry' \in {NoEntry, Refetch(NoEntry)}
    BY <1>7 DEF Reload
  <2>2. entry'.seen = 0 /\ entry'.fetch # "answered"
    BY <1>1, <2>1, NoEntryFits, RefetchFits DEF SameData
  <2>3. QED
    BY <2>2 DEF ShownInv
<1>8. ASSUME NEW page, Visit(page) PROVE ShownInv'
  <2>1. /\ UNCHANGED <<tour, owed>> /\ at' = page
        /\ entry' = (IF page = tour.viewer THEN Mount(entry) ELSE entry)
    BY <1>8 DEF Visit
  <2>2. CASE page = tour.viewer
    <3>1. entry' = Mount(entry)
      BY <2>1, <2>2
    <3>2. /\ SameData(entry, entry') /\ entry'.stale = entry.stale
          /\ \/ SameFetch(entry, entry') /\ (entry.fetch # "none" \/ (~entry.stale /\ entry.seen # 0))
             \/ entry'.fetch = "asked"
      BY <1>1, <3>1, MountFits
    <3>3. QED
      BY <2>1, <3>2 DEF ShownInv, SameData, SameFetch
  <2>3. CASE page # tour.viewer
    BY <2>1, <2>3 DEF ShownInv, Watching
  <2>4. QED
    BY <2>2, <2>3
<1>9. ASSUME NEW i \in Presses, Press(i) \/ Executes(i) \/ Plain(i) \/ HearsError(i)
      PROVE  ShownInv'
  <2>1. UNCHANGED <<tour, at, entry, owed>>
    BY <1>9, PlainDoes DEF Press, Executes, HearsError
  <2>2. QED
    BY <2>1 DEF ShownInv, Watching
<1>10. ASSUME NEW i \in Presses, Settles(i) PROVE ShownInv'
  <2>1. entry' \in {entry, Refetch(entry)} /\ UNCHANGED <<tour, at, owed>>
    BY <1>10, SettlesDoes DEF Settles
  <2>2. QED
    BY <1>1, <2>1, ShownKept
<1>11. ASSUME NEW i \in Presses, Hears(i) PROVE ShownInv'
  <2>1. PICK e : /\ e = (IF Step(i).covers THEN Invalidate(entry) ELSE entry)
                 /\ entry' \in {e, Refetch(e)}
    BY <1>11, HearsDoes
  <2>2. /\ UNCHANGED <<tour, at>>
        /\ owed' = (IF Step(i).touches /\ ~Step(i).excused /\ presses[i].mine > owed
                    THEN presses[i].mine ELSE owed)
    BY <1>11 DEF Hears
  <2>3. CASE Step(i).covers
    <3>1. /\ e \in EntryRows(version) /\ e.stale /\ (e.fetch = "answered" => e.overtaken)
          /\ Watching /\ e.seen # 0 => e.fetch = "asked"
      BY <1>1, <2>1, <2>3, InvalidateFits DEF SameData
    <3>2. /\ entry'.stale /\ (entry'.fetch = "answered" => entry'.overtaken)
          /\ Watching /\ entry'.seen # 0 => entry'.fetch = "asked"
      BY <1>1, <2>1, <3>1, RefetchFits DEF SameData, SameFetch
    <3>3. QED
      BY <2>2, <3>2 DEF ShownInv, Watching
  <2>4. CASE ~Step(i).covers
    <3>1. owed' = owed
      BY <2>2, <2>4, PressesFit DEF CoversAll, Step, Steps
    <3>2. QED
      BY <1>1, <2>1, <2>2, <2>4, <3>1, ShownKept
  <2>5. QED
    BY <2>3, <2>4
<1>12. QED
  BY <1>2, <1>3, <1>4, <1>5, <1>6, <1>7, <1>8, <1>9, <1>10, <1>11, TabCases

\* OwnChangeShows: in a tour whose hooks cover what its calls touch, a list on the
\* screen whose last fetch worked is not older than what the tab was told it had
\* done.  Not claimed: the lists a call is excused from covering (LeftBehind), and
\* a list whose last answer was on its way when the invalidation came (crossed).
THEOREM TabShowsOwnChange == TabSpec => [](CoversAll(tour) => OwnChangeShows)
<1>1. TabInit => (CoversAll(tour) => ShownInv)
  <2> SUFFICES ASSUME TabInit PROVE ShownInv
    OBVIOUS
  <2>1. entry \in {NoEntry, Refetch(NoEntry)}
    BY DEF TabInit
  <2>2. entry.seen = 0 /\ entry.fetch # "answered"
    BY <2>1, NoEntryFits, RefetchFits DEF SameData
  <2>3. QED
    BY <2>2 DEF ShownInv
<1>2. TabTypeOK /\ (CoversAll(tour) => ShownInv) /\ [TabNext]_tabVars => (CoversAll(tour) => ShownInv)'
  <2> SUFFICES ASSUME TabTypeOK, CoversAll(tour) => ShownInv, [TabNext]_tabVars, CoversAll(tour)'
               PROVE  ShownInv'
    OBVIOUS
  <2>1. CASE UNCHANGED tabVars
    BY <2>1 DEF tabVars, CoversAll, Steps, ShownInv, Watching
  <2>2. CASE TabNext
    <3>1. tour' = tour
      BY <2>2, TabCases, OwnTypes, AnswerTypes, TabTypes DEF TypesAgain
    <3>2. CoversAll(tour)
      BY <3>1 DEF CoversAll, Steps
    <3>3. QED
      BY <2>2, <3>2, ShownStep
  <2>3. QED
    BY <2>1, <2>2
<1>3. TabTypeOK /\ (CoversAll(tour) => ShownInv) => (CoversAll(tour) => OwnChangeShows)
  <2> SUFFICES ASSUME TabTypeOK, ShownInv, Watching, entry.seen # 0, entry.fetch = "none",
                      ~entry.failed, ~entry.crossed
               PROVE  entry.seen >= owed
    BY DEF OwnChangeShows
  <2>1. entry.seen \in Nat /\ owed \in Nat
    BY Typed DEF EntryRows, TabTypeOK
  <2>2. QED
    BY <2>1 DEF ShownInv
<1>4. QED
  BY <1>1, <1>2, <1>3, TabTypeCorrect, PTL DEF TabSpec

-----------------------------------------------------------------------------
(* What the page says and the list under it shows.                         *)

\* As long as the user can know what became of it, a press whose hook waits: an
\* answer on its way that nothing overtook holds what the press made, and once
\* the wait is over the list on the screen shows it, or cannot.
ToldInv == ~muddled /\ tour.guard = "pending" =>
  \A i \in Presses : presses[i].stage = "settling" /\ Step(i).covers =>
    /\ entry.fetch = "answered" => entry.overtaken \/ entry.read >= presses[i].mine
    /\ Watching /\ ~presses[i].awaits =>
         entry.seen >= presses[i].mine \/ entry.failed \/ entry.crossed

\* A step after which no press waits that did not, and the entry is the same.
LEMMA ToldKept ==
  ASSUME ToldInv, UNCHANGED <<tour, at, entry>>, muddled => muddled',
         \A j \in Presses :
           presses'[j].stage = "settling" => muddled' \/ presses'[j] = presses[j]
  PROVE  ToldInv'
<1> SUFFICES ASSUME ~muddled', tour.guard = "pending", NEW i \in Presses,
                    presses'[i].stage = "settling", Step(i)'.covers
             PROVE  /\ entry'.fetch = "answered" => entry'.overtaken \/ entry'.read >= presses'[i].mine
                    /\ Watching' /\ ~presses'[i].awaits =>
                         entry'.seen >= presses'[i].mine \/ entry'.failed \/ entry'.crossed
  BY DEF ToldInv
<1>1. presses'[i] = presses[i] /\ Step(i) = Step(i)' /\ Watching' = Watching
  BY DEF Step, Watching
<1>2. QED
  BY <1>1 DEF ToldInv

LEMMA ToldStep ==
  ASSUME TabTypeOK, HonestInv, ToldInv, TabNext
  PROVE  ToldInv'
<1>0. \A j \in Presses : presses[j].mine <= version /\ presses[j].mine \in Nat
  BY PressesFit DEF TabTypeOK, PressRows
<1>1. CASE Ages \/ Collected \/ Polls \/ PressRetry
  <2>1. /\ UNCHANGED <<tour, at, presses, muddled>>
        /\ \/ SameData(entry, entry') /\ (SameFetch(entry, entry') \/ entry'.fetch = "asked")
           \/ entry'.fetch = "none" /\ ~Watching
    BY <1>1, QuietCache, Fetches DEF Asks
  <2>2. QED
    BY <2>1 DEF ToldInv, SameData, SameFetch, Watching, Step
<1>2. CASE ServiceReads
  <2>1. /\ UNCHANGED <<tour, at, presses, muddled>> /\ SameData(entry, entry')
        /\ entry'.read = version
    BY <1>2, ReadsDoes
  <2>2. QED
    BY <1>0, <2>1 DEF ToldInv, SameData, Watching, Step
<1>3. CASE Lands \/ FetchFails
  <2>1. /\ UNCHANGED <<tour, at, muddled>> /\ entry'.fetch = "none"
        /\ \/ entry.fetch = "answered" /\ entry'.seen = entry.read
              /\ entry'.crossed = entry.overtaken
           \/ entry'.failed
        /\ \A j \in Presses : SamePress(presses[j], presses'[j])
    BY <1>3, LandsDoes, FailsDoes
  <2>2. SUFFICES ASSUME ~muddled, tour.guard = "pending", NEW i \in Presses,
                        presses'[i].stage = "settling", Step(i)'.covers
                 PROVE  /\ entry'.fetch # "answered"
                        /\ entry'.seen >= presses'[i].mine \/ entry'.failed \/ entry'.crossed
    BY <2>1 DEF ToldInv
  <2>3. presses[i].stage = "settling" /\ presses'[i].mine = presses[i].mine /\ Step(i) = Step(i)'
    BY <2>1, <2>2 DEF SamePress, Step
  <2>4. QED
    BY <2>1, <2>2, <2>3 DEF ToldInv
<1>4. CASE Reload \/ \E page \in {tour.page, tour.viewer, "away"} : Visit(page)
  <2>1. muddled' \/ \A j \in Presses : ~Open(presses[j])
    BY <1>4 DEF Reload, Visit, Unanswered, Open, HonestInv
  <2>2. \A j \in Presses : presses'[j].stage = presses[j].stage \/ presses'[j].stage = "over"
    BY <1>4, ReloadDoes, VisitDoes
  <2>3. QED
    BY <2>1, <2>2 DEF ToldInv, Open
<1>5. ASSUME NEW i \in Presses, Press(i) \/ Executes(i) \/ Plain(i) \/ HearsError(i)
      PROVE  ToldInv'
  <2>1. UNCHANGED <<tour, at, entry>> /\ (muddled => muddled')
    BY <1>5, PlainDoes DEF Press, Executes, HearsError
  <2>2. presses'[i].stage # "settling" /\ \A j \in Presses \ {i} : presses'[j] = presses[j]
    BY <1>5, PressDoes, ExecutesDoes, PlainDoes, ErrorDoes DEF Goes
  <2>3. QED
    BY <2>1, <2>2, ToldKept
<1>6. ASSUME NEW i \in Presses, Hears(i) \/ Settles(i) PROVE ToldInv'
  <2>1. /\ Open(presses[i]) /\ tour' = tour /\ (muddled => muddled')
        /\ \A j \in Presses \ {i} : SamePress(presses[j], presses'[j])
    BY <1>6, HearsDoes, SettlesDoes DEF Hears, Settles, Open, SamePress
  <2>2. SUFFICES ASSUME ~muddled', tour.guard = "pending", NEW j \in Presses,
                        presses'[j].stage = "settling", Step(j)'.covers
                 PROVE  /\ entry'.fetch = "answered" => entry'.overtaken
                        /\ ~Watching' \/ presses'[j].awaits
    BY <2>1 DEF ToldInv
  <2>3. j = i
    BY <2>1, <2>2 DEF HonestInv, Guarded, Open, SamePress
  <2>4. Hears(i)
    BY <1>6, <2>2, <2>3, SettlesDoes
  <2>5. /\ presses'[i].step = presses[i].step
        /\ Step(i).covers /\ Watching => presses'[i].awaits
    BY <2>2, <2>3, <2>4, HearsDoes
  <2>6. Step(i).covers /\ Watching' = Watching
    BY <2>1, <2>2, <2>3, <2>4, <2>5 DEF Step, Watching, Hears
  <2>7. PICK e : e = Invalidate(entry) /\ entry' \in {e, Refetch(e)}
    BY <2>4, <2>6, HearsDoes
  <2>8. e \in EntryRows(version) /\ (e.fetch = "answered" => e.overtaken)
    BY <2>7, Typed, InvalidateFits
  <2>9. entry'.fetch = "answered" => entry'.overtaken
    BY <2>7, <2>8, Typed, RefetchFits DEF SameFetch
  <2>10. QED
    BY <2>3, <2>5, <2>6, <2>9
<1>7. QED
  BY <1>1, <1>2, <1>3, <1>4, <1>5, <1>6, TabCases

\* Of the steps of a tab only Settles tells a press that waited.
LEMMA TellsStep ==
  ASSUME TabTypeOK, HonestInv, TabNext, NEW i \in Presses,
         presses[i].stage = "settling", presses'[i].told
  PROVE  ~presses[i].awaits
<1>1. ~presses[i].told
  BY DEF HonestInv
<1>2. ~(Ages \/ Collected \/ Polls \/ PressRetry \/ ServiceReads)
  BY <1>1, QuietCache, Fetches, ReadsDoes
<1>3. ~(Lands \/ FetchFails)
  BY <1>1, LandsDoes, FailsDoes DEF SamePress
<1>4. ~(Reload \/ \E page \in {tour.page, tour.viewer, "away"} : Visit(page))
  BY <1>1, ReloadDoes, VisitDoes
<1>5. PICK j \in Presses : \/ Press(j) \/ Executes(j) \/ Plain(j) \/ HearsError(j)
                           \/ Hears(j) \/ Settles(j)
  BY <1>2, <1>3, <1>4, TabCases
<1>6. \A k \in Presses \ {j} : presses'[k].told = presses[k].told
  BY <1>5, PressDoes, ExecutesDoes, PlainDoes, ErrorDoes, HearsDoes, SettlesDoes
     DEF Goes, SamePress
<1>7. j = i
  BY <1>1, <1>6
<1>8. presses[j].stage = "settling"
  BY <1>7
<1>9. Settles(j)
  BY <1>5, <1>8, PlainDoes DEF Press, Executes, HearsError, Hears
<1>10. QED
  BY <1>7, <1>9 DEF Settles

\* ToldThenShown: where the hook waits for the list and the button for the hook,
\* the page says "done" only over a list that shows it, or that could not be
\* fetched, or that an older answer overran.
THEOREM TabTellsThenShows == TabSpec => ToldThenShown
<1>1. TabInit => ToldInv
  BY NoPressFits DEF TabInit, ToldInv
<1>2. TabTypeOK /\ HonestInv /\ ToldInv /\ [TabNext]_tabVars => HonestInv' /\ ToldInv'
  <2> SUFFICES ASSUME TabTypeOK, HonestInv, ToldInv, [TabNext]_tabVars
               PROVE  HonestInv' /\ ToldInv'
    OBVIOUS
  <2>1. CASE UNCHANGED tabVars
    <3>1. HonestInv'
      BY <2>1 DEF tabVars, HonestInv, Open, Guarded
    <3>2. ToldInv'
      BY <2>1 DEF tabVars, ToldInv, Watching, Step
    <3>3. QED
      BY <3>1, <3>2
  <2>2. CASE TabNext
    BY <2>2, HonestStep, ToldStep
  <2>3. QED
    BY <2>1, <2>2
<1>3. TabTypeOK /\ HonestInv /\ ToldInv /\ [TabNext]_tabVars =>
        [\A i \in Presses :
           /\ presses[i].stage = "settling" /\ presses'[i].told /\ tour.guard = "pending"
           /\ Watching /\ Step(i).covers /\ ~entry.failed /\ ~entry.crossed /\ ~muddled
           => entry.seen >= presses[i].mine]_tabVars
  <2> SUFFICES ASSUME TabTypeOK, HonestInv, ToldInv, TabNext, NEW i \in Presses,
                      presses[i].stage = "settling", presses'[i].told, tour.guard = "pending",
                      Watching, Step(i).covers, ~entry.failed, ~entry.crossed, ~muddled
               PROVE  entry.seen >= presses[i].mine
    OBVIOUS
  <2>1. ~presses[i].awaits
    BY TellsStep
  <2>2. QED
    BY <2>1 DEF ToldInv
<1>4. QED
  BY <1>1, <1>2, <1>3, TabTypeCorrect, InitHonest, PTL DEF TabSpec, ToldThenShown
=============================================================================
