------------------------------ MODULE EventBus ------------------------------
(***************************************************************************)
(* RedisStreamsEventBus for one event type: the publisher, and the         *)
(* consumer loops of the processes subscribed to it.  The stream is the    *)
(* positions 1..published; a consumer group keeps the last position it     *)
(* handed out, and its pending entries (PEL).  A consumer reads a batch of *)
(* new positions ('>'), and takes them one by one.                         *)
(***************************************************************************)
EXTENDS Integers, FiniteSets

CONSTANTS
  Groups,        \* consumer groups subscribed to the event type
  Consumers,     \* processes, each in one group
  GroupOf,       \* [Consumers -> Groups]
  MaxAttempts,   \* [Groups -> Nat \ {0}], SubscribeOptions.maxAttempts
  Batch,         \* COUNT of the XREADGROUP
  MaxEvents,     \* bound: events published
  Bare,          \* positions of entries without a payload, from another producer
  HandlerFails,  \* TRUE: a handler may throw
  RedisFails,    \* TRUE: a Redis command may throw
  Crashes        \* TRUE: a process may die, or be redeployed, at any time

ASSUME BusFits ==
  /\ GroupOf \in [Consumers -> Groups]
  /\ MaxAttempts \in [Groups -> Nat \ {0}]
  /\ Batch \in Nat \ {0}
  /\ MaxEvents \in Nat
  /\ Bare \subseteq Nat
  /\ {HandlerFails, RedisFails, Crashes} \subseteq BOOLEAN

Positions == 1..MaxEvents

VARIABLES
  published,  \* length of the stream events:<type>
  last,       \* [Groups -> 0..MaxEvents], last position handed out
  pending,    \* [Groups -> SUBSET Positions], handed out, not acknowledged
  loop,       \* [Consumers -> Loops], where each consumer loop stands
  handled,    \* [Groups -> [Positions -> Nat]], handler calls that returned
  dead,       \* [Groups -> SUBSET Positions], events:dead-letter:<type>
  cut,        \* [Groups -> Nat], history: batches an error or a death cut short
  thrown      \* [Groups -> Nat], history: failed messages left for a retry

books == <<published, last, pending, handled, dead>>
losses == <<cut, thrown>>
busVars == <<books, loop, losses>>

\* "off": not started, or stopped.  Otherwise the loop polls, or works on the
\* positions next..end of its batch.
Steps == {"off", "poll", "handle", "ack", "count", "bury", "ackBuried"}
Loops == [at : Steps, next : Nat, end : Nat]

Off == [at |-> "off", next |-> 1, end |-> 0]
Polling == [at |-> "poll", next |-> 1, end |-> 0]

BusInit ==
  /\ published = 0
  /\ last = [g \in Groups |-> 0]
  /\ pending = [g \in Groups |-> {}]
  /\ loop = [c \in Consumers |-> Off]
  /\ handled = [g \in Groups |-> [p \in Positions |-> 0]]
  /\ dead = [g \in Groups |-> {}]
  /\ cut = [g \in Groups |-> 0]
  /\ thrown = [g \in Groups |-> 0]

-----------------------------------------------------------------------------
MoveTo(c, step) == loop' = [loop EXCEPT ![c].at = step]

\* Faulty variant: the last message of a batch is forgotten.
AdvanceShort(c) ==
  loop' = [loop EXCEPT ![c] =
    IF loop[c].next + 1 < loop[c].end
    THEN [at |-> "handle", next |-> loop[c].next + 1, end |-> loop[c].end]
    ELSE Polling]

\* The next message of the batch, or back to the poll.
Advance(c) ==
  loop' = [loop EXCEPT ![c] =
    IF loop[c].next < loop[c].end
    THEN [at |-> "handle", next |-> loop[c].next + 1, end |-> loop[c].end]
    ELSE Polling]

CountCut(c) ==
  /\ cut' = [cut EXCEPT ![GroupOf[c]] = @ + 1]
  /\ UNCHANGED thrown

\* An error that leaves processMessage ends the batch in the loop's catch.
DropBatch(c) ==
  /\ RedisFails
  /\ loop' = [loop EXCEPT ![c] = Polling]
  /\ CountCut(c)

Acknowledge(c) ==
  pending' = [pending EXCEPT ![GroupOf[c]] = @ \ {loop[c].next}]

-----------------------------------------------------------------------------
Publish ==
  /\ published < MaxEvents
  /\ published' = published + 1
  /\ UNCHANGED <<last, pending, loop, handled, dead, losses>>

\* start(): XGROUP CREATE ... 0 MKSTREAM, which an existing group survives, then
\* the loop.  If it throws the process does not come up.
Start(c) ==
  /\ loop[c].at = "off"
  /\ loop' = [loop EXCEPT ![c] = Polling]
  /\ UNCHANGED <<books, losses>>

\* The module is destroyed: the loop ends before its next read.  A process that dies
\* while it waits for messages leaves as much behind.
Stop(c) ==
  /\ Crashes
  /\ loop[c].at = "poll"
  /\ loop' = [loop EXCEPT ![c] = Off]
  /\ UNCHANGED <<books, losses>>

\* The process dies in the middle of a batch.  The next one has another consumer name.
Crash(c) ==
  /\ Crashes
  /\ loop[c].at \notin {"off", "poll"}
  /\ loop' = [loop EXCEPT ![c] = Off]
  /\ CountCut(c)
  /\ UNCHANGED books

\* XREADGROUP ... '>': the first position never handed out in the group.
FirstNew(g) == last[g] + 1

\* Up to COUNT positions, into the pending entries of the group.
BatchEnd(g) ==
  IF published <= last[g] + Batch THEN published ELSE last[g] + Batch

HandOut(g) ==
  /\ last[g] < published
  /\ last' = [last EXCEPT ![g] = BatchEnd(g)]
  /\ pending' = [pending EXCEPT ![g] = @ \cup (FirstNew(g)..BatchEnd(g))]

ReadNew(c) ==
  /\ loop[c].at = "poll"
  /\ HandOut(GroupOf[c])
  /\ loop' = [loop EXCEPT ![c] = [at |-> "handle", next |-> FirstNew(GroupOf[c]),
                                  end |-> BatchEnd(GroupOf[c])]]
  /\ UNCHANGED <<published, handled, dead, losses>>

\* The reply of the read is lost with the connection.
ReadNewLost(c) ==
  /\ RedisFails
  /\ loop[c].at = "poll"
  /\ HandOut(GroupOf[c])
  /\ CountCut(c)
  /\ UNCHANGED <<published, loop, handled, dead>>

\* An entry without a payload is acknowledged unheard.
Discard(c) ==
  /\ loop[c].at = "handle"
  /\ loop[c].next \in Bare
  /\ \/ Acknowledge(c) /\ Advance(c) /\ UNCHANGED losses
     \/ DropBatch(c) /\ UNCHANGED pending
  /\ UNCHANGED <<published, last, handled, dead>>

\* Faulty variant: the message is acknowledged before the handler runs.
HandleAcknowledged(c) ==
  /\ loop[c].at = "handle"
  /\ loop[c].next \notin Bare
  /\ Acknowledge(c)
  /\ \/ /\ handled' = [handled EXCEPT ![GroupOf[c]][loop[c].next] = @ + 1]
        /\ MoveTo(c, "ack")
     \/ /\ HandlerFails
        /\ MoveTo(c, "count")
        /\ UNCHANGED handled
  /\ UNCHANGED <<published, last, dead, losses>>

\* The handler returns, or throws.
Handle(c) ==
  /\ loop[c].at = "handle"
  /\ loop[c].next \notin Bare
  /\ \/ /\ handled' = [handled EXCEPT ![GroupOf[c]][loop[c].next] = @ + 1]
        /\ MoveTo(c, "ack")
     \/ /\ HandlerFails
        /\ MoveTo(c, "count")
        /\ UNCHANGED handled
  /\ UNCHANGED <<published, last, pending, dead, losses>>

\* The XACK stands in the try block of the handler: when it throws the message
\* is treated as if the handler had.
Ack(c) ==
  /\ loop[c].at = "ack"
  /\ \/ Acknowledge(c) /\ Advance(c)
     \/ RedisFails /\ MoveTo(c, "count") /\ UNCHANGED pending
  /\ UNCHANGED <<published, last, handled, dead, losses>>

\* XPENDING: the delivery counter of an entry only grows when it is read again
\* by its id or claimed, and no code does either.
DeliveryCount == 1

\* Below the limit the message is left pending, for a poll that asks for new ones only.
Count(c) ==
  /\ loop[c].at = "count"
  /\ \/ DeliveryCount >= MaxAttempts[GroupOf[c]] /\ MoveTo(c, "bury") /\ UNCHANGED losses
     \/ /\ DeliveryCount < MaxAttempts[GroupOf[c]]
        /\ Advance(c)
        /\ thrown' = [thrown EXCEPT ![GroupOf[c]] = @ + 1]
        /\ UNCHANGED cut
     \/ DropBatch(c)
  /\ UNCHANGED books

Bury(c) ==
  /\ loop[c].at = "bury"
  /\ \/ /\ dead' = [dead EXCEPT ![GroupOf[c]] = @ \cup {loop[c].next}]
        /\ MoveTo(c, "ackBuried")
        /\ UNCHANGED losses
     \/ DropBatch(c) /\ UNCHANGED dead
  /\ UNCHANGED <<published, last, pending, handled>>

AckBuried(c) ==
  /\ loop[c].at = "ackBuried"
  /\ \/ Acknowledge(c) /\ Advance(c) /\ UNCHANGED losses
     \/ DropBatch(c) /\ UNCHANGED pending
  /\ UNCHANGED <<published, last, handled, dead>>

LoopStep(c) ==
  \/ ReadNew(c) \/ Discard(c) \/ Handle(c) \/ Ack(c) \/ Count(c) \/ Bury(c) \/ AckBuried(c)

BusNext ==
  \/ Publish
  \/ \E c \in Consumers : Start(c) \/ Stop(c) \/ Crash(c) \/ ReadNewLost(c) \/ LoopStep(c)

BusSpec == BusInit /\ [][BusNext]_busVars

-----------------------------------------------------------------------------
BusTypeOK ==
  /\ published \in 0..MaxEvents
  /\ last \in [Groups -> 0..MaxEvents]
  /\ pending \in [Groups -> SUBSET Positions]
  /\ loop \in [Consumers -> Loops]
  /\ handled \in [Groups -> [Positions -> Nat]]
  /\ dead \in [Groups -> SUBSET Positions]
  /\ cut \in [Groups -> Nat]
  /\ thrown \in [Groups -> Nat]

\* No message is acknowledged unheard: what a group handed out and no longer
\* has pending was handled, or is in the dead-letter stream, whichever command
\* failed and whichever process died on the way; or had nothing to hear.
AcknowledgedWasHeard ==
  \A g \in Groups : \A p \in 1..last[g] :
    p \notin pending[g] => handled[g][p] > 0 \/ p \in dead[g] \/ p \in Bare

\* Consumer c holds position p of its batch, not yet finished.
Holds(c, p) ==
  loop[c].at \notin {"off", "poll"} /\ loop[c].next <= p /\ p <= loop[c].end

\* What group g handed out, never heard, and nobody holds any more.
Forgotten(g) ==
  {p \in pending[g] : /\ handled[g][p] = 0 /\ p \notin dead[g]
                      /\ \A c \in Consumers : GroupOf[c] = g => ~Holds(c, p)}

\* The promised redelivery does not happen (README), but nothing is forgotten without a
\* cause: at most one batch for each that an error or a death cut short, and one
\* message for each that failed below its limit.
ForgottenHasACause ==
  \A g \in Groups : Cardinality(Forgotten(g)) <= cut[g] * Batch + thrown[g]
=============================================================================
