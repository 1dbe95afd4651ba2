--------------------------- MODULE PackagesProofs ---------------------------
(***************************************************************************)
(* The two shared packages that keep a protocol in Redis.  They have no    *)
(* state in common; what is proved of each holds for any number of         *)
(* processes and every failure its module has.                             *)
(*   EventBus        what a consumer group acknowledges was handled or     *)
(*                   buried, and what it never hears has a cause           *)
(*   IdempotencyKey  every further run has a cause, and answers are real   *)
(***************************************************************************)
EXTENDS EventBus, IdempotencyKey, FiniteSetTheorems, TLAPS

-----------------------------------------------------------------------------
(* EventBus                                                                *)

Busy(c) == loop[c].at \notin {"off", "poll"}

\* A batch lies inside what the group handed out, inside the stream, and is no longer
\* than a read asks for.
BatchFits ==
  /\ \A g \in Groups : last[g] <= published
  /\ \A c \in Consumers : Busy(c) =>
       /\ 1 <= loop[c].next /\ loop[c].next <= loop[c].end /\ loop[c].end <= last[GroupOf[c]]
       /\ loop[c].end - loop[c].next < Batch

\* What a consumer is about to acknowledge.
ReadyToAck ==
  \A c \in Consumers :
    /\ loop[c].at = "ack" => handled[GroupOf[c]][loop[c].next] > 0
    /\ loop[c].at = "ackBuried" => loop[c].next \in dead[GroupOf[c]]

BusInv ==
  /\ BusTypeOK
  /\ BatchFits
  /\ ReadyToAck
  /\ AcknowledgedWasHeard

\* The three ways a consumer's loop goes on, and what each leaves in its hands.
LEMMA GotoLoop ==
  ASSUME BusTypeOK, NEW c \in Consumers, NEW step \in Steps, MoveTo(c, step)
  PROVE  /\ loop' \in [Consumers -> Loops]
         /\ \A d \in Consumers \ {c} : loop'[d] = loop[d]
         /\ loop'[c].at = step /\ loop'[c].next = loop[c].next /\ loop'[c].end = loop[c].end
BY DEF MoveTo, BusTypeOK, Loops

LEMMA AdvanceLoop ==
  ASSUME BusTypeOK, NEW c \in Consumers, Advance(c)
  PROVE  /\ loop' \in [Consumers -> Loops]
         /\ \A d \in Consumers \ {c} : loop'[d] = loop[d]
         /\ \/ loop'[c].at = "poll" /\ ~(loop[c].next < loop[c].end)
            \/ /\ loop'[c].at = "handle" /\ loop[c].next < loop[c].end
               /\ loop'[c].next = loop[c].next + 1 /\ loop'[c].end = loop[c].end
BY DEF Advance, BusTypeOK, Loops, Steps, Polling

LEMMA OffLoop ==
  ASSUME BusTypeOK, NEW c \in Consumers, NEW x \in {Off, Polling}, loop' = [loop EXCEPT ![c] = x]
  PROVE  /\ loop' \in [Consumers -> Loops]
         /\ \A d \in Consumers \ {c} : loop'[d] = loop[d]
         /\ loop'[c].at \in {"off", "poll"}
BY DEF BusTypeOK, Loops, Steps, Polling, Off

\* What a busy consumer holds is a position its group handed out.
LEMMA InHand ==
  ASSUME BusInv, NEW c \in Consumers, Busy(c)
  PROVE  /\ GroupOf[c] \in Groups /\ last[GroupOf[c]] \in 0..MaxEvents
         /\ loop[c].next \in Positions /\ loop[c].next <= last[GroupOf[c]]
         /\ loop[c].end \in Positions /\ loop[c].next <= loop[c].end
         /\ loop[c].end - loop[c].next < Batch
<1>1. loop[c] \in Loops /\ GroupOf[c] \in Groups /\ last[GroupOf[c]] \in 0..MaxEvents
  BY BusFits DEF BusInv, BusTypeOK
<1>2. /\ 1 <= loop[c].next /\ loop[c].next <= loop[c].end /\ loop[c].end <= last[GroupOf[c]]
      /\ loop[c].end - loop[c].next < Batch
  BY DEF BusInv, BatchFits
<1> QED
  BY <1>1, <1>2, BusFits DEF Loops, Positions

\* The batch handed out lies just after what was handed out before.
LEMMA Batches ==
  ASSUME BusInv, NEW g \in Groups, HandOut(g)
  PROVE  /\ FirstNew(g) = last[g] + 1
         /\ BatchEnd(g) \in Positions
         /\ last[g] < BatchEnd(g) /\ BatchEnd(g) <= published
         /\ BatchEnd(g) - FirstNew(g) < Batch
         /\ last'[g] = BatchEnd(g)
         /\ pending'[g] = pending[g] \cup (FirstNew(g)..BatchEnd(g))
         /\ \A h \in Groups \ {g} : last'[h] = last[h] /\ pending'[h] = pending[h]
         /\ last' \in [Groups -> 0..MaxEvents] /\ pending' \in [Groups -> SUBSET Positions]
<1>1. last[g] \in 0..MaxEvents /\ published \in 0..MaxEvents /\ last[g] < published
  BY DEF BusInv, BusTypeOK, HandOut
<1>2. /\ BatchEnd(g) \in Positions
      /\ last[g] < BatchEnd(g) /\ BatchEnd(g) <= published
      /\ BatchEnd(g) - FirstNew(g) < Batch
  BY <1>1, BusFits DEF BatchEnd, FirstNew, Positions
<1>3. FirstNew(g)..BatchEnd(g) \subseteq Positions
  BY <1>1, <1>2, BusFits DEF FirstNew, Positions
<1> QED
  BY <1>2, <1>3, BusFits DEF HandOut, FirstNew, BusInv, BusTypeOK, Positions

ConsumerStep(c) ==
  Start(c) \/ Stop(c) \/ Crash(c) \/ ReadNewLost(c) \/ LoopStep(c)

\* How one step moves the loops.
LEMMA LoopMoves ==
  ASSUME BusInv, NEW c \in Consumers, ConsumerStep(c)
  PROVE  /\ loop' \in [Consumers -> Loops]
         /\ \A d \in Consumers \ {c} : loop'[d] = loop[d]
         /\ \/ ~Busy(c)'
            \/ /\ Busy(c) /\ loop'[c].at \in {"ack", "count", "bury", "ackBuried"}
               /\ loop'[c].next = loop[c].next /\ loop'[c].end = loop[c].end
            \/ /\ Busy(c) /\ loop'[c].at = "handle" /\ loop[c].next < loop[c].end
               /\ loop'[c].next = loop[c].next + 1 /\ loop'[c].end = loop[c].end
            \/ /\ ReadNew(c) /\ loop'[c].at = "handle"
               /\ loop'[c].next = FirstNew(GroupOf[c]) /\ loop'[c].end = BatchEnd(GroupOf[c])
<1>1. BusTypeOK
  BY DEF BusInv
<1>2. CASE loop' = [loop EXCEPT ![c] = Off] \/ loop' = [loop EXCEPT ![c] = Polling]
  BY <1>1, <1>2, OffLoop DEF Busy
<1>3. ASSUME Busy(c), NEW step \in {"ack", "count", "bury", "ackBuried"}, MoveTo(c, step)
      PROVE  /\ loop' \in [Consumers -> Loops]
             /\ \A d \in Consumers \ {c} : loop'[d] = loop[d]
             /\ loop'[c].at = step /\ loop'[c].next = loop[c].next
             /\ loop'[c].end = loop[c].end
  BY <1>1, <1>3, GotoLoop DEF Steps
<1>4. CASE Busy(c) /\ Advance(c)
  <2>1. /\ loop' \in [Consumers -> Loops]
        /\ \A d \in Consumers \ {c} : loop'[d] = loop[d]
        /\ \/ loop'[c].at = "poll"
           \/ /\ loop'[c].at = "handle" /\ loop[c].next < loop[c].end
              /\ loop'[c].next = loop[c].next + 1 /\ loop'[c].end = loop[c].end
    BY <1>1, <1>4, AdvanceLoop
  <2> QED
    BY <1>4, <2>1 DEF Busy
<1>5. CASE ReadNew(c)
  <2>1. FirstNew(GroupOf[c]) \in Nat /\ BatchEnd(GroupOf[c]) \in Nat
    <3>1. GroupOf[c] \in Groups /\ HandOut(GroupOf[c]) /\ last[GroupOf[c]] \in Nat
      <4>1. HandOut(GroupOf[c])
        BY <1>5 DEF ReadNew
      <4> QED
        BY <1>1, <4>1, BusFits DEF BusTypeOK
    <3> QED
      BY <3>1, Batches DEF Positions
  <2>2. [at |-> "handle", next |-> FirstNew(GroupOf[c]), end |-> BatchEnd(GroupOf[c])] \in Loops
    BY <2>1 DEF Loops, Steps
  <2> QED
    BY <1>1, <1>5, <2>2 DEF ReadNew, BusTypeOK
<1>6. CASE ReadNewLost(c)
  BY <1>1, <1>6 DEF ReadNewLost, Busy, BusTypeOK
<1>7. CASE Start(c) \/ Stop(c) \/ Crash(c)
  BY <1>2, <1>7 DEF Start, Stop, Crash
<1>8. CASE Discard(c) \/ Handle(c)
  BY <1>2, <1>3, <1>4, <1>8 DEF Discard, Handle, DropBatch, Busy
<1>9. CASE Ack(c) \/ Count(c)
  BY <1>2, <1>3, <1>4, <1>9 DEF Ack, Count, DropBatch, Busy
<1>10. CASE Bury(c) \/ AckBuried(c)
  BY <1>2, <1>3, <1>4, <1>10 DEF Bury, AckBuried, DropBatch, Busy
<1> QED
  BY <1>5, <1>6, <1>7, <1>8, <1>9, <1>10 DEF ConsumerStep, LoopStep

\* What one step writes to the books of the groups.
LEMMA Writes ==
  ASSUME BusInv, NEW c \in Consumers, ConsumerStep(c)
  PROVE  /\ published' = published
         /\ last' \in [Groups -> 0..MaxEvents] /\ pending' \in [Groups -> SUBSET Positions]
         /\ handled' \in [Groups -> [Positions -> Nat]] /\ dead' \in [Groups -> SUBSET Positions]
         /\ \A h \in Groups, p \in Positions : handled'[h][p] >= handled[h][p]
         /\ \A h \in Groups : dead[h] \subseteq dead'[h]
         /\ HandOut(GroupOf[c]) \/ last' = last
         /\ HandOut(GroupOf[c]) \/ Acknowledge(c) \/ pending' = pending
<1>1. BusTypeOK /\ GroupOf[c] \in Groups
  BY BusFits DEF BusInv
<1>2. CASE HandOut(GroupOf[c])
  <2>1. published' = published /\ handled' = handled /\ dead' = dead
    BY <1>2, BusFits DEF ConsumerStep, LoopStep, Start, Stop, Crash, ReadNew, ReadNewLost, Discard,
       Handle, Ack, Count, Bury, AckBuried, books, HandOut, BusInv, BusTypeOK, BatchEnd
  <2> QED
    BY <1>1, <1>2, <2>1, Batches DEF BusTypeOK
<1>3. CASE Handle(c)
  <2>1. /\ published' = published /\ last' = last /\ pending' = pending /\ dead' = dead
        /\ loop[c].next \in Positions
    BY <1>3, InHand DEF Handle, Busy
  <2>2. CASE handled' = handled
    BY <1>1, <2>1, <2>2 DEF BusTypeOK
  <2>3. CASE handled' = [handled EXCEPT ![GroupOf[c]][loop[c].next] = @ + 1]
    <3> DEFINE g == GroupOf[c]
               n == loop[c].next
    <3>1. handled' = [handled EXCEPT ![g] = [handled[g] EXCEPT ![n] = handled[g][n] + 1]]
      BY <2>3, Zenon
    <3>2. /\ handled' \in [Groups -> [Positions -> Nat]]
          /\ \A h \in Groups, p \in Positions : handled'[h][p] >= handled[h][p]
      BY <1>1, <2>1, <3>1 DEF BusTypeOK
    <3> QED
      BY <1>1, <2>1, <3>2 DEF BusTypeOK
  <2> QED
    BY <1>3, <2>2, <2>3 DEF Handle
<1>4. CASE Bury(c)
  <2>1. loop[c].next \in Positions
    BY <1>4, InHand DEF Bury, Busy
  <2> QED
    BY <1>1, <1>4, <2>1 DEF Bury, BusTypeOK
<1>5. CASE Discard(c) \/ Ack(c) \/ AckBuried(c)
  BY <1>1, <1>5 DEF Discard, Ack, AckBuried, Acknowledge, BusTypeOK
<1>6. CASE Start(c) \/ Stop(c) \/ Crash(c) \/ Count(c)
  BY <1>1, <1>6 DEF Start, Stop, Crash, Count, books, BusTypeOK
<1> QED
  BY <1>2, <1>3, <1>4, <1>5, <1>6 DEF ConsumerStep, LoopStep, ReadNew, ReadNewLost

\* What one step counts.
LEMMA Counts ==
  ASSUME BusTypeOK, NEW c \in Consumers, ConsumerStep(c)
  PROVE  /\ cut' \in [Groups -> Nat] /\ thrown' \in [Groups -> Nat]
         /\ \A h \in Groups \ {GroupOf[c]} : cut'[h] = cut[h] /\ thrown'[h] = thrown[h]
         /\ \/ UNCHANGED losses
            \/ CountCut(c) /\ cut'[GroupOf[c]] = cut[GroupOf[c]] + 1
                 /\ thrown'[GroupOf[c]] = thrown[GroupOf[c]]
            \/ /\ Count(c) /\ Advance(c) /\ cut'[GroupOf[c]] = cut[GroupOf[c]]
               /\ thrown'[GroupOf[c]] = thrown[GroupOf[c]] + 1
<1>1. GroupOf[c] \in Groups /\ cut \in [Groups -> Nat] /\ thrown \in [Groups -> Nat]
  BY BusFits DEF BusTypeOK
<1>2. CASE UNCHANGED losses
  BY <1>1, <1>2 DEF losses
<1>3. CASE CountCut(c)
  BY <1>1, <1>3 DEF CountCut
<1>4. CASE /\ Count(c) /\ Advance(c)
           /\ thrown' = [thrown EXCEPT ![GroupOf[c]] = @ + 1] /\ cut' = cut
  BY <1>1, <1>4
<1> QED
  BY <1>2, <1>3, <1>4 DEF ConsumerStep, LoopStep, Start, Stop, Crash, ReadNew, ReadNewLost, Discard,
     Handle, Ack, Count, Bury, AckBuried, DropBatch, books

LEMMA InitBus == BusInit => BusInv
BY BusFits DEF BusInit, BusInv, BusTypeOK, BatchFits, ReadyToAck, Busy, Off,
   AcknowledgedWasHeard, Loops, Steps, Positions

LEMMA BatchStep ==
  ASSUME BusInv, NEW c \in Consumers, ConsumerStep(c)
  PROVE  BatchFits'
<1>1. BusTypeOK /\ GroupOf[c] \in Groups
  BY BusFits DEF BusInv
<1>2. \A h \in Groups : last[h] \in Nat /\ last'[h] \in Nat /\ last[h] <= last'[h] /\ last'[h] <= published'
  <2>1. CASE HandOut(GroupOf[c])
    <3>1. /\ last'[GroupOf[c]] \in Nat /\ last[GroupOf[c]] < last'[GroupOf[c]]
          /\ last'[GroupOf[c]] <= published
          /\ \A h \in Groups \ {GroupOf[c]} : last'[h] = last[h]
      BY <1>1, <2>1, Batches DEF Positions
    <3> QED
      <4>1. /\ last \in [Groups -> 0..MaxEvents] /\ published' = published
            /\ \A h \in Groups : last[h] <= published
        BY <1>1, Writes DEF BusInv, BatchFits, BusTypeOK
      <4>2. published \in Nat /\ \A h \in Groups : last[h] \in Nat
        BY <1>1, <4>1 DEF BusTypeOK
      <4> QED
        BY <1>1, <3>1, <4>1, <4>2
  <2>2. CASE last' = last
    BY <1>1, <2>2, Writes DEF BusInv, BatchFits, BusTypeOK
  <2> QED
    BY <2>1, <2>2, Writes
<1>3. ASSUME NEW d \in Consumers, Busy(d)'
      PROVE  /\ 1 <= loop'[d].next /\ loop'[d].next <= loop'[d].end
             /\ loop'[d].end <= last'[GroupOf[d]] /\ loop'[d].end - loop'[d].next < Batch
  <2>1. GroupOf[d] \in Groups /\ loop[d] \in Loops
    BY <1>1, BusFits DEF BusTypeOK
  <2>2. CASE Busy(d) /\ loop'[d].next \in {loop[d].next, loop[d].next + 1}
               /\ loop'[d].end = loop[d].end /\ loop'[d].next <= loop'[d].end
    <3>1. /\ last[GroupOf[d]] \in Nat /\ loop[d].next \in Nat /\ loop[d].end \in Nat
          /\ 1 <= loop[d].next /\ loop[d].end <= last[GroupOf[d]]
          /\ loop[d].end - loop[d].next < Batch
      BY <1>2, <2>1, <2>2 DEF BusInv, BatchFits, Loops
    <3>2. last'[GroupOf[d]] \in Nat /\ last[GroupOf[d]] <= last'[GroupOf[d]] /\ Batch \in Nat
      BY <1>2, <2>1, BusFits
    <3> QED
      BY <2>2, <3>1, <3>2
  <2>3. CASE d # c
    BY <1>3, <2>1, <2>2, <2>3, LoopMoves, InHand DEF Busy
  <2>4. CASE d = c /\ ReadNew(c) /\ loop'[c].next = FirstNew(GroupOf[c])
               /\ loop'[c].end = BatchEnd(GroupOf[c])
    BY <1>1, <1>2, <2>4, Batches DEF ReadNew, Positions
  <2>5. CASE d = c /\ Busy(c) /\ loop'[c].next = loop[c].next /\ loop'[c].end = loop[c].end
    BY <2>2, <2>5, InHand
  <2>6. CASE d = c /\ Busy(c) /\ loop[c].next < loop[c].end
               /\ loop'[c].next = loop[c].next + 1 /\ loop'[c].end = loop[c].end
    <3>1. loop'[c].next <= loop'[c].end
      BY <2>1, <2>6 DEF Loops
    <3> QED
      BY <2>2, <2>6, <3>1
  <2> QED
    BY <1>3, <2>3, <2>4, <2>5, <2>6, LoopMoves
<1> QED
  BY <1>2, <1>3 DEF BatchFits

LEMMA ReadyStep ==
  ASSUME BusInv, NEW c \in Consumers, ConsumerStep(c)
  PROVE  ReadyToAck'
<1>1. ASSUME NEW d \in Consumers, d # c, Busy(d)
      PROVE  /\ loop'[d].at = "ack" => handled'[GroupOf[d]][loop'[d].next] > 0
             /\ loop'[d].at = "ackBuried" => loop'[d].next \in dead'[GroupOf[d]]
  <2>1. loop'[d] = loop[d] /\ GroupOf[d] \in Groups /\ loop[d].next \in Positions
    BY <1>1, LoopMoves, InHand
  <2>2. /\ handled'[GroupOf[d]][loop[d].next] >= handled[GroupOf[d]][loop[d].next]
        /\ handled[GroupOf[d]][loop[d].next] \in Nat
        /\ handled'[GroupOf[d]][loop[d].next] \in Nat
        /\ dead[GroupOf[d]] \subseteq dead'[GroupOf[d]]
    BY <2>1, Writes DEF BusInv, BusTypeOK
  <2> QED
    BY <2>1, <2>2 DEF BusInv, ReadyToAck
<1>2. /\ loop'[c].at = "ack" => handled'[GroupOf[c]][loop'[c].next] > 0
      /\ loop'[c].at = "ackBuried" => loop'[c].next \in dead'[GroupOf[c]]
  <2>1. BusTypeOK
    BY DEF BusInv
  <2>2. CASE Handle(c) /\ loop'[c].at = "ack"
    <3>1. /\ loop[c].next \in Positions /\ GroupOf[c] \in Groups
          /\ loop'[c].next = loop[c].next
      BY <2>2, InHand, LoopMoves DEF Handle, Busy
    <3>2. handled' = [handled EXCEPT ![GroupOf[c]][loop[c].next] = @ + 1]
      BY <2>1, <2>2, GotoLoop DEF Handle, Steps
    <3> DEFINE g == GroupOf[c]
               n == loop[c].next
    <3>3. handled' = [handled EXCEPT ![g] = [handled[g] EXCEPT ![n] = handled[g][n] + 1]]
      BY <3>2, Zenon
    <3>4. handled'[g][n] = handled[g][n] + 1 /\ handled[g][n] \in Nat
      BY <2>1, <3>1, <3>3 DEF BusTypeOK
    <3> QED
      BY <2>2, <3>1, <3>4
  <2>3. CASE Bury(c) /\ loop'[c].at = "ackBuried"
    <3>1. /\ loop[c].next \in Positions /\ GroupOf[c] \in Groups
          /\ loop'[c].next = loop[c].next
      BY <2>3, InHand, LoopMoves DEF Bury, Busy
    <3>2. dead' = [dead EXCEPT ![GroupOf[c]] = @ \cup {loop[c].next}]
      BY <2>1, <2>3, OffLoop DEF Bury, DropBatch
    <3> QED
      BY <2>1, <2>3, <3>1, <3>2 DEF BusTypeOK
  <2>4. CASE ~Handle(c) /\ ~Bury(c)
    <3>1. loop'[c].at \notin {"ack", "ackBuried"}
      <4>1. CASE Start(c) \/ Stop(c) \/ Crash(c)
        BY <2>1, <4>1, OffLoop DEF Start, Stop, Crash
      <4>2. CASE ReadNew(c) \/ ReadNewLost(c)
        BY <2>1, <4>2 DEF ReadNew, ReadNewLost, BusTypeOK
      <4>3. CASE Discard(c) \/ AckBuried(c)
        BY <2>1, <4>3, OffLoop, AdvanceLoop DEF Discard, AckBuried, DropBatch
      <4>4. CASE Ack(c) \/ Count(c)
        BY <2>1, <4>4, OffLoop, AdvanceLoop, GotoLoop DEF Ack, Count, DropBatch, Steps
      <4> QED
        BY <2>4, <4>1, <4>2, <4>3, <4>4 DEF ConsumerStep, LoopStep
    <3> QED
      BY <3>1
  <2>5. /\ Handle(c) => loop'[c].at # "ackBuried"
        /\ Bury(c) => loop'[c].at # "ack"
    BY <2>1, GotoLoop, OffLoop DEF Handle, Bury, DropBatch, Steps
  <2> QED
    BY <2>2, <2>3, <2>4, <2>5
<1>3. \A d \in Consumers \ {c} : ~Busy(d) => loop'[d].at \notin {"ack", "ackBuried"}
  BY LoopMoves DEF Busy
<1> QED
  BY <1>1, <1>2, <1>3 DEF ReadyToAck

LEMMA HeardStep ==
  ASSUME BusInv, NEW c \in Consumers, ConsumerStep(c)
  PROVE  AcknowledgedWasHeard'
<1> SUFFICES ASSUME NEW h \in Groups, NEW p \in 1..last'[h], p \notin pending'[h]
             PROVE  handled'[h][p] > 0 \/ p \in dead'[h] \/ p \in Bare
  BY DEF AcknowledgedWasHeard
<1>1. /\ BusTypeOK /\ GroupOf[c] \in Groups /\ last'[h] \in 0..MaxEvents /\ last[h] \in 0..MaxEvents
      /\ p \in Positions
  <2>1. /\ BusTypeOK /\ GroupOf[c] \in Groups /\ last[h] \in 0..MaxEvents
        /\ last' \in [Groups -> 0..MaxEvents] /\ MaxEvents \in Nat
    BY Writes, BusFits DEF BusInv, BusTypeOK
  <2> QED
    BY <2>1 DEF Positions
<1>2. /\ handled'[h][p] >= handled[h][p] /\ handled[h][p] \in Nat /\ handled'[h][p] \in Nat
      /\ dead[h] \subseteq dead'[h]
  BY <1>1, Writes DEF BusTypeOK
<1>3. CASE p \in 1..last[h] /\ p \notin pending[h]
  BY <1>2, <1>3 DEF BusInv, AcknowledgedWasHeard
<1>4. CASE HandOut(GroupOf[c])
  <2>1. CASE h # GroupOf[c]
    BY <1>1, <1>3, <1>4, <2>1, Batches
  <2>2. CASE h = GroupOf[c]
    <3>1. /\ p \notin pending[h] /\ p \notin last[h] + 1 .. last'[h]
      BY <1>1, <1>4, <2>2, Batches
    <3>2. p \in 1..last[h]
      BY <1>1, <3>1
    <3> QED
      BY <1>3, <3>1, <3>2
  <2> QED
    BY <2>1, <2>2
<1>5. CASE Acknowledge(c) /\ ~HandOut(GroupOf[c])
  <2>1. last' = last
    BY <1>5, Writes
  <2>2. CASE h # GroupOf[c] \/ p # loop[c].next
    <3>1. p \notin pending[h]
      BY <1>1, <1>5, <2>2 DEF Acknowledge, BusTypeOK
    <3> QED
      BY <1>3, <2>1, <3>1
  <2>3. CASE h = GroupOf[c] /\ p = loop[c].next
    <3>1. CASE Discard(c) \/ Ack(c) \/ AckBuried(c)
      BY <1>2, <2>3, <3>1 DEF Discard, Ack, AckBuried, BusInv, ReadyToAck
    <3>2. CASE pending' = pending
      BY <1>3, <2>1, <3>2
    <3> QED
      BY <1>5, <3>1, <3>2 DEF ConsumerStep, LoopStep, Start, Stop, Crash, ReadNew, ReadNewLost,
         Handle, Count, Bury, books
  <2> QED
    BY <2>2, <2>3
<1>6. CASE pending' = pending /\ last' = last
  BY <1>3, <1>6
<1> QED
  BY <1>4, <1>5, <1>6, Writes

LEMMA BusStep == BusInv /\ [BusNext]_busVars => BusInv'
<1> SUFFICES ASSUME BusInv, [BusNext]_busVars PROVE BusInv'
  OBVIOUS
<1>1. CASE UNCHANGED busVars
  BY <1>1 DEF busVars, books, losses, BusInv, BusTypeOK, BatchFits, ReadyToAck, Busy,
     AcknowledgedWasHeard
<1>2. CASE Publish
  <2>1. BusTypeOK' /\ BatchFits'
    BY <1>2, BusFits DEF BusInv, BusTypeOK, BatchFits, Publish, losses, Busy
  <2> QED
    BY <1>2, <2>1 DEF BusInv, Publish, ReadyToAck, AcknowledgedWasHeard
<1>3. ASSUME NEW c \in Consumers, ConsumerStep(c) PROVE BusInv'
  <2>1. BusTypeOK'
    BY <1>3, LoopMoves, Writes, Counts DEF BusInv, BusTypeOK
  <2> QED
    BY <1>3, <2>1, BatchStep, ReadyStep, HeardStep DEF BusInv
<1> QED
  BY <1>1, <1>2, <1>3 DEF BusNext, ConsumerStep

LEMMA BusHolds == BusSpec => []BusInv
BY InitBus, BusStep, PTL DEF BusSpec

-----------------------------------------------------------------------------
(* What is forgotten.  A step forgets at most what its consumer held.      *)

LEMMA ForgottenFits == \A g \in Groups : BusTypeOK => Forgotten(g) \subseteq Positions
BY DEF Forgotten, BusTypeOK

LEMMA AtMostMore ==
  ASSUME NEW S, IsFiniteSet(S), NEW T, NEW U, IsFiniteSet(U), T \subseteq S \cup U,
         NEW k \in Nat, Cardinality(U) <= k
  PROVE  /\ Cardinality(T) \in Nat /\ Cardinality(S) \in Nat
         /\ Cardinality(T) <= Cardinality(S) + k
<1>1. /\ IsFiniteSet(S \cup U)
      /\ Cardinality(S \cup U) = Cardinality(S) + Cardinality(U) - Cardinality(S \cap U)
      /\ Cardinality(S) \in Nat /\ Cardinality(U) \in Nat
      /\ Cardinality(S \cap U) \in Nat
  BY FS_Union, FS_CardinalityType, FS_Intersection
<1>2. IsFiniteSet(T) /\ Cardinality(T) <= Cardinality(S \cup U)
  BY <1>1, FS_Subset
<1> QED
  BY <1>1, <1>2, FS_CardinalityType

\* A batch, or what is left of one, is at most what a read asks for.
LEMMA BatchSize ==
  ASSUME NEW a \in Nat, NEW b \in Nat, b - a < Batch
  PROVE  IsFiniteSet(a..b) /\ Cardinality(a..b) <= Batch
<1>1. a \in Int /\ b \in Int /\ Batch \in Nat \ {0}
  BY BusFits
<1>2. IsFiniteSet(a..b) /\ Cardinality(a..b) = IF a > b THEN 0 ELSE b - a + 1
  BY <1>1, FS_Interval
<1> QED
  BY <1>1, <1>2

LEMMA BatchMore == ASSUME NEW k \in Nat
                   PROVE  k * Batch \in Nat /\ (k + 1) * Batch = k * Batch + Batch
BY BusFits

\* What a step forgets: nothing, the message that failed, or a batch.
LEMMA Forgets ==
  ASSUME BusInv, NEW c \in Consumers, ConsumerStep(c)
  PROVE  /\ \A h \in Groups \ {GroupOf[c]} : Forgotten(h)' \subseteq Forgotten(h)
         /\ UNCHANGED losses => Forgotten(GroupOf[c])' \subseteq Forgotten(GroupOf[c])
         /\ Count(c) /\ Advance(c) =>
              Forgotten(GroupOf[c])' \subseteq Forgotten(GroupOf[c]) \cup {loop[c].next}
         /\ CountCut(c) => \E a, b \in Nat :
              /\ b - a < Batch
              /\ Forgotten(GroupOf[c])' \subseteq Forgotten(GroupOf[c]) \cup a..b
<1> DEFINE g == GroupOf[c]
<1>1. BusTypeOK /\ g \in Groups
  BY BusFits DEF BusInv
<1>2. ASSUME NEW h \in Groups, NEW p \in Forgotten(h)'
      PROVE  /\ p \in Positions /\ handled[h][p] = 0 /\ p \notin dead[h]
             /\ p \in pending'[h] /\ handled'[h][p] = 0 /\ p \notin dead'[h]
             /\ \A d \in Consumers : GroupOf[d] = h => ~Holds(d, p)'
  <2>1. /\ p \in Positions /\ p \in pending'[h] /\ handled'[h][p] = 0 /\ p \notin dead'[h]
        /\ \A d \in Consumers : GroupOf[d] = h => ~Holds(d, p)'
    BY Writes DEF Forgotten
  <2>2. handled'[h][p] >= handled[h][p] /\ handled[h][p] \in Nat
    BY <1>1, <2>1, Writes DEF BusTypeOK
  <2>3. p \notin dead[h]
    BY <2>1, Writes
  <2> QED
    BY <2>1, <2>2, <2>3
<1>3. \A d \in Consumers \ {c} : \A p : Holds(d, p)' <=> Holds(d, p)
  BY LoopMoves DEF Holds
<1>4. ASSUME NEW h \in Groups, NEW p \in Forgotten(h)', p \in pending[h],
             h = g => ~Holds(c, p)
      PROVE  p \in Forgotten(h)
  BY <1>2, <1>3, <1>4 DEF Forgotten
<1>5. ASSUME NEW h \in Groups \ {g} PROVE Forgotten(h)' \subseteq Forgotten(h)
  <2>1. pending'[h] \subseteq pending[h]
    BY <1>1, <1>5, Writes, Batches DEF Acknowledge, BusTypeOK
  <2> QED
    BY <1>2, <1>4, <1>5, <2>1
<1>6. ASSUME UNCHANGED losses PROVE Forgotten(g)' \subseteq Forgotten(g)
  <2> SUFFICES ASSUME NEW p \in Forgotten(g)' PROVE p \in Forgotten(g)
    OBVIOUS
  <2>1. ~Holds(c, p)' /\ p \in pending'[g] /\ p \in Positions
    BY <1>1, <1>2
  <2>2. CASE p \in pending[g] /\ ~Holds(c, p)
    BY <1>1, <1>4, <2>2
  <2>3. CASE ReadNew(c)
    <3>1. /\ loop'[c].at = "handle" /\ loop'[c].next = FirstNew(g) /\ loop'[c].end = BatchEnd(g)
      <4>1. FirstNew(g) \in Nat /\ BatchEnd(g) \in Nat
        BY <1>1, <2>3, Batches DEF ReadNew, Positions, BusTypeOK
      <4> QED
        BY <1>1, <2>3 DEF ReadNew, BusTypeOK
    <3>2. p \notin FirstNew(g)..BatchEnd(g)
      <4>1. FirstNew(g) \in Nat /\ BatchEnd(g) \in Nat
        BY <1>1, <2>3, Batches DEF ReadNew, Positions, BusTypeOK
      <4> QED
        BY <2>1, <3>1, <4>1 DEF Holds, Positions
    <3>3. p \in pending[g]
      BY <1>1, <2>1, <2>3, <3>2, Batches DEF ReadNew
    <3> QED
      BY <2>2, <2>3, <3>3 DEF ReadNew, Holds
  <2>4. CASE Start(c) \/ Stop(c)
    BY <2>1, <2>2, <2>4 DEF Start, Stop, books, Holds
  <2>5. CASE Busy(c) /\ pending' = pending /\ Busy(c)' /\ loop'[c].next = loop[c].next
               /\ loop'[c].end = loop[c].end
    BY <2>1, <2>2, <2>5 DEF Holds, Busy
  <2>6. CASE Busy(c) /\ Acknowledge(c) /\ Advance(c)
    <3>1. /\ p \in pending[g] /\ p # loop[c].next
      BY <1>1, <2>1, <2>6 DEF Acknowledge, BusTypeOK
    <3>2. loop[c] \in Loops
      BY <1>1 DEF BusTypeOK
    <3>3. ~Holds(c, p)
      BY <1>1, <2>1, <2>6, <3>1, <3>2, AdvanceLoop DEF Holds, Loops, Positions, Busy
    <3> QED
      BY <2>2, <3>1, <3>3
  <2>7. CASE Handle(c)
    <3>1. Busy(c) /\ Busy(c)' /\ loop'[c].next = loop[c].next /\ loop'[c].end = loop[c].end
      BY <1>1, <2>7, GotoLoop DEF Handle, Steps, Busy
    <3> QED
      BY <2>5, <2>7, <3>1 DEF Handle
  <2>8. CASE \/ Ack(c) /\ MoveTo(c, "count") /\ pending' = pending
             \/ Count(c) /\ MoveTo(c, "bury")
             \/ Bury(c) /\ MoveTo(c, "ackBuried")
    <3>1. Busy(c) /\ Busy(c)' /\ loop'[c].next = loop[c].next /\ loop'[c].end = loop[c].end
      BY <1>1, <2>8, GotoLoop DEF Ack, Count, Bury, Steps, Busy
    <3>2. pending' = pending
      BY <2>8 DEF Ack, Count, Bury, books
    <3> QED
      BY <2>5, <3>1, <3>2
  <2>9. CASE Acknowledge(c) /\ Advance(c) /\ (Discard(c) \/ Ack(c) \/ AckBuried(c))
    BY <2>6, <2>9 DEF Discard, Ack, AckBuried, Busy
  <2>10. ~CountCut(c) /\ thrown' = thrown
    BY <1>1, <1>6 DEF CountCut, losses, BusTypeOK
  <2>11. ~(thrown' = [thrown EXCEPT ![g] = @ + 1])
    BY <1>1, <2>10 DEF BusTypeOK
  <2> QED
    BY <2>3, <2>4, <2>7, <2>8, <2>9, <2>10, <2>11 DEF ConsumerStep, LoopStep, Crash, ReadNewLost,
       Discard, Ack, Count, Bury, AckBuried, DropBatch
<1>7. ASSUME Count(c), Advance(c)
      PROVE  Forgotten(g)' \subseteq Forgotten(g) \cup {loop[c].next}
  <2> SUFFICES ASSUME NEW p \in Forgotten(g)', p # loop[c].next PROVE p \in Forgotten(g)
    OBVIOUS
  <2>1. ~Holds(c, p)' /\ p \in pending'[g] /\ p \in Positions
    BY <1>1, <1>2
  <2>2. p \in pending[g]
    BY <1>7, <2>1 DEF Count, books
  <2>3. loop[c] \in Loops
    BY <1>1 DEF BusTypeOK
  <2>4. ~Holds(c, p)
    BY <1>1, <1>7, <2>1, <2>3, AdvanceLoop DEF Holds, Loops, Positions
  <2> QED
    BY <1>1, <1>4, <2>2, <2>4
<1>8. ASSUME CountCut(c)
      PROVE  \E a, b \in Nat : b - a < Batch /\ Forgotten(g)' \subseteq Forgotten(g) \cup a..b
  <2>1. CASE HandOut(g) /\ loop' = loop /\ ~Busy(c)
    <3>1. /\ FirstNew(g) \in Nat /\ BatchEnd(g) \in Nat /\ BatchEnd(g) - FirstNew(g) < Batch
          /\ pending'[g] = pending[g] \cup (FirstNew(g)..BatchEnd(g))
      BY <1>1, <2>1, Batches DEF Positions, BusTypeOK
    <3>2. Forgotten(g)' \subseteq Forgotten(g) \cup FirstNew(g)..BatchEnd(g)
      BY <1>1, <1>2, <1>4, <2>1, <3>1 DEF Holds, Busy
    <3> QED
      BY <3>1, <3>2
  <2>2. CASE Busy(c) /\ pending' = pending
    <3>1. loop[c].next \in Nat /\ loop[c].end \in Nat /\ loop[c].end - loop[c].next < Batch
      BY <2>2, InHand DEF Positions
    <3>2. Forgotten(g)' \subseteq Forgotten(g) \cup loop[c].next..loop[c].end
      <4> SUFFICES ASSUME NEW p \in Forgotten(g)', p \notin loop[c].next..loop[c].end
                   PROVE  p \in Forgotten(g)
        OBVIOUS
      <4>1. p \in Positions /\ p \in pending[g]
        BY <1>1, <1>2, <2>2
      <4>2. ~Holds(c, p)
        BY <3>1, <4>1 DEF Holds, Positions
      <4> QED
        BY <1>1, <1>4, <4>1, <4>2
    <3> QED
      BY <3>1, <3>2
  <2>3. cut'[g] # cut[g]
    BY <1>1, <1>8 DEF CountCut, BusTypeOK
  <2> QED
    BY <2>1, <2>2, <2>3 DEF ConsumerStep, LoopStep, Start, Stop, Crash, ReadNew, ReadNewLost,
       Discard, Handle, Ack, Count, Bury, AckBuried, DropBatch, losses, books, Busy
<1> QED
  BY <1>5, <1>6, <1>7, <1>8

LEMMA CauseStep ==
  ASSUME BusInv, BusInv', ForgottenHasACause, [BusNext]_busVars
  PROVE  ForgottenHasACause'
<1> SUFFICES ASSUME NEW h \in Groups
             PROVE  Cardinality(Forgotten(h)') <= cut'[h] * Batch + thrown'[h]
  BY DEF ForgottenHasACause
<1> DEFINE F == Forgotten(h)
           G == Forgotten(h)'
<1>1. IsFiniteSet(F) /\ Cardinality(F) <= cut[h] * Batch + thrown[h]
  <2>1. IsFiniteSet(Positions)
    BY FS_Interval, BusFits DEF Positions
  <2> QED
    BY <2>1, ForgottenFits, FS_Subset DEF BusInv, ForgottenHasACause
<1>2. /\ cut[h] \in Nat /\ thrown[h] \in Nat /\ Batch \in Nat
      /\ cut[h] * Batch \in Nat /\ (cut[h] + 1) * Batch = cut[h] * Batch + Batch
  BY BatchMore, BusFits DEF BusInv, BusTypeOK
<1>3. /\ IsFiniteSet({}) /\ Cardinality({}) = 0
      /\ \A x : IsFiniteSet({x}) /\ Cardinality({x}) = 1
  BY FS_EmptySet, FS_Singleton
<1> DEFINE x == cut[h] * Batch
<1>4. CASE G \subseteq F /\ cut'[h] = cut[h] /\ thrown'[h] = thrown[h]
  <2> HIDE DEF F, G
  <2>1. Cardinality(G) <= Cardinality(F) + 0 /\ Cardinality(G) \in Nat /\ Cardinality(F) \in Nat
    BY <1>1, <1>3, <1>4, AtMostMore
  <2>2. Cardinality(G) <= x + thrown'[h]
    <3> HIDE DEF x
    <3> QED
      BY <1>1, <1>2, <1>4, <2>1 DEF x
  <2> QED
    BY <1>4, <2>2 DEF G, x
<1>5. CASE UNCHANGED busVars
  <2>1. F = G /\ cut' = cut /\ thrown' = thrown
    BY <1>5 DEF busVars, books, losses, Forgotten, Holds
  <2> QED
    BY <1>4, <2>1
<1>6. CASE Publish
  <2>1. F = G /\ cut' = cut /\ thrown' = thrown
    BY <1>6 DEF Publish, losses, Forgotten, Holds
  <2> QED
    BY <1>4, <2>1
<1>7. ASSUME NEW c \in Consumers, ConsumerStep(c)
      PROVE  Cardinality(G) <= cut'[h] * Batch + thrown'[h]
  <2>1. CASE h # GroupOf[c]
    BY <1>4, <1>7, <2>1, Forgets, Counts DEF BusInv
  <2>2. CASE h = GroupOf[c] /\ UNCHANGED losses
    BY <1>4, <1>7, <2>2, Forgets DEF losses
  <2>3. CASE h = GroupOf[c] /\ Count(c) /\ Advance(c) /\ cut'[h] = cut[h]
               /\ thrown'[h] = thrown[h] + 1
    <3>1. G \subseteq F \cup {loop[c].next}
      BY <1>7, <2>3, Forgets
    <3> HIDE DEF F, G
    <3>2. IsFiniteSet({loop[c].next}) /\ Cardinality({loop[c].next}) <= 1
      <4> DEFINE n == loop[c].next
      <4> HIDE DEF n
      <4>1. IsFiniteSet({n}) /\ Cardinality({n}) = 1
        BY FS_Singleton
      <4> QED
        BY <4>1 DEF n
    <3>3. Cardinality(G) <= Cardinality(F) + 1 /\ Cardinality(G) \in Nat /\ Cardinality(F) \in Nat
      <4> DEFINE U == {loop[c].next}
      <4>1. IsFiniteSet(U) /\ Cardinality(U) <= 1 /\ G \subseteq F \cup U
        BY <3>1, <3>2
      <4> HIDE DEF U
      <4> QED
        BY <1>1, <4>1, AtMostMore
    <3>4. Cardinality(G) <= x + thrown'[h]
      <4>1. Cardinality(F) <= x + thrown[h] /\ x \in Nat
        BY <1>1, <1>2
      <4> HIDE DEF x
      <4> QED
        BY <1>2, <2>3, <3>3, <4>1
    <3> QED
      BY <2>3, <3>4 DEF x
  <2>4. CASE h = GroupOf[c] /\ CountCut(c) /\ cut'[h] = cut[h] + 1 /\ thrown'[h] = thrown[h]
    <3>1. PICK a \in Nat, b \in Nat : b - a < Batch /\ G \subseteq F \cup a..b
      BY <1>7, <2>4, Forgets
    <3> HIDE DEF F, G
    <3>2. IsFiniteSet(a..b) /\ Cardinality(a..b) <= Batch
      BY <3>1, BatchSize
    <3>3. Cardinality(G) <= Cardinality(F) + Batch /\ Cardinality(G) \in Nat /\ Cardinality(F) \in Nat
      BY <1>1, <1>2, <3>1, <3>2, AtMostMore
    <3>4. Cardinality(F) <= x + thrown[h] /\ x \in Nat /\ cut'[h] * Batch = x + Batch
      BY <1>1, <1>2, <2>4
    <3> HIDE DEF x
    <3>5. Cardinality(G) <= (x + Batch) + thrown'[h]
      BY <1>2, <2>4, <3>3, <3>4
    <3> QED
      BY <3>4, <3>5
  <2> QED
    BY <1>7, <2>1, <2>2, <2>3, <2>4, Counts DEF BusInv
<1> QED
  BY <1>5, <1>6, <1>7 DEF BusNext, ConsumerStep

-----------------------------------------------------------------------------
\* BusTypeOK: streams, groups and loops stay well formed.
THEOREM BusTypeCorrect == BusSpec => []BusTypeOK
<1>1. BusInv => BusTypeOK
  BY DEF BusInv
<1> QED
  BY <1>1, BusHolds, PTL

\* AcknowledgedWasHeard (processMessage's XACKs): no message leaves the
\* pending entries of its group without having been handled or buried, unless
\* it had no payload.
THEOREM BusHears == BusSpec => []AcknowledgedWasHeard
<1>1. BusInv => AcknowledgedWasHeard
  BY DEF BusInv
<1> QED
  BY <1>1, BusHolds, PTL

\* ForgottenHasACause (the loop's catch, XPENDING, '>'): what a group will never hear is
\* at most a batch for each that was cut short, and one message for each failed handler.
THEOREM BusForgetsForACause == BusSpec => []ForgottenHasACause
<1>1. BusInit => ForgottenHasACause
  <2>1. BusInit => \A g \in Groups : Forgotten(g) = {} /\ cut[g] = 0 /\ thrown[g] = 0
    BY DEF BusInit, Forgotten
  <2>2. Cardinality({}) = 0 /\ 0 <= 0 * Batch + 0
    BY FS_EmptySet, BusFits
  <2> QED
    BY <2>1, <2>2 DEF ForgottenHasACause
<1> QED
  BY <1>1, BusHolds, CauseStep, PTL DEF BusSpec

-----------------------------------------------------------------------------
(* IdempotencyKey: types.                                                  *)

\* Ending a call, or moving on in it, keeps the types of what it changes.
LEMMA MovesTyped ==
  ASSUME TypeOK, NEW c \in Callers,
         \/ \E s \in Stages : Goto(c, s)
         \/ \E is \in {"ok", "error", "conflict", "unreadable"}, n \in Nat : Ends(c, is, n)
  PROVE  /\ at' \in [Callers -> Stages]
         /\ calls' \in [Callers -> 0..MaxCalls]
         /\ answer' \in [Callers -> Answers]
  BY DEF TypeOK, Goto, Ends, Stages, Answers

LEMMA TypeStep == TypeOK /\ [Next]_vars => TypeOK'
<1> SUFFICES ASSUME TypeOK, [Next]_vars PROVE TypeOK'
  OBVIOUS
<1> USE DEF Absent, Marker, Result, Stores
<1>1. CASE UNCHANGED vars
  BY <1>1 DEF TypeOK, vars
<1>2. CASE Expires
  BY <1>2 DEF TypeOK, Expires
<1>3. ASSUME NEW c \in Callers, Call(c) PROVE TypeOK'
  BY <1>3, CallersFit DEF TypeOK, Call, Stages
<1>4. ASSUME NEW c \in Callers, Claim(c) PROVE TypeOK'
  BY <1>4, MovesTyped DEF TypeOK, Claim, Stages
<1>5. ASSUME NEW c \in Callers, Run(c) PROVE TypeOK'
  BY <1>5, MovesTyped DEF TypeOK, Run, Stages
<1>6. ASSUME NEW c \in Callers, RunThrows(c) PROVE TypeOK'
  BY <1>6, MovesTyped DEF TypeOK, RunThrows, Stages
<1>7. ASSUME NEW c \in Callers, Save(c) PROVE TypeOK'
  <2>1. own[c] \in Nat
    BY DEF TypeOK
  <2> QED
    BY <1>7, <2>1, MovesTyped DEF TypeOK, Save
<1>8. ASSUME NEW c \in Callers, SaveThrows(c) PROVE TypeOK'
  BY <1>8, MovesTyped DEF TypeOK, SaveThrows, Stages
<1>9. ASSUME NEW c \in Callers, Release(c) PROVE TypeOK'
  BY <1>9, MovesTyped DEF TypeOK, Release
<1>10. ASSUME NEW c \in Callers, Poll(c) \/ GiveUp(c) \/ Breaks(c) PROVE TypeOK'
  <2>1. store.run \in Nat
    BY DEF TypeOK
  <2> QED
    BY <1>10, <2>1, MovesTyped DEF TypeOK, Poll, GiveUp, Breaks
<1> QED
  BY <1>1, <1>2, <1>3, <1>4, <1>5, <1>6, <1>7, <1>8, <1>9, <1>10 DEF Next, Work

\* Every reachable state of the key, its callers and their answers is well typed.
THEOREM IdemTypeCorrect == Spec => []TypeOK
<1>1. Init => TypeOK
  BY CallersFit DEF Init, TypeOK, Absent, Stores, Stages, Answers
<1> QED
  BY <1>1, TypeStep, PTL DEF Spec

-----------------------------------------------------------------------------
(* IdempotencyKey: runs.  A caller about to run, or about to free the key, *)
(* and a free key each stand for one run that may still come.              *)

Entitled == {c \in Callers : at[c] \in {"run", "release"}}

FreeKey == IF store = Absent THEN 1 ELSE 0

Paid == runs + Cardinality(Entitled) + FreeKey <= 1 + mishaps

\* How a step of one caller changes the number of entitled callers.
LEMMA EntitledStep ==
  ASSUME NEW c \in Callers, \A d \in Callers \ {c} : at'[d] = at[d]
  PROVE  /\ Cardinality(Entitled) \in Nat
         /\ Cardinality(Entitled') \in Nat
         /\ Cardinality(Entitled') =
              Cardinality(Entitled)
                - (IF at[c] \in {"run", "release"} THEN 1 ELSE 0)
                + (IF at'[c] \in {"run", "release"} THEN 1 ELSE 0)
<1> DEFINE Others == Entitled \ {c}
<1>1. IsFiniteSet(Callers)
  BY CallersFit
<1>2. IsFiniteSet(Entitled)
  BY <1>1, FS_Subset DEF Entitled
<1>3. Cardinality(Entitled) \in Nat
  BY <1>2, FS_CardinalityType
<1>4. /\ IsFiniteSet(Others)
      /\ Cardinality(Others) = Cardinality(Entitled)
                                 - (IF at[c] \in {"run", "release"} THEN 1 ELSE 0)
  <2>1. c \in Entitled <=> at[c] \in {"run", "release"}
    BY DEF Entitled
  <2> QED
    BY <1>2, <1>3, <2>1, FS_RemoveElement
<1>5. Entitled' = IF at'[c] \in {"run", "release"} THEN Others \cup {c} ELSE Others
  BY DEF Entitled
<1>6. c \notin Others
  OBVIOUS
<1>7. Cardinality(Others) \in Nat
  BY <1>4, FS_CardinalityType
<1>8. Cardinality(Others \cup {c}) = Cardinality(Others) + 1
  BY <1>4, <1>6, FS_AddElement
<1> QED
  BY <1>3, <1>4, <1>5, <1>7, <1>8

LEMMA PaidStep == TypeOK /\ Paid /\ [Next]_vars => Paid'
<1> SUFFICES ASSUME TypeOK, Paid, [Next]_vars PROVE Paid'
  OBVIOUS
<1>0. runs \in Nat /\ mishaps \in Nat /\ Cardinality(Entitled) \in Nat
  BY CallersFit, FS_Subset, FS_CardinalityType DEF TypeOK, Entitled
<1>1. CASE UNCHANGED vars
  BY <1>1 DEF Paid, Entitled, FreeKey, vars
<1>2. CASE Expires
  <2>1. Entitled' = Entitled
    BY <1>2 DEF Expires, Entitled
  <2> QED
    BY <1>0, <1>2, <2>1 DEF Expires, Paid, FreeKey
<1>3. ASSUME NEW c \in Callers, Call(c) PROVE Paid'
  <2>1. /\ at[c] = "out" /\ at'[c] = "claim"
        /\ \A d \in Callers \ {c} : at'[d] = at[d]
    BY <1>3 DEF TypeOK, Call
  <2>2. Cardinality(Entitled') = Cardinality(Entitled)
    BY <1>0, <2>1, EntitledStep
  <2> QED
    BY <1>3, <2>2 DEF Call, Paid, FreeKey
<1>4. ASSUME NEW c \in Callers, Claim(c) PROVE Paid'
  <2>1. CASE store = Absent
    <3>1. /\ at[c] = "claim" /\ at'[c] = "run" /\ store' = Marker
          /\ \A d \in Callers \ {c} : at'[d] = at[d]
      BY <1>4, <2>1 DEF TypeOK, Claim, Goto
    <3>2. Cardinality(Entitled') = Cardinality(Entitled) + 1
      BY <1>0, <3>1, EntitledStep
    <3> QED
      BY <1>0, <1>4, <2>1, <3>1, <3>2 DEF Claim, Paid, FreeKey, Absent, Marker
  <2>2. CASE store # Absent
    <3>1. /\ at[c] = "claim" /\ at'[c] = "wait" /\ store' = store
          /\ \A d \in Callers \ {c} : at'[d] = at[d]
      BY <1>4, <2>2 DEF TypeOK, Claim, Goto
    <3>2. Cardinality(Entitled') = Cardinality(Entitled)
      BY <1>0, <3>1, EntitledStep
    <3> QED
      BY <1>4, <3>1, <3>2 DEF Claim, Paid, FreeKey
  <2> QED
    BY <2>1, <2>2
<1>5. ASSUME NEW c \in Callers, Run(c) PROVE Paid'
  <2>1. /\ at[c] = "run" /\ at'[c] = "save"
        /\ \A d \in Callers \ {c} : at'[d] = at[d]
    BY <1>5 DEF TypeOK, Run, Goto
  <2>2. Cardinality(Entitled') = Cardinality(Entitled) - 1
    BY <1>0, <2>1, EntitledStep
  <2> QED
    BY <1>0, <1>5, <2>2 DEF Run, Paid, FreeKey
<1>6. ASSUME NEW c \in Callers, RunThrows(c) PROVE Paid'
  <2>1. /\ at[c] = "run" /\ at'[c] = "release"
        /\ \A d \in Callers \ {c} : at'[d] = at[d]
    BY <1>6 DEF TypeOK, RunThrows, Goto
  <2>2. Cardinality(Entitled') = Cardinality(Entitled)
    BY <1>0, <2>1, EntitledStep
  <2> QED
    BY <1>0, <1>6, <2>2 DEF RunThrows, Paid, FreeKey
<1>7. ASSUME NEW c \in Callers, Save(c) PROVE Paid'
  <2>1. /\ at[c] = "save" /\ at'[c] = "out" /\ store' # Absent
        /\ \A d \in Callers \ {c} : at'[d] = at[d]
    BY <1>7 DEF TypeOK, Save, Ends, Result, Absent
  <2>2. Cardinality(Entitled') = Cardinality(Entitled)
    BY <1>0, <2>1, EntitledStep
  <2> QED
    BY <1>0, <1>7, <2>1, <2>2 DEF Save, Paid, FreeKey
<1>8. ASSUME NEW c \in Callers, SaveThrows(c) PROVE Paid'
  <2>1. /\ at[c] = "save" /\ at'[c] = "release"
        /\ \A d \in Callers \ {c} : at'[d] = at[d]
        /\ store' = store \/ store' # Absent
    BY <1>8 DEF TypeOK, SaveThrows, Goto, Result, Absent
  <2>2. Cardinality(Entitled') = Cardinality(Entitled) + 1
    BY <1>0, <2>1, EntitledStep
  <2> QED
    BY <1>0, <1>8, <2>1, <2>2 DEF SaveThrows, Paid, FreeKey
<1>9. ASSUME NEW c \in Callers, Release(c) PROVE Paid'
  <2>1. /\ at[c] = "release" /\ at'[c] = "out"
        /\ \A d \in Callers \ {c} : at'[d] = at[d]
    BY <1>9 DEF TypeOK, Release, Ends
  <2>2. Cardinality(Entitled') = Cardinality(Entitled) - 1
    BY <1>0, <2>1, EntitledStep
  <2> QED
    BY <1>0, <1>9, <2>2 DEF Release, Paid, FreeKey
<1>10. ASSUME NEW c \in Callers, Poll(c) \/ GiveUp(c) \/ Breaks(c) PROVE Paid'
  <2>1. /\ at'[c] = "out"
        /\ \A d \in Callers \ {c} : at'[d] = at[d]
        /\ UNCHANGED <<store, runs, mishaps>>
    BY <1>10 DEF TypeOK, Poll, GiveUp, Breaks, Ends
  <2>2. Cardinality(Entitled') \in Nat /\ Cardinality(Entitled') <= Cardinality(Entitled)
    BY <1>0, <2>1, EntitledStep
  <2> QED
    BY <1>0, <2>1, <2>2 DEF Paid, FreeKey
<1> QED
  BY <1>1, <1>2, <1>3, <1>4, <1>5, <1>6, <1>7, <1>8, <1>9, <1>10 DEF Next, Work

\* The function runs once, and once more at most for every claim or result that
\* expired, error after the effect and result that was not saved.
THEOREM IdemRunsHaveACause == Spec => []EveryExtraRunHasACause
<1>1. Init => Paid
  <2> SUFFICES ASSUME Init PROVE Paid
    OBVIOUS
  <2>1. Entitled = {}
    BY DEF Init, Entitled
  <2> QED
    BY <2>1, FS_EmptySet DEF Init, Paid, FreeKey
<1>2. TypeOK /\ Paid => EveryExtraRunHasACause
  <2> SUFFICES ASSUME TypeOK, Paid PROVE EveryExtraRunHasACause
    OBVIOUS
  <2>1. runs \in Nat /\ mishaps \in Nat /\ Cardinality(Entitled) \in Nat
    BY CallersFit, FS_Subset, FS_CardinalityType DEF TypeOK, Entitled
  <2>2. FreeKey \in {0, 1}
    BY DEF FreeKey
  <2> QED
    BY <2>1, <2>2 DEF Paid, EveryExtraRunHasACause
<1> QED
  BY <1>1, <1>2, IdemTypeCorrect, PaidStep, PTL DEF Spec

-----------------------------------------------------------------------------
(* Answers.                                                                *)

Produced ==
  /\ store.is = "result" => store.run \in 1..runs
  /\ \A c \in Callers : at[c] = "save" => own[c] \in 1..runs
  /\ OnlyRealResults

LEMMA ProducedStep == TypeOK /\ Produced /\ [Next]_vars => Produced'
<1> SUFFICES ASSUME TypeOK, Produced, [Next]_vars PROVE Produced'
  OBVIOUS
<1> USE DEF Produced, OnlyRealResults, TypeOK, Absent, Marker, Result
<1>1. CASE UNCHANGED vars
  BY <1>1 DEF vars
<1>2. CASE Expires
  BY <1>2 DEF Expires
<1>3. ASSUME NEW c \in Callers, Call(c) \/ Claim(c) PROVE Produced'
  BY <1>3 DEF Call, Claim, Goto
<1>4. ASSUME NEW c \in Callers, Run(c) PROVE Produced'
  BY <1>4 DEF Run, Goto
<1>5. ASSUME NEW c \in Callers, RunThrows(c) PROVE Produced'
  BY <1>5 DEF RunThrows, Goto
<1>6. ASSUME NEW c \in Callers, Save(c) \/ SaveThrows(c) PROVE Produced'
  BY <1>6 DEF Save, SaveThrows, Goto, Ends
<1>7. ASSUME NEW c \in Callers, Release(c) \/ GiveUp(c) \/ Breaks(c) PROVE Produced'
  BY <1>7 DEF Release, GiveUp, Breaks, Ends
<1>8. ASSUME NEW c \in Callers, Poll(c) PROVE Produced'
  BY <1>8 DEF Poll, Ends
<1> QED
  BY <1>1, <1>2, <1>3, <1>4, <1>5, <1>6, <1>7, <1>8 DEF Next, Work

\* Whatever fails, an answer that carries a result carries that of a real run.
THEOREM IdemRealResults == Spec => []OnlyRealResults
<1>1. Init => Produced
  BY DEF Init, Produced, OnlyRealResults, Absent
<1>2. Produced => OnlyRealResults
  BY DEF Produced
<1> QED
  BY <1>1, <1>2, IdemTypeCorrect, ProducedStep, PTL DEF Spec
=============================================================================
