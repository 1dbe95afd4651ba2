------------------------ MODULE MoneyMovementProofs ------------------------
(***************************************************************************)
(* Machine-checked facts about MoneyMovement, for every set of accounts,   *)
(* users and requests, every number of retries and every limit: what holds *)
(* whatever the interleaving, and, about MoneyOverlap, how far balance,    *)
(* ceiling, review and contract can be missed by requests that overlap.    *)
(***************************************************************************)
EXTENDS MoneyOverlap, FiniteSetTheorems, WellFoundedInduction, TLAPS

(* Sums.  TotalOf is a fold, so what it computes is shown by induction on  *)
(* the set it adds up: the least counterexample is refuted.                *)

\* Among sets of parts of a finite set one has no part that belongs as well.
LEMMA LeastPart ==
  ASSUME NEW S, IsFiniteSet(S), NEW X \in SUBSET (SUBSET S), X # {}
  PROVE  \E T \in X : \A U \in X : U \subseteq T => U = T
<1> DEFINE R == StrictSubsetOrdering(S)
<1>1. X \subseteq FiniteSubsetsOf(S)
  BY FS_Subset DEF FiniteSubsetsOf
<1>2. IsWellFoundedOn(R, FiniteSubsetsOf(S))
  BY FS_StrictSubsetOrderingWellFounded
<1>3. \E T \in X : \A U \in X : <<U, T>> \notin R
  <2> HIDE DEF R
  <2> QED BY <1>1, <1>2, WFMin
<1>4. QED
  BY <1>3 DEF StrictSubsetOrdering

LEMMA LeastNumber ==
  ASSUME NEW X \in SUBSET Nat, X # {}
  PROVE  \E n \in X : \A m \in X : n <= m
<1> DEFINE R == {ss \in Nat \X Nat : ss[1] < ss[2]}
<1>1. \E n \in X : \A m \in X : <<m, n>> \notin R
  <2>1. IsWellFoundedOn(R, Nat)
    BY NatLessThanWellFounded DEF OpToRel
  <2> HIDE DEF R
  <2> QED BY <2>1, WFMin
<1>2. PICK n \in X : \A m \in X : <<m, n>> \notin R
  BY <1>1
<1>3. ASSUME NEW m \in X PROVE n <= m
  <2>1. m \in Nat /\ n \in Nat /\ ~ (m < n)
    BY <1>2
  <2> QED
    BY <2>1
<1> QED
  BY <1>3

Any(s) == CHOOSE x \in s : TRUE

LEMMA AnyIsIn == \A s : s # {} => Any(s) \in s
BY DEF Any

\* it sums the amounts of the parts of S, taking out Any element first.
Sums(it, rows, S) ==
  it = [s \in SUBSET S |-> IF s = {} THEN 0 ELSE rows[Any(s)].amount + it[s \ {Any(s)}]]

\* The same for parts of at most n elements.
SumsUpTo(it, rows, S, n) ==
  \A s \in SUBSET S : Cardinality(s) <= n =>
    it[s] = IF s = {} THEN 0 ELSE rows[Any(s)].amount + it[s \ {Any(s)}]

LEMMA SumsExist ==
  ASSUME NEW rows, NEW S, IsFiniteSet(S)
  PROVE  \E it : Sums(it, rows, S)
<1>1. \A s \in SUBSET S : /\ IsFiniteSet(s) /\ Cardinality(s) \in Nat
                          /\ Cardinality(s) <= Cardinality(S)
  BY FS_Subset, FS_CardinalityType
<1>2. \A n \in Nat : \E it : SumsUpTo(it, rows, S, n)
  <2> DEFINE Bad == {n \in Nat : ~ \E it : SumsUpTo(it, rows, S, n)}
  <2> SUFFICES ASSUME Bad # {} PROVE FALSE
    OBVIOUS
  <2>1. PICK n \in Bad : \A m \in Bad : n <= m
    <3> HIDE DEF Bad
    <3>1. Bad \in SUBSET Nat
      BY DEF Bad
    <3> QED
      BY <3>1, LeastNumber
  <2>2. CASE n = 0
    <3>1. \A s \in SUBSET S : Cardinality(s) <= 0 => s = {}
      BY <1>1, FS_EmptySet
    <3>2. SumsUpTo([s \in SUBSET S |-> 0], rows, S, 0)
      BY <3>1 DEF SumsUpTo
    <3> QED
      BY <2>1, <2>2, <3>2
  <2>3. CASE n # 0
    <3>1. n \in Nat /\ n - 1 \in Nat /\ n - 1 \notin Bad
      BY <2>1, <2>3
    <3>2. PICK g : SumsUpTo(g, rows, S, n - 1)
      BY <3>1
    <3> DEFINE h == [s \in SUBSET S |-> IF s = {} THEN 0 ELSE rows[Any(s)].amount + g[s \ {Any(s)}]]
    <3>3. ASSUME NEW s \in SUBSET S, Cardinality(s) <= n, s # {}
          PROVE  h[s \ {Any(s)}] = g[s \ {Any(s)}]
      <4>1. /\ s \ {Any(s)} \in SUBSET S
            /\ Cardinality(s \ {Any(s)}) <= n - 1
        BY <1>1, <3>1, <3>3, AnyIsIn, FS_RemoveElement
      <4> QED
        BY <3>2, <4>1 DEF SumsUpTo
    <3>4. SumsUpTo(h, rows, S, n)
      BY <3>3 DEF SumsUpTo
    <3> QED
      BY <2>1, <3>4
  <2> QED
    BY <2>2, <2>3
<1>3. PICK g : SumsUpTo(g, rows, S, Cardinality(S))
  BY <1>1, <1>2
<1> DEFINE it == [s \in SUBSET S |-> g[s]]
<1>4. \A s \in SUBSET S : it[s] = IF s = {} THEN 0 ELSE rows[Any(s)].amount + it[s \ {Any(s)}]
  BY <1>1, <1>3 DEF SumsUpTo
<1>5. Sums(it, rows, S)
  BY <1>4 DEF Sums, Any
<1> QED
  BY <1>5

LEMMA TotalIs ==
  ASSUME NEW rows, NEW S, IsFiniteSet(S)
  PROVE  \E it : Sums(it, rows, S) /\ TotalOf(rows, S) = it[S]
<1>1. PICK f : Sums(f, rows, S)
  BY SumsExist
<1>2. f = [s \in SUBSET S |-> IF s = {} THEN 0 ELSE rows[CHOOSE x \in s : TRUE].amount + f[s \ {CHOOSE x \in s : TRUE}]]
  BY <1>1 DEF Sums, Any
<1> DEFINE it == CHOOSE g : g = [s \in SUBSET S |-> IF s = {} THEN 0 ELSE rows[CHOOSE x \in s : TRUE].amount + g[s \ {CHOOSE x \in s : TRUE}]]
<1>3. TotalOf(rows, S) = it[S]
  BY DEF TotalOf, MapThenSumSet, MapThenFoldSet
<1>4. it = [s \in SUBSET S |-> IF s = {} THEN 0 ELSE rows[CHOOSE x \in s : TRUE].amount + it[s \ {CHOOSE x \in s : TRUE}]]
  BY <1>2, Zenon
<1>5. Sums(it, rows, S)
  BY <1>4 DEF Sums, Any
<1>6. QED
  BY <1>3, <1>5, Zenon

LEMMA TotalOfNone == \A rows : TotalOf(rows, {}) = 0
<1>1. IsFiniteSet({})
  BY FS_EmptySet
<1> QED
  BY <1>1, TotalIs DEF Sums

\* What a part sums to depends on its own amounts only.
LEMMA SumsAgree ==
  ASSUME NEW rows, NEW rowz, NEW S, NEW T, NEW f, NEW g, NEW U, IsFiniteSet(U),
         U \subseteq S, U \subseteq T, Sums(f, rows, S), Sums(g, rowz, T),
         \A n \in U : rows[n].amount = rowz[n].amount
  PROVE  f[U] = g[U]
<1> DEFINE Bad == {s \in SUBSET U : f[s] # g[s]}
<1> SUFFICES ASSUME Bad # {} PROVE FALSE
  OBVIOUS
<1>1. PICK s \in Bad : \A t \in Bad : t \subseteq s => t = s
  <2> HIDE DEF Bad
  <2>1. Bad \in SUBSET (SUBSET U)
    BY DEF Bad
  <2> QED
    BY <2>1, LeastPart
<1>2. /\ f[s] = IF s = {} THEN 0 ELSE rows[Any(s)].amount + f[s \ {Any(s)}]
      /\ g[s] = IF s = {} THEN 0 ELSE rowz[Any(s)].amount + g[s \ {Any(s)}]
  BY DEF Sums
<1>3. s # {} => Any(s) \in s /\ s \ {Any(s)} \notin Bad
  BY <1>1, AnyIsIn
<1> QED
  BY <1>1, <1>2, <1>3

\* One step of the sum, and its type.
LEMMA TotalStep ==
  ASSUME NEW rows, NEW S, IsFiniteSet(S), S # {}
  PROVE  TotalOf(rows, S) = rows[Any(S)].amount + TotalOf(rows, S \ {Any(S)})
<1>1. PICK f : Sums(f, rows, S) /\ TotalOf(rows, S) = f[S]
  BY TotalIs
<1>2. IsFiniteSet(S \ {Any(S)})
  BY FS_RemoveElement
<1>3. PICK g : Sums(g, rows, S \ {Any(S)}) /\ TotalOf(rows, S \ {Any(S)}) = g[S \ {Any(S)}]
  BY <1>2, TotalIs
<1>4. f[S \ {Any(S)}] = g[S \ {Any(S)}]
  <2>1. S \ {Any(S)} \subseteq S
    OBVIOUS
  <2> QED
    BY <1>1, <1>2, <1>3, <2>1, SumsAgree
<1>5. f[S] = rows[Any(S)].amount + f[S \ {Any(S)}]
  BY <1>1 DEF Sums
<1> QED
  BY <1>1, <1>3, <1>4, <1>5

LEMMA TotalAgrees ==
  ASSUME NEW rows, NEW rowz, NEW S, IsFiniteSet(S),
         \A n \in S : rows[n].amount = rowz[n].amount
  PROVE  TotalOf(rows, S) = TotalOf(rowz, S)
<1>1. PICK f : Sums(f, rows, S) /\ TotalOf(rows, S) = f[S]
  BY TotalIs
<1>2. PICK g : Sums(g, rowz, S) /\ TotalOf(rowz, S) = g[S]
  BY TotalIs
<1> QED
  BY <1>1, <1>2, SumsAgree

LEMMA TotalType ==
  ASSUME NEW rows, NEW S, IsFiniteSet(S), \A n \in S : rows[n].amount \in Int
  PROVE  TotalOf(rows, S) \in Int
<1> DEFINE Bad == {s \in SUBSET S : TotalOf(rows, s) \notin Int}
<1> SUFFICES ASSUME Bad # {} PROVE FALSE
  OBVIOUS
<1>1. PICK s \in Bad : \A t \in Bad : t \subseteq s => t = s
  <2> HIDE DEF Bad
  <2>1. Bad \in SUBSET (SUBSET S)
    BY DEF Bad
  <2> QED
    BY <2>1, LeastPart
<1>2. IsFiniteSet(s) /\ s # {}
  <2>1. s \in SUBSET S /\ TotalOf(rows, s) \notin Int
    OBVIOUS
  <2>2. TotalOf(rows, {}) = 0
    BY TotalOfNone
  <2>3. IsFiniteSet(s)
    BY <2>1, FS_Subset
  <2>4. ASSUME s = {} PROVE FALSE
    <3>1. TotalOf(rows, s) = 0
      BY <2>2, <2>4, Zenon
    <3>2. QED
      BY <2>1, <3>1
  <2> QED
    BY <2>3, <2>4
<1>3. Any(s) \in s /\ s \ {Any(s)} \notin Bad
  BY <1>1, <1>2, AnyIsIn
<1>4. TotalOf(rows, s) = rows[Any(s)].amount + TotalOf(rows, s \ {Any(s)})
  BY <1>2, TotalStep
<1> QED
  BY <1>1, <1>3, <1>4

\* Any element may be taken out first.
LEMMA TotalWithout ==
  ASSUME NEW rows, NEW S, IsFiniteSet(S), \A n \in S : rows[n].amount \in Int, NEW x \in S
  PROVE  TotalOf(rows, S) = rows[x].amount + TotalOf(rows, S \ {x})
<1> DEFINE Fits(s) == \A y \in s : TotalOf(rows, s) = rows[y].amount + TotalOf(rows, s \ {y})
           Bad == {s \in SUBSET S : ~Fits(s)}
<1> SUFFICES ASSUME Bad # {} PROVE FALSE
  OBVIOUS
<1>1. PICK s \in Bad : \A t \in Bad : t \subseteq s => t = s
  <2> HIDE DEF Bad
  <2>1. Bad \in SUBSET (SUBSET S)
    BY DEF Bad
  <2> QED
    BY <2>1, LeastPart
<1>2. PICK y \in s : TotalOf(rows, s) # rows[y].amount + TotalOf(rows, s \ {y})
  BY <1>1
<1> DEFINE c == Any(s)
<1>3. c \in s
  BY <1>2, AnyIsIn
<1>4. s \in SUBSET S /\ IsFiniteSet(s)
  BY FS_Subset
<1>5. TotalOf(rows, s) = rows[c].amount + TotalOf(rows, s \ {c})
  BY <1>2, <1>4, TotalStep
<1>6. y # c
  BY <1>2, <1>5
<1>7. Fits(s \ {c}) /\ Fits(s \ {y})
  BY <1>1, <1>2, <1>3
<1>8. /\ TotalOf(rows, s \ {c}) = rows[y].amount + TotalOf(rows, (s \ {c}) \ {y})
      /\ TotalOf(rows, s \ {y}) = rows[c].amount + TotalOf(rows, (s \ {y}) \ {c})
  BY <1>2, <1>3, <1>6, <1>7
<1>9. (s \ {c}) \ {y} = (s \ {y}) \ {c} /\ IsFiniteSet((s \ {y}) \ {c})
  BY <1>4, FS_RemoveElement
<1>10. TotalOf(rows, (s \ {y}) \ {c}) \in Int
  BY <1>4, <1>9, TotalType
<1>11. rows[y].amount \in Int /\ rows[c].amount \in Int
  BY <1>2, <1>3, <1>4
<1> QED
  <2>1. TotalOf(rows, (s \ {c}) \ {y}) = TotalOf(rows, (s \ {y}) \ {c})
    BY <1>9, Zenon
  <2> DEFINE t == TotalOf(rows, (s \ {y}) \ {c})
  <2>2. /\ TotalOf(rows, s) = rows[c].amount + (rows[y].amount + t)
        /\ TotalOf(rows, s \ {y}) = rows[c].amount + t
    BY <1>5, <1>8, <2>1, Zenon
  <2>3. t \in Int
    BY <1>10
  <2> HIDE DEF Bad, Fits, c, t
  <2> QED
    BY <1>2, <1>11, <2>2, <2>3

LEMMA TotalWith ==
  ASSUME NEW rows, NEW S, IsFiniteSet(S), NEW x, x \notin S,
         \A n \in S \cup {x} : rows[n].amount \in Int
  PROVE  TotalOf(rows, S \cup {x}) = rows[x].amount + TotalOf(rows, S)
<1>1. IsFiniteSet(S \cup {x}) /\ (S \cup {x}) \ {x} = S
  BY FS_AddElement
<1> QED
  BY <1>1, TotalWithout

\* A part of a set of credits or debits sums to no more than the whole.
LEMMA TotalOfPart ==
  ASSUME NEW rows, NEW S, IsFiniteSet(S), \A n \in S : rows[n].amount \in Nat,
         NEW U \in SUBSET S
  PROVE  TotalOf(rows, U) <= TotalOf(rows, S)
<1> DEFINE Bad == {s \in SUBSET S : U \subseteq s /\ ~(TotalOf(rows, U) <= TotalOf(rows, s))}
<1> SUFFICES ASSUME Bad # {} PROVE FALSE
  OBVIOUS
<1>1. PICK s \in Bad : \A t \in Bad : t \subseteq s => t = s
  <2> HIDE DEF Bad
  <2>1. Bad \in SUBSET (SUBSET S)
    BY DEF Bad
  <2> QED
    BY <2>1, LeastPart
<1>2. /\ IsFiniteSet(s) /\ IsFiniteSet(U)
      /\ TotalOf(rows, s) \in Int /\ TotalOf(rows, U) \in Int
  <2>1. IsFiniteSet(s) /\ IsFiniteSet(U)
    BY FS_Subset
  <2>2. \A n \in S : rows[n].amount \in Int
    OBVIOUS
  <2> QED
    BY <2>1, <2>2, TotalType
<1>3. PICK x \in s : x \notin U
  BY <1>2
<1>4. s \ {x} \in SUBSET S /\ U \subseteq s \ {x} /\ s \ {x} \notin Bad
  BY <1>1, <1>3
<1>5. TotalOf(rows, s) = rows[x].amount + TotalOf(rows, s \ {x}) /\ rows[x].amount \in Nat
  BY <1>2, <1>3, TotalWithout
<1>6. TotalOf(rows, s \ {x}) \in Int
  BY <1>4, FS_Subset, TotalType
<1> QED
  BY <1>2, <1>4, <1>5, <1>6

-----------------------------------------------------------------------------
(* Types.                                                                  *)

\* The frame of the three ways a handler moves on.
LEMMA FrameType ==
  ASSUME TypeOK, NEW i \in Intents, UNCHANGED <<database, effects>>,
         \/ \E s \in Stages : Goto(i, s)
         \/ \E r \in Replies : Answer(i, r)
  PROVE  TypeOK'
<1>1. CASE \E s \in Stages : Goto(i, s)
  BY <1>1 DEF TypeOK, Goto, database
<1>2. CASE \E r \in Replies : Answer(i, r)
  <2>1. "idle" \in Stages /\ << >> \in Seq(Effects)
    BY DEF Stages
  <2>2. QED
    BY <1>2, <2>1 DEF TypeOK, Answer, database
<1>3. QED
  BY <1>1, <1>2

LEMMA ThenType ==
  ASSUME TypeOK, NEW i \in Intents, NEW seq \in Seq(Effects), Then(i, seq)
  PROVE  /\ stage' \in [Intents -> Stages]
         /\ tail' \in [Intents -> Seq(Effects)]
         /\ target' \in [Intents -> TxnIds]
         /\ tries' \in [Intents -> 0..MaxTries]
         /\ reply' \in [Intents -> Replies]
BY DEF TypeOK, Then, Stages

LEMMA PostType ==
  ASSUME TypeOK, NEW t \in TxnIds, NEW m, m.src \in LedgerAccounts,
         m.dst \in LedgerAccounts, m.amount \in Nat, Post(t, m)
  PROVE  /\ journal' \in Seq([txn : TxnIds, debit : LedgerAccounts,
                              credit : LedgerAccounts, amount : Nat])
         /\ balance' \in [Accounts -> Int]
BY DEF TypeOK, Post, Entry, Moved

LEMMA PostedEffectsType ==
  ASSUME NEW op PROVE PostedEffects(op) \in Seq(Effects)
<1> DEFINE more == IF op \in Transfers \cup {"approve"} THEN <<"email">> ELSE << >>
<1>1. <<"publish", "audit", "receipt">> \in Seq(Effects)
  BY DEF Effects
<1>2. <<"email">> \in Seq(Effects) /\ << >> \in Seq(Effects)
  BY DEF Effects
<1>3. more \in Seq(Effects)
  BY <1>2
<1> HIDE DEF more
<1>4. <<"publish", "audit", "receipt">> \o more \in Seq(Effects)
  BY <1>1, <1>3
<1>5. QED
  BY <1>4 DEF PostedEffects, more

LEMMA RequestType ==
  ASSUME NEW i \in Intents
  PROVE  /\ Request[i].op \in Operations
         /\ Request[i].user \in Users
         /\ Request[i].src \in LedgerAccounts
         /\ Request[i].dst \in LedgerAccounts
         /\ Request[i].amount \in Nat \ {0}
         /\ Request[i].goal \in AccountStatus
BY ConstantsFit DEF Requests

\* Every action, one at a time, keeps the types.
LEMMA TypeStep == TypeOK /\ [Next]_vars => TypeOK'
<1> SUFFICES ASSUME TypeOK, [Next]_vars PROVE TypeOK'
  OBVIOUS
<1>1. CASE UNCHANGED vars
  BY <1>1 DEF vars, TypeOK
<1>2. ASSUME NEW i \in Intents, Submit(i) PROVE TypeOK'
  BY <1>2, ConstantsFit DEF Submit, TypeOK, database, Stages, Replies
<1>3. ASSUME NEW i \in Intents, LoadAccounts(i) PROVE TypeOK'
  BY <1>3, FrameType DEF LoadAccounts, Stages, Replies
<1>4. ASSUME NEW i \in Intents, LoadHeld(i) PROVE TypeOK'
  BY <1>4, FrameType DEF LoadHeld, Stages, Replies
<1>5. ASSUME NEW i \in Intents, LoadStatus(i) PROVE TypeOK'
  BY <1>5, FrameType DEF LoadStatus, Stages, Replies
<1>6. ASSUME NEW i \in Intents, CheckBalance(i) PROVE TypeOK'
  BY <1>6, FrameType DEF CheckBalance, Stages, Replies
<1>7. ASSUME NEW i \in Intents, CheckLimits(i) PROVE TypeOK'
  BY <1>7, FrameType DEF CheckLimits, Stages, Replies
<1>8. ASSUME NEW i \in Intents, StepUp(i) PROVE TypeOK'
  BY <1>8, FrameType DEF StepUp, Stages, Replies
<1>9. ASSUME NEW i \in Intents, ConfirmWire(i) PROVE TypeOK'
  BY <1>9, FrameType DEF ConfirmWire, Stages, Replies
<1>10. ASSUME NEW i \in Intents, CommitPosting(i) PROVE TypeOK'
  <2>1. NewTxn(i, "COMPLETED", "NONE") \in Txn
    BY RequestType DEF NewTxn, Txn
  <2>2. target[i] \in TxnIds
    BY DEF TypeOK
  <2>3. txns' \in [TxnIds -> Txn]
    BY <1>10, <2>1, <2>2 DEF CommitPosting, TypeOK
  <2>4. QED
    BY <1>10, <2>2, <2>3, PostType, ThenType, PostedEffectsType, RequestType
       DEF CommitPosting, TypeOK
<1>11. ASSUME NEW i \in Intents, CommitHold(i) PROVE TypeOK'
  <2>1. NewTxn(i, "PENDING", "PENDING") \in Txn
    BY RequestType DEF NewTxn, Txn
  <2>2. txns' \in [TxnIds -> Txn]
    BY <1>11, <2>1 DEF CommitHold, TypeOK
  <2>3. <<"audit", "email">> \in Seq(Effects)
    BY DEF Effects
  <2>4. QED
    BY <1>11, <2>2, <2>3, ThenType DEF CommitHold, TypeOK
<1>12. ASSUME NEW i \in Intents, CommitApproval(i) PROVE TypeOK'
  <2>1. /\ target[i] \in TxnIds
        /\ txns[target[i]] \in Txn
    BY DEF TypeOK
  <2>2. txns' \in [TxnIds -> Txn]
    BY <1>12, <2>1 DEF CommitApproval, TypeOK, Txn
  <2>3. QED
    BY <1>12, <2>1, <2>2, PostType, ThenType, PostedEffectsType
       DEF CommitApproval, TypeOK, Txn
<1>13. ASSUME NEW i \in Intents, CommitRejection(i) PROVE TypeOK'
  <2>1. txns' \in [TxnIds -> Txn]
    BY <1>13 DEF CommitRejection, TypeOK, Txn
  <2>2. <<"audit", "email">> \in Seq(Effects)
    BY DEF Effects
  <2>3. QED
    BY <1>13, <2>1, <2>2, ThenType DEF CommitRejection, TypeOK
<1>14. ASSUME NEW i \in Intents, CommitTransition(i) PROVE TypeOK'
  <2>1. accountStatus' \in [Accounts -> AccountStatus]
    BY <1>14, RequestType DEF CommitTransition, TypeOK
  <2>2. <<"audit", "publish">> \in Seq(Effects)
    BY DEF Effects
  <2>3. QED
    BY <1>14, <2>1, <2>2, ThenType DEF CommitTransition, TypeOK
<1>15. ASSUME NEW i \in Intents, SideEffect(i) PROVE TypeOK'
  <2>1. tail[i] \in Seq(Effects) /\ tail[i] # << >>
    BY <1>15 DEF SideEffect, TypeOK
  <2>2. Head(tail[i]) \in Effects /\ Tail(tail[i]) \in Seq(Effects)
    BY <2>1
  <2>3. QED
    BY <1>15, <2>2 DEF SideEffect, TypeOK, database
<1>16. ASSUME NEW i \in Intents, Respond(i) PROVE TypeOK'
  BY <1>16, FrameType DEF Respond, Replies
<1>17. ASSUME NEW i \in Intents, Fail(i) PROVE TypeOK'
  BY <1>17, FrameType DEF Fail, Replies
<1>18. QED
  BY <1>1, <1>2, <1>3, <1>4, <1>5, <1>6, <1>7, <1>8, <1>9, <1>10, <1>11,
     <1>12, <1>13, <1>14, <1>15, <1>16, <1>17 DEF Next, Handle

LEMMA InitTypes == Init => TypeOK
BY ConstantsFit DEF Init, TypeOK, TxnIds, NoTxn, Txn, LedgerAccounts, Stages, Replies

\* Every variable keeps its type: the state is always one the schema admits.
THEOREM TypeCorrect == Spec => []TypeOK
BY InitTypes, TypeStep, PTL DEF Spec

-----------------------------------------------------------------------------
(* The books: what a transaction's status says about the journal.  None of *)
(* the three invariants is inductive alone; `Books` adds which transaction *)
(* a request works on, whose terms it carries, and what a committed        *)
(* request still has to announce.                                          *)

Uncommitted == {"load", "balance", "limits", "confirm", "commit", "hold"}

\* A fresh transaction belongs to one submission and is still blank until that
\* submission commits; a review works on a transaction that was held.
TargetsFit ==
  \A i \in Intents :
    /\ Request[i].op \in Reviews /\ Busy(i) => txns[target[i]].approval # "NONE"
    /\ Request[i].op \notin Reviews /\ stage[i] \in Uncommitted
         => target[i] = <<i, tries[i]>> /\ txns[target[i]] = NoTxn
    /\ \A n \in 1..MaxTries : n > tries[i] => txns[<<i, n>>] = NoTxn

\* A transaction is blank or carries the terms of its request.
TermsKept ==
  \A t \in TxnIds :
    \/ txns[t] = NoTxn
    \/ /\ txns[t].status # "NONE"
       /\ Request[t[1]].op \in Credits \cup Debits
       /\ txns[t].src = Request[t[1]].src
       /\ txns[t].dst = Request[t[1]].dst
       /\ txns[t].amount = Request[t[1]].amount

Announceable(i) ==
  (/\ \E k \in 1..Len(tail[i]) : tail[i][k] \in {"publish", "receipt"}
   /\ Request[target[i][1]].op # "transition")
    => EntriesOf(journal, target[i]) # {}

\* Only a request that has committed has side effects left to perform.
TailsFit ==
  \A i \in Intents : IF stage[i] = "after" THEN Announceable(i) ELSE tail[i] = << >>

Books ==
  /\ TargetsFit
  /\ TermsKept
  /\ TailsFit
  /\ HeldMoneyDoesNotMove
  /\ CompletedIsPosted
  /\ AnnouncedIsPosted

\* The stages each operation passes through.
StageFits ==
  \A i \in Intents :
    /\ stage[i] \in {"limits", "confirm"} => Request[i].op \in Transfers
    /\ stage[i] = "balance" => Request[i].op \in Debits \cup {"approve"}
    /\ stage[i] = "hold" => Request[i].op = "internal"
    /\ (/\ stage[i] \in Uncommitted \ {"load"}
        /\ Request[i].op \in Credits \cup Debits) => Request[i].src # Request[i].dst

BookInv == TypeOK /\ StageFits /\ Books

\* Posting adds one entry, at the end of the journal, to one transaction.
LEMMA PostEntries ==
  ASSUME TypeOK, NEW t \in TxnIds, NEW m, Post(t, m)
  PROVE  /\ \A u \in TxnIds : u # t => EntriesOf(journal', u) = EntriesOf(journal, u)
         /\ EntriesOf(journal', t) = EntriesOf(journal, t) \cup {Len(journal) + 1}
         /\ journal'[Len(journal) + 1] = Entry(t, m.src, m.dst, m.amount)
         /\ \A n \in DOMAIN journal : journal'[n] = journal[n]
<1> DEFINE e == Entry(t, m.src, m.dst, m.amount)
<1>1. journal' = Append(journal, e) /\ e.txn = t
  BY DEF Post, Entry
<1>2. DOMAIN journal = 1..Len(journal) /\ Len(journal) \in Nat
  BY DEF TypeOK
<1>3. /\ DOMAIN journal' = 1..(Len(journal) + 1)
      /\ journal'[Len(journal) + 1] = e
      /\ \A n \in 1..Len(journal) : journal'[n] = journal[n]
  BY <1>1, <1>2 DEF TypeOK
<1>4. QED
  BY <1>1, <1>2, <1>3 DEF EntriesOf

\* The two coordinates of a transaction id.
LEMMA TxnIdParts ==
  /\ \A t \in TxnIds : t = <<t[1], t[2]>> /\ t[1] \in Intents /\ t[2] \in 1..MaxTries
  /\ \A i \in Intents, n \in 1..MaxTries :
       <<i, n>> \in TxnIds /\ <<i, n>>[1] = i /\ <<i, n>>[2] = n
BY DEF TxnIds

LEMMA StageStep == TypeOK /\ StageFits /\ [Next]_vars => StageFits'
<1> SUFFICES ASSUME TypeOK, StageFits, [Next]_vars PROVE StageFits'
  OBVIOUS
<1> USE DEF StageFits, Uncommitted
<1>1. CASE UNCHANGED vars
  BY <1>1 DEF vars
<1>2. ASSUME NEW i \in Intents, Submit(i) PROVE StageFits'
  BY <1>2 DEF Submit, TypeOK
<1>3. ASSUME NEW i \in Intents, LoadAccounts(i) PROVE StageFits'
  BY <1>3 DEF LoadAccounts, Goto, Answer, TypeOK, Debits
<1>4. ASSUME NEW i \in Intents, LoadHeld(i) PROVE StageFits'
  BY <1>4 DEF LoadHeld, Goto, Answer, TypeOK, Reviews, Credits, Debits, Transfers
<1>5. ASSUME NEW i \in Intents, LoadStatus(i) PROVE StageFits'
  BY <1>5 DEF LoadStatus, Goto, Answer, TypeOK, Credits, Debits, Transfers
<1>6. ASSUME NEW i \in Intents, CheckBalance(i) PROVE StageFits'
  BY <1>6 DEF CheckBalance, Goto, Answer, TypeOK
<1>7. ASSUME NEW i \in Intents, CheckLimits(i) PROVE StageFits'
  BY <1>7 DEF CheckLimits, Goto, Answer, TypeOK
<1>8. ASSUME NEW i \in Intents, StepUp(i) PROVE StageFits'
  BY <1>8 DEF StepUp, Goto, Answer, TypeOK
<1>9. ASSUME NEW i \in Intents, ConfirmWire(i) PROVE StageFits'
  BY <1>9 DEF ConfirmWire, Goto, Answer, TypeOK
<1>10. ASSUME NEW i \in Intents, NEW seq, Then(i, seq) PROVE StageFits'
  BY <1>10 DEF Then, TypeOK
<1>11. ASSUME NEW i \in Intents,
              CommitPosting(i) \/ CommitHold(i) \/ CommitApproval(i)
                \/ CommitRejection(i) \/ CommitTransition(i)
       PROVE  StageFits'
  BY <1>10, <1>11 DEF CommitPosting, CommitHold, CommitApproval, CommitRejection,
                      CommitTransition
<1>12. ASSUME NEW i \in Intents, SideEffect(i) PROVE StageFits'
  BY <1>12 DEF SideEffect
<1>13. ASSUME NEW i \in Intents, Respond(i) PROVE StageFits'
  BY <1>13 DEF Respond, Answer, TypeOK
<1>14. ASSUME NEW i \in Intents, Fail(i) PROVE StageFits'
  BY <1>14 DEF Fail, Answer, TypeOK
<1>15. QED
  BY <1>1, <1>2, <1>3, <1>4, <1>5, <1>6, <1>7, <1>8, <1>9, <1>11, <1>12, <1>13,
     <1>14 DEF Next, Handle

\* Reading, deciding and answering leave the books alone.
LEMMA WalkStep ==
  ASSUME BookInv, NEW i \in Intents, UNCHANGED <<database, effects>>,
         \/ stage[i] \in Uncommitted /\ \E s \in Uncommitted : Goto(i, s)
         \/ \E r \in Replies : Answer(i, r)
  PROVE  Books'
<1>1. /\ \A j \in Intents : stage'[j] \in {stage[j], "idle"} \/ (j = i /\ stage[i] \in Uncommitted)
      /\ stage'[i] = "idle" \/ (stage[i] \in Uncommitted /\ stage'[i] \in Uncommitted)
      /\ \A j \in Intents : tail'[j] = tail[j] \/ tail'[j] = << >>
      /\ stage'[i] = "idle" => tail'[i] = << >>
      /\ \A j \in Intents \ {i} : stage'[j] = stage[j] /\ tail'[j] = tail[j]
      /\ target' = target /\ tries' = tries
      /\ txns' = txns /\ journal' = journal /\ effects' = effects
  BY DEF BookInv, TypeOK, Goto, Answer, Uncommitted, database
<1>2. TargetsFit'
  BY <1>1 DEF BookInv, Books, TargetsFit, Busy, Uncommitted
<1>3. TailsFit'
  BY <1>1 DEF BookInv, Books, TailsFit, Announceable, Uncommitted
<1>4. QED
  BY <1>1, <1>2, <1>3 DEF BookInv, Books, TermsKept, HeldMoneyDoesNotMove,
     CompletedIsPosted, AnnouncedIsPosted

\* What every commit knows: whose transaction it writes.
LEMMA CommitTarget ==
  ASSUME BookInv, NEW i \in Intents, stage[i] \in Uncommitted
  PROVE  /\ target[i] \in TxnIds
         /\ Request[i].op \notin Reviews =>
              target[i] = <<i, tries[i]>> /\ target[i][1] = i /\ txns[target[i]] = NoTxn
         /\ Request[i].op \in Reviews => txns[target[i]].approval # "NONE"
         /\ Request[i].op \in Credits \cup Debits =>
              \A j \in Intents \ {i} : stage[j] \in Uncommitted => target[j] # target[i]
         /\ \A j \in Intents, n \in 1..MaxTries :
              n > tries[j] => <<j, n>> # target[i]
<1>1. target[i] \in TxnIds /\ tries[i] \in 0..MaxTries
  BY DEF BookInv, TypeOK
<1>2. CASE Request[i].op \in Reviews
  <2>1. txns[target[i]].approval # "NONE"
    BY <1>2 DEF BookInv, Books, TargetsFit, Busy, Uncommitted
  <2>2. Request[i].op \notin Credits \cup Debits
    BY <1>2 DEF Reviews, Credits, Debits, Transfers
  <2>3. txns[target[i]] # NoTxn
    BY <2>1 DEF NoTxn
  <2>4. \A j \in Intents, n \in 1..MaxTries : n > tries[j] => <<j, n>> # target[i]
    BY <2>3 DEF BookInv, Books, TargetsFit
  <2>5. QED
    BY <1>1, <1>2, <2>1, <2>2, <2>4
<1>3. CASE Request[i].op \notin Reviews
  <2>1. target[i] = <<i, tries[i]>> /\ txns[target[i]] = NoTxn
    BY <1>3 DEF BookInv, Books, TargetsFit
  <2>2. target[i][1] = i
    BY <2>1
  <2>3. ASSUME NEW j \in Intents, target[j] = target[i], j # i, stage[j] \in Uncommitted
        PROVE  FALSE
    <3>1. CASE Request[j].op \in Reviews
      BY <2>1, <2>3, <3>1 DEF BookInv, Books, TargetsFit, NoTxn, Busy, Uncommitted
    <3>2. CASE Request[j].op \notin Reviews
      BY <2>1, <2>3, <3>2 DEF BookInv, Books, TargetsFit
    <3>3. QED
      BY <3>1, <3>2
  <2>4. ASSUME NEW j \in Intents, NEW n \in 1..MaxTries, n > tries[j]
        PROVE  <<j, n>> # target[i]
    BY <1>1, <2>1, <2>4
  <2>5. QED
    BY <1>1, <1>3, <2>1, <2>2, <2>3, <2>4
<1>4. QED
  BY <1>2, <1>3

\* A new transaction row takes the place of a blank one.
LEMMA FreshCommit ==
  ASSUME BookInv, NEW i \in Intents, stage[i] \in Uncommitted,
         Request[i].op \in Credits \cup Debits,
         NEW status, status # "NONE", NEW approval, NEW seq,
         txns' = [txns EXCEPT ![target[i]] = NewTxn(i, status, approval)],
         Then(i, seq)
  PROVE  TargetsFit' /\ TermsKept'
<1>1. /\ target[i] \in TxnIds
      /\ target[i][1] = i
      /\ txns[target[i]] = NoTxn
      /\ \A j \in Intents \ {i} : stage[j] \in Uncommitted => target[j] # target[i]
      /\ \A j \in Intents, n \in 1..MaxTries : n > tries[j] => <<j, n>> # target[i]
      /\ Request[i].op \notin Reviews
  BY CommitTarget DEF Reviews, Credits, Debits, Transfers
<1>2. /\ \A u \in TxnIds \ {target[i]} : txns'[u] = txns[u]
      /\ txns'[target[i]] = NewTxn(i, status, approval)
      /\ \A j \in Intents : stage'[j] = IF j = i THEN "after" ELSE stage[j]
      /\ target' = target /\ tries' = tries
      /\ \A j \in Intents : target[j] \in TxnIds
  BY <1>1 DEF BookInv, TypeOK, Then
<1>3. TargetsFit'
  <2>1. ASSUME NEW j \in Intents, Request[j].op \in Reviews, Busy(j)'
        PROVE  txns'[target'[j]].approval # "NONE"
    <3>1. j # i /\ Busy(j)
      BY <1>1, <1>2, <2>1 DEF Busy
    <3>2. txns[target[j]].approval # "NONE"
      BY <2>1, <3>1 DEF BookInv, Books, TargetsFit
    <3>3. target[j] # target[i]
      BY <1>1, <3>2 DEF NoTxn
    <3>4. QED
      BY <1>2, <3>2, <3>3
  <2>2. ASSUME NEW j \in Intents, Request[j].op \notin Reviews, stage'[j] \in Uncommitted
        PROVE  target'[j] = <<j, tries'[j]>> /\ txns'[target'[j]] = NoTxn
    <3>1. j # i /\ stage[j] \in Uncommitted
      BY <1>2, <2>2 DEF Uncommitted
    <3>2. QED
      BY <1>1, <1>2, <2>2, <3>1 DEF BookInv, Books, TargetsFit
  <2>3. ASSUME NEW j \in Intents, NEW n \in 1..MaxTries, n > tries'[j]
        PROVE  txns'[<<j, n>>] = NoTxn
    BY <1>1, <1>2, <2>3, TxnIdParts DEF BookInv, Books, TargetsFit
  <2>4. QED
    BY <2>1, <2>2, <2>3 DEF TargetsFit
<1>4. TermsKept'
  BY <1>1, <1>2 DEF BookInv, Books, TermsKept, NewTxn
<1>5. QED
  BY <1>3, <1>4

\* A review resolves a transaction that keeps its terms.
LEMMA ReviewCommit ==
  ASSUME BookInv, NEW i \in Intents, stage[i] \in Uncommitted,
         Request[i].op \in Reviews, NEW status, status # "NONE",
         NEW approval, approval # "NONE", NEW seq,
         txns' = [txns EXCEPT ![target[i]].status = status,
                              ![target[i]].approval = approval],
         Then(i, seq)
  PROVE  /\ TargetsFit' /\ TermsKept'
         /\ target[i] \in TxnIds
         /\ \A u \in TxnIds \ {target[i]} : txns'[u] = txns[u]
         /\ txns'[target[i]].status = status
<1>1. /\ target[i] \in TxnIds
      /\ txns[target[i]].approval # "NONE"
      /\ \A j \in Intents, n \in 1..MaxTries : n > tries[j] => <<j, n>> # target[i]
  BY CommitTarget
<1>2. /\ txns \in [TxnIds -> Txn]
      /\ \A j \in Intents : target[j] \in TxnIds
      /\ stage \in [Intents -> Stages]
  BY DEF BookInv, TypeOK
<1>3. txns[target[i]] \in Txn
  BY <1>1, <1>2
<1>4. /\ txns'[target[i]].status = status
      /\ txns'[target[i]].approval = approval
      /\ txns'[target[i]].src = txns[target[i]].src
      /\ txns'[target[i]].dst = txns[target[i]].dst
      /\ txns'[target[i]].amount = txns[target[i]].amount
      /\ \A u \in TxnIds \ {target[i]} : txns'[u] = txns[u]
  BY <1>1, <1>2, <1>3 DEF Txn
<1>5. /\ \A j \in Intents : stage'[j] = IF j = i THEN "after" ELSE stage[j]
      /\ target' = target /\ tries' = tries
  BY <1>2 DEF Then
<1>6. txns[target[i]] # NoTxn
  BY <1>1 DEF NoTxn
<1>7. TargetsFit'
  <2>1. ASSUME NEW j \in Intents, Request[j].op \in Reviews, Busy(j)'
        PROVE  txns'[target'[j]].approval # "NONE"
    <3>1. Busy(j)
      BY <1>5, <2>1 DEF Busy, Uncommitted
    <3>2. txns[target[j]].approval # "NONE"
      BY <2>1, <3>1 DEF BookInv, Books, TargetsFit
    <3>3. QED
      BY <1>2, <1>4, <1>5, <3>2
  <2>2. ASSUME NEW j \in Intents, Request[j].op \notin Reviews, stage'[j] \in Uncommitted
        PROVE  target'[j] = <<j, tries'[j]>> /\ txns'[target'[j]] = NoTxn
    <3>1. j # i /\ stage[j] \in Uncommitted
      BY <1>5, <2>2
    <3>2. target[j] = <<j, tries[j]>> /\ txns[target[j]] = NoTxn
      BY <2>2, <3>1 DEF BookInv, Books, TargetsFit
    <3>3. QED
      BY <1>2, <1>4, <1>5, <1>6, <3>2
  <2>3. ASSUME NEW j \in Intents, NEW n \in 1..MaxTries, n > tries'[j]
        PROVE  txns'[<<j, n>>] = NoTxn
    BY <1>1, <1>4, <1>5, <2>3, TxnIdParts DEF BookInv, Books, TargetsFit
  <2>4. QED
    BY <2>1, <2>2, <2>3 DEF TargetsFit
<1>8. TermsKept'
  BY <1>1, <1>4, <1>6 DEF BookInv, Books, TermsKept
<1>9. QED
  BY <1>1, <1>4, <1>7, <1>8

\* The journal only grows, so what could be announced still can.
LEMMA TailsStep ==
  ASSUME BookInv, NEW i \in Intents, NEW seq, Then(i, seq),
         \A u \in TxnIds : EntriesOf(journal, u) \subseteq EntriesOf(journal', u),
         \/ EntriesOf(journal', target[i]) # {}
         \/ Request[target[i][1]].op = "transition"
         \/ \A k \in 1..Len(seq) : seq[k] \notin {"publish", "receipt"}
  PROVE  TailsFit'
<1>1. /\ \A j \in Intents : stage'[j] = IF j = i THEN "after" ELSE stage[j]
      /\ \A j \in Intents : tail'[j] = IF j = i THEN seq ELSE tail[j]
      /\ target' = target
      /\ \A j \in Intents : target[j] \in TxnIds
  BY DEF BookInv, TypeOK, Then
<1>2. ASSUME NEW j \in Intents
      PROVE  IF stage'[j] = "after" THEN Announceable(j)' ELSE tail'[j] = << >>
  <2>1. CASE j = i
    BY <1>1, <2>1 DEF Announceable
  <2>2. CASE j # i
    BY <1>1, <2>2 DEF BookInv, Books, TailsFit, Announceable
  <2>3. QED
    BY <2>1, <2>2
<1>3. QED
  BY <1>2 DEF TailsFit

\* A posting books exactly the transaction that it completes.
LEMMA PostStep ==
  ASSUME BookInv, NEW i \in Intents, NEW m, NEW seq,
         target[i] \in TxnIds, Post(target[i], m), Then(i, seq),
         txns'[target[i]].status = "COMPLETED",
         \A u \in TxnIds \ {target[i]} : txns'[u] = txns[u],
         LET r == Request[target[i][1]]
         IN  m.src = r.src /\ m.dst = r.dst /\ m.amount = r.amount,
         effects' = effects
  PROVE  TailsFit' /\ HeldMoneyDoesNotMove' /\ CompletedIsPosted' /\ AnnouncedIsPosted'
<1> DEFINE t == target[i]
           last == Len(journal) + 1
<1>1. /\ \A u \in TxnIds : u # t => EntriesOf(journal', u) = EntriesOf(journal, u)
      /\ EntriesOf(journal', t) = EntriesOf(journal, t) \cup {last}
      /\ journal'[last] = Entry(t, m.src, m.dst, m.amount)
      /\ \A n \in DOMAIN journal : journal'[n] = journal[n]
  BY PostEntries DEF BookInv
<1>2. \A u \in TxnIds : EntriesOf(journal, u) \subseteq DOMAIN journal
  BY DEF EntriesOf
<1>3. \A u \in TxnIds : EntriesOf(journal, u) \subseteq EntriesOf(journal', u)
  BY <1>1
<1>4. TailsFit'
  BY <1>1, <1>3, TailsStep
<1>5. HeldMoneyDoesNotMove'
  BY <1>1 DEF BookInv, Books, HeldMoneyDoesNotMove
<1>6. CompletedIsPosted'
  <2>1. ASSUME NEW u \in TxnIds
        PROVE  /\ txns'[u].status = "COMPLETED" => EntriesOf(journal', u) # {}
               /\ \A n \in EntriesOf(journal', u) :
                    journal'[n] = Entry(u, Request[u[1]].src, Request[u[1]].dst,
                                        Request[u[1]].amount)
    <3>1. CASE u = t
      BY <1>1, <1>2, <3>1 DEF BookInv, Books, CompletedIsPosted
    <3>2. CASE u # t
      BY <1>1, <1>2, <3>2 DEF BookInv, Books, CompletedIsPosted
    <3>3. QED
      BY <3>1, <3>2
  <2>2. QED
    BY <2>1 DEF CompletedIsPosted
<1>7. AnnouncedIsPosted'
  <2>1. \A p \in effects : p[2] \in TxnIds
    BY DEF BookInv, TypeOK
  <2>2. QED
    BY <1>3, <2>1 DEF BookInv, Books, AnnouncedIsPosted
<1>8. QED
  BY <1>4, <1>5, <1>6, <1>7

\* A commit without a posting leaves the journal and the announcements alone.
LEMMA NoPostStep ==
  ASSUME BookInv, NEW i \in Intents, NEW seq, Then(i, seq),
         UNCHANGED <<journal, effects>>,
         \A u \in TxnIds : \/ txns'[u] = txns[u]
                            \/ /\ txns'[u].status = "PENDING"
                               /\ txns[u] = NoTxn
                            \/ txns'[u].status = "REJECTED",
         \/ Request[target[i][1]].op = "transition"
         \/ \A k \in 1..Len(seq) : seq[k] \notin {"publish", "receipt"}
  PROVE  TailsFit' /\ HeldMoneyDoesNotMove' /\ CompletedIsPosted' /\ AnnouncedIsPosted'
<1>1. \A u \in TxnIds : EntriesOf(journal', u) = EntriesOf(journal, u)
  OBVIOUS
<1>2. TailsFit'
  BY <1>1, TailsStep
<1>3. HeldMoneyDoesNotMove'
  BY <1>1 DEF BookInv, Books, HeldMoneyDoesNotMove, NoTxn
<1>4. CompletedIsPosted'
  BY <1>1 DEF BookInv, Books, CompletedIsPosted
<1>5. AnnouncedIsPosted'
  BY <1>1 DEF BookInv, Books, AnnouncedIsPosted
<1>6. QED
  BY <1>2, <1>3, <1>4, <1>5

LEMMA BookStep == BookInv /\ [Next]_vars => Books'
<1> SUFFICES ASSUME BookInv, [Next]_vars PROVE Books'
  OBVIOUS
<1>1. CASE UNCHANGED vars
  BY <1>1 DEF vars, BookInv, Books, TargetsFit, TermsKept, TailsFit, Announceable, Busy,
     HeldMoneyDoesNotMove, CompletedIsPosted, AnnouncedIsPosted
<1>2. ASSUME NEW i \in Intents, Submit(i) PROVE Books'
  <2>1. PICK t \in TxnIds :
          /\ IF Request[i].op \in Reviews THEN txns[t].approval # "NONE"
                                          ELSE t = <<i, tries[i] + 1>>
          /\ target' = [target EXCEPT ![i] = t]
    BY <1>2 DEF Submit
  <2>2. /\ \A j \in Intents : stage'[j] = IF j = i THEN "load" ELSE stage[j]
        /\ \A j \in Intents : tries'[j] = IF j = i THEN tries[i] + 1 ELSE tries[j]
        /\ \A j \in Intents : target'[j] = IF j = i THEN t ELSE target[j]
        /\ tries[i] \in Nat /\ tries[i] + 1 \in 1..MaxTries
        /\ txns' = txns /\ journal' = journal /\ effects' = effects /\ tail' = tail
        /\ stage[i] = "idle"
    BY <1>2, <2>1, ConstantsFit DEF Submit, Busy, BookInv, TypeOK, database
  <2>3. TargetsFit'
    BY <2>1, <2>2, TxnIdParts DEF BookInv, Books, TargetsFit, Busy
  <2>4. TailsFit'
    BY <2>2 DEF BookInv, Books, TailsFit, Announceable
  <2>5. QED
    BY <2>2, <2>3, <2>4 DEF BookInv, Books, TermsKept, HeldMoneyDoesNotMove,
       CompletedIsPosted, AnnouncedIsPosted
<1>3. ASSUME NEW i \in Intents,
             \/ LoadAccounts(i) \/ LoadHeld(i) \/ LoadStatus(i) \/ CheckBalance(i)
             \/ CheckLimits(i) \/ StepUp(i) \/ ConfirmWire(i)
      PROVE  Books'
  <2>1. /\ UNCHANGED <<database, effects>>
        /\ \/ stage[i] \in Uncommitted /\ \E s \in Uncommitted : Goto(i, s)
           \/ \E r \in Replies : Answer(i, r)
    BY <1>3 DEF LoadAccounts, LoadHeld, LoadStatus, CheckBalance, CheckLimits, StepUp,
       ConfirmWire, Uncommitted, Replies
  <2>2. QED
    BY <2>1, WalkStep
<1>4. ASSUME NEW i \in Intents, Respond(i) \/ Fail(i) PROVE Books'
  <2>1. UNCHANGED <<database, effects>> /\ \E r \in Replies : Answer(i, r)
    BY <1>4 DEF Respond, Fail, Replies
  <2>2. QED
    BY <2>1, WalkStep
<1>5. ASSUME NEW i \in Intents, CommitPosting(i) PROVE Books'
  <2>1. /\ stage[i] \in Uncommitted
        /\ Request[i].op \in Credits \cup Debits
        /\ txns' = [txns EXCEPT ![target[i]] = NewTxn(i, "COMPLETED", "NONE")]
        /\ Post(target[i], Request[i])
        /\ Then(i, PostedEffects(Request[i].op))
        /\ effects' = effects
    BY <1>5 DEF CommitPosting, Uncommitted
  <2>2. target[i] \in TxnIds /\ target[i][1] = i
    BY <2>1, CommitTarget DEF Reviews, Credits, Debits, Transfers
  <2>3. TargetsFit' /\ TermsKept'
    BY <2>1, FreshCommit
  <2>4. /\ txns'[target[i]].status = "COMPLETED"
        /\ \A u \in TxnIds \ {target[i]} : txns'[u] = txns[u]
    BY <2>1, <2>2 DEF BookInv, TypeOK, NewTxn
  <2>5. TailsFit' /\ HeldMoneyDoesNotMove' /\ CompletedIsPosted' /\ AnnouncedIsPosted'
    BY <2>1, <2>2, <2>4, PostStep
  <2>6. QED
    BY <2>3, <2>5 DEF Books
<1>6. ASSUME NEW i \in Intents, CommitHold(i) PROVE Books'
  <2>1. /\ stage[i] \in Uncommitted
        /\ Request[i].op \in Credits \cup Debits
    BY <1>6 DEF CommitHold, BookInv, StageFits, Uncommitted, Debits, Transfers
  <2>2. /\ target[i] \in TxnIds
        /\ txns[target[i]] = NoTxn
    BY <2>1, CommitTarget DEF Reviews, Credits, Debits, Transfers
  <2>3. TargetsFit' /\ TermsKept'
    BY <1>6, <2>1, FreshCommit DEF CommitHold
  <2>4. /\ txns'[target[i]].status = "PENDING"
        /\ \A u \in TxnIds \ {target[i]} : txns'[u] = txns[u]
    BY <1>6, <2>2 DEF CommitHold, BookInv, TypeOK, NewTxn
  <2>5. \A k \in 1..Len(<<"audit", "email">>) :
          <<"audit", "email">>[k] \notin {"publish", "receipt"}
    OBVIOUS
  <2>6. TailsFit' /\ HeldMoneyDoesNotMove' /\ CompletedIsPosted' /\ AnnouncedIsPosted'
    BY <1>6, <2>2, <2>4, <2>5, NoPostStep DEF CommitHold
  <2>7. QED
    BY <2>3, <2>6 DEF Books
<1>7. ASSUME NEW i \in Intents, CommitApproval(i) PROVE Books'
  <2>1. stage[i] \in Uncommitted /\ Request[i].op \in Reviews
    BY <1>7 DEF CommitApproval, Uncommitted, Reviews
  <2>2. /\ TargetsFit' /\ TermsKept'
        /\ target[i] \in TxnIds
        /\ \A u \in TxnIds \ {target[i]} : txns'[u] = txns[u]
        /\ txns'[target[i]].status = "COMPLETED"
    BY <1>7, <2>1, ReviewCommit DEF CommitApproval
  <2>3. txns[target[i]] # NoTxn
    BY <2>1, CommitTarget DEF NoTxn
  <2>4. TailsFit' /\ HeldMoneyDoesNotMove' /\ CompletedIsPosted' /\ AnnouncedIsPosted'
    BY <1>7, <2>2, <2>3, PostStep DEF CommitApproval, BookInv, Books, TermsKept
  <2>5. QED
    BY <2>2, <2>4 DEF Books
<1>8. ASSUME NEW i \in Intents, CommitRejection(i) PROVE Books'
  <2>1. stage[i] \in Uncommitted /\ Request[i].op \in Reviews
    BY <1>8 DEF CommitRejection, Uncommitted, Reviews
  <2>2. /\ TargetsFit' /\ TermsKept'
        /\ target[i] \in TxnIds
        /\ \A u \in TxnIds \ {target[i]} : txns'[u] = txns[u]
        /\ txns'[target[i]].status = "REJECTED"
    BY <1>8, <2>1, ReviewCommit DEF CommitRejection
  <2>3. \A k \in 1..Len(<<"audit", "email">>) :
          <<"audit", "email">>[k] \notin {"publish", "receipt"}
    OBVIOUS
  <2>4. TailsFit' /\ HeldMoneyDoesNotMove' /\ CompletedIsPosted' /\ AnnouncedIsPosted'
    BY <1>8, <2>2, <2>3, NoPostStep DEF CommitRejection
  <2>5. QED
    BY <2>2, <2>4 DEF Books
<1>9. ASSUME NEW i \in Intents, CommitTransition(i) PROVE Books'
  <2>1. stage[i] \in Uncommitted /\ Request[i].op = "transition"
    BY <1>9 DEF CommitTransition, Uncommitted
  <2>2. /\ target[i] \in TxnIds
        /\ Request[target[i][1]].op = "transition"
    BY <2>1, CommitTarget DEF Reviews
  <2>3. Then(i, <<"audit", "publish">>) /\ UNCHANGED <<txns, journal, effects>>
    BY <1>9 DEF CommitTransition
  <2>4. TailsFit' /\ HeldMoneyDoesNotMove' /\ CompletedIsPosted' /\ AnnouncedIsPosted'
    BY <2>2, <2>3, NoPostStep
  <2>5. TargetsFit'
    BY <2>1, <2>3 DEF Then, BookInv, Books, TargetsFit, Busy, Reviews, Uncommitted, TypeOK
  <2>6. TermsKept'
    BY <2>3 DEF BookInv, Books, TermsKept
  <2>7. QED
    BY <2>4, <2>5, <2>6 DEF Books
<1>10. ASSUME NEW i \in Intents, SideEffect(i) PROVE Books'
  <2>1. /\ stage[i] = "after" /\ tail[i] # << >> /\ tail[i] \in Seq(Effects)
        /\ target[i] \in TxnIds
        /\ effects' = effects \cup {<<Head(tail[i]), target[i]>>}
        /\ \A j \in Intents : tail'[j] = IF j = i THEN Tail(tail[i]) ELSE tail[j]
        /\ UNCHANGED <<txns, journal, stage, target, tries>>
    BY <1>10 DEF SideEffect, BookInv, TypeOK, database
  <2>2. /\ 1 \in 1..Len(tail[i]) /\ tail[i][1] = Head(tail[i])
        /\ \A k \in 1..Len(Tail(tail[i])) :
             k + 1 \in 1..Len(tail[i]) /\ Tail(tail[i])[k] = tail[i][k + 1]
    BY <2>1
  <2>3. Announceable(i)
    BY <2>1 DEF BookInv, Books, TailsFit
  <2>4. Announceable(i)'
    BY <2>1, <2>2, <2>3 DEF Announceable
  <2>5. TailsFit'
    BY <2>1, <2>4 DEF BookInv, Books, TailsFit, Announceable
  <2>6. AnnouncedIsPosted'
    BY <2>1, <2>2, <2>3 DEF BookInv, Books, AnnouncedIsPosted, Announceable
  <2>7. QED
    BY <2>1, <2>5, <2>6 DEF BookInv, Books, TargetsFit, TermsKept, Busy,
       HeldMoneyDoesNotMove, CompletedIsPosted
<1>11. QED
  BY <1>1, <1>2, <1>3, <1>4, <1>5, <1>6, <1>7, <1>8, <1>9, <1>10 DEF Next, Handle

\* The inductive invariant holds in every reachable state.
LEMMA BooksHold == Spec => []BookInv
<1>1. Init => BookInv
  <2>1. ASSUME Init PROVE TypeOK
    BY <2>1, InitTypes
  <2>2. ASSUME Init PROVE StageFits
    BY <2>2 DEF Init, StageFits, Uncommitted
  <2>3. ASSUME Init PROVE Books
    BY <2>3, TxnIdParts DEF Init, Books, TargetsFit, TermsKept, TailsFit, HeldMoneyDoesNotMove,
       CompletedIsPosted, AnnouncedIsPosted, Busy, Uncommitted, EntriesOf, NoTxn
  <2>4. QED
    BY <2>1, <2>2, <2>3 DEF BookInv
<1>2. BookInv /\ [Next]_vars => BookInv'
  BY TypeStep, StageStep, BookStep DEF BookInv
<1>3. QED
  BY <1>1, <1>2, PTL DEF Spec

\* Who may change a transaction row.
LEMMA TxnWrites ==
  ASSUME BookInv, NEW i \in Intents, Handle(i) \/ Fail(i), NEW t \in TxnIds
  PROVE  \/ txns'[t] = txns[t]
         \/ /\ t = target[i] /\ Request[i].op \in Credits \cup Debits
            /\ txns[t] = NoTxn
         \/ /\ t = target[i] /\ Request[i].op \in Reviews
            /\ stage[i] = "commit" /\ stage'[i] = "after"
<1>1. CASE CommitPosting(i) \/ CommitHold(i)
  <2>1. stage[i] \in Uncommitted /\ Request[i].op \in Credits \cup Debits
    BY <1>1 DEF CommitPosting, CommitHold, BookInv, StageFits, Uncommitted, Debits, Transfers
  <2>2. txns[target[i]] = NoTxn
    BY <2>1, CommitTarget DEF Reviews, Credits, Debits, Transfers
  <2>3. \E v : txns' = [txns EXCEPT ![target[i]] = v]
    BY <1>1 DEF CommitPosting, CommitHold
  <2>4. QED
    BY <2>1, <2>2, <2>3 DEF BookInv, TypeOK
<1>2. CASE CommitApproval(i) \/ CommitRejection(i)
  <2>1. stage[i] = "commit" /\ Request[i].op \in Reviews /\ \E seq : Then(i, seq)
    BY <1>2 DEF CommitApproval, CommitRejection, Reviews
  <2>2. \E s, a : txns' = [txns EXCEPT ![target[i]].status = s, ![target[i]].approval = a]
    BY <1>2 DEF CommitApproval, CommitRejection
  <2>3. stage'[i] = "after"
    BY <2>1 DEF Then, BookInv, TypeOK
  <2>4. QED
    BY <2>1, <2>2, <2>3 DEF BookInv, TypeOK
<1>3. CASE /\ ~CommitPosting(i) /\ ~CommitHold(i) /\ ~CommitApproval(i) /\ ~CommitRejection(i)
  BY <1>3 DEF Handle, Fail, LoadAccounts, LoadHeld, LoadStatus, CheckBalance, CheckLimits,
     StepUp, ConfirmWire, CommitTransition, SideEffect, Respond, database
<1>4. QED
  BY <1>1, <1>2, <1>3

\* A transfer held for review has not moved money, whatever else happens.
THEOREM HeldMoneyIsSafe == Spec => []HeldMoneyDoesNotMove
<1>1. BookInv => HeldMoneyDoesNotMove
  BY DEF BookInv, Books
<1>2. QED
  BY <1>1, BooksHold, PTL

\* "Completed" is only said of posted transactions, on the customer's terms.
THEOREM CompletedMeansPosted == Spec => []CompletedIsPosted
<1>1. BookInv => CompletedIsPosted
  BY DEF BookInv, Books
<1>2. QED
  BY <1>1, BooksHold, PTL

\* Completion events and receipts only ever speak of posted transactions.
THEOREM AnnouncedMeansPosted == Spec => []AnnouncedIsPosted
<1>1. BookInv => AnnouncedIsPosted
  BY DEF BookInv, Books
<1>2. QED
  BY <1>1, BooksHold, PTL

-----------------------------------------------------------------------------
(* The projection.  One posting adds one line to the debits of one account *)
(* and one to the credits of another, so both sides of BalanceReconciles   *)
(* move by the same amount.                                                *)

DebitLines(j, a) == {n \in DOMAIN j : j[n].debit = a}
CreditLines(j, a) == {n \in DOMAIN j : j[n].credit = a}

LEMMA DerivedIs ==
  ASSUME NEW j
  PROVE  Derived(InitBalance, j) =
           [a \in Accounts |-> InitBalance[a] - TotalOf(j, DebitLines(j, a))
                                              + TotalOf(j, CreditLines(j, a))]
<1>1. DOMAIN InitBalance = Accounts
  BY ConstantsFit
<1> QED
  BY <1>1 DEF Derived, LineTotal, DebitLines, CreditLines

\* A line more adds its amount to the lines it is selected by.
LEMMA TotalAppend ==
  ASSUME NEW n \in Nat, NEW S \in SUBSET (1..n),
         \A k \in 1..n : journal'[k] = journal[k],
         \A k \in 1..(n + 1) : journal'[k].amount \in Int
  PROVE  /\ TotalOf(journal', S) = TotalOf(journal, S) /\ TotalOf(journal, S) \in Int
         /\ TotalOf(journal', S \cup {n + 1}) = journal'[n + 1].amount + TotalOf(journal, S)
<1>1. IsFiniteSet(S)
  <2>1. IsFiniteSet(1..n)
    BY FS_Interval
  <2> QED
    BY <2>1, FS_Subset
<1>2. TotalOf(journal', S) = TotalOf(journal, S)
  <2>1. \A m \in S : journal'[m].amount = journal[m].amount
    OBVIOUS
  <2> QED
    BY <1>1, <2>1, TotalAgrees
<1>3. n + 1 \notin S /\ \A m \in S \cup {n + 1} : journal'[m].amount \in Int
  <2>1. ASSUME NEW m \in S \cup {n + 1} PROVE m \in 1..(n + 1)
    OBVIOUS
  <2>2. n + 1 \notin S
    OBVIOUS
  <2> QED
    BY <2>1, <2>2
<1>4. TotalOf(journal', S) \in Int
  BY <1>1, <1>3, TotalType
<1>5. TotalOf(journal', S \cup {n + 1}) = journal'[n + 1].amount + TotalOf(journal', S)
  BY <1>1, <1>3, TotalWith
<1> QED
  BY <1>2, <1>4, <1>5

LEMMA ElementInRange == \A R : \A s \in Seq(R) : \A k \in 1..Len(s) : s[k] \in R
OBVIOUS

LEMMA ReconcileStep ==
  ASSUME TypeOK, BalanceReconciles, NEW t \in TxnIds, NEW m,
         m.src \in LedgerAccounts, m.dst \in LedgerAccounts, m.amount \in Nat, Post(t, m)
  PROVE  BalanceReconciles'
<1> DEFINE e == Entry(t, m.src, m.dst, m.amount)
           n == Len(journal)
<1>1. /\ n \in Nat /\ DOMAIN journal = 1..n /\ DOMAIN journal' = 1..(n + 1)
      /\ \A k \in 1..n : journal'[k] = journal[k] /\ journal[k].amount \in Nat
      /\ journal'[n + 1] = e
  <2>1. journal' = Append(journal, e)
    BY DEF Post
  <2> HIDE DEF e
  <2>2. /\ DOMAIN journal = 1..n /\ n \in Nat
        /\ \A k \in 1..n : journal[k].amount \in Nat
    <3>1. DOMAIN journal = 1..n /\ n \in Nat
      BY DEF TypeOK
    <3>2. ASSUME NEW k \in 1..n PROVE journal[k].amount \in Nat
      <4>1. journal \in Seq([txn : TxnIds, debit : LedgerAccounts, credit : LedgerAccounts,
                             amount : Nat])
        BY DEF TypeOK
      <4>2. journal[k] \in [txn : TxnIds, debit : LedgerAccounts, credit : LedgerAccounts,
                            amount : Nat]
        BY <4>1, ElementInRange
      <4> QED
        BY <4>2
    <3> QED
      BY <3>1, <3>2
  <2>3. /\ DOMAIN journal' = 1..(n + 1)
        /\ journal'[n + 1] = e
        /\ \A k \in 1..n : journal'[k] = journal[k]
    BY <2>1, <2>2 DEF TypeOK
  <2> QED
    BY <2>2, <2>3
<1>2. e.debit = m.src /\ e.credit = m.dst /\ e.amount = m.amount
  BY DEF Entry
<1>3. \A k \in 1..(n + 1) : journal'[k].amount \in Int
  <2> HIDE DEF e, n
  <2> QED
    BY <1>1, <1>2
<1>4. ASSUME NEW a \in Accounts
      PROVE  /\ TotalOf(journal', DebitLines(journal', a)) =
                  TotalOf(journal, DebitLines(journal, a)) + (IF a = m.src THEN m.amount ELSE 0)
             /\ TotalOf(journal', CreditLines(journal', a)) =
                  TotalOf(journal, CreditLines(journal, a)) + (IF a = m.dst THEN m.amount ELSE 0)
             /\ TotalOf(journal, DebitLines(journal, a)) \in Int
             /\ TotalOf(journal, CreditLines(journal, a)) \in Int
  <2>1. /\ DebitLines(journal, a) \in SUBSET (1..n)
        /\ CreditLines(journal, a) \in SUBSET (1..n)
        /\ a = m.src => DebitLines(journal', a) = DebitLines(journal, a) \cup {n + 1}
        /\ a # m.src => DebitLines(journal', a) = DebitLines(journal, a)
        /\ a = m.dst => CreditLines(journal', a) = CreditLines(journal, a) \cup {n + 1}
        /\ a # m.dst => CreditLines(journal', a) = CreditLines(journal, a)
    <3> HIDE DEF e, n
    <3> QED
      BY <1>1, <1>2 DEF DebitLines, CreditLines
  <2>2. ASSUME NEW S \in SUBSET (1..n)
        PROVE  /\ TotalOf(journal', S) = TotalOf(journal, S) /\ TotalOf(journal, S) \in Int
               /\ TotalOf(journal', S \cup {n + 1}) = m.amount + TotalOf(journal, S)
    <3> HIDE DEF e, n
    <3>1. n \in Nat /\ \A k \in 1..n : journal'[k] = journal[k]
      BY <1>1
    <3>2. /\ TotalOf(journal', S) = TotalOf(journal, S) /\ TotalOf(journal, S) \in Int
          /\ TotalOf(journal', S \cup {n + 1}) = journal'[n + 1].amount + TotalOf(journal, S)
      BY <1>3, <3>1, TotalAppend
    <3> QED
      BY <1>1, <1>2, <3>2
  <2> HIDE DEF n
  <2>3. TotalOf(journal', DebitLines(journal', a)) =
          TotalOf(journal, DebitLines(journal, a)) + (IF a = m.src THEN m.amount ELSE 0)
    <3>1. CASE a = m.src
      <4>1. TotalOf(journal', DebitLines(journal, a) \cup {n + 1}) =
              m.amount + TotalOf(journal, DebitLines(journal, a))
        BY <2>1, <2>2
      <4> QED
        BY <2>1, <2>2, <3>1, <4>1
    <3>2. CASE a # m.src
      <4>1. TotalOf(journal', DebitLines(journal, a)) = TotalOf(journal, DebitLines(journal, a))
        BY <2>1, <2>2
      <4>2. DebitLines(journal', a) = DebitLines(journal, a)
        BY <2>1, <3>2
      <4>3. TotalOf(journal, DebitLines(journal, a)) \in Int
        BY <2>1, <2>2
      <4> QED
        BY <3>2, <4>1, <4>2, <4>3
    <3> QED
      BY <3>1, <3>2
  <2>4. TotalOf(journal', CreditLines(journal', a)) =
          TotalOf(journal, CreditLines(journal, a)) + (IF a = m.dst THEN m.amount ELSE 0)
    <3>1. CASE a = m.dst
      <4>1. TotalOf(journal', CreditLines(journal, a) \cup {n + 1}) =
              m.amount + TotalOf(journal, CreditLines(journal, a))
        BY <2>1, <2>2
      <4> QED
        BY <2>1, <2>2, <3>1, <4>1
    <3>2. CASE a # m.dst
      <4>1. TotalOf(journal', CreditLines(journal, a)) = TotalOf(journal, CreditLines(journal, a))
        BY <2>1, <2>2
      <4>2. CreditLines(journal', a) = CreditLines(journal, a)
        BY <2>1, <3>2
      <4>3. TotalOf(journal, CreditLines(journal, a)) \in Int
        BY <2>1, <2>2
      <4> QED
        BY <3>2, <4>1, <4>2, <4>3
    <3> QED
      BY <3>1, <3>2
  <2> QED
    BY <2>1, <2>2, <2>3, <2>4
<1>5. /\ balance \in [Accounts -> Int] /\ InitBalance \in [Accounts -> Int]
      /\ \A a \in Accounts :
           balance[a] = InitBalance[a] - TotalOf(journal, DebitLines(journal, a))
                                       + TotalOf(journal, CreditLines(journal, a))
  BY ConstantsFit, DerivedIs DEF TypeOK, BalanceReconciles
<1>6. balance' = [a \in Accounts |-> balance[a] - (IF a = m.src THEN m.amount ELSE 0)
                                                + (IF a = m.dst THEN m.amount ELSE 0)]
  BY <1>2, <1>5 DEF Post, Moved
<1>7. ASSUME NEW a \in Accounts
      PROVE  balance'[a] = InitBalance[a] - TotalOf(journal', DebitLines(journal', a))
                                          + TotalOf(journal', CreditLines(journal', a))
  BY <1>4, <1>5, <1>6
<1>8. balance' = [a \in Accounts |-> InitBalance[a] - TotalOf(journal', DebitLines(journal', a))
                                                    + TotalOf(journal', CreditLines(journal', a))]
  BY <1>6, <1>7
<1> QED
  BY <1>8, DerivedIs DEF BalanceReconciles

\* Whatever the interleaving and whatever fails, the balances are those the
\* journal accounts for: no handler's posting overwrites another's.
THEOREM BalancesReconcile == Spec => []BalanceReconciles
<1>1. Init => BalanceReconciles
  <2> SUFFICES ASSUME Init PROVE BalanceReconciles
    OBVIOUS
  <2>1. /\ balance = InitBalance /\ InitBalance \in [Accounts -> Int]
        /\ \A a : DebitLines(journal, a) = {} /\ CreditLines(journal, a) = {}
    BY ConstantsFit DEF Init, DebitLines, CreditLines
  <2>2. TotalOf(journal, {}) = 0
    BY TotalOfNone
  <2>3. Derived(InitBalance, journal) = [a \in Accounts |-> InitBalance[a] - 0 + 0]
    BY <2>1, <2>2, DerivedIs
  <2> QED
    BY <2>1, <2>3 DEF BalanceReconciles
<1>2. ASSUME BookInv, BalanceReconciles, [Next]_vars PROVE BalanceReconciles'
  <2>1. CASE UNCHANGED vars
    BY <1>2, <2>1 DEF vars, BalanceReconciles
  <2>2. ASSUME NEW i \in Intents, CommitPosting(i) PROVE BalanceReconciles'
    BY <1>2, <2>2, RequestType, ReconcileStep DEF CommitPosting, BookInv, TypeOK
  <2>3. ASSUME NEW i \in Intents, CommitApproval(i) PROVE BalanceReconciles'
    BY <1>2, <2>3, ReconcileStep DEF CommitApproval, BookInv, TypeOK, Txn
  <2>4. ASSUME NEW i \in Intents, Submit(i) \/ Handle(i) \/ Fail(i),
               ~CommitPosting(i), ~CommitApproval(i)
        PROVE  UNCHANGED <<balance, journal>>
    BY <2>4 DEF Submit, Handle, Fail, LoadAccounts, LoadHeld, LoadStatus, CheckBalance,
       CheckLimits, StepUp, ConfirmWire, CommitHold, CommitRejection, CommitTransition,
       SideEffect, Respond, database
  <2>5. UNCHANGED <<balance, journal>> => BalanceReconciles'
    BY <1>2 DEF BalanceReconciles
  <2> QED
    BY <1>2, <2>1, <2>2, <2>3, <2>4, <2>5 DEF Next
<1> QED
  BY <1>1, <1>2, BooksHold, PTL DEF Spec

-----------------------------------------------------------------------------
(* Answers.  What a client was told speaks of the transaction of its last  *)
(* submission, which nobody else creates and a review only resolves.       *)

\* A request in progress works on its last submission and has no answer yet.
ReplyFits ==
  \A i \in Intents :
    /\ Busy(i) => reply[i] = "none"
    /\ Busy(i) \/ reply[i] # "none" => tries[i] \in 1..MaxTries
    /\ (Busy(i) /\ Request[i].op \in Credits \cup Debits) => target[i] = <<i, tries[i]>>

\* Past its commit, a request holds a transfer for review, or has booked its
\* transaction and has made or still has to make its announcements.
OnItsWay ==
  \A i \in Intents :
    (stage[i] = "after" /\ Request[i].op \in Credits \cup Debits) =>
      \/ Request[i].op \in Transfers /\ txns[target[i]].approval # "NONE"
      \/ /\ EntriesOf(journal, target[i]) # {}
         /\ \A e \in {"publish", "audit", "receipt"} :
              <<e, target[i]>> \in effects \/ \E k \in 1..Len(tail[i]) : tail[i][k] = e

AnswerInv == ReplyFits /\ OnItsWay /\ AnswersAreTrue

\* A request that is not in progress: what its answer says is about t.
LEMMA AnswerType ==
  ASSUME BookInv, ReplyFits, NEW i \in Intents, reply[i] # "none"
  PROVE  <<i, tries[i]>> \in TxnIds /\ ~Busy(i)
BY DEF ReplyFits, TxnIds

LEMMA JournalGrows ==
  ASSUME BookInv, NEW i \in Intents, Handle(i) \/ Fail(i), NEW u \in TxnIds
  PROVE  EntriesOf(journal, u) \subseteq EntriesOf(journal', u)
<1>1. CASE CommitPosting(i) \/ CommitApproval(i)
  <2>1. target[i] \in TxnIds /\ \E m : Post(target[i], m)
    BY <1>1 DEF CommitPosting, CommitApproval, BookInv, TypeOK
  <2> QED
    BY <2>1, PostEntries DEF BookInv
<1>2. CASE ~CommitPosting(i) /\ ~CommitApproval(i)
  <2>1. journal' = journal
    BY <1>2 DEF Handle, Fail, LoadAccounts, LoadHeld, LoadStatus, CheckBalance, CheckLimits,
       StepUp, ConfirmWire, CommitHold, CommitRejection, CommitTransition, SideEffect,
       Respond, database
  <2> QED
    BY <2>1
<1> QED
  BY <1>1, <1>2

LEMMA ApprovalStays ==
  ASSUME BookInv, NEW i \in Intents, Handle(i) \/ Fail(i), NEW u \in TxnIds,
         txns[u].approval # "NONE"
  PROVE  txns'[u].approval # "NONE"
<1>1. CASE txns'[u] = txns[u]
  BY <1>1
<1>2. CASE txns[u] = NoTxn
  BY <1>2 DEF NoTxn
<1>3. CASE u = target[i] /\ Request[i].op \in Reviews /\ stage[i] = "commit" /\ stage'[i] = "after"
  <2>1. txns \in [TxnIds -> Txn]
    BY DEF BookInv, TypeOK
  <2>2. CASE CommitApproval(i)
    BY <1>3, <2>1, <2>2 DEF CommitApproval, Txn
  <2>3. CASE CommitRejection(i)
    BY <1>3, <2>1, <2>3 DEF CommitRejection, Txn
  <2>4. CASE ~CommitApproval(i) /\ ~CommitRejection(i)
    BY <1>3, <2>4 DEF Handle, Fail, LoadAccounts, LoadHeld, LoadStatus, CheckBalance,
       CheckLimits, StepUp, ConfirmWire, CommitPosting, CommitHold, CommitTransition,
       SideEffect, Respond, database, Reviews, Credits, Debits, Transfers, BookInv, StageFits
  <2> QED
    BY <2>2, <2>3, <2>4
<1> QED
  BY <1>1, <1>2, <1>3, TxnWrites

\* Reading and deciding says nothing yet.
LEMMA QuietStep ==
  ASSUME BookInv, AnswerInv, NEW i \in Intents, UNCHANGED <<database, effects>>,
         stage[i] \in Uncommitted, NEW s \in Uncommitted, Goto(i, s)
  PROVE  AnswerInv'
<1>1. /\ \A j \in Intents : stage'[j] = IF j = i THEN s ELSE stage[j]
      /\ UNCHANGED <<tail, target, tries, reply, txns, journal, effects>>
      /\ s # "idle" /\ s # "after" /\ Busy(i)
  BY DEF Goto, BookInv, TypeOK, Uncommitted, database, Busy
<1>2. ReplyFits'
  BY <1>1 DEF AnswerInv, ReplyFits, Busy
<1>3. OnItsWay'
  BY <1>1 DEF AnswerInv, OnItsWay
<1>4. AnswersAreTrue'
  BY <1>1 DEF AnswerInv, AnswersAreTrue
<1> QED
  BY <1>2, <1>3, <1>4 DEF AnswerInv

\* What may be said of the transaction t of a request.
TrueOf(i, r, t) ==
  /\ r \in {"refused", "mfa"} => txns[t] = NoTxn
  /\ r = "held" => txns[t].approval # "NONE"
  /\ r = "ok" => /\ EntriesOf(journal, t) # {}
                 /\ {"publish", "audit", "receipt"} \X {t} \subseteq effects

\* Answering changes nothing but what has been said.
LEMMA SayStep ==
  ASSUME BookInv, AnswerInv, NEW i \in Intents, Busy(i), UNCHANGED <<database, effects>>,
         NEW r, Answer(i, r),
         Request[i].op \in Credits \cup Debits => TrueOf(i, r, target[i])
  PROVE  AnswerInv'
<1>1. /\ \A j \in Intents : stage'[j] = IF j = i THEN "idle" ELSE stage[j]
      /\ \A j \in Intents : tail'[j] = IF j = i THEN << >> ELSE tail[j]
      /\ \A j \in Intents : reply'[j] = IF j = i THEN r ELSE reply[j]
      /\ UNCHANGED <<target, tries, txns, journal, effects>>
  BY DEF Answer, BookInv, TypeOK, database
<1>2. Request[i].op \in Credits \cup Debits => target[i] = <<i, tries[i]>>
  BY DEF AnswerInv, ReplyFits
<1>3. ReplyFits'
  BY <1>1 DEF AnswerInv, ReplyFits, Busy
<1>4. OnItsWay'
  BY <1>1 DEF AnswerInv, OnItsWay
<1>5. ASSUME NEW j \in Intents, Request[j].op \in Credits \cup Debits
      PROVE  TrueOf(j, reply'[j], <<j, tries[j]>>)
  <2>1. CASE j = i
    BY <1>1, <1>2, <1>5, <2>1
  <2>2. CASE j # i
    BY <1>1, <1>5, <2>2 DEF AnswerInv, AnswersAreTrue, TrueOf
  <2> QED
    BY <2>1, <2>2
<1>6. AnswersAreTrue'
  BY <1>1, <1>5 DEF AnswersAreTrue, TrueOf
<1> QED
  BY <1>3, <1>4, <1>6 DEF AnswerInv

LEMMA SubmitAnswers ==
  ASSUME BookInv, AnswerInv, NEW i \in Intents, Submit(i)
  PROVE  AnswerInv'
<1>1. PICK t \in TxnIds :
        /\ Request[i].op \notin Reviews => t = <<i, tries[i] + 1>>
        /\ target' = [target EXCEPT ![i] = t]
  BY DEF Submit
<1>2. /\ \A j \in Intents : stage'[j] = IF j = i THEN "load" ELSE stage[j]
      /\ \A j \in Intents : tries'[j] = IF j = i THEN tries[i] + 1 ELSE tries[j]
      /\ \A j \in Intents : target'[j] = IF j = i THEN t ELSE target[j]
      /\ \A j \in Intents : reply'[j] = IF j = i THEN "none" ELSE reply[j]
      /\ tries[i] + 1 \in 1..MaxTries
      /\ UNCHANGED <<tail, txns, journal, effects>>
  BY <1>1, ConstantsFit DEF Submit, BookInv, TypeOK, database
<1>3. Request[i].op \in Credits \cup Debits => t = <<i, tries[i] + 1>>
  BY <1>1 DEF Reviews, Credits, Debits, Transfers
<1>4. ReplyFits'
  BY <1>2, <1>3 DEF AnswerInv, ReplyFits, Busy
<1>5. OnItsWay'
  BY <1>2 DEF AnswerInv, OnItsWay
<1>6. AnswersAreTrue'
  BY <1>2 DEF AnswerInv, AnswersAreTrue
<1> QED
  BY <1>4, <1>5, <1>6 DEF AnswerInv

\* A commit touches no transaction somebody else was told about, except to
\* resolve one that is held.
LEMMA CommitAnswers ==
  ASSUME BookInv, AnswerInv, NEW i \in Intents, Handle(i), stage[i] \in Uncommitted,
         NEW seq, Then(i, seq), effects' = effects,
         Request[i].op \in Credits \cup Debits =>
           \/ Request[i].op \in Transfers /\ txns'[target[i]].approval # "NONE"
           \/ /\ EntriesOf(journal', target[i]) # {}
              /\ \A e \in {"publish", "audit", "receipt"} : \E k \in 1..Len(seq) : seq[k] = e
  PROVE  AnswerInv'
<1>1. /\ \A j \in Intents : stage'[j] = IF j = i THEN "after" ELSE stage[j]
      /\ \A j \in Intents : tail'[j] = IF j = i THEN seq ELSE tail[j]
      /\ UNCHANGED <<target, tries, reply>>
      /\ Busy(i)
      /\ target \in [Intents -> TxnIds]
  BY DEF Then, BookInv, TypeOK, Busy, Uncommitted
<1>2. ReplyFits'
  BY <1>1 DEF AnswerInv, ReplyFits, Busy
<1>3. ASSUME NEW j \in Intents, stage'[j] = "after", Request[j].op \in Credits \cup Debits
      PROVE  \/ Request[j].op \in Transfers /\ txns'[target[j]].approval # "NONE"
             \/ /\ EntriesOf(journal', target[j]) # {}
                /\ \A e \in {"publish", "audit", "receipt"} :
                     <<e, target[j]>> \in effects \/ \E k \in 1..Len(tail'[j]) : tail'[j][k] = e
  <2>1. CASE j = i
    BY <1>1, <1>3, <2>1
  <2>2. CASE j # i
    <3>1. \/ Request[j].op \in Transfers /\ txns[target[j]].approval # "NONE"
          \/ /\ EntriesOf(journal, target[j]) # {}
             /\ \A e \in {"publish", "audit", "receipt"} :
                  <<e, target[j]>> \in effects \/ \E k \in 1..Len(tail[j]) : tail[j][k] = e
      BY <1>1, <1>3, <2>2 DEF AnswerInv, OnItsWay
    <3>2. /\ txns[target[j]].approval # "NONE" => txns'[target[j]].approval # "NONE"
          /\ EntriesOf(journal, target[j]) \subseteq EntriesOf(journal', target[j])
      BY <1>1, ApprovalStays, JournalGrows
    <3> QED
      BY <1>1, <2>2, <3>1, <3>2
  <2> QED
    BY <2>1, <2>2
<1>4. OnItsWay'
  BY <1>1, <1>3 DEF OnItsWay
<1>5. ASSUME NEW j \in Intents, Request[j].op \in Credits \cup Debits
      PROVE  TrueOf(j, reply[j], <<j, tries[j]>>)'
  <2>1. CASE reply[j] = "none"
    BY <1>1, <2>1 DEF TrueOf
  <2>2. CASE reply[j] # "none"
    <3> DEFINE t == <<j, tries[j]>>
    <3>1. t \in TxnIds /\ ~Busy(j) /\ j # i
      BY <1>1, <2>2, AnswerType DEF AnswerInv
    <3>2. TrueOf(j, reply[j], t)
      BY <1>5 DEF AnswerInv, AnswersAreTrue, TrueOf
    <3>3. /\ txns[t].approval # "NONE" => txns'[t].approval # "NONE"
          /\ EntriesOf(journal, t) \subseteq EntriesOf(journal', t)
      BY <3>1, ApprovalStays, JournalGrows
    <3>4. txns[t] = NoTxn => txns'[t] = NoTxn
      <4>1. SUFFICES ASSUME txns[t] = NoTxn, t = target[i] PROVE FALSE
        BY <3>1, TxnWrites
      <4>2. Request[i].op \notin Reviews
        BY <4>1, CommitTarget DEF NoTxn
      <4>3. target[i][1] = i /\ t[1] = j
        BY <4>2, CommitTarget
      <4> QED
        BY <3>1, <4>1, <4>3
    <3>5. reply' = reply /\ tries' = tries
      BY <1>1
    <3> HIDE DEF t
    <3>6. TrueOf(j, reply[j], t)'
      BY <3>2, <3>3, <3>4, <3>5 DEF TrueOf, t
    <3> QED
      BY <3>6 DEF t
  <2> QED
    BY <2>1, <2>2
<1>6. AnswersAreTrue'
  BY <1>1, <1>5 DEF AnswersAreTrue, TrueOf
<1> QED
  BY <1>2, <1>4, <1>6 DEF AnswerInv

LEMMA SideEffectAnswers ==
  ASSUME BookInv, AnswerInv, NEW i \in Intents, SideEffect(i)
  PROVE  AnswerInv'
<1>1. /\ tail[i] # << >> /\ tail[i] \in Seq(Effects)
      /\ effects' = effects \cup {<<Head(tail[i]), target[i]>>}
      /\ \A j \in Intents : tail'[j] = IF j = i THEN Tail(tail[i]) ELSE tail[j]
      /\ UNCHANGED <<txns, journal, stage, target, tries, reply>>
  BY DEF SideEffect, BookInv, TypeOK, database
<1>2. \A k \in 1..Len(tail[i]) :
        \/ tail[i][k] = Head(tail[i])
        \/ k - 1 \in 1..Len(Tail(tail[i])) /\ Tail(tail[i])[k - 1] = tail[i][k]
  BY <1>1
<1>3. ReplyFits'
  BY <1>1 DEF AnswerInv, ReplyFits, Busy
<1>4. ASSUME NEW j \in Intents, NEW e,
             <<e, target[j]>> \in effects \/ \E k \in 1..Len(tail[j]) : tail[j][k] = e
      PROVE  <<e, target[j]>> \in effects' \/ \E k \in 1..Len(tail'[j]) : tail'[j][k] = e
  <2>1. CASE j = i
    BY <1>1, <1>2, <1>4, <2>1
  <2>2. CASE j # i
    BY <1>1, <1>4, <2>2
  <2> QED
    BY <2>1, <2>2
<1>5. ASSUME NEW j \in Intents, stage'[j] = "after", Request[j].op \in Credits \cup Debits
      PROVE  \/ Request[j].op \in Transfers /\ txns'[target'[j]].approval # "NONE"
             \/ /\ EntriesOf(journal', target'[j]) # {}
                /\ \A e \in {"publish", "audit", "receipt"} :
                     <<e, target'[j]>> \in effects' \/ \E k \in 1..Len(tail'[j]) : tail'[j][k] = e
  <2>1. \/ Request[j].op \in Transfers /\ txns[target[j]].approval # "NONE"
        \/ /\ EntriesOf(journal, target[j]) # {}
           /\ \A e \in {"publish", "audit", "receipt"} :
                <<e, target[j]>> \in effects \/ \E k \in 1..Len(tail[j]) : tail[j][k] = e
    BY <1>1, <1>5 DEF AnswerInv, OnItsWay
  <2>2. target' = target /\ txns' = txns /\ journal' = journal
    BY <1>1
  <2> QED
    BY <1>4, <2>1, <2>2
<1>6. OnItsWay'
  BY <1>5 DEF OnItsWay
<1>7. AnswersAreTrue'
  BY <1>1 DEF AnswerInv, AnswersAreTrue
<1> QED
  BY <1>3, <1>6, <1>7 DEF AnswerInv

LEMMA PostedEffectsHold ==
  \A op : \A e \in {"publish", "audit", "receipt"} :
    \E k \in 1..Len(PostedEffects(op)) : PostedEffects(op)[k] = e
<1> SUFFICES ASSUME NEW op
             PROVE  /\ {1, 2, 3} \subseteq 1..Len(PostedEffects(op))
                    /\ PostedEffects(op)[1] = "publish"
                    /\ PostedEffects(op)[2] = "audit"
                    /\ PostedEffects(op)[3] = "receipt"
  OBVIOUS
<1>1. CASE op \in Transfers \cup {"approve"}
  BY <1>1 DEF PostedEffects
<1>2. CASE op \notin Transfers \cup {"approve"}
  BY <1>2 DEF PostedEffects
<1> QED
  BY <1>1, <1>2

LEMMA AnswerStep == BookInv /\ AnswerInv /\ [Next]_vars => AnswerInv'
<1> SUFFICES ASSUME BookInv, AnswerInv, [Next]_vars PROVE AnswerInv'
  OBVIOUS
<1>1. CASE UNCHANGED vars
  BY <1>1 DEF vars, AnswerInv, ReplyFits, OnItsWay, AnswersAreTrue, Busy
<1>2. ASSUME NEW i \in Intents,
             \/ LoadAccounts(i) \/ LoadHeld(i) \/ LoadStatus(i) \/ CheckBalance(i)
             \/ CheckLimits(i) \/ StepUp(i) \/ ConfirmWire(i)
      PROVE  AnswerInv'
  <2>1. /\ UNCHANGED <<database, effects>> /\ stage[i] \in Uncommitted
        /\ \/ \E s \in Uncommitted : Goto(i, s)
           \/ \E r \in {"refused", "mfa"} : Answer(i, r)
    BY <1>2 DEF LoadAccounts, LoadHeld, LoadStatus, CheckBalance, CheckLimits, StepUp,
       ConfirmWire, Uncommitted
  <2>2. ASSUME NEW r \in {"refused", "mfa"}, Answer(i, r) PROVE AnswerInv'
    <3>1. Busy(i)
      BY <2>1 DEF Busy, Uncommitted
    <3>2. Request[i].op \in Credits \cup Debits => TrueOf(i, r, target[i])
      BY <2>1, CommitTarget DEF TrueOf, Reviews, Credits, Debits, Transfers
    <3> QED
      BY <2>1, <2>2, <3>1, <3>2, SayStep
  <2> QED
    BY <2>1, <2>2, QuietStep
<1>3. ASSUME NEW i \in Intents, Fail(i) PROVE AnswerInv'
  <2>1. Busy(i) /\ UNCHANGED <<database, effects>> /\ Answer(i, "error")
    BY <1>3 DEF Fail
  <2>2. TrueOf(i, "error", target[i])
    BY DEF TrueOf
  <2> QED
    BY <2>1, <2>2, SayStep
<1>4. ASSUME NEW i \in Intents, Respond(i) PROVE AnswerInv'
  <2> DEFINE held == Request[i].op \in Transfers /\ txns[target[i]].approval # "NONE"
             r == IF held THEN "held" ELSE "ok"
  <2>1. /\ stage[i] = "after" /\ tail[i] = << >> /\ Answer(i, r) /\ Busy(i)
        /\ UNCHANGED <<database, effects>>
    BY <1>4 DEF Respond, Busy
  <2>2. ASSUME Request[i].op \in Credits \cup Debits PROVE TrueOf(i, r, target[i])
    <3>1. CASE held
      BY <3>1 DEF TrueOf
    <3>2. CASE ~held
      <4>1. /\ EntriesOf(journal, target[i]) # {}
            /\ \A e \in {"publish", "audit", "receipt"} : <<e, target[i]>> \in effects
        BY <2>1, <2>2, <3>2 DEF AnswerInv, OnItsWay
      <4> QED
        BY <3>2, <4>1 DEF TrueOf
    <3> QED
      BY <3>1, <3>2
  <2> HIDE DEF r
  <2> QED
    BY <2>1, <2>2, SayStep
<1>5. ASSUME NEW i \in Intents, CommitPosting(i) PROVE AnswerInv'
  <2>1. /\ stage[i] \in Uncommitted /\ Handle(i) /\ target[i] \in TxnIds
        /\ Post(target[i], Request[i]) /\ Then(i, PostedEffects(Request[i].op))
        /\ effects' = effects
    BY <1>5 DEF CommitPosting, Handle, Uncommitted, BookInv, TypeOK
  <2>2. EntriesOf(journal', target[i]) # {}
    BY <2>1, PostEntries DEF BookInv
  <2> QED
    BY <2>1, <2>2, PostedEffectsHold, CommitAnswers
<1>6. ASSUME NEW i \in Intents, CommitHold(i) PROVE AnswerInv'
  <2>1. /\ stage[i] \in Uncommitted /\ Handle(i) /\ target[i] \in TxnIds
        /\ Then(i, <<"audit", "email">>) /\ effects' = effects
        /\ Request[i].op \in Transfers
    BY <1>6 DEF CommitHold, Handle, Uncommitted, BookInv, TypeOK, StageFits, Transfers
  <2>2. txns'[target[i]].approval # "NONE"
    BY <1>6, <2>1 DEF CommitHold, NewTxn, BookInv, TypeOK
  <2> QED
    BY <2>1, <2>2, CommitAnswers
<1>7. ASSUME NEW i \in Intents, CommitApproval(i) \/ CommitRejection(i) \/ CommitTransition(i)
      PROVE  AnswerInv'
  <2>1. /\ stage[i] \in Uncommitted /\ Handle(i) /\ \E seq : Then(i, seq)
        /\ effects' = effects /\ Request[i].op \notin Credits \cup Debits
    BY <1>7 DEF CommitApproval, CommitRejection, CommitTransition, Handle, Uncommitted,
       Credits, Debits, Transfers
  <2> QED
    BY <2>1, CommitAnswers
<1> QED
  BY <1>1, <1>2, <1>3, <1>4, <1>5, <1>6, <1>7, SubmitAnswers, SideEffectAnswers
     DEF Next, Handle

\* Whatever overlaps or fails, a client is told of a refusal only when nothing
\* was created, of a hold only when a review has it, and of success only when
\* the money moved, the event is out and the receipt is queued.
THEOREM AnswersTellTheTruth == Spec => []AnswersAreTrue
<1>1. Init => AnswerInv
  BY DEF Init, AnswerInv, ReplyFits, OnItsWay, AnswersAreTrue, Busy
<1>2. AnswerInv => AnswersAreTrue
  BY DEF AnswerInv
<1> QED
  BY <1>1, <1>2, AnswerStep, BooksHold, PTL DEF Spec

-----------------------------------------------------------------------------
(* Overlap.  No handler locks what it has read, so a debit may find money  *)
(* another one is about to take.  The invariants below count: what is left *)
(* of a balance or a ceiling covers one of the requests that were cleared, *)
(* and for each of the others that could be under way at once (`rush`) and *)
(* no longer is, the largest amount.                                       *)

\* A transaction under review keeps its terms while the review runs.
LEMMA ReviewedTerms ==
  ASSUME BookInv, NEW i \in Intents, Busy(i), Request[i].op \in Reviews
  PROVE  LET t == target[i]
             r == Request[t[1]]
         IN  /\ t \in TxnIds
             /\ txns[t] # NoTxn
             /\ txns[t].src = r.src /\ txns[t].dst = r.dst /\ txns[t].amount = r.amount
             /\ r.op \in Credits \cup Debits
<1>1. txns[target[i]].approval # "NONE" /\ target[i] \in TxnIds
  BY DEF BookInv, Books, TargetsFit, TypeOK
<1>2. txns[target[i]] # NoTxn
  BY <1>1 DEF NoTxn
<1>3. QED
  BY <1>1, <1>2 DEF BookInv, Books, TermsKept


\* So a request that stays in progress keeps the money it would move.
LEMMA StaysTheSame ==
  ASSUME BookInv, BookInv', NEW i \in Intents, Busy(i), Busy(i)', target'[i] = target[i]
  PROVE  /\ Terms(i).src' = Terms(i).src
         /\ Terms(i).amount' = Terms(i).amount
<1>1. CASE Request[i].op \in Reviews
  <2> DEFINE t == target[i]
  <2>1. txns[t].src = Request[t[1]].src /\ txns[t].amount = Request[t[1]].amount
    BY <1>1, ReviewedTerms
  <2>2. txns'[t].src = Request[t[1]].src /\ txns'[t].amount = Request[t[1]].amount
    <3>1. (txns[target[i]].approval # "NONE")' /\ (target[i] \in TxnIds)'
      BY <1>1 DEF BookInv, Books, TargetsFit, TypeOK
    <3>2. (txns[target[i]] # NoTxn)'
      BY <3>1 DEF NoTxn
    <3>3. QED
      BY <3>1, <3>2 DEF BookInv, Books, TermsKept
  <2>3. QED
    BY <1>1, <2>1, <2>2 DEF Terms
<1>2. CASE Request[i].op \notin Reviews
  BY <1>2 DEF Terms, Reviews
<1>3. QED
  BY <1>1, <1>2


\* Outside Submit nobody becomes busy and nobody changes target; only the
\* request that moves changes stage.
LEMMA StepShape ==
  ASSUME BookInv, NEW i \in Intents, Handle(i) \/ Fail(i)
  PROVE  /\ target' = target
         /\ Busy(i)
         /\ \A j \in Intents \ {i} : stage'[j] = stage[j]
<1>1. ASSUME NEW s, Goto(i, s) \/ Answer(i, s) \/ Then(i, s)
      PROVE  target' = target /\ \A j \in Intents \ {i} : stage'[j] = stage[j]
  BY <1>1 DEF Goto, Answer, Then, BookInv, TypeOK
<1>2. CASE \/ LoadAccounts(i) \/ LoadHeld(i) \/ LoadStatus(i) \/ CheckBalance(i)
           \/ CheckLimits(i) \/ StepUp(i) \/ ConfirmWire(i) \/ Respond(i) \/ Fail(i)
  BY <1>1, <1>2 DEF LoadAccounts, LoadHeld, LoadStatus, CheckBalance, CheckLimits, StepUp,
     ConfirmWire, Respond, Fail, Busy
<1>3. CASE \/ CommitPosting(i) \/ CommitHold(i) \/ CommitApproval(i)
           \/ CommitRejection(i) \/ CommitTransition(i)
  <2>1. (\E s : Then(i, s)) /\ Busy(i)
    BY <1>3 DEF CommitPosting, CommitHold, CommitApproval, CommitRejection,
       CommitTransition, Busy
  <2>2. QED
    BY <1>1, <2>1
<1>4. CASE SideEffect(i)
  BY <1>4 DEF SideEffect, Busy
<1>5. QED
  BY <1>2, <1>3, <1>4 DEF Handle


\* A posting takes money from the account it debits and no other.
LEMMA PostTakes ==
  ASSUME TypeOK, NEW t, NEW m, m.amount \in Nat, Post(t, m), NEW a \in Accounts
  PROVE  /\ balance[a] \in Int /\ balance'[a] \in Int
         /\ a # m.src => balance'[a] >= balance[a]
         /\ balance'[a] >= balance[a] - m.amount
BY DEF TypeOK, Post, Moved, Entry


\* The posting terms of a request in progress are well formed.
LEMMA TermsType ==
  ASSUME BookInv, NEW i \in Intents, Busy(i)
  PROVE  Terms(i).amount \in Nat
<1>1. CASE Request[i].op \in Reviews
  BY <1>1, ReviewedTerms DEF BookInv, TypeOK, Txn, Terms
<1>2. CASE Request[i].op \notin Reviews
  BY <1>2, RequestType DEF Terms
<1>3. QED
  BY <1>1, <1>2


\* What a committing request does to the balances.
LEMMA Postings ==
  ASSUME NEW i \in Intents, Handle(i) \/ Fail(i)
  PROVE  \/ balance' = balance
         \/ /\ Post(target[i], Terms(i))
            /\ stage[i] = "commit"
            /\ Request[i].op \in Credits \cup Debits \cup {"approve"}
<1>1. CASE CommitPosting(i)
  BY <1>1 DEF CommitPosting, Terms, Reviews, Credits, Debits, Transfers
<1>2. CASE CommitApproval(i)
  BY <1>2 DEF CommitApproval, Terms, Reviews
<1>3. CASE ~CommitPosting(i) /\ ~CommitApproval(i)
  BY <1>3 DEF Handle, Fail, LoadAccounts, LoadHeld, LoadStatus, CheckBalance, CheckLimits,
     StepUp, ConfirmWire, CommitHold, CommitRejection, CommitTransition, SideEffect,
     Respond, database
<1>4. QED
  BY <1>1, <1>2, <1>3


\* What is left covers one of the cleared requests C, whose amounts are w; the others
\* that have ever been cleared together with it cost at most L each.
Covers(left, most, C, w, L) ==
  IF C = {} THEN left + (IF most = 0 THEN 0 ELSE most - 1) * L >= 0
            ELSE \E i \in C : left + (most - Cardinality(C)) * L >= w[i]

LEMMA GreaterIs ==
  \A m, n \in Int : Greater(m, n) \in {m, n} /\ Greater(m, n) >= m /\ Greater(m, n) >= n
BY DEF Greater

LEMMA TimesGrows ==
  ASSUME NEW m \in Int, NEW n \in Int, NEW L \in Nat, m <= n
  PROVE  m * L \in Int /\ n * L \in Int /\ m * L <= n * L
<1>1. PICK k \in Nat : n = m + k
  <2>1. n - m \in Nat /\ n = m + (n - m)
    OBVIOUS
  <2> QED
    BY <2>1
<1>2. (m + k) * L = m * L + k * L /\ k * L >= 0
  OBVIOUS
<1> QED
  BY <1>1, <1>2

LEMMA TimesOneMore ==
  ASSUME NEW m \in Int, NEW L \in Nat
  PROVE  (m + 1) * L = m * L + L /\ m * L \in Int
OBVIOUS

\* A set that changes by one element at most.
LEMMA CountStep ==
  ASSUME NEW S, NEW T, NEW i, IsFiniteSet(S), T \ {i} = S \ {i}
  PROVE  /\ IsFiniteSet(T) /\ Cardinality(S) \in Nat /\ Cardinality(T) \in Nat
         /\ \/ T = S /\ (i \in S <=> i \in T)
            \/ i \in T /\ i \notin S /\ Cardinality(T) = Cardinality(S) + 1
            \/ i \in S /\ i \notin T /\ Cardinality(S) = Cardinality(T) + 1
<1>1. CASE i \in S /\ i \notin T
  <2>1. T = S \ {i}
    BY <1>1
  <2>2. IsFiniteSet(T) /\ Cardinality(T) = Cardinality(S) - 1 /\ Cardinality(S) \in Nat
    BY <1>1, <2>1, FS_RemoveElement, FS_CardinalityType
  <2>3. Cardinality(T) \in Nat
    BY <2>2, FS_CardinalityType
  <2> QED
    BY <1>1, <2>2, <2>3
<1>2. CASE i \in T /\ i \notin S
  <2>1. T = S \cup {i}
    BY <1>2
  <2>2. IsFiniteSet(T) /\ Cardinality(T) = Cardinality(S) + 1 /\ Cardinality(S) \in Nat
    BY <1>2, <2>1, FS_AddElement, FS_CardinalityType
  <2> QED
    BY <1>2, <2>2
<1>3. CASE i \in S <=> i \in T
  <2>1. T = S
    BY <1>3
  <2> QED
    BY <2>1, FS_CardinalityType
<1> QED
  BY <1>1, <1>2, <1>3

\* One request is cleared, goes, or stays: what is left still covers the rest.
LEMMA CoversStep ==
  ASSUME NEW L \in Nat, NEW C, NEW D, NEW i, IsFiniteSet(C), D \ {i} = C \ {i},
         NEW w, NEW v, \A j \in C : w[j] \in Nat /\ w[j] <= L,
         \A j \in D : v[j] \in Nat /\ v[j] <= L, \A j \in C \cap D : v[j] = w[j],
         NEW left \in Int, NEW then \in Int, NEW most \in Nat, NEW after \in Nat,
         after >= most, Cardinality(C) <= most, Cardinality(D) <= after,
         Covers(left, most, C, w, L),
         i \in D /\ i \notin C => then >= v[i],
         i \in C /\ i \notin D => then >= left - w[i],
         (i \in C <=> i \in D) => then >= left
  PROVE  Covers(then, after, D, v, L)
<1> DEFINE c == Cardinality(C)
           d == Cardinality(D)
<1>1. /\ c \in Nat /\ d \in Nat /\ IsFiniteSet(D)
      /\ \/ D = C /\ (i \in C <=> i \in D)
         \/ i \in D /\ i \notin C /\ d = c + 1
         \/ i \in C /\ i \notin D /\ c = d + 1
  BY CountStep
<1>2. CASE D = C /\ (i \in C <=> i \in D)
  <2>1. then >= left
    BY <1>2
  <2>2. CASE C = {}
    <3>1. left + (IF most = 0 THEN 0 ELSE most - 1) * L >= 0
      BY <2>2 DEF Covers
    <3>2. (IF most = 0 THEN 0 ELSE most - 1) * L <= (IF after = 0 THEN 0 ELSE after - 1) * L
          /\ (IF most = 0 THEN 0 ELSE most - 1) * L \in Int
          /\ (IF after = 0 THEN 0 ELSE after - 1) * L \in Int
      <4> DEFINE m == IF most = 0 THEN 0 ELSE most - 1
                 n == IF after = 0 THEN 0 ELSE after - 1
      <4>1. m \in Int /\ n \in Int /\ m <= n
        OBVIOUS
      <4> HIDE DEF m, n
      <4>2. m * L \in Int /\ n * L \in Int /\ m * L <= n * L
        BY <4>1, TimesGrows
      <4> QED
        BY <4>2 DEF m, n
    <3> DEFINE x == (IF most = 0 THEN 0 ELSE most - 1) * L
               y == (IF after = 0 THEN 0 ELSE after - 1) * L
    <3> HIDE DEF x, y
    <3>3. left + x >= 0 /\ x <= y /\ x \in Int /\ y \in Int
      BY <3>1, <3>2 DEF x, y
    <3>4. then + y >= 0
      BY <2>1, <3>3
    <3> QED
      BY <1>2, <2>2, <3>4 DEF Covers, y
  <2>3. CASE C # {}
    <3>1. PICK j \in C : left + (most - c) * L >= w[j]
      BY <2>3 DEF Covers
    <3>2. most - c \in Int /\ after - d \in Int /\ most - c <= after - d
      BY <1>1, <1>2
    <3> DEFINE x == (most - c) * L
               y == (after - d) * L
    <3>3. x \in Int /\ y \in Int /\ x <= y
      BY <3>2, TimesGrows
    <3>4. v[j] = w[j] /\ w[j] \in Nat /\ j \in D
      BY <1>2, <3>1
    <3>5. left + x >= w[j]
      BY <3>1
    <3> HIDE DEF x, y, c, d
    <3>6. then + y >= v[j]
      BY <2>1, <3>3, <3>4, <3>5
    <3>7. then + (after - Cardinality(D)) * L >= v[j]
      BY <3>6 DEF y, d
    <3> QED
      BY <3>4, <3>7 DEF Covers
  <2> QED
    BY <2>2, <2>3
<1>3. CASE i \in D /\ i \notin C /\ d = c + 1
  <2>1. then >= v[i] /\ v[i] \in Nat
    BY <1>3
  <2>2. after - d \in Nat
    BY <1>1
  <2> DEFINE y == (after - d) * L
  <2>3. y \in Nat
    BY <2>2
  <2> HIDE DEF y, c, d
  <2>4. then + y >= v[i]
    BY <2>1, <2>3
  <2>5. then + (after - Cardinality(D)) * L >= v[i]
    BY <2>4 DEF y, d
  <2> QED
    BY <1>3, <2>5 DEF Covers
<1>4. CASE i \in C /\ i \notin D /\ c = d + 1
  <2>1. then >= left - w[i] /\ w[i] \in Nat /\ w[i] <= L
    BY <1>4
  <2>2. PICK j \in C : left + (most - c) * L >= w[j]
    BY <1>4 DEF Covers
  <2> DEFINE x == (most - c) * L
             y == (after - d) * L
  <2>3. x \in Int /\ y \in Int /\ x + L <= y
    <3>1. most - c \in Int /\ after - d \in Int /\ (most - c) + 1 <= after - d
      BY <1>1, <1>4
    <3>2. ((most - c) + 1) * L <= y /\ y \in Int
      BY <3>1, TimesGrows
    <3>3. ((most - c) + 1) * L = x + L /\ x \in Int
      BY <3>1, TimesOneMore
    <3> QED
      BY <3>2, <3>3
  <2>4. left + x >= w[j] /\ w[j] \in Nat /\ w[j] <= L
    BY <2>2
  <2>5. CASE D = {}
    <3>1. j = i
      BY <1>4, <2>2, <2>5
    <3>2. d = 0
      BY <2>5, FS_EmptySet
    <3>3. most >= 1 /\ after >= 1 /\ c = 1
      BY <1>1, <1>4, <3>2
    <3>4. then + x >= 0
      <4> HIDE DEF x
      <4> QED
        BY <2>1, <2>3, <2>4, <3>1
    <3>5. (after - 1) * L \in Int /\ x <= (after - 1) * L
      <4>1. most - c \in Int /\ after - 1 \in Int /\ most - c <= after - 1
        BY <3>3
      <4> QED
        BY <4>1, TimesGrows
    <3> DEFINE z == (after - 1) * L
    <3> HIDE DEF x, z
    <3>6. then + z >= 0
      BY <2>3, <3>4, <3>5 DEF z
    <3>7. then + (after - 1) * L >= 0
      BY <3>6 DEF z
    <3> QED
      BY <2>5, <3>3, <3>7 DEF Covers
  <2>6. CASE D # {}
    <3>1. \E k \in D : then + y >= v[k]
      <4>1. CASE j = i
        <5>1. PICK k \in D : TRUE
          BY <2>6
        <5>2. v[k] \in Nat /\ v[k] <= L
          OBVIOUS
        <5> HIDE DEF x, y
        <5>3. then + y >= v[k]
          BY <2>1, <2>3, <2>4, <4>1, <5>2
        <5> QED
          BY <5>3
      <4>2. CASE j # i
        <5>1. j \in D
          BY <2>2, <4>2
        <5>2. v[j] = w[j]
          BY <2>2, <5>1
        <5> HIDE DEF x, y
        <5>3. then + y >= v[j]
          BY <2>1, <2>3, <2>4, <5>2
        <5> QED
          BY <5>1, <5>3
      <4> QED
        BY <4>1, <4>2
    <3>2. \E k \in D : then + (after - Cardinality(D)) * L >= v[k]
      BY <3>1
    <3> QED
      BY <2>6, <3>2 DEF Covers
  <2> QED
    BY <2>5, <2>6
<1> QED
  BY <1>1, <1>2, <1>3, <1>4

\* The histories are well formed, and as high as what is under way.
HistoriesFit ==
  /\ rush \in [Accounts -> Nat] /\ reviewers \in [TxnIds -> Nat]
  /\ \A a \in Accounts : IsFiniteSet(Cleared(a)) /\ Cardinality(Cleared(a)) <= rush[a]
  /\ \A t \in TxnIds : IsFiniteSet(Resolving(t)) /\ Cardinality(Resolving(t)) <= reviewers[t]

\* What every step of the histories does to them, once the sets are finite.
LEMMA HistoriesGrow ==
  ASSUME HistoriesFit, OverlapNext,
         \A a \in Accounts : IsFiniteSet(Cleared(a)'),
         \A t \in TxnIds : IsFiniteSet(Resolving(t)')
  PROVE  /\ HistoriesFit'
         /\ \A a \in Accounts : rush'[a] >= rush[a] /\ rush[a] \in Nat
         /\ \A t \in TxnIds : reviewers'[t] >= reviewers[t] /\ reviewers[t] \in Nat
<1>1. ASSUME NEW a \in Accounts
      PROVE  /\ rush[a] \in Nat /\ rush'[a] \in Nat /\ rush'[a] >= rush[a]
             /\ Cardinality(Cleared(a)') <= rush'[a]
  <2>1. rush[a] \in Nat /\ Cardinality(Cleared(a)') \in Nat
    BY <1>1, FS_CardinalityType DEF HistoriesFit
  <2>2. rush'[a] = Greater(rush[a], Cardinality(Cleared(a)'))
    BY DEF OverlapNext
  <2> QED
    BY <2>1, <2>2, GreaterIs
<1>2. ASSUME NEW t \in TxnIds
      PROVE  /\ reviewers[t] \in Nat /\ reviewers'[t] \in Nat /\ reviewers'[t] >= reviewers[t]
             /\ Cardinality(Resolving(t)') <= reviewers'[t]
  <2>1. reviewers[t] \in Nat /\ Cardinality(Resolving(t)') \in Nat
    BY <1>2, FS_CardinalityType DEF HistoriesFit
  <2>2. reviewers'[t] = Greater(reviewers[t], Cardinality(Resolving(t)'))
    BY DEF OverlapNext
  <2> QED
    BY <2>1, <2>2, GreaterIs
<1>3. rush' \in [Accounts -> Nat]
  <2>1. rush' = [a \in Accounts |-> Greater(rush[a], Cardinality(Cleared(a)'))]
    BY DEF OverlapNext
  <2> QED
    BY <1>1, <2>1
<1>4. reviewers' \in [TxnIds -> Nat]
  <2>1. reviewers' = [t \in TxnIds |-> Greater(reviewers[t], Cardinality(Resolving(t)'))]
    BY DEF OverlapNext
  <2> QED
    BY <1>2, <2>1
<1> QED
  BY <1>1, <1>2, <1>3, <1>4 DEF HistoriesFit

\* A step is one request's, and nobody else is cleared, or ceases to be, by it.
Step(i) == Submit(i) \/ Handle(i) \/ Fail(i)

LEMMA OthersStay ==
  ASSUME BookInv, BookInv', NEW i \in Intents, Step(i), NEW j \in Intents \ {i}
  PROVE  /\ stage'[j] = stage[j] /\ target'[j] = target[j]
         /\ Busy(j) => Terms(j).src' = Terms(j).src /\ Terms(j).amount' = Terms(j).amount
<1>1. stage'[j] = stage[j] /\ target'[j] = target[j]
  <2>1. CASE Submit(i)
    BY <2>1 DEF Submit, BookInv, TypeOK
  <2>2. CASE Handle(i) \/ Fail(i)
    BY <2>2, StepShape
  <2> QED
    BY <2>1, <2>2 DEF Step
<1>2. Busy(j) => Busy(j)'
  BY <1>1 DEF Busy
<1> QED
  BY <1>1, <1>2, StaysTheSame

LEMMA ClearedMoves ==
  ASSUME BookInv, BookInv', NEW i \in Intents, Step(i), NEW a \in Accounts
  PROVE  /\ Cleared(a)' \ {i} = Cleared(a) \ {i}
         /\ \A j \in Cleared(a) \cap Cleared(a)' : Terms(j).amount' = Terms(j).amount
<1>1. ASSUME NEW j \in Intents \ {i} PROVE j \in Cleared(a)' <=> j \in Cleared(a)
  BY <1>1, OthersStay DEF Cleared, Busy
<1>2. ASSUME NEW j \in Cleared(a), j \in Cleared(a)' PROVE Terms(j).amount' = Terms(j).amount
  <2>1. Busy(j) /\ Busy(j)' /\ j \in Intents
    BY <1>2 DEF Cleared, Busy
  <2>2. target'[j] = target[j]
    <3>1. CASE j = i
      BY <2>1, <3>1, StepShape DEF Step, Submit
    <3> QED
      BY <2>1, <3>1, OthersStay
  <2> QED
    BY <2>1, <2>2, StaysTheSame
<1>3. Cleared(a) \subseteq Intents /\ Cleared(a)' \subseteq Intents
  BY DEF Cleared
<1> QED
  BY <1>1, <1>2, <1>3

LEMMA ResolvingMoves ==
  ASSUME BookInv, BookInv', NEW i \in Intents, Step(i), NEW t \in TxnIds
  PROVE  Resolving(t)' \ {i} = Resolving(t) \ {i}
<1>1. ASSUME NEW j \in Intents \ {i} PROVE j \in Resolving(t)' <=> j \in Resolving(t)
  BY <1>1, OthersStay DEF Resolving
<1> QED
  BY <1>1 DEF Resolving

\* The stages past the balance check are entered by it or from one another.
LEMMA ClearedBy ==
  ASSUME BookInv, BookInv', NEW i \in Intents, Step(i), NEW a \in Accounts,
         i \in Cleared(a)', i \notin Cleared(a)
  PROVE  /\ balance' = balance
         /\ Terms(i).amount' = Terms(i).amount
         /\ a \in OverdraftAccounts \/ balance[a] >= Terms(i).amount
<1>1. /\ stage'[i] \in {"limits", "confirm", "commit"}
      /\ Request[i].op \in Debits \cup {"approve"}
      /\ Terms(i).src' = a
  BY DEF Cleared
<1>2. Handle(i) \/ Fail(i)
  BY <1>1 DEF Step, Submit, BookInv, TypeOK
<1>3. target' = target /\ Busy(i) /\ Busy(i)'
  BY <1>1, <1>2, StepShape DEF Busy
<1>4. Terms(i).src' = Terms(i).src /\ Terms(i).amount' = Terms(i).amount
  BY <1>3, StaysTheSame
<1>5. stage[i] \notin {"limits", "confirm", "commit"}
  BY <1>1, <1>4 DEF Cleared
<1>6. CASE CheckBalance(i)
  BY <1>1, <1>4, <1>6 DEF CheckBalance, Answer, BookInv, TypeOK, database
<1>7. CASE CheckLimits(i) \/ StepUp(i) \/ ConfirmWire(i)
  BY <1>5, <1>7 DEF CheckLimits, StepUp, ConfirmWire
<1>8. CASE LoadAccounts(i) \/ LoadHeld(i) \/ LoadStatus(i)
  BY <1>1, <1>8 DEF LoadAccounts, LoadHeld, LoadStatus, Goto, Answer, BookInv, TypeOK,
     Credits, Debits, Transfers, Reviews
<1>9. CASE Respond(i) \/ Fail(i)
  BY <1>1, <1>9 DEF Respond, Fail, Answer, BookInv, TypeOK
<1>10. CASE SideEffect(i)
  BY <1>1, <1>10 DEF SideEffect
<1>11. ASSUME NEW seq, Then(i, seq) PROVE FALSE
  BY <1>1, <1>11 DEF Then, BookInv, TypeOK
<1>12. CASE \/ CommitPosting(i) \/ CommitHold(i) \/ CommitApproval(i)
            \/ CommitRejection(i) \/ CommitTransition(i)
  BY <1>11, <1>12 DEF CommitPosting, CommitHold, CommitApproval, CommitRejection,
     CommitTransition
<1> QED
  BY <1>2, <1>6, <1>7, <1>8, <1>9, <1>10, <1>12 DEF Handle

\* Only a cleared request takes money from its account, and is done with it then.
LEMMA Drawn ==
  ASSUME BookInv, BookInv', NEW i \in Intents, Step(i), NEW a \in Accounts
  PROVE  /\ balance[a] \in Int /\ balance'[a] \in Int
         /\ \/ balance'[a] >= balance[a]
            \/ /\ i \in Cleared(a) /\ i \notin Cleared(a)'
               /\ balance'[a] >= balance[a] - Terms(i).amount
<1>1. balance[a] \in Int /\ balance'[a] \in Int
  BY DEF BookInv, TypeOK
<1>2. CASE balance' = balance
  BY <1>1, <1>2
<1>3. CASE /\ Post(target[i], Terms(i)) /\ stage[i] = "commit"
           /\ Request[i].op \in Credits \cup Debits \cup {"approve"}
           /\ stage'[i] = "after"
  <2>1. Busy(i)
    BY <1>3 DEF Busy
  <2>2. /\ Terms(i).src # a => balance'[a] >= balance[a]
        /\ balance'[a] >= balance[a] - Terms(i).amount
    BY <1>3, <2>1, PostTakes, TermsType DEF BookInv
  <2>3. i \notin Cleared(a)'
    BY <1>3 DEF Cleared
  <2>4. CASE Terms(i).src = a
    <3>1. Request[i].op \notin Credits
      BY <2>4, ConstantsFit, RequestsFollowRoutes DEF Terms, Credits, Reviews
    <3>2. i \in Cleared(a)
      BY <1>3, <2>4, <3>1 DEF Cleared
    <3> QED
      BY <1>1, <2>2, <2>3, <3>2
  <2> QED
    BY <1>1, <2>2, <2>4
<1>4. CASE Submit(i)
  BY <1>2, <1>4 DEF Submit, database
<1>5. CASE Handle(i) \/ Fail(i)
  <2>1. \/ balance' = balance
        \/ /\ Post(target[i], Terms(i)) /\ stage[i] = "commit"
           /\ Request[i].op \in Credits \cup Debits \cup {"approve"}
    BY <1>5, Postings
  <2>2. ASSUME balance' # balance PROVE stage'[i] = "after"
    <3>1. CASE CommitPosting(i) \/ CommitApproval(i)
      BY <3>1 DEF CommitPosting, CommitApproval, Then, BookInv, TypeOK
    <3>2. CASE ~CommitPosting(i) /\ ~CommitApproval(i)
      BY <1>5, <2>2, <3>2 DEF Handle, Fail, LoadAccounts, LoadHeld, LoadStatus, CheckBalance,
         CheckLimits, StepUp, ConfirmWire, CommitHold, CommitRejection, CommitTransition,
         SideEffect, Respond, database
    <3> QED
      BY <3>1, <3>2
  <2> QED
    BY <1>2, <1>3, <2>1, <2>2
<1> QED
  BY <1>4, <1>5 DEF Step

\* No request asks for more than the largest amount.
LEMMA AmountsFit ==
  ASSUME BookInv, NEW i \in Intents, Busy(i), Request[i].op \in Debits \cup {"approve"}
  PROVE  Terms(i).amount \in Nat /\ Terms(i).amount <= Largest
<1>1. Terms(i).amount \in Nat
  BY TermsType
<1>2. CASE Request[i].op \in Reviews
  <2>1. /\ target[i] \in TxnIds
        /\ txns[target[i]].amount = Request[target[i][1]].amount
    BY <1>2, ReviewedTerms
  <2>2. target[i][1] \in Intents
    BY <2>1, TxnIdParts
  <2> QED
    BY <1>1, <1>2, <2>1, <2>2, AmountsAreBounded DEF Terms
<1>3. CASE Request[i].op \notin Reviews
  BY <1>1, <1>3, AmountsAreBounded DEF Terms
<1> QED
  BY <1>2, <1>3

-----------------------------------------------------------------------------
(* Balances.                                                               *)

Asks(a) == [i \in Cleared(a) |-> Terms(i).amount]

FundsInv ==
  \A a \in Accounts \ OverdraftAccounts :
    Covers(balance[a], rush[a], Cleared(a), Asks(a), Largest)

LEMMA AsksFit ==
  ASSUME BookInv, NEW a
  PROVE  \A j \in Cleared(a) :
           Asks(a)[j] = Terms(j).amount /\ Asks(a)[j] \in Nat /\ Asks(a)[j] <= Largest
<1> SUFFICES ASSUME NEW j \in Cleared(a)
             PROVE  Terms(j).amount \in Nat /\ Terms(j).amount <= Largest
  BY DEF Asks
<1>1. j \in Intents /\ Busy(j) /\ Request[j].op \in Debits \cup {"approve"}
  BY DEF Cleared, Busy
<1> QED
  BY <1>1, AmountsFit

LEMMA SetsStayFinite ==
  ASSUME BookInv, BookInv', HistoriesFit, NEW i \in Intents, Step(i)
  PROVE  /\ \A a \in Accounts : IsFiniteSet(Cleared(a)')
         /\ \A t \in TxnIds : IsFiniteSet(Resolving(t)')
<1>1. ASSUME NEW a \in Accounts PROVE IsFiniteSet(Cleared(a)')
  BY ClearedMoves, CountStep DEF HistoriesFit
<1>2. ASSUME NEW t \in TxnIds PROVE IsFiniteSet(Resolving(t)')
  BY ResolvingMoves, CountStep DEF HistoriesFit
<1> QED
  BY <1>1, <1>2

LEMMA FundsStep ==
  ASSUME BookInv, BookInv', HistoriesFit, HistoriesFit', FundsInv, NEW i \in Intents, Step(i),
         \A a \in Accounts : rush'[a] >= rush[a]
  PROVE  FundsInv'
<1> SUFFICES ASSUME NEW a \in Accounts \ OverdraftAccounts
             PROVE  Covers(balance'[a], rush'[a], Cleared(a)', Asks(a)', Largest)
  BY DEF FundsInv
<1>1. /\ Cleared(a)' \ {i} = Cleared(a) \ {i}
      /\ \A j \in Cleared(a) \cap Cleared(a)' : Terms(j).amount' = Terms(j).amount
  BY ClearedMoves
<1>2. \A j \in Cleared(a) :
        Asks(a)[j] = Terms(j).amount /\ Asks(a)[j] \in Nat /\ Asks(a)[j] <= Largest
  BY AsksFit
<1>3. \A j \in Cleared(a)' :
        Asks(a)'[j] = Terms(j).amount' /\ Asks(a)'[j] \in Nat /\ Asks(a)'[j] <= Largest
  <2> SUFFICES ASSUME NEW j \in Cleared(a)'
               PROVE  Terms(j).amount' \in Nat /\ Terms(j).amount' <= Largest
    BY DEF Asks
  <2>1. j \in Intents /\ Busy(j)' /\ Request[j].op \in Debits \cup {"approve"}
    BY DEF Cleared, Busy
  <2>2. CASE j \in Cleared(a)
    BY <1>1, <1>2, <2>2
  <2>3. CASE j \notin Cleared(a)
    <3>1. j = i
      BY <1>1, <2>3
    <3>2. Terms(j).amount' = Terms(j).amount
      BY <2>3, <3>1, ClearedBy
    <3>3. Busy(j)
      BY <2>1, <3>1, StepShape DEF Step, Submit, Cleared, BookInv, TypeOK
    <3> QED
      BY <2>1, <3>2, <3>3, AmountsFit
  <2> QED
    BY <2>2, <2>3
<1>4. /\ rush[a] \in Nat /\ rush'[a] \in Nat /\ rush'[a] >= rush[a]
      /\ IsFiniteSet(Cleared(a)) /\ Cardinality(Cleared(a)) <= rush[a]
      /\ Cardinality(Cleared(a)') <= rush'[a]
      /\ Largest \in Nat
  BY AmountsAreBounded DEF HistoriesFit
<1>5. Covers(balance[a], rush[a], Cleared(a), Asks(a), Largest)
  BY DEF FundsInv
<1>6. /\ balance[a] \in Int /\ balance'[a] \in Int
      /\ \/ balance'[a] >= balance[a]
         \/ /\ i \in Cleared(a) /\ i \notin Cleared(a)'
            /\ balance'[a] >= balance[a] - Terms(i).amount
  BY Drawn
<1>7. i \in Cleared(a)' /\ i \notin Cleared(a) => balance'[a] >= Asks(a)'[i]
  BY <1>3, ClearedBy
<1>8. i \in Cleared(a) /\ i \notin Cleared(a)' => balance'[a] >= balance[a] - Asks(a)[i]
  BY <1>2, <1>6
<1>9. (i \in Cleared(a) <=> i \in Cleared(a)') => balance'[a] >= balance[a]
  BY <1>6
<1>10. \A j \in Cleared(a) \cap Cleared(a)' : Asks(a)'[j] = Asks(a)[j]
  BY <1>1, <1>2, <1>3
<1> DEFINE C == Cleared(a)
           D == Cleared(a)'
           w == Asks(a)
           v == Asks(a)'
<1> HIDE DEF C, D, w, v
<1>11. Covers(balance[a], rush[a], C, w, Largest)
  BY <1>5 DEF C, w
<1>12. /\ IsFiniteSet(C) /\ D \ {i} = C \ {i} /\ Cardinality(C) <= rush[a]
       /\ Cardinality(D) <= rush'[a]
       /\ \A j \in C : w[j] \in Nat /\ w[j] <= Largest
       /\ \A j \in D : v[j] \in Nat /\ v[j] <= Largest
       /\ \A j \in C \cap D : v[j] = w[j]
  BY <1>1, <1>2, <1>3, <1>4, <1>10 DEF C, D, w, v
<1>13. /\ i \in D /\ i \notin C => balance'[a] >= v[i]
       /\ i \in C /\ i \notin D => balance'[a] >= balance[a] - w[i]
       /\ (i \in C <=> i \in D) => balance'[a] >= balance[a]
  BY <1>7, <1>8, <1>9 DEF C, D, w, v
<1>14. Covers(balance'[a], rush'[a], D, v, Largest)
  BY <1>4, <1>6, <1>11, <1>12, <1>13, CoversStep
<1> QED
  BY <1>14 DEF D, v

-----------------------------------------------------------------------------
(* The cumulative ceiling.                                                 *)

\* The transfers the ceiling is about: posted without a review.
DirectOut(a) == {t \in Outbound(a) : txns[t].approval = "NONE"}

Started == {t \in TxnIds : txns[t].status # "NONE"}

LEMMA StartedStep ==
  ASSUME BookInv, NEW i \in Intents, Handle(i) \/ Fail(i), IsFiniteSet(Started)
  PROVE  IsFiniteSet(Started')
<1>1. Started' \subseteq Started \cup {target[i]}
  BY TxnWrites DEF Started
<1>2. IsFiniteSet(Started \cup {target[i]})
  BY FS_AddElement
<1> QED
  BY <1>1, <1>2, FS_Subset


LEMMA DirectTypes ==
  ASSUME BookInv, IsFiniteSet(Started), NEW a
  PROVE  /\ IsFiniteSet(Outbound(a)) /\ DirectOut(a) \subseteq Outbound(a)
         /\ IsFiniteSet(DirectOut(a))
         /\ \A t \in Outbound(a) : txns[t].amount \in Nat
         /\ TotalOf(txns, DirectOut(a)) \in Int
         /\ TotalOf(txns, Outbound(a)) \in Int
         /\ TotalOf(txns, DirectOut(a)) <= TotalOf(txns, Outbound(a))
<1>1. Outbound(a) \in SUBSET Started /\ DirectOut(a) \in SUBSET Outbound(a)
  BY DEF Outbound, DirectOut, Started
<1>2. IsFiniteSet(Outbound(a)) /\ IsFiniteSet(DirectOut(a))
  BY <1>1, FS_Subset
<1>3. \A t \in Outbound(a) : txns[t].amount \in Nat
  BY DEF Outbound, BookInv, TypeOK, Txn
<1>4. \A t \in Outbound(a) : txns[t].amount \in Int
  BY <1>3
<1>5. TotalOf(txns, DirectOut(a)) \in Int
  <2>1. \A t \in DirectOut(a) : txns[t].amount \in Int
    BY <1>1, <1>4
  <2> QED
    BY <1>2, <2>1, TotalType
<1>6. TotalOf(txns, Outbound(a)) \in Int
  BY <1>2, <1>4, TotalType
<1>7. TotalOf(txns, DirectOut(a)) <= TotalOf(txns, Outbound(a))
  BY <1>1, <1>2, <1>3, TotalOfPart
<1> QED
  BY <1>1, <1>2, <1>3, <1>5, <1>6, <1>7


\* Only a transfer that posts directly adds to what its account has sent.
LEMMA DirectRows ==
  ASSUME BookInv, NEW i \in Intents, Handle(i) \/ Fail(i), NEW a \in Accounts
  PROVE  /\ \A t \in DirectOut(a) : txns'[t].amount = txns[t].amount
         /\ \/ DirectOut(a)' = DirectOut(a)
            \/ /\ CommitPosting(i) /\ Request[i].op \in Transfers /\ Request[i].src = a
               /\ target[i] \notin DirectOut(a)
               /\ DirectOut(a)' = DirectOut(a) \cup {target[i]}
               /\ txns'[target[i]].amount = Request[i].amount
<1>1. CASE CommitPosting(i) \/ CommitHold(i)
  <2>1. /\ stage[i] \in Uncommitted /\ Request[i].op \in Credits \cup Debits
        /\ target[i] \in TxnIds /\ txns \in [TxnIds -> Txn]
    BY <1>1 DEF CommitPosting, CommitHold, Uncommitted, BookInv, TypeOK, StageFits, Debits,
       Transfers
  <2>2. target[i][1] = i /\ txns[target[i]].status = "NONE"
    BY <2>1, CommitTarget DEF NoTxn, Reviews, Credits, Debits, Transfers
  <2>3. target[i] \notin DirectOut(a)
    BY <2>2 DEF DirectOut, Outbound
  <2>4. CASE CommitPosting(i)
    <3>1. /\ txns'[target[i]] = NewTxn(i, "COMPLETED", "NONE")
          /\ \A u \in TxnIds \ {target[i]} : txns'[u] = txns[u]
      BY <2>1, <2>4 DEF CommitPosting
    <3>2. /\ txns'[target[i]].status = "COMPLETED" /\ txns'[target[i]].approval = "NONE"
          /\ txns'[target[i]].src = Request[i].src
          /\ txns'[target[i]].amount = Request[i].amount
      BY <3>1 DEF NewTxn
    <3>3. \A t \in DirectOut(a) : txns'[t].amount = txns[t].amount
      BY <2>3, <3>1 DEF DirectOut, Outbound
    <3>4. CASE Request[i].op \in Transfers /\ Request[i].src = a
      BY <2>1, <2>2, <2>3, <2>4, <3>1, <3>2, <3>3, <3>4 DEF DirectOut, Outbound
    <3>5. CASE ~(Request[i].op \in Transfers /\ Request[i].src = a)
      BY <2>1, <2>2, <2>3, <3>1, <3>2, <3>3, <3>5 DEF DirectOut, Outbound
    <3> QED
      BY <3>4, <3>5
  <2>5. CASE CommitHold(i)
    <3>1. /\ txns'[target[i]].status = "PENDING"
          /\ \A u \in TxnIds \ {target[i]} : txns'[u] = txns[u]
      BY <2>1, <2>5 DEF CommitHold, NewTxn
    <3> QED
      BY <2>1, <2>3, <3>1 DEF DirectOut, Outbound
  <2> QED
    BY <1>1, <2>4, <2>5
<1>2. CASE CommitApproval(i) \/ CommitRejection(i)
  <2>1. /\ stage[i] \in Uncommitted /\ Request[i].op \in Reviews /\ target[i] \in TxnIds
    BY <1>2 DEF CommitApproval, CommitRejection, Uncommitted, Reviews, BookInv, TypeOK
  <2>2. txns[target[i]].approval # "NONE"
    BY <2>1, CommitTarget
  <2>3. txns'[target[i]].approval # "NONE"
    BY <2>1, <2>2, ApprovalStays
  <2>4. \A u \in TxnIds \ {target[i]} : txns'[u] = txns[u]
    BY <1>2, <2>1 DEF CommitApproval, CommitRejection, BookInv, TypeOK
  <2> QED
    BY <2>1, <2>2, <2>3, <2>4 DEF DirectOut, Outbound
<1>3. CASE ~CommitPosting(i) /\ ~CommitHold(i) /\ ~CommitApproval(i) /\ ~CommitRejection(i)
  <2>1. txns' = txns
    BY <1>3 DEF Handle, Fail, LoadAccounts, LoadHeld, LoadStatus, CheckBalance, CheckLimits,
       StepUp, ConfirmWire, CommitTransition, SideEffect, Respond, database
  <2> QED
    BY <2>1 DEF DirectOut, Outbound
<1> QED
  BY <1>1, <1>2, <1>3


\* So the total moves by the amount of that transfer, or not at all.
LEMMA DirectTotal ==
  ASSUME BookInv, IsFiniteSet(Started), NEW i \in Intents, Handle(i) \/ Fail(i),
         NEW a \in Accounts
  PROVE  \/ TotalOf(txns, DirectOut(a))' = TotalOf(txns, DirectOut(a))
         \/ /\ CommitPosting(i) /\ Request[i].op \in Transfers /\ Request[i].src = a
            /\ TotalOf(txns, DirectOut(a))' = TotalOf(txns, DirectOut(a)) + Request[i].amount
<1>1. IsFiniteSet(DirectOut(a)) /\ \A t \in DirectOut(a) : txns'[t].amount = txns[t].amount
  BY DirectTypes, DirectRows
<1>2. TotalOf(txns', DirectOut(a)) = TotalOf(txns, DirectOut(a))
  BY <1>1, TotalAgrees
<1>3. CASE DirectOut(a)' = DirectOut(a)
  BY <1>2, <1>3
<1>4. CASE /\ CommitPosting(i) /\ Request[i].op \in Transfers /\ Request[i].src = a
           /\ target[i] \notin DirectOut(a)
           /\ DirectOut(a)' = DirectOut(a) \cup {target[i]}
           /\ txns'[target[i]].amount = Request[i].amount
  <2>1. \A t \in DirectOut(a) \cup {target[i]} : txns'[t].amount \in Int
    <3>1. Request[i].amount \in Int
      BY RequestType
    <3>2. \A t \in DirectOut(a) : txns[t].amount \in Int
      BY DirectTypes
    <3> QED
      BY <1>1, <1>4, <3>1, <3>2
  <2>2. TotalOf(txns', DirectOut(a) \cup {target[i]}) =
          txns'[target[i]].amount + TotalOf(txns', DirectOut(a))
    BY <1>1, <1>4, <2>1, TotalWith
  <2>3. TotalOf(txns, DirectOut(a)) \in Int /\ Request[i].amount \in Int
    BY DirectTypes, RequestType
  <2>4. TotalOf(txns', DirectOut(a)') = Request[i].amount + TotalOf(txns, DirectOut(a))
    BY <1>2, <1>4, <2>2
  <2> QED
    BY <1>4, <2>3, <2>4
<1> QED
  BY <1>3, <1>4, DirectRows


\* The source of a transfer is a customer account.
LEMMA TransferSource ==
  ASSUME NEW i \in Intents, Request[i].op \in Transfers
  PROVE  Request[i].src \in Accounts
BY RequestsFollowRoutes DEF Transfers

\* The transfers that have passed the ceiling and are not posted yet.
Passed(a) ==
  {i \in Intents : /\ Request[i].op \in Transfers
                   /\ stage[i] \in {"confirm", "commit"}
                   /\ Request[i].src = a}

Moves(a) == [i \in Passed(a) |-> Request[i].amount]

CeilingInv ==
  /\ IsFiniteSet(Started)
  /\ \A a \in Accounts :
       /\ \A i \in Passed(a) : Request[i].amount <= PerTransactionLimit
       /\ Covers(DailyLimit - TotalOf(txns, DirectOut(a)), rush[a], Passed(a), Moves(a),
                 PerTransactionLimit)

LEMMA PassedIsCleared == \A a \in Accounts : Passed(a) \subseteq Cleared(a)
BY DEF Passed, Cleared, Terms, Debits, Transfers, Reviews

LEMMA PassedMoves ==
  ASSUME BookInv, BookInv', NEW i \in Intents, Step(i), NEW a \in Accounts
  PROVE  Passed(a)' \ {i} = Passed(a) \ {i}
<1>1. ASSUME NEW j \in Intents \ {i} PROVE j \in Passed(a)' <=> j \in Passed(a)
  BY <1>1, OthersStay DEF Passed
<1> QED
  BY <1>1 DEF Passed

\* The ceiling is passed at its check only, and nothing has been posted meanwhile.
LEMMA PassedBy ==
  ASSUME BookInv, IsFiniteSet(Started), NEW i \in Intents, Step(i), NEW a \in Accounts,
         i \in Passed(a)', i \notin Passed(a)
  PROVE  /\ TotalOf(txns, DirectOut(a)) + Request[i].amount <= DailyLimit
         /\ Request[i].amount <= PerTransactionLimit
         /\ txns' = txns
<1>1. /\ stage'[i] \in {"confirm", "commit"} /\ stage[i] \notin {"confirm", "commit"}
      /\ Request[i].op \in Transfers /\ Request[i].src = a
  BY DEF Passed
<1>2. Handle(i) \/ Fail(i)
  BY <1>1 DEF Step, Submit, BookInv, TypeOK
<1>3. CASE CheckLimits(i)
  <2>1. /\ TotalOf(txns, Outbound(a)) + Request[i].amount <= DailyLimit
        /\ Request[i].amount <= PerTransactionLimit
        /\ txns' = txns
    BY <1>1, <1>3 DEF CheckLimits, Answer, BookInv, TypeOK, database
  <2>2. /\ TotalOf(txns, DirectOut(a)) \in Int /\ TotalOf(txns, Outbound(a)) \in Int
        /\ TotalOf(txns, DirectOut(a)) <= TotalOf(txns, Outbound(a))
    BY DirectTypes
  <2>3. Request[i].amount \in Int /\ DailyLimit \in Int
    BY RequestType, ConstantsFit
  <2> QED
    BY <2>1, <2>2, <2>3
<1>4. CASE StepUp(i) \/ ConfirmWire(i)
  BY <1>1, <1>4 DEF StepUp, ConfirmWire
<1>5. CASE LoadAccounts(i) \/ LoadHeld(i) \/ LoadStatus(i) \/ CheckBalance(i)
  BY <1>1, <1>5 DEF LoadAccounts, LoadHeld, LoadStatus, CheckBalance, Goto, Answer, BookInv,
     TypeOK, Credits, Transfers, Reviews
<1>6. CASE Respond(i) \/ Fail(i)
  BY <1>1, <1>6 DEF Respond, Fail, Answer, BookInv, TypeOK
<1>7. CASE SideEffect(i)
  BY <1>1, <1>7 DEF SideEffect
<1>8. ASSUME NEW seq, Then(i, seq) PROVE FALSE
  BY <1>1, <1>8 DEF Then, BookInv, TypeOK
<1>9. CASE \/ CommitPosting(i) \/ CommitHold(i) \/ CommitApproval(i)
           \/ CommitRejection(i) \/ CommitTransition(i)
  BY <1>8, <1>9 DEF CommitPosting, CommitHold, CommitApproval, CommitRejection,
     CommitTransition
<1> QED
  BY <1>2, <1>3, <1>4, <1>5, <1>6, <1>7, <1>9 DEF Handle

\* Only a transfer that has passed adds to the total, and is done with it then.
LEMMA Added ==
  ASSUME BookInv, BookInv', IsFiniteSet(Started), IsFiniteSet(Started)',
         NEW i \in Intents, Step(i), NEW a \in Accounts
  PROVE  /\ TotalOf(txns, DirectOut(a)) \in Int /\ TotalOf(txns, DirectOut(a))' \in Int
         /\ \/ TotalOf(txns, DirectOut(a))' = TotalOf(txns, DirectOut(a))
            \/ /\ i \in Passed(a) /\ i \notin Passed(a)'
               /\ TotalOf(txns, DirectOut(a))' = TotalOf(txns, DirectOut(a)) + Request[i].amount
<1>1. CASE Submit(i)
  <2>1. txns' = txns
    BY <1>1 DEF Submit, database
  <2>2. TotalOf(txns, DirectOut(a))' = TotalOf(txns, DirectOut(a))
    BY <2>1 DEF DirectOut, Outbound
  <2> QED
    BY <2>2, DirectTypes
<1>2. CASE Handle(i) \/ Fail(i)
  <2>1. TotalOf(txns, DirectOut(a)) \in Int
    BY DirectTypes
  <2>2. CASE TotalOf(txns, DirectOut(a))' = TotalOf(txns, DirectOut(a))
    BY <2>1, <2>2
  <2>3. CASE /\ CommitPosting(i) /\ Request[i].op \in Transfers /\ Request[i].src = a
             /\ TotalOf(txns, DirectOut(a))' = TotalOf(txns, DirectOut(a)) + Request[i].amount
    <3>1. stage[i] = "commit" /\ stage'[i] = "after"
      BY <2>3 DEF CommitPosting, Then, BookInv, TypeOK
    <3>2. i \in Passed(a) /\ i \notin Passed(a)'
      BY <2>3, <3>1 DEF Passed
    <3>3. Request[i].amount \in Int
      BY RequestType
    <3> QED
      BY <2>1, <2>3, <3>2, <3>3
  <2> QED
    BY <1>2, <2>2, <2>3, DirectTotal
<1> QED
  BY <1>1, <1>2 DEF Step

LEMMA CeilingStep ==
  ASSUME BookInv, BookInv', HistoriesFit, HistoriesFit', CeilingInv, NEW i \in Intents, Step(i),
         \A a \in Accounts : rush'[a] >= rush[a]
  PROVE  CeilingInv'
<1>1. IsFiniteSet(Started)'
  <2>1. CASE Submit(i)
    BY <2>1 DEF Submit, database, Started, CeilingInv
  <2> QED
    BY <2>1, StartedStep DEF Step, CeilingInv
<1>2. ASSUME NEW a \in Accounts
      PROVE  /\ \A j \in Passed(a)' : Request[j].amount <= PerTransactionLimit
             /\ Covers(DailyLimit - TotalOf(txns, DirectOut(a))', rush'[a], Passed(a)',
                       Moves(a)', PerTransactionLimit)
  <2>1. Passed(a)' \ {i} = Passed(a) \ {i}
    BY PassedMoves
  <2>2. ASSUME NEW j \in Passed(a)' PROVE Request[j].amount <= PerTransactionLimit
    <3>1. CASE j \in Passed(a)
      BY <3>1 DEF CeilingInv
    <3>2. CASE j \notin Passed(a)
      <4>1. j = i
        BY <2>1, <2>2, <3>2
      <4> QED
        BY <2>2, <3>2, <4>1, PassedBy DEF CeilingInv
    <3> QED
      BY <3>1, <3>2
  <2>3. \A j \in Intents : Request[j].amount \in Nat
    BY RequestType
  <2>4. /\ rush[a] \in Nat /\ rush'[a] \in Nat /\ rush'[a] >= rush[a]
        /\ IsFiniteSet(Cleared(a)) /\ Cardinality(Cleared(a)) <= rush[a]
        /\ IsFiniteSet(Cleared(a)') /\ Cardinality(Cleared(a)') <= rush'[a]
    BY DEF HistoriesFit
  <2>5. Passed(a) \subseteq Cleared(a)
    BY PassedIsCleared
  <2>6. Passed(a)' \subseteq Cleared(a)'
    BY DEF Passed, Cleared, Terms, Debits, Transfers, Reviews
  <2>7. /\ IsFiniteSet(Passed(a)) /\ Cardinality(Passed(a)) <= rush[a]
        /\ Cardinality(Passed(a)') <= rush'[a]
    <3>1. /\ IsFiniteSet(Passed(a)) /\ Cardinality(Passed(a)) <= Cardinality(Cleared(a))
          /\ Cardinality(Passed(a)) \in Nat /\ Cardinality(Cleared(a)) \in Nat
      BY <2>4, <2>5, FS_Subset, FS_CardinalityType
    <3>2. /\ IsFiniteSet(Passed(a)') /\ Cardinality(Passed(a)') <= Cardinality(Cleared(a)')
          /\ Cardinality(Passed(a)') \in Nat /\ Cardinality(Cleared(a)') \in Nat
      BY <2>4, <2>6, FS_Subset, FS_CardinalityType
    <3> QED
      BY <2>4, <3>1, <3>2
  <2>8. /\ TotalOf(txns, DirectOut(a)) \in Int /\ TotalOf(txns, DirectOut(a))' \in Int
        /\ \/ TotalOf(txns, DirectOut(a))' = TotalOf(txns, DirectOut(a))
           \/ /\ i \in Passed(a) /\ i \notin Passed(a)'
              /\ TotalOf(txns, DirectOut(a))' = TotalOf(txns, DirectOut(a)) + Request[i].amount
    BY <1>1, Added DEF CeilingInv
  <2>9. /\ DailyLimit \in Nat /\ PerTransactionLimit \in Nat
        /\ Covers(DailyLimit - TotalOf(txns, DirectOut(a)), rush[a], Passed(a), Moves(a),
                  PerTransactionLimit)
    BY ConstantsFit DEF CeilingInv
  <2>10. ASSUME i \in Passed(a)', i \notin Passed(a)
         PROVE  /\ TotalOf(txns, DirectOut(a))' = TotalOf(txns, DirectOut(a))
                /\ TotalOf(txns, DirectOut(a)) + Request[i].amount <= DailyLimit
    BY <2>8, <2>10, PassedBy DEF CeilingInv
  <2> DEFINE C == Passed(a)
             D == Passed(a)'
             w == Moves(a)
             v == Moves(a)'
             left == DailyLimit - TotalOf(txns, DirectOut(a))
             then == DailyLimit - TotalOf(txns, DirectOut(a))'
  <2>11. /\ \A j \in C : w[j] = Request[j].amount /\ w[j] \in Nat /\ w[j] <= PerTransactionLimit
         /\ \A j \in D : v[j] = Request[j].amount /\ v[j] \in Nat /\ v[j] <= PerTransactionLimit
    BY <2>2, <2>3 DEF Moves, Passed, CeilingInv
  <2>12. left \in Int /\ then \in Int
    BY <2>8, <2>9
  <2>13. /\ i \in D /\ i \notin C => then >= v[i]
         /\ i \in C /\ i \notin D => then >= left - w[i]
         /\ (i \in C <=> i \in D) => then >= left
    BY <2>3, <2>8, <2>9, <2>10, <2>11
  <2>14. /\ IsFiniteSet(C) /\ D \ {i} = C \ {i} /\ Cardinality(C) <= rush[a]
         /\ Cardinality(D) <= rush'[a] /\ Covers(left, rush[a], C, w, PerTransactionLimit)
         /\ \A j \in C \cap D : v[j] = w[j]
    BY <2>1, <2>7, <2>9, <2>11
  <2> HIDE DEF C, D, w, v, left, then
  <2>15. Covers(then, rush'[a], D, v, PerTransactionLimit)
    BY <2>4, <2>9, <2>11, <2>12, <2>13, <2>14, CoversStep
  <2> QED
    BY <2>2, <2>15 DEF then, D, v
<1> QED
  BY <1>1, <1>2 DEF CeilingInv

-----------------------------------------------------------------------------
(* Reviews.                                                                *)

\* How often t was resolved, as far as it shows.
Resolved(t) ==
  Cardinality(EntriesOf(journal, t)) + (IF txns[t].status = "REJECTED" THEN 1 ELSE 0)

ReviewInv ==
  \A t \in TxnIds :
    IF txns[t].approval = "NONE"
    THEN Cardinality(EntriesOf(journal, t)) <= 1 /\ txns[t].status # "REJECTED"
    ELSE Resolved(t) + Cardinality(Resolving(t)) <= reviewers[t]

LEMMA EntriesAreFinite ==
  ASSUME TypeOK, NEW t
  PROVE  /\ IsFiniteSet(EntriesOf(journal, t)) /\ Cardinality(EntriesOf(journal, t)) \in Nat
         /\ Len(journal) + 1 \notin EntriesOf(journal, t)
<1>1. DOMAIN journal = 1..Len(journal) /\ Len(journal) \in Nat
  BY DEF TypeOK
<1>2. IsFiniteSet(1..Len(journal))
  BY <1>1, FS_Interval
<1>3. EntriesOf(journal, t) \subseteq 1..Len(journal)
  BY <1>1 DEF EntriesOf
<1>4. IsFiniteSet(EntriesOf(journal, t))
  BY <1>2, <1>3, FS_Subset
<1> QED
  BY <1>1, <1>3, <1>4, FS_CardinalityType

\* A commit about t, the only step that changes what shows of it.
LEMMA TouchedBy ==
  ASSUME BookInv, NEW i \in Intents, Step(i), NEW t \in TxnIds,
         ~(t = target[i] /\ (\/ CommitPosting(i) \/ CommitHold(i) \/ CommitApproval(i)
                             \/ CommitRejection(i)))
  PROVE  txns'[t] = txns[t] /\ EntriesOf(journal', t) = EntriesOf(journal, t)
<1>1. CASE ~CommitPosting(i) /\ ~CommitHold(i) /\ ~CommitApproval(i) /\ ~CommitRejection(i)
  BY <1>1 DEF Step, Submit, Handle, Fail, LoadAccounts, LoadHeld, LoadStatus, CheckBalance,
     CheckLimits, StepUp, ConfirmWire, CommitTransition, SideEffect, Respond, database, EntriesOf
<1>2. CASE t # target[i] /\ (CommitPosting(i) \/ CommitApproval(i))
  <2>1. \E m : Post(target[i], m)
    BY <1>2 DEF CommitPosting, CommitApproval
  <2>2. target[i] \in TxnIds
    BY DEF BookInv, TypeOK
  <2>3. EntriesOf(journal', t) = EntriesOf(journal, t)
    BY <1>2, <2>1, <2>2, PostEntries DEF BookInv
  <2>4. txns'[t] = txns[t]
    BY <1>2, <2>2 DEF CommitPosting, CommitApproval, BookInv, TypeOK
  <2> QED
    BY <2>3, <2>4
<1>3. CASE t # target[i] /\ (CommitHold(i) \/ CommitRejection(i))
  <2>1. target[i] \in TxnIds
    BY DEF BookInv, TypeOK
  <2> QED
    BY <1>3, <2>1 DEF CommitHold, CommitRejection, BookInv, TypeOK, EntriesOf
<1> QED
  BY <1>1, <1>2, <1>3

\* A review resolves t at most once for each that found it PENDING.
LEMMA ReviewCommits ==
  ASSUME BookInv, NEW i \in Intents, CommitApproval(i) \/ CommitRejection(i),
         NEW t, t = target[i]
  PROVE  /\ t \in TxnIds /\ txns[t].approval # "NONE" /\ txns'[t].approval # "NONE"
         /\ i \in Resolving(t) /\ i \notin Resolving(t)'
         /\ Resolved(t)' <= Resolved(t) + 1
         /\ Resolved(t) \in Nat /\ Resolved(t)' \in Nat
<1>1. /\ stage[i] = "commit" /\ Request[i].op \in Reviews /\ stage'[i] = "after"
      /\ t \in TxnIds /\ txns[t] \in Txn
  BY DEF CommitApproval, CommitRejection, Reviews, Then, BookInv, TypeOK
<1>2. txns[t].approval # "NONE"
  BY <1>1, CommitTarget DEF Uncommitted
<1>3. i \in Resolving(t) /\ i \notin Resolving(t)'
  BY <1>1 DEF Resolving
<1>4. Cardinality(EntriesOf(journal, t)) \in Nat
  BY EntriesAreFinite DEF BookInv
<1>5. CASE CommitApproval(i)
  <2>1. txns'[t].status = "COMPLETED" /\ txns'[t].approval = "APPROVED"
    BY <1>1, <1>5 DEF CommitApproval, BookInv, TypeOK, Txn
  <2>2. EntriesOf(journal', t) = EntriesOf(journal, t) \cup {Len(journal) + 1}
    BY <1>1, <1>5, PostEntries DEF CommitApproval, BookInv
  <2>3. Cardinality(EntriesOf(journal', t)) = Cardinality(EntriesOf(journal, t)) + 1
    BY <2>2, EntriesAreFinite, FS_AddElement DEF BookInv
  <2> QED
    BY <1>1, <1>2, <1>3, <1>4, <2>1, <2>3 DEF Resolved
<1>6. CASE CommitRejection(i)
  <2>1. txns'[t].status = "REJECTED" /\ txns'[t].approval = "REJECTED" /\ journal' = journal
    BY <1>1, <1>6 DEF CommitRejection, BookInv, TypeOK, Txn
  <2> QED
    BY <1>1, <1>2, <1>3, <1>4, <2>1 DEF Resolved
<1> QED
  BY <1>5, <1>6

\* A review begins to resolve a transaction that nobody has resolved.
LEMMA ResolvingBy ==
  ASSUME BookInv, NEW i \in Intents, Step(i), NEW t \in TxnIds,
         i \in Resolving(t)', i \notin Resolving(t)
  PROVE  txns[t].status = "PENDING" /\ txns' = txns /\ journal' = journal
<1>1. /\ stage'[i] \in {"balance", "commit"} /\ Request[i].op \in Reviews /\ target'[i] = t
  BY DEF Resolving
<1>2. Handle(i) \/ Fail(i)
  BY <1>1 DEF Step, Submit, BookInv, TypeOK
<1>3. target'[i] = target[i] /\ stage[i] \notin {"balance", "commit"}
  BY <1>1, <1>2, StepShape DEF Resolving
<1>4. CASE LoadHeld(i)
  BY <1>1, <1>3, <1>4 DEF LoadHeld, Answer, BookInv, TypeOK, database
<1>5. CASE LoadAccounts(i) \/ LoadStatus(i)
  BY <1>1, <1>5 DEF LoadAccounts, LoadStatus, Credits, Debits, Transfers, Reviews
<1>6. CASE CheckBalance(i) \/ CheckLimits(i) \/ StepUp(i) \/ ConfirmWire(i)
  BY <1>1, <1>3, <1>6 DEF CheckBalance, CheckLimits, StepUp, ConfirmWire, BookInv, StageFits,
     Transfers, Reviews
<1>7. CASE Respond(i) \/ Fail(i)
  BY <1>1, <1>7 DEF Respond, Fail, Answer, BookInv, TypeOK
<1>8. CASE SideEffect(i)
  BY <1>1, <1>8 DEF SideEffect
<1>9. ASSUME NEW seq, Then(i, seq) PROVE FALSE
  BY <1>1, <1>9 DEF Then, BookInv, TypeOK
<1>10. CASE \/ CommitPosting(i) \/ CommitHold(i) \/ CommitApproval(i)
            \/ CommitRejection(i) \/ CommitTransition(i)
  BY <1>9, <1>10 DEF CommitPosting, CommitHold, CommitApproval, CommitRejection,
     CommitTransition
<1> QED
  BY <1>2, <1>4, <1>5, <1>6, <1>7, <1>8, <1>10 DEF Handle

LEMMA ReviewInvStep ==
  ASSUME BookInv, BookInv', HistoriesFit, HistoriesFit', ReviewInv, NEW i \in Intents, Step(i),
         \A t \in TxnIds : reviewers'[t] >= reviewers[t]
  PROVE  ReviewInv'
<1> SUFFICES ASSUME NEW t \in TxnIds
             PROVE  IF txns'[t].approval = "NONE"
                    THEN Cardinality(EntriesOf(journal, t))' <= 1 /\ txns'[t].status # "REJECTED"
                    ELSE Resolved(t)' + Cardinality(Resolving(t))' <= reviewers'[t]
  BY DEF ReviewInv
<1>1. /\ reviewers[t] \in Nat /\ reviewers'[t] \in Nat /\ reviewers'[t] >= reviewers[t]
      /\ IsFiniteSet(Resolving(t)) /\ Cardinality(Resolving(t))' <= reviewers'[t]
  BY DEF HistoriesFit
<1>2. /\ Cardinality(Resolving(t)) \in Nat /\ Cardinality(Resolving(t))' \in Nat
      /\ \/ Cardinality(Resolving(t))' = Cardinality(Resolving(t))
         \/ i \in Resolving(t)' /\ i \notin Resolving(t)
         \/ /\ i \in Resolving(t) /\ i \notin Resolving(t)'
            /\ Cardinality(Resolving(t)) = Cardinality(Resolving(t))' + 1
  <2>1. Resolving(t)' \ {i} = Resolving(t) \ {i}
    BY ResolvingMoves
  <2> DEFINE S == Resolving(t)
             T == Resolving(t)'
  <2>2. IsFiniteSet(S) /\ T \ {i} = S \ {i}
    BY <1>1, <2>1
  <2> HIDE DEF S, T
  <2>3. /\ Cardinality(S) \in Nat /\ Cardinality(T) \in Nat
        /\ \/ T = S
           \/ i \in T /\ i \notin S
           \/ i \in S /\ i \notin T /\ Cardinality(S) = Cardinality(T) + 1
    BY <2>2, CountStep
  <2> QED
    BY <2>3 DEF S, T
<1>3. Cardinality(EntriesOf(journal, t)) \in Nat /\ Cardinality(EntriesOf(journal, t))' \in Nat
  <2>1. TypeOK => Cardinality(EntriesOf(journal, t)) \in Nat
    BY EntriesAreFinite
  <2>2. TypeOK' => Cardinality(EntriesOf(journal', t)) \in Nat
    <3>1. ASSUME TypeOK' PROVE IsFiniteSet(EntriesOf(journal', t))
      <4>1. DOMAIN journal' = 1..Len(journal') /\ Len(journal') \in Nat
        BY <3>1 DEF TypeOK
      <4>2. IsFiniteSet(1..Len(journal'))
        BY <4>1, FS_Interval
      <4>3. EntriesOf(journal', t) \subseteq 1..Len(journal')
        BY <4>1 DEF EntriesOf
      <4> QED
        BY <4>2, <4>3, FS_Subset
    <3> QED
      BY <3>1, FS_CardinalityType
  <2> QED
    BY <2>1, <2>2 DEF BookInv
<1>4. CASE t = target[i] /\ (CommitApproval(i) \/ CommitRejection(i))
  <2>1. /\ txns[t].approval # "NONE" /\ txns'[t].approval # "NONE"
        /\ i \in Resolving(t) /\ i \notin Resolving(t)'
        /\ Resolved(t)' <= Resolved(t) + 1
        /\ Resolved(t) \in Nat /\ Resolved(t)' \in Nat
    BY <1>4, ReviewCommits
  <2>2. Resolved(t) + Cardinality(Resolving(t)) <= reviewers[t]
    BY <2>1 DEF ReviewInv
  <2>3. Cardinality(Resolving(t)) = Cardinality(Resolving(t))' + 1
    BY <1>2, <2>1, CountStep, ResolvingMoves, <1>1
  <2> QED
    BY <1>1, <1>2, <2>1, <2>2, <2>3
<1>5. CASE t = target[i] /\ (CommitPosting(i) \/ CommitHold(i))
  <2>1. /\ stage[i] \in Uncommitted /\ Request[i].op \in Credits \cup Debits
        /\ txns \in [TxnIds -> Txn]
    BY <1>5 DEF CommitPosting, CommitHold, Uncommitted, BookInv, TypeOK, StageFits, Debits,
       Transfers
  <2>2. txns[t] = NoTxn
    BY <1>5, <2>1, CommitTarget DEF Reviews, Credits, Debits, Transfers
  <2>3. EntriesOf(journal, t) = {}
    BY <2>2 DEF BookInv, Books, HeldMoneyDoesNotMove, NoTxn
  <2>4. CASE CommitPosting(i)
    <3>1. txns'[t].approval = "NONE" /\ txns'[t].status = "COMPLETED"
      BY <1>5, <2>1, <2>4 DEF CommitPosting, NewTxn
    <3>2. EntriesOf(journal', t) = {Len(journal) + 1}
      <4>1. Post(target[i], Request[i])
        BY <2>4 DEF CommitPosting
      <4>2. EntriesOf(journal', t) = EntriesOf(journal, t) \cup {Len(journal) + 1}
        BY <1>5, <4>1, PostEntries DEF BookInv
      <4> QED
        BY <2>3, <4>2
    <3>3. Cardinality(EntriesOf(journal', t)) = 1
      BY <3>2, FS_Singleton
    <3> QED
      BY <3>1, <3>3
  <2>5. CASE CommitHold(i)
    <3>1. txns'[t].approval = "PENDING" /\ txns'[t].status = "PENDING" /\ journal' = journal
      BY <1>5, <2>1, <2>5 DEF CommitHold, NewTxn
    <3>2. Resolved(t)' = 0
      <4>1. EntriesOf(journal', t) = {}
        BY <2>3, <3>1
      <4>2. Cardinality(EntriesOf(journal', t)) = 0
        BY <4>1, FS_EmptySet
      <4> QED
        BY <3>1, <4>2 DEF Resolved
    <3> QED
      BY <1>1, <1>2, <3>1, <3>2
  <2> QED
    BY <1>5, <2>4, <2>5
<1>6. CASE ~(t = target[i] /\ (\/ CommitPosting(i) \/ CommitHold(i) \/ CommitApproval(i)
                                 \/ CommitRejection(i)))
  <2>1. txns'[t] = txns[t] /\ EntriesOf(journal', t) = EntriesOf(journal, t)
    BY <1>6, TouchedBy
  <2>2. Resolved(t)' = Resolved(t) /\ Resolved(t) \in Nat
    BY <1>3, <2>1 DEF Resolved
  <2>3. CASE txns[t].approval = "NONE"
    BY <2>1, <2>3 DEF ReviewInv
  <2>4. CASE txns[t].approval # "NONE" /\ i \in Resolving(t)' /\ i \notin Resolving(t)
    <3>1. txns[t].status = "PENDING"
      BY <2>4, ResolvingBy
    <3>2. EntriesOf(journal, t) = {}
      BY <3>1 DEF BookInv, Books, HeldMoneyDoesNotMove
    <3>3. Cardinality(EntriesOf(journal, t)) = 0
      BY <3>2, FS_EmptySet
    <3>4. Resolved(t) = 0
      BY <3>1, <3>3 DEF Resolved
    <3> QED
      BY <1>1, <1>2, <2>1, <2>2, <2>4, <3>4
  <2>5. CASE txns[t].approval # "NONE" /\ ~(i \in Resolving(t)' /\ i \notin Resolving(t))
    <3>1. Resolved(t) + Cardinality(Resolving(t)) <= reviewers[t]
      BY <2>5 DEF ReviewInv
    <3>2. Cardinality(Resolving(t))' <= Cardinality(Resolving(t))
      BY <1>2, <2>5
    <3> QED
      BY <1>1, <1>2, <2>1, <2>2, <2>5, <3>1, <3>2
  <2> QED
    BY <2>3, <2>4, <2>5
<1> QED
  BY <1>4, <1>5, <1>6

-----------------------------------------------------------------------------
(* Together.                                                               *)

OverlapInv == HistoriesFit /\ FundsInv /\ CeilingInv /\ ReviewInv

LEMMA OverlapStarts == OverlapInit => OverlapInv
<1> SUFFICES ASSUME OverlapInit PROVE OverlapInv
  OBVIOUS
<1>1. /\ \A a : Cleared(a) = {} /\ Passed(a) = {}
      /\ \A t : Resolving(t) = {}
      /\ IsFiniteSet({}) /\ Cardinality({}) = 0
  BY FS_EmptySet DEF OverlapInit, Init, Cleared, Passed, Resolving
<1>2. HistoriesFit
  BY <1>1 DEF OverlapInit, HistoriesFit
<1>3. FundsInv
  <2>1. \A a \in Accounts \ OverdraftAccounts : balance[a] \in Int /\ balance[a] >= 0 /\ rush[a] = 0
    BY OpeningBalances, ConstantsFit DEF OverlapInit, Init
  <2>2. 0 * Largest = 0
    BY AmountsAreBounded
  <2> QED
    BY <1>1, <2>1, <2>2 DEF FundsInv, Covers
<1>4. CeilingInv
  <2>1. Started = {} /\ \A a : DirectOut(a) = {}
    BY DEF OverlapInit, Init, Started, DirectOut, Outbound, NoTxn
  <2>2. TotalOf(txns, {}) = 0
    BY TotalOfNone
  <2>3. \A a \in Accounts : rush[a] = 0
    BY DEF OverlapInit
  <2>4. DailyLimit \in Nat /\ 0 * PerTransactionLimit = 0
    BY ConstantsFit
  <2>5. \A a \in Accounts : TotalOf(txns, DirectOut(a)) = 0
    BY <2>1, <2>2
  <2> QED
    BY <1>1, <2>1, <2>3, <2>4, <2>5 DEF CeilingInv, Covers
<1>5. ReviewInv
  <2>1. \A t \in TxnIds : EntriesOf(journal, t) = {} /\ txns[t] = NoTxn
    BY DEF OverlapInit, Init, EntriesOf
  <2> QED
    BY <1>1, <2>1 DEF ReviewInv, NoTxn
<1> QED
  BY <1>2, <1>3, <1>4, <1>5 DEF OverlapInv

LEMMA OverlapStep ==
  ASSUME BookInv, BookInv', OverlapInv, [OverlapNext]_overlapVars
  PROVE  OverlapInv'
<1>1. CASE UNCHANGED overlapVars
  <2>1. /\ stage' = stage /\ target' = target /\ txns' = txns /\ journal' = journal
        /\ balance' = balance /\ rush' = rush /\ reviewers' = reviewers
    BY <1>1 DEF overlapVars, vars
  <2>2. \A a : Cleared(a)' = Cleared(a) /\ Passed(a)' = Passed(a) /\ Moves(a)' = Moves(a)
    BY <2>1 DEF Cleared, Passed, Moves, Terms
  <2>3. \A a : Asks(a)' = Asks(a)
    BY <2>1, <2>2 DEF Asks, Terms
  <2>4. Started' = Started /\ \A a : DirectOut(a)' = DirectOut(a)
    BY <2>1 DEF DirectOut, Outbound, Started
  <2>5. \A t : Resolving(t)' = Resolving(t) /\ Resolved(t)' = Resolved(t)
    BY <2>1 DEF Resolving, Resolved, EntriesOf
  <2>6. HistoriesFit'
    BY <2>1, <2>2, <2>5 DEF OverlapInv, HistoriesFit
  <2>7. FundsInv'
    BY <2>1, <2>2, <2>3 DEF OverlapInv, FundsInv, Covers
  <2>8. CeilingInv'
    BY <2>1, <2>2, <2>4 DEF OverlapInv, CeilingInv, Covers
  <2>9. ReviewInv'
    BY <2>1, <2>5 DEF OverlapInv, ReviewInv
  <2> QED
    BY <2>6, <2>7, <2>8, <2>9 DEF OverlapInv
<1>2. CASE OverlapNext
  <2>1. PICK i \in Intents : Step(i)
    BY <1>2 DEF OverlapNext, Next, Step
  <2>2. /\ HistoriesFit'
        /\ \A a \in Accounts : rush'[a] >= rush[a]
        /\ \A t \in TxnIds : reviewers'[t] >= reviewers[t]
    BY <1>2, <2>1, SetsStayFinite, HistoriesGrow DEF OverlapInv
  <2>3. FundsInv'
    BY <2>1, <2>2, FundsStep DEF OverlapInv
  <2>4. CeilingInv'
    BY <2>1, <2>2, CeilingStep DEF OverlapInv
  <2>5. ReviewInv'
    BY <2>1, <2>2, ReviewInvStep DEF OverlapInv
  <2> QED
    BY <2>2, <2>3, <2>4, <2>5 DEF OverlapInv
<1> QED
  BY <1>1, <1>2

LEMMA OverlapIsMovement == OverlapSpec => Spec
<1>1. OverlapInit => Init
  BY DEF OverlapInit
<1>2. [OverlapNext]_overlapVars => [Next]_vars
  BY DEF OverlapNext, overlapVars
<1> QED
  BY <1>1, <1>2, PTL DEF OverlapSpec, Spec

LEMMA OverlapHolds == OverlapSpec => []OverlapInv
BY OverlapStarts, OverlapStep, OverlapIsMovement, BooksHold, PTL DEF OverlapSpec

\* What is left covers one request, so at worst all the others are missing.
LEMMA CoversBound ==
  ASSUME NEW L \in Nat, NEW C, IsFiniteSet(C), NEW w, \A j \in C : w[j] \in Nat,
         NEW left \in Int, NEW most \in Nat, Cardinality(C) <= most,
         Covers(left, most, C, w, L)
  PROVE  /\ (IF most = 0 THEN 0 ELSE most - 1) * L \in Int
         /\ left + (IF most = 0 THEN 0 ELSE most - 1) * L >= 0
<1>1. CASE C = {}
  <2>1. (IF most = 0 THEN 0 ELSE most - 1) \in Nat
    OBVIOUS
  <2>2. \A m \in Nat : m * L \in Int
    OBVIOUS
  <2> QED
    BY <1>1, <2>1, <2>2 DEF Covers
<1>2. CASE C # {}
  <2>1. PICK j \in C : left + (most - Cardinality(C)) * L >= w[j]
    BY <1>2 DEF Covers
  <2>2. Cardinality(C) \in Nat /\ Cardinality(C) # 0
    BY <1>2, FS_CardinalityType, FS_EmptySet
  <2>3. most # 0 /\ most - 1 \in Int /\ most - Cardinality(C) \in Int
        /\ most - Cardinality(C) <= most - 1
    BY <2>2
  <2> DEFINE x == (most - Cardinality(C)) * L
             y == (most - 1) * L
  <2>4. x \in Int /\ y \in Int /\ x <= y
    BY <2>3, TimesGrows
  <2>5. left + x >= w[j] /\ w[j] \in Nat
    BY <2>1
  <2> HIDE DEF x, y
  <2>6. left + y >= 0 /\ y \in Int
    BY <2>4, <2>5
  <2> QED
    BY <2>3, <2>6 DEF y
<1> QED
  BY <1>1, <1>2

\* A standard account is overdrawn at most by what was decided on a stale balance: one
\* amount for each debit that was once past its check at the same time as another.
THEOREM OverdraftNeedsOverlap == OverlapSpec => []OverdraftIsOverlap
<1>1. BookInv /\ OverlapInv => OverdraftIsOverlap
  <2> SUFFICES ASSUME BookInv, OverlapInv, NEW a \in Accounts \ OverdraftAccounts
               PROVE  balance[a] >= -(Slipped(a) * Largest)
    BY DEF OverdraftIsOverlap
  <2>1. /\ balance[a] \in Int /\ rush[a] \in Nat /\ IsFiniteSet(Cleared(a))
        /\ Cardinality(Cleared(a)) <= rush[a]
    BY DEF BookInv, TypeOK, OverlapInv, HistoriesFit
  <2>2. Covers(balance[a], rush[a], Cleared(a), Asks(a), Largest)
    BY DEF OverlapInv, FundsInv
  <2>3. \A j \in Cleared(a) : Asks(a)[j] \in Nat
    BY AsksFit
  <2>4. Slipped(a) * Largest \in Int /\ balance[a] + Slipped(a) * Largest >= 0
    BY <2>1, <2>2, <2>3, AmountsAreBounded, CoversBound DEF Slipped
  <2> DEFINE x == Slipped(a) * Largest
  <2> HIDE DEF x
  <2>5. x \in Int /\ balance[a] + x >= 0
    BY <2>4 DEF x
  <2>6. balance[a] >= -x
    BY <2>1, <2>5
  <2> QED
    BY <2>6 DEF x
<1> QED
  BY <1>1, OverlapHolds, OverlapIsMovement, BooksHold, PTL

\* What an account has sent without a review stays within the ceiling, except for one
\* transfer for each that was once past the checks at the same time as another.
THEOREM ExcessNeedsOverlap == OverlapSpec => []ExcessIsOverlap
<1>1. BookInv /\ OverlapInv => ExcessIsOverlap
  <2> SUFFICES ASSUME BookInv, OverlapInv, NEW a \in Accounts
               PROVE  TotalOf(txns, DirectOut(a)) <= DailyLimit + Slipped(a) * PerTransactionLimit
    BY DEF ExcessIsOverlap, DirectOut
  <2> DEFINE sent == TotalOf(txns, DirectOut(a))
             x == Slipped(a) * PerTransactionLimit
  <2>1. /\ rush[a] \in Nat /\ IsFiniteSet(Cleared(a)) /\ Cardinality(Cleared(a)) <= rush[a]
        /\ Passed(a) \subseteq Cleared(a)
    BY PassedIsCleared DEF OverlapInv, HistoriesFit
  <2>2. /\ IsFiniteSet(Passed(a)) /\ Cardinality(Passed(a)) \in Nat
        /\ Cardinality(Cleared(a)) \in Nat
        /\ Cardinality(Passed(a)) <= Cardinality(Cleared(a))
    BY <2>1, FS_Subset, FS_CardinalityType
  <2>3. Cardinality(Passed(a)) <= rush[a]
    BY <2>1, <2>2
  <2>4. sent \in Int
    BY DirectTypes DEF OverlapInv, CeilingInv
  <2>5. Covers(DailyLimit - sent, rush[a], Passed(a), Moves(a), PerTransactionLimit)
    BY DEF OverlapInv, CeilingInv
  <2>6. \A j \in Passed(a) : Moves(a)[j] \in Nat
    BY RequestType DEF Moves, Passed
  <2>7. DailyLimit \in Nat /\ PerTransactionLimit \in Nat /\ DailyLimit - sent \in Int
    BY <2>4, ConstantsFit
  <2> HIDE DEF sent
  <2>8. x \in Int /\ (DailyLimit - sent) + x >= 0
    BY <2>1, <2>2, <2>3, <2>5, <2>6, <2>7, CoversBound DEF Slipped
  <2> HIDE DEF x
  <2>9. sent <= DailyLimit + x
    BY <2>4, <2>7, <2>8 DEF sent
  <2> QED
    BY <2>9 DEF sent, x
<1> QED
  BY <1>1, OverlapHolds, OverlapIsMovement, BooksHold, PTL

\* A held transfer is posted again, or posted although it was rejected, only as often
\* as reviews of it found it PENDING at the same time.
THEOREM ResolutionNeedsReview == OverlapSpec => []ResolvedOncePerReview
<1>1. BookInv /\ OverlapInv => ResolvedOncePerReview
  <2> SUFFICES ASSUME BookInv, OverlapInv, NEW t \in TxnIds
               PROVE  Resolved(t) <= Greater(reviewers[t], 1)
    BY DEF ResolvedOncePerReview, Resolved
  <2>1. /\ reviewers[t] \in Nat /\ Cardinality(Resolving(t)) \in Nat
        /\ Cardinality(EntriesOf(journal, t)) \in Nat
    BY FS_CardinalityType, EntriesAreFinite DEF BookInv, OverlapInv, HistoriesFit
  <2>2. Greater(reviewers[t], 1) >= reviewers[t] /\ Greater(reviewers[t], 1) >= 1
        /\ Greater(reviewers[t], 1) \in Int
    BY <2>1, GreaterIs
  <2>3. CASE txns[t].approval = "NONE"
    BY <2>1, <2>2, <2>3 DEF OverlapInv, ReviewInv, Resolved
  <2>4. CASE txns[t].approval # "NONE"
    <3>1. Resolved(t) + Cardinality(Resolving(t)) <= reviewers[t]
      BY <2>4 DEF OverlapInv, ReviewInv
    <3>2. Resolved(t) \in Nat
      BY <2>1 DEF Resolved
    <3> QED
      BY <2>1, <2>2, <3>1, <3>2
  <2> QED
    BY <2>3, <2>4
<1> QED
  BY <1>1, OverlapHolds, OverlapIsMovement, BooksHold, PTL

-----------------------------------------------------------------------------
(* The refinement.  Each commit is one action of TransferContract; every   *)
(* other step leaves its three variables alone.                            *)

StateOf(status) ==
  CASE status = "NONE" -> "none"
    [] status = "PENDING" -> "held"
    [] status = "COMPLETED" -> "settled"
    [] status = "REJECTED" -> "declined"

LEMMA StateNames ==
  /\ StateOf("NONE") = "none" /\ StateOf("PENDING") = "held"
  /\ StateOf("COMPLETED") = "settled" /\ StateOf("REJECTED") = "declined"
BY DEF StateOf

AsPromisedRow(x) ==
  [state |-> StateOf(x.status), debit |-> x.src, credit |-> x.dst, amount |-> x.amount]

LEMMA PromisedRows == AsPromised = [t \in TxnIds |-> AsPromisedRow(txns[t])]
BY DEF AsPromised, AsPromisedRow, StateOf

LEMMA PromisedRowsNext == AsPromised' = [t \in TxnIds |-> AsPromisedRow(txns'[t])]
BY DEF AsPromised, AsPromisedRow, StateOf

LEMMA ContractInit == Init => Contract!Init
<1> SUFFICES ASSUME Init PROVE Contract!Init
  OBVIOUS
<1>1. AsPromisedRow(NoTxn) = Contract!Blank
  BY StateNames DEF AsPromisedRow, NoTxn, Contract!Blank
<1>2. QED
  BY <1>1, PromisedRows DEF Init, Contract!Init

LEMMA FreshStep ==
  ASSUME BookInv, NEW i \in Intents, CommitPosting(i) \/ CommitHold(i)
  PROVE  Contract!Next
<1> DEFINE t == target[i]
           r == Request[i]
<1>1. /\ stage[i] \in Uncommitted \ {"load"} /\ r.op \in Credits \cup Debits
  BY DEF CommitPosting, CommitHold, BookInv, StageFits, Uncommitted, Debits, Transfers
<1>2. /\ t \in TxnIds /\ txns[t] = NoTxn
      /\ r.src # r.dst
  BY <1>1, CommitTarget DEF Reviews, Credits, Debits, Transfers, BookInv, StageFits, Uncommitted
<1>3. /\ r.src \in Accounts \cup {Cash} /\ r.dst \in Accounts \cup {Cash}
      /\ r.amount \in {Request[k].amount : k \in Intents}
  BY RequestType DEF LedgerAccounts
<1>4. AsPromised[t] = Contract!Blank
  BY <1>2, PromisedRows, StateNames DEF AsPromisedRow, NoTxn, Contract!Blank
<1>5. ASSUME NEW status, NEW approval,
             txns' = [txns EXCEPT ![t] = NewTxn(i, status, approval)]
      PROVE  AsPromised' = [AsPromised EXCEPT ![t] =
               Contract!TermsOf(StateOf(status), Contract!Entry(t, r.src, r.dst, r.amount))]
  <2>1. AsPromisedRow(NewTxn(i, status, approval)) =
          Contract!TermsOf(StateOf(status), Contract!Entry(t, r.src, r.dst, r.amount))
    BY DEF AsPromisedRow, NewTxn, Contract!TermsOf, Contract!Entry
  <2>2. \A u \in TxnIds : txns'[u] = IF u = t THEN NewTxn(i, status, approval) ELSE txns[u]
    BY <1>2, <1>5 DEF BookInv, TypeOK
  <2>3. QED
    BY <1>2, <2>1, <2>2, PromisedRows, PromisedRowsNext
<1>6. CASE CommitPosting(i)
  <2>1. Contract!Post(Contract!Entry(t, r.src, r.dst, r.amount))
    BY <1>6 DEF CommitPosting, Post, Contract!Post, Entry, Contract!Entry, Moved, Contract!Moved
  <2>2. AsPromised' = [AsPromised EXCEPT ![t] =
          Contract!TermsOf("settled", Contract!Entry(t, r.src, r.dst, r.amount))]
    BY <1>5, <1>6, StateNames DEF CommitPosting
  <2>3. Contract!SettleAtOnce(t)
    BY <1>2, <1>3, <1>4, <2>1, <2>2, Zenon DEF Contract!SettleAtOnce
  <2>4. QED
    BY <1>2, <2>3 DEF Contract!Next
<1>7. CASE CommitHold(i)
  <2>1. /\ AsPromised' = [AsPromised EXCEPT ![t] =
              Contract!TermsOf("held", Contract!Entry(t, r.src, r.dst, r.amount))]
        /\ UNCHANGED <<journal, balance>>
    BY <1>5, <1>7, StateNames DEF CommitHold
  <2>2. Contract!Hold(t)
    BY <1>2, <1>3, <1>4, <2>1, Zenon DEF Contract!Hold
  <2>3. QED
    BY <1>2, <2>2 DEF Contract!Next
<1>8. QED
  BY <1>6, <1>7

LEMMA ReviewStep ==
  ASSUME BookInv, NEW i \in Intents, CommitApproval(i) \/ CommitRejection(i),
         txns[target[i]].status = "PENDING"
  PROVE  Contract!Next
<1> DEFINE t == target[i]
<1>1. /\ t \in TxnIds /\ txns[t] \in Txn /\ txns[t].status = "PENDING"
  BY DEF BookInv, TypeOK
<1>2. /\ AsPromised[t].state = "held" /\ AsPromised[t].debit = txns[t].src
      /\ AsPromised[t].credit = txns[t].dst /\ AsPromised[t].amount = txns[t].amount
  BY <1>1, PromisedRows, StateNames DEF AsPromisedRow
<1>3. ASSUME NEW status, NEW approval,
             txns' = [txns EXCEPT ![t].status = status, ![t].approval = approval]
      PROVE  AsPromised' = [AsPromised EXCEPT ![t].state = StateOf(status)]
  <2>1. \A u \in TxnIds \ {t} : txns'[u] = txns[u]
    BY <1>1, <1>3 DEF BookInv, TypeOK
  <2>2. /\ txns'[t].status = status /\ txns'[t].src = txns[t].src
        /\ txns'[t].dst = txns[t].dst /\ txns'[t].amount = txns[t].amount
    BY <1>1, <1>3 DEF BookInv, TypeOK, Txn
  <2>3. AsPromisedRow(txns'[t]) = [AsPromisedRow(txns[t]) EXCEPT !.state = StateOf(status)]
    BY <2>2 DEF AsPromisedRow
  <2>4. QED
    BY <1>1, <2>1, <2>3, PromisedRows, PromisedRowsNext
<1>4. CASE CommitApproval(i)
  <2>1. Contract!Post(Contract!Entry(t, AsPromised[t].debit, AsPromised[t].credit,
                                     AsPromised[t].amount))
    BY <1>2, <1>4 DEF CommitApproval, Post, Contract!Post, Entry, Contract!Entry,
       Moved, Contract!Moved
  <2>2. txns' = [txns EXCEPT ![t].status = "COMPLETED", ![t].approval = "APPROVED"]
    BY <1>4 DEF CommitApproval
  <2>3. AsPromised' = [AsPromised EXCEPT ![t].state = StateOf("COMPLETED")]
    BY <1>3, <2>2
  <2>4. AsPromised' = [AsPromised EXCEPT ![t].state = "settled"]
    BY <2>3, StateNames
  <2>5. Contract!SettleHeld(t)
    BY <1>2, <2>1, <2>4 DEF Contract!SettleHeld
  <2>6. QED
    BY <1>1, <2>5 DEF Contract!Next
<1>5. CASE CommitRejection(i)
  <2>1. /\ txns' = [txns EXCEPT ![t].status = "REJECTED", ![t].approval = "REJECTED"]
        /\ UNCHANGED <<journal, balance>>
    BY <1>5 DEF CommitRejection
  <2>2. AsPromised' = [AsPromised EXCEPT ![t].state = StateOf("REJECTED")]
    BY <1>3, <2>1
  <2>3. AsPromised' = [AsPromised EXCEPT ![t].state = "declined"]
    BY <2>2, StateNames
  <2>4. Contract!Decline(t)
    BY <1>2, <2>1, <2>3 DEF Contract!Decline
  <2>5. QED
    BY <1>1, <2>4 DEF Contract!Next
<1>6. QED
  BY <1>4, <1>5

\* Alone, a review that found its transfer PENDING still finds it so when it commits.
LEMMA AloneIsPending ==
  ASSUME BookInv, OverlapInv, NEW i \in Intents, CommitApproval(i) \/ CommitRejection(i),
         ~(reviewers[target[i]] > 1)
  PROVE  txns[target[i]].status = "PENDING"
<1> DEFINE t == target[i]
<1>1. /\ t \in TxnIds /\ txns[t] \in Txn /\ txns[t].approval # "NONE" /\ i \in Resolving(t)
      /\ Resolved(t) \in Nat
  BY ReviewCommits DEF BookInv, TypeOK
<1>2. Cardinality(Resolving(t)) \in Nat /\ Cardinality(Resolving(t)) # 0
  BY <1>1, FS_CardinalityType, FS_EmptySet DEF OverlapInv, HistoriesFit
<1>3. Resolved(t) = 0
  BY <1>1, <1>2 DEF OverlapInv, ReviewInv, HistoriesFit
<1>4. Cardinality(EntriesOf(journal, t)) = 0 /\ txns[t].status # "REJECTED"
  BY <1>1, <1>3, EntriesAreFinite DEF Resolved, BookInv
<1>5. EntriesOf(journal, t) = {}
  BY <1>4, EntriesAreFinite, FS_EmptySet DEF BookInv
<1>6. txns[t].status # "COMPLETED"
  BY <1>1, <1>5 DEF BookInv, Books, CompletedIsPosted
<1>7. txns[t].status # "NONE"
  BY <1>1 DEF BookInv, Books, TermsKept, NoTxn
<1> QED
  BY <1>1, <1>4, <1>6, <1>7 DEF Txn

\* The handlers implement the promise, but for reviews that overlapped on one transfer.
THEOREM ContractButForOverlap == OverlapSpec => KeepsContract
<1>1. ASSUME BookInv, OverlapInv, [OverlapNext]_overlapVars
      PROVE  \/ Contract!Next
             \/ \E i \in Intents : /\ reviewers[target[i]] > 1
                                   /\ CommitApproval(i) \/ CommitRejection(i)
             \/ UNCHANGED Contract!contractVars
  <2>1. CASE UNCHANGED overlapVars
    BY <2>1 DEF overlapVars, vars, Contract!contractVars, AsPromised
  <2>2. CASE OverlapNext
    <3>1. PICK i \in Intents : Submit(i) \/ Handle(i) \/ Fail(i)
      BY <2>2 DEF OverlapNext, Next
    <3>2. CASE CommitPosting(i) \/ CommitHold(i)
      BY <1>1, <3>2, FreshStep
    <3>3. CASE CommitApproval(i) \/ CommitRejection(i)
      BY <1>1, <3>3, AloneIsPending, ReviewStep
    <3>4. CASE ~CommitPosting(i) /\ ~CommitHold(i) /\ ~CommitApproval(i) /\ ~CommitRejection(i)
      <4>1. UNCHANGED <<txns, journal, balance>>
        BY <3>1, <3>4 DEF Submit, Handle, Fail, LoadAccounts, LoadHeld, LoadStatus, CheckBalance,
           CheckLimits, StepUp, ConfirmWire, CommitTransition, SideEffect, Respond, database
      <4> QED
        BY <4>1 DEF Contract!contractVars, AsPromised
    <3> QED
      BY <3>2, <3>3, <3>4
  <2> QED
    BY <1>1, <2>1, <2>2
<1> QED
  BY <1>1, OverlapHolds, OverlapIsMovement, BooksHold, PTL DEF OverlapSpec, KeepsContract
=============================================================================
