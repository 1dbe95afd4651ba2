---------------------------- MODULE SessionsProofs ----------------------------
(***************************************************************************)
(* For any clients, browsers, limits and numbers of requests: the lockout  *)
(* and session.max_concurrent hold up to the sign-ins that overlap, a      *)
(* replayed refresh token ends its session, a browser with orderly         *)
(* refreshes is never taken for a thief, and a deactivated customer stays  *)
(* so.                                                                     *)
(***************************************************************************)
EXTENDS Sessions, FiniteSetTheorems, WellFoundedInduction, TLAPS

-----------------------------------------------------------------------------
(* Types, and which requests are at which await.                           *)

\* A session that exists and a token no newer than its row's.
Known(h) == h.session \in 1..Len(sessions) /\ h.token <= sessions[h.session].token

SigningIn == {"read", "unlock", "check", "fail", "lock", "clear", "list", "evict"}
Ending == {"authorize", "deactivate", "sweep", "revoke", "activate"}

StageFits(c) ==
  /\ stage[c] = "idle" => op[c] = "none" /\ held[c] = Nothing
  /\ stage[c] \in SigningIn => op[c] = "login" /\ held[c] = Nothing
  /\ stage[c] \in {"token", "answer"} => op[c] \in {"login", "refresh"}
  /\ stage[c] \in {"lookup", "punish"} => op[c] = "refresh"
  /\ stage[c] \in Ending => op[c] \in Ops \ {"login", "refresh"}
  /\ stage[c] \in {"token", "answer", "lookup", "punish", "authorize"} => Known(held[c])
  /\ todo[c] \subseteq 1..Len(sessions)

Shape ==
  /\ \A c \in Clients : StageFits(c)
  /\ \A b \in Browsers : jar[b] = Nothing \/ Known(jar[b])

LEMMA InitShape == Init => TypeOK /\ Shape
BY SessionsFit DEF Init, TypeOK, Shape, StageFits, SigningIn, Ending, Users, Session, Held, Nothing,
   Stages, Ops

\* A request changes nothing of the others'.
Others(c) == \A d \in Clients \ {c} :
  /\ stage'[d] = stage[d] /\ op'[d] = op[d] /\ held'[d] = held[d]
  /\ todo'[d] = todo[d] /\ stale'[d] = stale[d]

Step(c) == Work(c) \/ Breaks(c) \/ \E o \in Ops : Submit(c, o)

LEMMA OthersStay ==
  ASSUME TypeOK, NEW c \in Clients, Step(c)
  PROVE  Others(c)
<1>1. ASSUME NEW s, Goto(c, s), held' = held, todo' = todo PROVE Others(c)
  BY <1>1 DEF Goto, Others, TypeOK
<1>2. ASSUME Finish(c) PROVE Others(c)
  BY <1>2 DEF Finish, Others, TypeOK
<1>3. CASE ReadUser(c) \/ Unlock(c) \/ CheckUser(c) \/ CountFailure(c) \/ Lock(c) \/ ClearFailures(c)
  BY <1>1, <1>2, <1>3 DEF ReadUser, Unlock, CheckUser, CountFailure, Lock, ClearFailures
<1>4. CASE ListActive(c) \/ CreateSession(c) \/ StoreToken(c) \/ Sweep(c) \/ Revoke(c)
  BY <1>4 DEF ListActive, CreateSession, StoreToken, Sweep, Revoke, Goto, Others, TypeOK
<1>5. CASE Deliver(c) \/ Lookup(c) \/ Punish(c)
  BY <1>1, <1>2, <1>5 DEF Deliver, Lookup, Punish, Refuse
<1>6. CASE Authorize(c) \/ Deactivate(c) \/ Conclude(c) \/ Activate(c) \/ Breaks(c)
  BY <1>1, <1>2, <1>6 DEF Authorize, Deactivate, Conclude, Activate, Breaks
<1>7. ASSUME NEW o \in Ops, Submit(c, o) PROVE Others(c)
  BY <1>7 DEF Submit, Others, TypeOK
<1>8. QED
  BY <1>3, <1>4, <1>5, <1>6, <1>7 DEF Step, Work

-----------------------------------------------------------------------------
(* The sessions table.                                                     *)

StoresToken(s) == sessions' = [sessions EXCEPT ![s].token = @ + 1]
Revokes(s) == sessions' = [sessions EXCEPT ![s].status = "REVOKED"]
Adds == sessions' = Append(sessions, [status |-> "ACTIVE", token |-> 0])

LEMMA ElementInRange ==
  \A R : \A q \in Seq(R) : \A k \in 1..Len(q) : q[k] \in R
OBVIOUS

LEMMA TokenStored ==
  ASSUME sessions \in Seq(Session), NEW s \in 1..Len(sessions), StoresToken(s)
  PROVE  /\ sessions' \in Seq(Session) /\ Len(sessions') = Len(sessions)
         /\ sessions'[s].token = sessions[s].token + 1
         /\ \A r \in 1..Len(sessions) :
              /\ sessions'[r].status = sessions[r].status
              /\ r # s => sessions'[r] = sessions[r]
<1>1. sessions[s] \in Session
  BY ElementInRange
<1>2. [sessions[s] EXCEPT !.token = sessions[s].token + 1] \in Session
  BY <1>1 DEF Session
<1>3. sessions' = [sessions EXCEPT ![s] = [sessions[s] EXCEPT !.token = sessions[s].token + 1]]
  BY Zenon DEF StoresToken
<1>4. QED
  BY <1>1, <1>2, <1>3 DEF Session

LEMMA SessionRevoked ==
  ASSUME sessions \in Seq(Session), NEW s \in 1..Len(sessions), Revokes(s)
  PROVE  /\ sessions' \in Seq(Session) /\ Len(sessions') = Len(sessions)
         /\ sessions'[s].status = "REVOKED"
         /\ \A r \in 1..Len(sessions) :
              /\ sessions'[r].token = sessions[r].token
              /\ r # s => sessions'[r] = sessions[r]
<1>1. sessions[s] \in Session
  BY ElementInRange
<1>2. [sessions[s] EXCEPT !.status = "REVOKED"] \in Session
  BY <1>1 DEF Session
<1>3. sessions' = [sessions EXCEPT ![s] = [sessions[s] EXCEPT !.status = "REVOKED"]]
  BY Zenon DEF Revokes
<1>4. QED
  BY <1>1, <1>2, <1>3 DEF Session

LEMMA SessionAdded ==
  ASSUME sessions \in Seq(Session), Adds
  PROVE  /\ sessions' \in Seq(Session) /\ Len(sessions') = Len(sessions) + 1
         /\ sessions'[Len(sessions) + 1] = [status |-> "ACTIVE", token |-> 0]
         /\ \A r \in 1..Len(sessions) : sessions'[r] = sessions[r]
BY DEF Adds, Session

\* What each request does to the table.
LEMMA TableSteps ==
  ASSUME TypeOK, Shape, NEW c \in Clients, Step(c)
  PROVE  \/ sessions' = sessions
         \/ CreateSession(c) /\ Adds
         \/ StoreToken(c) /\ held[c].session \in 1..Len(sessions) /\ StoresToken(held[c].session)
         \/ /\ Revoke(c) \/ Punish(c)
            /\ \E s \in 1..Len(sessions) : Revokes(s)
<1>1. CASE StoreToken(c)
  BY <1>1 DEF StoreToken, StoresToken, Shape, StageFits, Known
<1>2. CASE Punish(c)
  BY <1>2 DEF Punish, Revokes, Shape, StageFits, Known
<1>3. CASE Revoke(c)
  BY <1>3 DEF Revoke, Revokes, Shape, StageFits
<1>4. CASE CreateSession(c)
  BY <1>4 DEF CreateSession, Adds
<1>5. CASE ReadUser(c) \/ Unlock(c) \/ CheckUser(c) \/ CountFailure(c) \/ Lock(c)
        \/ ClearFailures(c) \/ ListActive(c) \/ Deliver(c) \/ Lookup(c) \/ Authorize(c)
        \/ Deactivate(c) \/ Sweep(c) \/ Conclude(c) \/ Activate(c) \/ Breaks(c)
        \/ \E o \in Ops : Submit(c, o)
  BY <1>5 DEF ReadUser, Unlock, CheckUser, CountFailure, Lock, ClearFailures, ListActive, Deliver,
     Lookup, Authorize, Deactivate, Sweep, Conclude, Activate, Breaks, Submit, record
<1>6. QED
  BY <1>1, <1>2, <1>3, <1>4, <1>5 DEF Step, Work

\* Sessions stay, their tokens only grow, and one that is over stays over.
Lasts ==
  /\ sessions' \in Seq(Session) /\ Len(sessions) <= Len(sessions')
  /\ \A s \in 1..Len(sessions) :
       /\ s \in 1..Len(sessions')
       /\ sessions[s].token <= sessions'[s].token
       /\ sessions[s].status = "REVOKED" => sessions'[s].status = "REVOKED"

LEMMA SessionsLast ==
  ASSUME TypeOK, Shape, NEW c \in Clients, Step(c)
  PROVE  Lasts
<1>1. sessions \in Seq(Session) /\ \A s \in 1..Len(sessions) : sessions[s] \in Session
  BY ElementInRange DEF TypeOK
<1>2. \A s \in 1..Len(sessions) : sessions[s].token \in Nat
  BY <1>1 DEF Session
<1>3. CASE sessions' = sessions
  BY <1>1, <1>2, <1>3 DEF Lasts
<1>4. CASE Adds
  BY <1>1, <1>2, <1>4, SessionAdded DEF Lasts
<1>5. ASSUME NEW s \in 1..Len(sessions), StoresToken(s) PROVE Lasts
  <2>1. /\ sessions' \in Seq(Session) /\ Len(sessions') = Len(sessions)
        /\ sessions'[s].token = sessions[s].token + 1
        /\ \A r \in 1..Len(sessions) :
             /\ sessions'[r].status = sessions[r].status
             /\ r # s => sessions'[r] = sessions[r]
    BY <1>1, <1>5, TokenStored
  <2>2. QED
    BY <1>2, <2>1 DEF Lasts
<1>6. ASSUME NEW s \in 1..Len(sessions), Revokes(s) PROVE Lasts
  <2>1. /\ sessions' \in Seq(Session) /\ Len(sessions') = Len(sessions)
        /\ sessions'[s].status = "REVOKED"
        /\ \A r \in 1..Len(sessions) :
             /\ sessions'[r].token = sessions[r].token
             /\ r # s => sessions'[r] = sessions[r]
    BY <1>1, <1>6, SessionRevoked
  <2>2. QED
    BY <1>2, <2>1 DEF Lasts
<1>7. QED
  BY <1>3, <1>4, <1>5, <1>6, TableSteps

LEMMA KnownStays ==
  ASSUME TypeOK, Lasts, NEW h \in Held, Known(h)
  PROVE  h.session \in 1..Len(sessions') /\ h.token <= sessions'[h.session].token
<1>1. sessions[h.session] \in Session /\ sessions'[h.session] \in Session
  BY ElementInRange DEF TypeOK, Lasts, Known
<1>2. h.token <= sessions[h.session].token /\ sessions[h.session].token <= sessions'[h.session].token
  BY DEF Known, Lasts
<1>3. QED
  BY <1>1, <1>2 DEF Known, Lasts, Session, Held

-----------------------------------------------------------------------------
(* Types and stages are inductive.                                         *)

LEMMA GotoTypes ==
  ASSUME TypeOK, NEW c \in Clients, NEW s \in Stages, Goto(c, s)
  PROVE  /\ stage' \in [Clients -> Stages] /\ op' \in [Clients -> Ops \cup {"none"}]
         /\ requests' \in [Clients -> Nat] /\ stale' \in [Clients -> BOOLEAN]
BY DEF Goto, TypeOK

LEMMA FinishTypes ==
  ASSUME TypeOK, NEW c \in Clients, Finish(c)
  PROVE  /\ stage' \in [Clients -> Stages] /\ op' \in [Clients -> Ops \cup {"none"}]
         /\ requests' \in [Clients -> Nat] /\ stale' \in [Clients -> BOOLEAN]
         /\ held' \in [Clients -> Held] /\ todo' \in [Clients -> SUBSET Nat]
BY DEF Finish, TypeOK, Stages, Held, Nothing

LEMMA ActiveExists == TypeOK => Active \subseteq 1..Len(sessions)
BY DEF Active

LEMMA TypeStep ==
  ASSUME TypeOK, Shape, NEW c \in Clients, Step(c)
  PROVE  TypeOK'
<1>1. sessions' \in Seq(Session)
  BY SessionsLast DEF Lasts
<1>2. MaxAttempts \in Nat /\ Active \subseteq Nat
  BY SessionsFit, ActiveExists DEF TypeOK
<1>3. CASE ReadUser(c) \/ CheckUser(c) \/ Authorize(c)
  <2>1. \/ Finish(c)
        \/ (\E s \in Stages : Goto(c, s)) /\ held' = held /\ todo' = todo
    BY <1>3 DEF ReadUser, CheckUser, Authorize, Stages
  <2>2. /\ stage' \in [Clients -> Stages] /\ op' \in [Clients -> Ops \cup {"none"}]
        /\ requests' \in [Clients -> Nat] /\ stale' \in [Clients -> BOOLEAN]
        /\ held' \in [Clients -> Held] /\ todo' \in [Clients -> SUBSET Nat]
    BY <2>1, GotoTypes, FinishTypes DEF TypeOK
  <2>3. UNCHANGED <<record, jar, history>>
    BY <1>3 DEF ReadUser, CheckUser, Authorize
  <2>4. QED
    BY <2>2, <2>3 DEF record, history, TypeOK
<1>4. CASE Unlock(c) \/ ClearFailures(c) \/ Deactivate(c)
  <2>1. user' \in Users
    <3>1. CASE Unlock(c)
      BY <3>1 DEF Unlock, Users
    <3>2. CASE ClearFailures(c)
      BY <3>2 DEF ClearFailures, TypeOK, Users
    <3>3. CASE Deactivate(c)
      BY <3>3 DEF Deactivate, TypeOK, Users
    <3>4. QED
      BY <1>4, <3>1, <3>2, <3>3
  <2>2. \E s \in Stages : Goto(c, s)
    BY <1>4 DEF Unlock, ClearFailures, Deactivate, Stages
  <2>3. UNCHANGED <<link, sessions, jar, held, todo, crowd, torn, replayed>> /\ guesses' \in Int
    BY <1>4 DEF Unlock, ClearFailures, Deactivate, history, TypeOK
  <2>4. QED
    BY <2>1, <2>2, <2>3, GotoTypes DEF TypeOK
<1>5. CASE CountFailure(c)
  <2>1. user' \in Users /\ guesses' \in Int
    <3>1. user \in Users /\ user' = [user EXCEPT !.attempts = user.attempts + 1]
      BY <1>5 DEF CountFailure, TypeOK
    <3>2. user' \in Users
      BY <3>1 DEF Users
    <3>3. guesses' \in Int
      BY <1>5 DEF CountFailure, TypeOK
    <3>4. QED
      BY <3>2, <3>3
  <2>2. \/ Finish(c)
        \/ (\E s \in Stages : Goto(c, s)) /\ held' = held /\ todo' = todo
    BY <1>5 DEF CountFailure, Stages
  <2>3. UNCHANGED <<link, sessions, jar, crowd, torn, replayed>>
    BY <1>5 DEF CountFailure
  <2>4. QED
    BY <2>1, <2>2, <2>3, GotoTypes, FinishTypes DEF TypeOK
<1>6. CASE Lock(c) \/ Activate(c)
  BY <1>6, FinishTypes DEF Lock, Activate, history, TypeOK, Users
<1>7. CASE ListActive(c) \/ Sweep(c)
  <2>1. Excess \subseteq Nat /\ EndedBy(c) \subseteq Nat
    BY <1>2 DEF Excess, Oldest, EndedBy
  <2>2. todo' \in [Clients -> SUBSET Nat]
    BY <1>7, <2>1 DEF ListActive, Sweep, TypeOK
  <2>3. QED
    BY <1>7, <2>2, GotoTypes DEF ListActive, Sweep, record, history, TypeOK, Stages
<1>8. CASE CreateSession(c)
  <2>1. held' \in [Clients -> Held]
    BY <1>8 DEF CreateSession, TypeOK, Held
  <2>2. QED
    BY <1>1, <1>8, <2>1, GotoTypes DEF CreateSession, history, TypeOK, Stages
<1>9. CASE StoreToken(c)
  <2>1. held[c].session \in 1..Len(sessions) /\ held[c] \in Held
    BY <1>9 DEF StoreToken, Shape, StageFits, Known, TypeOK
  <2>2. sessions[held[c].session] \in Session
    BY <2>1, ElementInRange DEF TypeOK
  <2>3. [held[c] EXCEPT !.token = sessions[held[c].session].token + 1] \in Held
    BY <2>1, <2>2 DEF Session, Held
  <2>4. held' = [held EXCEPT ![c] =
                   [held[c] EXCEPT !.token = sessions[held[c].session].token + 1]]
    BY <1>9, Zenon DEF StoreToken
  <2>5. held' \in [Clients -> Held]
    BY <2>3, <2>4 DEF TypeOK
  <2>6. QED
    BY <1>1, <1>9, <2>5, GotoTypes DEF StoreToken, history, TypeOK, Stages
<1>10. CASE Deliver(c) \/ Conclude(c)
  <2>1. Browser[c] \in Browsers /\ Nothing \in Held
    BY SessionsFit DEF Nothing, Held
  <2>2. jar' \in [Browsers -> Held]
    BY <1>10, <2>1 DEF Deliver, Conclude, TypeOK
  <2>3. QED
    BY <1>10, <2>2, FinishTypes DEF Deliver, Conclude, record, history, TypeOK
<1>11. CASE Lookup(c) \/ Punish(c)
  <2>1. replayed' = replayed \/ Refuse(c)
    BY <1>11 DEF Lookup, Punish
  <2>2. held[c].session \in Nat
    BY DEF TypeOK, Held
  <2>3. replayed' \subseteq Nat
    BY <2>1, <2>2 DEF Refuse, TypeOK
  <2>4. QED
    BY <1>1, <1>11, <2>3, GotoTypes, FinishTypes
       DEF Lookup, Punish, Refuse, record, TypeOK, Stages
<1>12. CASE Revoke(c)
  <2>1. todo' \in [Clients -> SUBSET Nat]
    BY <1>12 DEF Revoke, TypeOK
  <2>2. UNCHANGED <<user, link, jar, stage, op, held, requests, stale, history>>
    BY <1>12 DEF Revoke
  <2>3. QED
    BY <1>1, <2>1, <2>2 DEF history, TypeOK
<1>13. CASE Breaks(c)
  <2>1. torn' \subseteq Nat /\ guesses' \in Int
    <3>1. held[c].session \in Nat /\ torn \subseteq Nat /\ guesses \in Int
      BY DEF TypeOK, Held
    <3>2. /\ torn' = torn \/ torn' = torn \cup {held[c].session}
          /\ guesses' = guesses \/ guesses' = guesses - 1
      BY <1>13 DEF Breaks
    <3>3. torn' \subseteq Nat
      BY <3>1, <3>2
    <3>4. guesses' \in Int
      BY <3>1, <3>2
    <3>5. QED
      BY <3>3, <3>4
  <2>2. QED
    BY <1>13, <2>1, FinishTypes DEF Breaks, record, TypeOK
<1>14. ASSUME NEW o \in Ops, Submit(c, o) PROVE TypeOK'
  <2>1. Browser[c] \in Browsers /\ jar[Browser[c]] \in Held /\ Nothing \in Held
    BY SessionsFit DEF TypeOK, Nothing, Held
  <2>2. FirstStage(o) \in Stages
    BY DEF FirstStage, Stages
  <2>3. IsFiniteSet(SignIns(c, o))
    BY SessionsFit, FS_Subset DEF SignIns
  <2>4. Cardinality(SignIns(c, o)) \in Nat
    BY <2>3, FS_CardinalityType
  <2>5. /\ stage' \in [Clients -> Stages] /\ op' \in [Clients -> Ops \cup {"none"}]
        /\ requests' \in [Clients -> Nat] /\ stale' \in [Clients -> BOOLEAN]
    BY <1>14, <2>2 DEF Submit, TypeOK
  <2>6. held' \in [Clients -> Held]
    BY <1>14, <2>1 DEF Submit, TypeOK
  <2>7. torn' \subseteq Nat /\ crowd' \in Nat /\ link' \in BOOLEAN
    BY <1>14, <2>1, <2>4 DEF Submit, TypeOK, Held
  <2>8. QED
    BY <1>14, <2>5, <2>6, <2>7 DEF Submit, TypeOK
<1>15. QED
  BY <1>3, <1>4, <1>5, <1>6, <1>7, <1>8, <1>9, <1>10, <1>11, <1>12, <1>13, <1>14 DEF Step, Work

\* An action that goes on to the next await without touching the session held.
LEMMA GoesOn ==
  ASSUME TypeOK, NEW c \in Clients, NEW s, Goto(c, s)
  PROVE  stage'[c] = s /\ op'[c] = op[c] /\ stale'[c] = stale[c]
BY DEF Goto, TypeOK

LEMMA Ends ==
  ASSUME TypeOK, NEW c \in Clients, Finish(c)
  PROVE  /\ stage'[c] = "idle" /\ op'[c] = "none" /\ held'[c] = Nothing /\ todo'[c] = {}
         /\ stale'[c] = FALSE
BY DEF Finish, TypeOK

\* What a request can be doing after each of its own steps.
LEMMA OwnStage ==
  ASSUME TypeOK, Shape, NEW c \in Clients, Step(c)
  PROVE  StageFits(c)'
<1>1. Lasts /\ StageFits(c) /\ held[c] \in Held
  BY SessionsLast DEF Shape, TypeOK
<1>2. ASSUME Finish(c) PROVE StageFits(c)'
  BY <1>2, Ends DEF StageFits, SigningIn, Ending
<1>3. todo[c] \subseteq 1..Len(sessions')
  BY <1>1 DEF StageFits, Lasts
<1>4. ASSUME held'[c] = held[c], Known(held[c]) PROVE Known(held[c])'
  BY <1>1, <1>4, KnownStays DEF Known
<1>5. CASE ReadUser(c) \/ Unlock(c) \/ ClearFailures(c)
  <2>1. /\ stage[c] \in SigningIn
        /\ stage'[c] \in {"unlock", "check", "list"} /\ op'[c] = op[c] /\ held' = held /\ todo' = todo
    BY <1>5, GoesOn DEF ReadUser, Unlock, ClearFailures, SigningIn
  <2>2. QED
    BY <1>1, <1>3, <2>1 DEF StageFits, SigningIn, Ending
<1>6. CASE CheckUser(c) \/ CountFailure(c)
  <2>1. \/ Finish(c)
        \/ /\ stage[c] \in SigningIn
           /\ stage'[c] \in {"fail", "lock", "clear", "list"} /\ op'[c] = op[c]
           /\ held' = held /\ todo' = todo
    BY <1>6, GoesOn DEF CheckUser, CountFailure, SigningIn
  <2>2. QED
    BY <1>1, <1>2, <1>3, <2>1 DEF StageFits, SigningIn, Ending
<1>7. CASE ListActive(c) \/ Sweep(c)
  <2>1. todo'[c] \subseteq 1..Len(sessions')
    BY <1>7, ActiveExists DEF ListActive, Sweep, TypeOK, record, Excess, Oldest, EndedBy
  <2>2. /\ op'[c] = op[c] /\ held' = held
        /\ \/ stage[c] = "list" /\ stage'[c] = "evict"
           \/ stage[c] = "sweep" /\ stage'[c] = "revoke"
    BY <1>7, GoesOn DEF ListActive, Sweep
  <2>3. QED
    BY <1>1, <2>1, <2>2 DEF StageFits, SigningIn, Ending
<1>8. CASE CreateSession(c)
  <2>1. /\ op'[c] = op[c] /\ stage'[c] = "token" /\ stage[c] = "evict" /\ todo' = todo
        /\ held'[c] = [session |-> Len(sessions) + 1, token |-> 0]
    BY <1>8, GoesOn DEF CreateSession, TypeOK
  <2>2. /\ Len(sessions') = Len(sessions) + 1
        /\ sessions'[Len(sessions) + 1] = [status |-> "ACTIVE", token |-> 0]
    BY <1>8, SessionAdded DEF CreateSession, Adds, TypeOK
  <2>3. Len(sessions) \in Nat
    BY DEF TypeOK
  <2>4. Known(held[c])'
    BY <2>1, <2>2, <2>3 DEF Known
  <2>5. QED
    BY <1>1, <1>3, <2>1, <2>4 DEF StageFits, SigningIn, Ending
<1>9. CASE StoreToken(c)
  <2>1. /\ op'[c] = op[c] /\ stage'[c] = "answer" /\ stage[c] = "token" /\ todo' = todo
        /\ held'[c] = [held[c] EXCEPT !.token = sessions[held[c].session].token + 1]
    BY <1>9, GoesOn DEF StoreToken, TypeOK
  <2>2. held[c].session \in 1..Len(sessions) /\ StoresToken(held[c].session)
    BY <1>1, <1>9, <2>1 DEF StageFits, Known, StoreToken, StoresToken
  <2>3. /\ sessions'[held[c].session].token = sessions[held[c].session].token + 1
        /\ Len(sessions') = Len(sessions)
    BY <2>2, TokenStored DEF TypeOK
  <2>4. sessions[held[c].session] \in Session
    BY <2>2, ElementInRange DEF TypeOK
  <2>5. Known(held[c])'
    BY <1>1, <2>1, <2>2, <2>3, <2>4 DEF Known, Session, Held
  <2>6. QED
    BY <1>1, <1>3, <2>1, <2>5 DEF StageFits, SigningIn, Ending
<1>10. CASE Lock(c) \/ Deliver(c) \/ Punish(c) \/ Conclude(c) \/ Activate(c) \/ Breaks(c)
  BY <1>2, <1>10 DEF Lock, Deliver, Punish, Refuse, Conclude, Activate, Breaks
<1>11. CASE Lookup(c)
  <2>1. \/ Finish(c)
        \/ /\ stage[c] = "lookup" /\ stage'[c] \in {"token", "punish"} /\ op'[c] = op[c]
           /\ held' = held /\ todo' = todo
    BY <1>11, GoesOn DEF Lookup, Refuse
  <2>2. QED
    BY <1>1, <1>2, <1>3, <1>4, <2>1 DEF StageFits, SigningIn, Ending
<1>12. CASE Authorize(c) \/ Deactivate(c)
  <2>1. \/ Finish(c)
        \/ /\ stage[c] \in Ending /\ stage'[c] \in {"deactivate", "sweep"} /\ op'[c] = op[c]
           /\ held' = held /\ todo' = todo
    BY <1>12, GoesOn DEF Authorize, Deactivate, Ending
  <2>2. QED
    BY <1>1, <1>2, <1>3, <2>1 DEF StageFits, SigningIn, Ending
<1>13. CASE Revoke(c)
  <2>1. /\ stage[c] \in {"evict", "revoke"} /\ stage' = stage /\ op' = op /\ held' = held
        /\ todo'[c] \subseteq todo[c]
    BY <1>13 DEF Revoke, TypeOK
  <2>2. QED
    BY <1>1, <1>3, <2>1 DEF StageFits, SigningIn, Ending
<1>14. ASSUME NEW o \in Ops, Submit(c, o) PROVE StageFits(c)'
  <2>1. /\ stage[c] = "idle" /\ stage'[c] = FirstStage(o) /\ op'[c] = o /\ todo' = todo
        /\ sessions' = sessions
    BY <1>14 DEF Submit, Busy, TypeOK
  <2>2. held'[c] = IF o \in SignedIn \cup {"refresh"} THEN jar[Browser[c]] ELSE Nothing
    BY <1>14 DEF Submit, TypeOK
  <2>3. o \in SignedIn \cup {"refresh"} => Known(held[c])'
    BY <1>14, <2>1, <2>2, SessionsFit DEF Submit, Shape, Known
  <2>4. QED
    BY <1>1, <1>3, <2>1, <2>2, <2>3 DEF StageFits, SigningIn, Ending, FirstStage, Ops, SignedIn
<1>15. QED
  BY <1>5, <1>6, <1>7, <1>8, <1>9, <1>10, <1>11, <1>12, <1>13, <1>14 DEF Step, Work

\* Who changes a cookie: an answer that carries tokens, and a logout.
LEMMA JarSteps ==
  ASSUME TypeOK, NEW c \in Clients, Step(c)
  PROVE  \/ jar' = jar
         \/ Deliver(c) /\ jar' = [jar EXCEPT ![Browser[c]] = held[c]]
         \/ Conclude(c) /\ jar' = [jar EXCEPT ![Browser[c]] = Nothing]
<1>1. CASE ReadUser(c) \/ Unlock(c) \/ CheckUser(c) \/ CountFailure(c) \/ Lock(c)
        \/ ClearFailures(c) \/ ListActive(c) \/ CreateSession(c) \/ StoreToken(c) \/ Lookup(c)
        \/ Punish(c) \/ Authorize(c) \/ Deactivate(c) \/ Sweep(c) \/ Revoke(c) \/ Activate(c)
        \/ Breaks(c) \/ \E o \in Ops : Submit(c, o)
  BY <1>1 DEF ReadUser, Unlock, CheckUser, CountFailure, Lock, ClearFailures, ListActive,
     CreateSession, StoreToken, Lookup, Punish, Authorize, Deactivate, Sweep, Revoke, Activate,
     Breaks, Submit
<1>2. CASE Deliver(c) \/ Conclude(c)
  BY <1>2 DEF Deliver, Conclude
<1>3. QED
  BY <1>1, <1>2 DEF Step, Work

LEMMA ShapeStep ==
  ASSUME TypeOK, Shape, NEW c \in Clients, Step(c)
  PROVE  Shape'
<1>1. Lasts /\ Others(c) /\ StageFits(c)'
  BY SessionsLast, OthersStay, OwnStage
<1>2. ASSUME NEW d \in Clients \ {c} PROVE StageFits(d)'
  <2>1. /\ StageFits(d) /\ held[d] \in Held
        /\ stage'[d] = stage[d] /\ op'[d] = op[d] /\ held'[d] = held[d] /\ todo'[d] = todo[d]
    BY <1>1 DEF Shape, TypeOK, Others
  <2>2. Known(held[d]) => Known(held[d])'
    BY <1>1, <2>1, KnownStays DEF Known
  <2>3. todo'[d] \subseteq 1..Len(sessions')
    BY <1>1, <2>1 DEF StageFits, Lasts
  <2>4. QED
    BY <2>1, <2>2, <2>3 DEF StageFits
<1>3. ASSUME NEW b \in Browsers PROVE (jar[b] = Nothing \/ Known(jar[b]))'
  <2>1. CASE jar'[b] = jar[b]
    <3>1. jar[b] \in Held /\ (jar[b] = Nothing \/ Known(jar[b]))
      BY DEF TypeOK, Shape
    <3>2. QED
      BY <1>1, <2>1, <3>1, KnownStays DEF Known
  <2>2. CASE jar'[b] = Nothing
    BY <2>2
  <2>3. CASE jar'[b] = held[c] /\ Deliver(c)
    <3>1. held[c] \in Held /\ Known(held[c])
      BY <2>3 DEF TypeOK, Shape, StageFits, Deliver
    <3>2. QED
      BY <1>1, <2>3, <3>1, KnownStays DEF Known
  <2>4. QED
    BY <2>1, <2>2, <2>3, JarSteps DEF TypeOK
<1>4. QED
  BY <1>1, <1>2, <1>3 DEF Shape

\* Time passes, or nothing happens.
Still == UNCHANGED <<link, sessions, jar, request, crowd, torn, replayed>>

LEMMA NextCases ==
  [Next]_vars <=> LockRunsOut \/ UNCHANGED vars \/ \E c \in Clients : Step(c)
BY DEF Next, Step

LEMMA QuietSteps == LockRunsOut \/ UNCHANGED vars => Still
BY DEF LockRunsOut, vars, Still, record, history

LEMMA TypeInductive == TypeOK /\ Shape /\ [Next]_vars => (TypeOK /\ Shape)'
<1> SUFFICES ASSUME TypeOK, Shape, [Next]_vars PROVE TypeOK' /\ Shape'
  OBVIOUS
<1>1. CASE LockRunsOut \/ UNCHANGED vars
  <2>1. user' \in Users /\ guesses' \in Int
    <3>1. CASE LockRunsOut
      <4>1. user \in Users /\ user' = [user EXCEPT !.lock = "over"] /\ guesses' = 0
        BY <3>1 DEF LockRunsOut, TypeOK
      <4>2. user' \in Users
        BY <4>1 DEF Users
      <4>3. QED
        BY <4>1, <4>2
    <3>2. CASE UNCHANGED vars
      BY <3>2 DEF vars, record, history, TypeOK
    <3>3. QED
      BY <1>1, <3>1, <3>2
  <2>2. Still
    BY <1>1, QuietSteps
  <2>3. TypeOK'
    BY <2>1, <2>2 DEF Still, request, TypeOK
  <2>4. Shape'
    BY <2>2 DEF Still, request, Shape, StageFits, Known
  <2>5. QED
    BY <2>3, <2>4
<1>2. QED
  BY <1>1, TypeStep, ShapeStep, NextCases

\* Users, sessions, cookies and requests stay well formed, and a request only
\* ever names a session that exists.
THEOREM SessionsTypeCorrect == Spec => [](TypeOK /\ Shape)
BY InitShape, TypeInductive, PTL DEF Spec

-----------------------------------------------------------------------------
(* Replayed refresh tokens.                                                *)

\* A request whose token had been replaced carries an older one than the row.
ReplayInv ==
  /\ \A c \in Clients : stale[c] =>
       /\ stage[c] \in {"lookup", "punish"}
       /\ held[c].token < sessions[held[c].session].token
  /\ \A s \in replayed : s \in 1..Len(sessions) /\ sessions[s].status = "REVOKED"

LEMMA ReplayStep ==
  ASSUME TypeOK, Shape, ReplayInv, NEW c \in Clients, Step(c)
  PROVE  ReplayInv'
<1>1. Lasts /\ Others(c)
  BY SessionsLast, OthersStay
<1>2. ASSUME NEW d \in Clients \ {c}, stale'[d]
      PROVE  stage'[d] \in {"lookup", "punish"} /\ held'[d].token < sessions'[held'[d].session].token
  <2>1. /\ stale[d] /\ stage'[d] = stage[d] /\ held'[d] = held[d]
        /\ stage[d] \in {"lookup", "punish"} /\ held[d].token < sessions[held[d].session].token
    BY <1>1, <1>2 DEF Others, ReplayInv
  <2>2. Known(held[d]) /\ held[d] \in Held
    BY <2>1 DEF Shape, StageFits, TypeOK
  <2>3. /\ sessions[held[d].session] \in Session /\ sessions'[held[d].session] \in Session
        /\ sessions[held[d].session].token <= sessions'[held[d].session].token
    BY <1>1, <2>2, ElementInRange DEF Known, TypeOK, Lasts
  <2>4. QED
    BY <2>1, <2>2, <2>3 DEF Session, Held
<1>3. ASSUME stale'[c]
      PROVE  stage'[c] \in {"lookup", "punish"} /\ held'[c].token < sessions'[held'[c].session].token
  <2>1. ~Finish(c)
    BY <1>3, Ends
  <2>2. CASE \E o \in Ops : Submit(c, o)
    <3>1. PICK o \in Ops : Submit(c, o)
      BY <2>2
    <3>2. PICK cookie \in Held : cookie = jar[Browser[c]]
      BY SessionsFit DEF TypeOK
    <3>3. o = "refresh" /\ sessions[cookie.session].token # cookie.token /\ sessions' = sessions
      BY <1>3, <3>1, <3>2 DEF Submit, TypeOK
    <3>4. cookie # Nothing
      BY <3>1, <3>2, <3>3 DEF Submit
    <3>5. stage'[c] = "lookup" /\ held'[c] = cookie
      BY <3>1, <3>2, <3>3 DEF Submit, FirstStage, TypeOK
    <3>6. cookie.token <= sessions[cookie.session].token /\ sessions[cookie.session] \in Session
      BY <3>2, <3>4, SessionsFit, ElementInRange DEF Shape, Known, TypeOK
    <3>7. QED
      BY <3>3, <3>5, <3>6, <3>2 DEF Session, Held
  <2>3. CASE Lookup(c)
    <3>1. Goto(c, IF sessions[held[c].session].token = held[c].token /\ user.status # "DEACTIVATED"
                  THEN "token" ELSE "punish")
      BY <2>1, <2>3 DEF Lookup, Refuse
    <3>2. stale[c] /\ held' = held /\ sessions' = sessions
      BY <1>3, <2>1, <2>3, <3>1, GoesOn DEF Lookup, Refuse, record
    <3>3. held[c].token < sessions[held[c].session].token /\ Known(held[c]) /\ held[c] \in Held
      BY <2>3, <3>2 DEF ReplayInv, Lookup, Shape, StageFits, TypeOK
    <3>4. held[c].token \in Nat /\ sessions[held[c].session].token \in Nat
      <4>1. sessions[held[c].session] \in Session
        BY <3>3, ElementInRange DEF Known, TypeOK
      <4>2. QED
        BY <3>3, <4>1 DEF Held, Session
    <3>5. stage'[c] = "punish"
      BY <3>1, <3>3, <3>4, GoesOn
    <3>6. QED
      BY <3>2, <3>3, <3>5
  <2>4. CASE ~Lookup(c) /\ ~ \E o \in Ops : Submit(c, o)
    <3>1. ~(\/ Deliver(c) \/ Punish(c) \/ Lock(c) \/ Conclude(c) \/ Activate(c) \/ Breaks(c))
      BY <2>1 DEF Deliver, Punish, Refuse, Lock, Conclude, Activate, Breaks
    <3>2. /\ stale' = stale
          /\ stage[c] \notin {"lookup", "punish"}
      BY <2>1, <2>4, <3>1
         DEF Step, Work, ReadUser, Unlock, CheckUser, CountFailure, ClearFailures, ListActive,
             CreateSession, StoreToken, Authorize, Deactivate, Sweep, Revoke, Goto
    <3>3. QED
      BY <1>3, <3>2 DEF ReplayInv
  <2>5. QED
    BY <2>2, <2>3, <2>4
<1>4. ASSUME NEW s \in replayed' PROVE s \in 1..Len(sessions') /\ sessions'[s].status = "REVOKED"
  <2>1. CASE s \in replayed
    BY <1>1, <2>1 DEF ReplayInv, Lasts
  <2>2. CASE s \notin replayed
    <3>1. (Lookup(c) \/ Punish(c)) /\ Refuse(c) /\ s = held[c].session
      BY <1>4, <2>2 DEF Step, Work, ReadUser, Unlock, CheckUser, CountFailure, Lock, ClearFailures,
         ListActive, CreateSession, StoreToken, Deliver, Lookup, Punish, Refuse, Authorize,
         Deactivate, Sweep, Revoke, Conclude, Activate, Breaks, Submit, history
    <3>2. s \in 1..Len(sessions) /\ sessions[s] \in Session
      BY <3>1, ElementInRange DEF Lookup, Punish, Shape, StageFits, Known, TypeOK
    <3>3. CASE Punish(c)
      BY <3>1, <3>2, <3>3, SessionRevoked DEF Punish, Revokes, TypeOK
    <3>4. CASE Lookup(c)
      <4>1. sessions' = sessions /\ stage[c] = "lookup"
        BY <3>4 DEF Lookup, record
      <4>2. stage'[c] = "idle"
        BY <3>1, Ends DEF Refuse
      <4>3. sessions[s].status # "ACTIVE"
        BY <3>1, <3>4, <4>2, GoesOn DEF Lookup
      <4>4. QED
        BY <3>2, <4>1, <4>3 DEF Session
    <3>5. QED
      BY <3>1, <3>3, <3>4
  <2>3. QED
    BY <2>1, <2>2
<1>5. QED
  BY <1>2, <1>3, <1>4 DEF ReplayInv

\* ReplayEndsSession (refresh, REFRESH_TOKEN_REUSE_DETECTED): a token that was
\* replaced before it was sent yields no new pair, and its session is revoked.
THEOREM ReplayIsPunished == Spec => []ReplayEndsSession
<1>1. Init => ReplayInv
  BY DEF Init, ReplayInv
<1>2. TypeOK /\ Shape /\ ReplayInv /\ [Next]_vars => ReplayInv'
  <2> SUFFICES ASSUME TypeOK, Shape, ReplayInv, [Next]_vars PROVE ReplayInv'
    OBVIOUS
  <2>1. ASSUME Still PROVE ReplayInv'
    BY <2>1 DEF Still, request, ReplayInv
  <2>2. QED
    BY <2>1, QuietSteps, ReplayStep, NextCases
<1>3. ReplayInv => ReplayEndsSession
  BY DEF ReplayInv, ReplayEndsSession
<1>4. QED
  BY <1>1, <1>2, <1>3, SessionsTypeCorrect, PTL DEF Spec

-----------------------------------------------------------------------------
(* Orderly refreshes.  A session belongs to the browser it was opened in;  *)
(* the two requests that hold one are refreshes that overlapped.           *)

Holds(c, s) == op[c] \in {"login", "refresh"} /\ held[c].session = s

OwnedInv ==
  /\ \A a, b \in Browsers : jar[a].session = jar[b].session /\ jar[a].session # 0 => a = b
  /\ \A b \in Browsers, c \in Clients :
       Holds(c, jar[b].session) /\ jar[b].session # 0 => b = Browser[c] /\ op[c] = "refresh"
  /\ \A c, d \in Clients, s \in Nat \ {0} : Holds(c, s) /\ Holds(d, s) /\ c # d =>
       Browser[c] = Browser[d] /\ op[c] = "refresh" /\ s \in torn

Answering(s) == \E c \in Clients : stage[c] = "answer" /\ held[c].session = s

CurrentInv ==
  /\ \A c \in Clients : stage[c] = "answer" /\ held[c].session \notin torn =>
       held[c].token = sessions[held[c].session].token
  /\ \A b \in Browsers : jar[b].session \notin torn \cup {0} /\ ~Answering(jar[b].session) =>
       jar[b].token = sessions[jar[b].session].token

\* A step that neither takes a cookie up nor puts one down, and stores no token.
Plain(c) ==
  /\ Others(c) /\ jar' = jar /\ torn \subseteq torn'
  /\ \A s \in 1..Len(sessions) : sessions'[s].token = sessions[s].token
  /\ \/ /\ stage[c] # "answer" /\ stage'[c] # "answer"
        /\ op'[c] = op[c] /\ held'[c] = held[c]
     \/ /\ stage[c] = "answer" => held[c].session \in torn'
        /\ stage'[c] = "idle" /\ op'[c] = "none" /\ held'[c] = Nothing

LEMMA PlainKeeps ==
  ASSUME TypeOK, Shape, OwnedInv, CurrentInv, NEW c \in Clients, Plain(c)
  PROVE  OwnedInv' /\ CurrentInv'
<1>1. \A d \in Clients, s \in Nat : Holds(d, s)' => Holds(d, s) /\ op'[d] = op[d]
  BY DEF Plain, Others, Holds
<1>2. \A b \in Browsers : jar'[b] = jar[b] /\ jar[b].session \in Nat
  BY DEF Plain, TypeOK, Held
<1>3. torn \subseteq torn'
  BY DEF Plain
<1>4. OwnedInv'
  BY <1>1, <1>2, <1>3 DEF OwnedInv
<1>5. ASSUME NEW d \in Clients, stage'[d] = "answer"
      PROVE  /\ stage[d] = "answer" /\ held'[d] = held[d] /\ Known(held[d])
  BY <1>5 DEF Plain, Others, Shape, StageFits
<1>6. \A d \in Clients : stage'[d] = "answer" /\ held'[d].session \notin torn' =>
        held'[d].token = sessions'[held'[d].session].token
  BY <1>3, <1>5 DEF CurrentInv, Plain, Known
<1>7. ASSUME NEW b \in Browsers, jar[b].session \notin torn' \cup {0}, ~Answering(jar[b].session)'
      PROVE  jar[b].token = sessions'[jar[b].session].token
  <2>1. ~Answering(jar[b].session)
    BY <1>2, <1>7 DEF Answering, Plain, Others
  <2>2. jar[b].token = sessions[jar[b].session].token
    BY <1>3, <1>7, <2>1 DEF CurrentInv
  <2>3. Known(jar[b])
    BY <1>7 DEF Shape, Nothing
  <2>4. QED
    BY <2>2, <2>3 DEF Plain, Known
<1>8. CurrentInv'
  BY <1>2, <1>6, <1>7 DEF CurrentInv
<1>9. QED
  BY <1>4, <1>8

LEMMA SubmitKeepsOwned ==
  ASSUME TypeOK, Shape, OwnedInv, CurrentInv, NEW c \in Clients, NEW o \in Ops, Submit(c, o)
  PROVE  OwnedInv' /\ CurrentInv'
<1>1. PICK cookie \in Held : cookie = jar[Browser[c]]
  BY SessionsFit DEF TypeOK
<1>2. /\ Others(c) /\ jar' = jar /\ sessions' = sessions /\ Browser[c] \in Browsers
      /\ stage[c] = "idle" /\ stage'[c] = FirstStage(o) /\ op'[c] = o
      /\ held'[c] = IF o \in SignedIn \cup {"refresh"} THEN cookie ELSE Nothing
  BY <1>1, OthersStay, SessionsFit DEF Step, Submit, Busy, TypeOK
<1>3. /\ torn \subseteq torn'
      /\ o = "refresh" => \A d \in Clients :
           Busy(d) /\ op[d] = "refresh" /\ held[d].session = cookie.session => cookie.session \in torn'
  BY <1>1 DEF Submit
<1>4. \A d \in Clients \ {c}, s \in Nat : Holds(d, s)' <=> Holds(d, s)
  BY <1>2 DEF Others, Holds
<1>5. \A s \in Nat \ {0} : Holds(c, s)' => o = "refresh" /\ s = cookie.session
  BY <1>2 DEF Holds, Nothing, SignedIn
<1>6. \A b \in Browsers : jar[b].session \in Nat
  BY DEF TypeOK, Held
<1>7. ASSUME NEW b \in Browsers, NEW d \in Clients, Holds(d, jar[b].session)', jar[b].session # 0
      PROVE  b = Browser[d] /\ op'[d] = "refresh"
  <2>1. CASE d = c
    BY <1>1, <1>2, <1>5, <1>6, <1>7, <2>1 DEF OwnedInv
  <2>2. CASE d # c
    BY <1>2, <1>4, <1>6, <1>7, <2>2 DEF OwnedInv, Others
  <2>3. QED
    BY <2>1, <2>2
<1>8. ASSUME NEW d \in Clients \ {c}, NEW s \in Nat \ {0}, Holds(c, s)', Holds(d, s)
      PROVE  Browser[c] = Browser[d] /\ o = "refresh" /\ op[d] = "refresh" /\ s \in torn'
  <2>1. o = "refresh" /\ s = cookie.session
    BY <1>5, <1>8
  <2>2. Browser[c] = Browser[d] /\ op[d] = "refresh"
    BY <1>1, <1>2, <1>8, <2>1 DEF OwnedInv
  <2>3. Busy(d)
    BY <2>2 DEF Busy, Shape, StageFits
  <2>4. QED
    BY <1>3, <1>8, <2>1, <2>2, <2>3 DEF Holds
<1>9. OwnedInv'
  <2>1. ASSUME NEW d \in Clients, NEW e \in Clients, NEW s \in Nat \ {0},
               Holds(d, s)', Holds(e, s)', d # e
        PROVE  Browser[d] = Browser[e] /\ op'[d] = "refresh" /\ s \in torn'
    <3>1. CASE d # c /\ e # c
      BY <1>2, <1>3, <1>4, <2>1, <3>1 DEF OwnedInv, Others
    <3>2. CASE d = c \/ e = c
      BY <1>2, <1>4, <1>8, <2>1, <3>2 DEF Others
    <3>3. QED
      BY <3>1, <3>2
  <2>2. QED
    BY <1>2, <1>7, <2>1 DEF OwnedInv
<1>10. CurrentInv'
  <2>1. stage'[c] # "answer"
    BY <1>2 DEF FirstStage
  <2>2. \A s \in Nat : Answering(s)' <=> Answering(s)
    BY <1>2, <2>1 DEF Answering, Others
  <2>3. \A d \in Clients : stage'[d] = "answer" => stage[d] = "answer" /\ held'[d] = held[d]
    BY <1>2, <2>1 DEF Others
  <2>4. QED
    BY <1>2, <1>3, <1>6, <2>2, <2>3 DEF CurrentInv
<1>11. QED
  BY <1>9, <1>10

LEMMA CreateKeepsOwned ==
  ASSUME TypeOK, Shape, OwnedInv, CurrentInv, NEW c \in Clients, CreateSession(c)
  PROVE  OwnedInv' /\ CurrentInv'
<1>1. PICK new \in Nat : new = Len(sessions) + 1
  BY DEF TypeOK
<1>2. /\ Others(c) /\ jar' = jar /\ torn' = torn
      /\ stage[c] = "evict" /\ stage'[c] = "token" /\ op'[c] = op[c]
      /\ held'[c] = [session |-> new, token |-> 0]
  BY <1>1, OthersStay, GoesOn DEF Step, Work, CreateSession, history, TypeOK
<1>3. \A s \in 1..Len(sessions) : sessions'[s] = sessions[s]
  BY SessionAdded DEF CreateSession, Adds, TypeOK
<1>4. /\ \A b \in Browsers : jar[b].session # new
      /\ \A d \in Clients : op[d] \in {"login", "refresh"} => held[d].session # new
  <2>1. \A h \in Held : h = Nothing \/ Known(h) => h.session # new
    BY <1>1 DEF Known, Nothing, TypeOK
  <2>2. QED
    BY <2>1 DEF TypeOK, Shape, StageFits, SigningIn, Ending, Stages
<1>5. /\ \A d \in Clients \ {c}, s \in Nat : Holds(d, s)' <=> Holds(d, s)
      /\ \A s \in Nat : Holds(c, s)' => s = new
  BY <1>2 DEF Others, Holds
<1>6. \A b \in Browsers : jar[b].session \in Nat
  BY DEF TypeOK, Held
<1>7. \A d \in Clients \ {c} : ~Holds(d, new)
  BY <1>4 DEF Holds
<1>8. OwnedInv'
  <2>1. ASSUME NEW b \in Browsers, NEW d \in Clients, Holds(d, jar[b].session)', jar[b].session # 0
        PROVE  b = Browser[d] /\ op'[d] = "refresh"
    BY <1>2, <1>4, <1>5, <1>6, <2>1 DEF OwnedInv, Others
  <2>2. ASSUME NEW d \in Clients, NEW e \in Clients, NEW s \in Nat \ {0},
               Holds(d, s)', Holds(e, s)', d # e
        PROVE  Browser[d] = Browser[e] /\ op'[d] = "refresh" /\ s \in torn'
    <3>1. d # c /\ e # c
      BY <1>5, <1>7, <2>2
    <3>2. QED
      BY <1>2, <1>5, <2>2, <3>1 DEF OwnedInv, Others
  <2>3. QED
    BY <1>2, <2>1, <2>2 DEF OwnedInv
<1>9. CurrentInv'
  <2>1. \A d \in Clients : stage'[d] = "answer" =>
          stage[d] = "answer" /\ held'[d] = held[d] /\ Known(held[d])
    BY <1>2 DEF Others, Shape, StageFits
  <2>2. \A s \in Nat : Answering(s)' <=> Answering(s)
    BY <1>2 DEF Answering, Others
  <2>3. \A b \in Browsers : jar[b].session # 0 => Known(jar[b])
    BY DEF Shape, Nothing
  <2>4. QED
    BY <1>2, <1>3, <1>6, <2>1, <2>2, <2>3 DEF CurrentInv, Known
<1>10. QED
  BY <1>8, <1>9

LEMMA StoreKeepsOwned ==
  ASSUME TypeOK, Shape, OwnedInv, CurrentInv, NEW c \in Clients, StoreToken(c)
  PROVE  OwnedInv' /\ CurrentInv'
<1>1. PICK s \in 1..Len(sessions) : s = held[c].session
  BY DEF StoreToken, Shape, StageFits, Known
<1>2. /\ Others(c) /\ jar' = jar /\ torn' = torn
      /\ stage[c] = "token" /\ stage'[c] = "answer" /\ op'[c] = op[c]
      /\ held'[c].session = s /\ held'[c].token = sessions[s].token + 1
  <2>1. held[c] \in Held
    BY DEF TypeOK
  <2>2. held'[c] = [held[c] EXCEPT !.token = sessions[s].token + 1]
    BY <1>1 DEF StoreToken, TypeOK
  <2>3. held'[c].session = s /\ held'[c].token = sessions[s].token + 1
    BY <1>1, <2>1, <2>2 DEF Held
  <2>4. QED
    BY <2>3, OthersStay, GoesOn DEF Step, Work, StoreToken, history
<1>3. /\ sessions'[s].token = sessions[s].token + 1
      /\ \A r \in 1..Len(sessions) : r # s => sessions'[r] = sessions[r]
  BY <1>1, TokenStored DEF StoreToken, StoresToken, TypeOK
<1>4. \A d \in Clients, r \in Nat : Holds(d, r)' <=> Holds(d, r)
  BY <1>1, <1>2 DEF Others, Holds
<1>5. \A d \in Clients : op'[d] = op[d]
  BY <1>2 DEF Others
<1>6. \A b \in Browsers : jar[b].session \in Nat
  BY DEF TypeOK, Held
<1>7. OwnedInv'
  BY <1>2, <1>4, <1>5, <1>6 DEF OwnedInv
<1>8. ASSUME NEW d \in Clients, stage'[d] = "answer", held'[d].session \notin torn
      PROVE  held'[d].token = sessions'[held'[d].session].token
  <2>1. CASE d = c
    BY <1>2, <1>3, <2>1
  <2>2. CASE d # c
    <3>1. stage[d] = "answer" /\ held'[d] = held[d] /\ Known(held[d])
      BY <1>2, <1>8, <2>2 DEF Others, Shape, StageFits
    <3>2. held[d].session # s
      BY <1>1, <1>2, <1>8, <2>2, <3>1 DEF OwnedInv, Holds, Shape, StageFits
    <3>3. QED
      BY <1>3, <1>8, <3>1, <3>2 DEF CurrentInv, Known
  <2>3. QED
    BY <2>1, <2>2
<1>9. ASSUME NEW b \in Browsers, jar[b].session \notin torn \cup {0}, ~Answering(jar[b].session)'
      PROVE  jar[b].token = sessions'[jar[b].session].token
  <2>1. Answering(s)'
    BY <1>2 DEF Answering
  <2>2. jar[b].session # s /\ Known(jar[b])
    BY <1>2, <1>9, <2>1 DEF Shape, Nothing
  <2>3. ~Answering(jar[b].session)
    BY <1>2, <1>9 DEF Answering, Others
  <2>4. QED
    BY <1>3, <1>9, <2>2, <2>3 DEF CurrentInv, Known
<1>10. CurrentInv'
  BY <1>2, <1>8, <1>9 DEF CurrentInv
<1>11. QED
  BY <1>7, <1>10

LEMMA DeliverKeepsOwned ==
  ASSUME TypeOK, Shape, OwnedInv, CurrentInv, NEW c \in Clients, Deliver(c) \/ Conclude(c)
  PROVE  OwnedInv' /\ CurrentInv'
<1>1. /\ Others(c) /\ sessions' = sessions /\ torn' = torn /\ Browser[c] \in Browsers
      /\ stage'[c] = "idle" /\ op'[c] = "none" /\ held'[c] = Nothing
  BY OthersStay, Ends, SessionsFit DEF Step, Work, Deliver, Conclude, record, history
<1>2. PICK b0 \in Browsers : b0 = Browser[c]
  BY <1>1
<1>3. /\ \A b \in Browsers \ {b0} : jar'[b] = jar[b]
      /\ \/ jar' = jar /\ stage[c] # "answer"
         \/ jar'[b0] = Nothing /\ stage[c] # "answer"
         \/ jar'[b0] = held[c] /\ stage[c] = "answer"
  BY <1>2 DEF Deliver, Conclude, TypeOK
<1>4. \A d \in Clients, s \in Nat : Holds(d, s)' => d # c /\ Holds(d, s) /\ op'[d] = op[d]
  BY <1>1 DEF Others, Holds
<1>5. \A b \in Browsers : jar[b].session \in Nat
  BY DEF TypeOK, Held
<1>6. /\ held[c].session \in Nat
      /\ stage[c] = "answer" => Holds(c, held[c].session) /\ held[c].session # 0 /\ Known(held[c])
  BY DEF TypeOK, Held, Shape, StageFits, Holds, Known
<1>7. \A b \in Browsers \ {b0} : jar'[b].session # 0 => jar'[b].session # jar'[b0].session
  BY <1>2, <1>3, <1>5, <1>6 DEF OwnedInv, Nothing
<1>8. OwnedInv'
  <2>1. ASSUME NEW a \in Browsers, NEW b \in Browsers, jar'[a].session = jar'[b].session,
               jar'[a].session # 0
        PROVE  a = b
    BY <1>3, <1>7, <2>1 DEF OwnedInv
  <2>2. ASSUME NEW b \in Browsers, NEW d \in Clients, Holds(d, jar[b].session)', jar'[b].session # 0
        PROVE  b = Browser[d] /\ op'[d] = "refresh"
    <3>1. jar'[b].session \in Nat
      BY <1>3, <1>5, <1>6 DEF Nothing
    <3>2. d # c /\ Holds(d, jar'[b].session) /\ op'[d] = op[d]
      BY <1>4, <2>2, <3>1
    <3>3. CASE jar'[b] = jar[b]
      BY <2>2, <3>2, <3>3 DEF OwnedInv
    <3>4. CASE b = b0 /\ jar'[b0] = held[c] /\ stage[c] = "answer"
      BY <1>2, <1>6, <3>2, <3>4 DEF OwnedInv
    <3>5. QED
      BY <1>3, <2>2, <3>3, <3>4 DEF Nothing
  <2>3. ASSUME NEW d \in Clients, NEW e \in Clients, NEW s \in Nat \ {0},
               Holds(d, s)', Holds(e, s)', d # e
        PROVE  Browser[d] = Browser[e] /\ op'[d] = "refresh" /\ s \in torn'
    BY <1>1, <1>4, <2>3 DEF OwnedInv
  <2>4. QED
    BY <2>1, <2>2, <2>3 DEF OwnedInv
<1>9. \A d \in Clients : stage'[d] = "answer" /\ held'[d].session \notin torn =>
        held'[d].token = sessions[held'[d].session].token
  BY <1>1 DEF CurrentInv, Others
<1>10. ASSUME NEW b \in Browsers, jar'[b].session \notin torn \cup {0}, ~Answering(jar[b].session)'
       PROVE  jar'[b].token = sessions[jar'[b].session].token
  <2>1. CASE b = b0 /\ jar'[b0] = held[c] /\ stage[c] = "answer"
    BY <1>10, <2>1 DEF CurrentInv
  <2>2. CASE jar'[b] = jar[b] /\ (stage[c] = "answer" => held[c].session # jar[b].session)
    <3>1. ~Answering(jar[b].session)
      BY <1>1, <1>10, <2>2 DEF Answering, Others
    <3>2. QED
      BY <1>10, <2>2, <3>1 DEF CurrentInv
  <2>3. QED
    BY <1>3, <1>7, <1>10, <2>1, <2>2 DEF Nothing
<1>11. CurrentInv'
  BY <1>1, <1>9, <1>10 DEF CurrentInv
<1>12. QED
  BY <1>8, <1>11

LEMMA OwnedStep ==
  ASSUME TypeOK, Shape, OwnedInv, CurrentInv, NEW c \in Clients, Step(c)
  PROVE  OwnedInv' /\ CurrentInv'
<1>1. CASE \/ ReadUser(c) \/ Unlock(c) \/ CheckUser(c) \/ CountFailure(c) \/ Lock(c)
           \/ ClearFailures(c) \/ ListActive(c) \/ Lookup(c) \/ Punish(c) \/ Authorize(c)
           \/ Deactivate(c) \/ Sweep(c) \/ Revoke(c) \/ Activate(c) \/ Breaks(c)
  <2>1. Others(c)
    BY OthersStay
  <2>2. jar' = jar /\ torn \subseteq torn'
    BY <1>1 DEF ReadUser, Unlock, CheckUser, CountFailure, Lock, ClearFailures, ListActive, Lookup,
       Punish, Authorize, Deactivate, Sweep, Revoke, Activate, Breaks, history
  <2>3. \A s \in 1..Len(sessions) : sessions'[s].token = sessions[s].token
    <3>1. sessions' = sessions \/ \E s \in 1..Len(sessions) : Revokes(s)
      BY <1>1, TableSteps DEF ReadUser, Unlock, CheckUser, CountFailure, Lock, ClearFailures,
         ListActive, Lookup, Punish, Authorize, Deactivate, Sweep, Revoke, Activate, Breaks, record,
         CreateSession, StoreToken
    <3>2. QED
      BY <3>1, SessionRevoked DEF TypeOK
  <2>4. CASE Finish(c)
    <3>1. stage[c] = "answer" => held[c].session \in torn'
      BY <1>1 DEF ReadUser, Unlock, CheckUser, CountFailure, Lock, ClearFailures, ListActive, Lookup,
         Punish, Authorize, Deactivate, Sweep, Revoke, Activate, Breaks
    <3>2. QED
      BY <2>1, <2>2, <2>3, <2>4, <3>1, Ends, PlainKeeps DEF Plain
  <2>5. CASE ~Finish(c)
    <3>1. /\ held' = held /\ stage[c] # "answer"
          /\ (\E s \in Stages \ {"answer"} : Goto(c, s)) \/ (stage' = stage /\ op' = op)
      BY <1>1, <2>5 DEF ReadUser, Unlock, CheckUser, CountFailure, Lock, ClearFailures, ListActive,
         Lookup, Punish, Refuse, Authorize, Deactivate, Sweep, Revoke, Activate, Breaks, Stages
    <3>2. stage'[c] # "answer" /\ op'[c] = op[c]
      BY <3>1, GoesOn
    <3>3. QED
      BY <2>1, <2>2, <2>3, <3>1, <3>2, PlainKeeps DEF Plain
  <2>6. QED
    BY <2>4, <2>5
<1>2. QED
  BY <1>1, SubmitKeepsOwned, CreateKeepsOwned, StoreKeepsOwned, DeliverKeepsOwned DEF Step, Work

\* CookieIsAccepted (refresh, setTokenHashes): a browser whose refreshes never
\* overlapped and were all answered holds the token its active session accepts.
THEOREM OrderlyCookieIsAccepted == Spec => []CookieIsAccepted
<1>1. Init => OwnedInv /\ CurrentInv
  BY DEF Init, OwnedInv, CurrentInv, Holds, Answering, Nothing
<1>2. TypeOK /\ Shape /\ OwnedInv /\ CurrentInv /\ [Next]_vars => (OwnedInv /\ CurrentInv)'
  <2> SUFFICES ASSUME TypeOK, Shape, OwnedInv, CurrentInv, [Next]_vars
               PROVE  OwnedInv' /\ CurrentInv'
    OBVIOUS
  <2>1. ASSUME Still PROVE OwnedInv' /\ CurrentInv'
    BY <2>1 DEF Still, request, OwnedInv, CurrentInv, Holds, Answering
  <2>2. QED
    BY <2>1, QuietSteps, OwnedStep, NextCases
<1>3. CurrentInv => CookieIsAccepted
  BY DEF CurrentInv, CookieIsAccepted, Answering
<1>4. QED
  BY <1>1, <1>2, <1>3, SessionsTypeCorrect, PTL DEF Spec

-----------------------------------------------------------------------------
(* The e-mail link.  Until it is used, and its request done, nobody has    *)
(* signed in: a new customer has no sessions, cookies or wrong guesses.    *)

AtStage(x) == {c \in Clients : stage[c] = x}

Quiet == {"idle", "read", "check", "sweep", "revoke", "activate"}

Untouched ==
  /\ user = [status |-> "PENDING_VERIFICATION", attempts |-> 0, lock |-> "none"]
  /\ sessions = << >> /\ guesses = 0
  /\ \A b \in Browsers : jar[b] = Nothing
  /\ \A c \in Clients : stage[c] \in Quiet

LinkInv ==
  /\ link \/ AtStage("activate") # {} => Untouched
  /\ link => AtStage("activate") = {}
  /\ \A c, d \in AtStage("activate") : c = d

\* Where a request that is under way goes next.
LEMMA Onward ==
  ASSUME TypeOK, NEW c \in Clients, Work(c) \/ Breaks(c)
  PROVE  \/ stage'[c] = "idle"
         \/ Revoke(c) /\ stage'[c] = stage[c]
         \/ stage'[c] = "unlock" /\ user.lock = "over"
         \/ stage'[c] \in {"fail", "clear", "list"} /\ MaySignIn
         \/ stage'[c] = "lock" /\ stage[c] = "fail"
         \/ stage'[c] = "list" /\ stage[c] = "clear"
         \/ stage'[c] \in {"check", "evict", "token", "answer", "punish", "deactivate", "sweep",
                           "revoke"}
<1>1. CASE ReadUser(c) \/ Unlock(c) \/ CheckUser(c) \/ CountFailure(c)
  BY <1>1, GoesOn, Ends DEF ReadUser, Unlock, CheckUser, CountFailure
<1>2. CASE ClearFailures(c) \/ ListActive(c) \/ CreateSession(c) \/ StoreToken(c) \/ Deactivate(c)
        \/ Sweep(c)
  BY <1>2, GoesOn DEF ClearFailures, ListActive, CreateSession, StoreToken, Deactivate, Sweep
<1>3. CASE Lookup(c)
  BY <1>3, GoesOn, Ends DEF Lookup, Refuse
<1>4. CASE Authorize(c)
  BY <1>4, GoesOn, Ends DEF Authorize
<1>5. CASE Revoke(c)
  BY <1>5 DEF Revoke
<1>6. CASE Lock(c) \/ Deliver(c) \/ Punish(c) \/ Conclude(c) \/ Activate(c) \/ Breaks(c)
  BY <1>6, Ends DEF Lock, Deliver, Punish, Refuse, Conclude, Activate, Breaks
<1>7. QED
  BY <1>1, <1>2, <1>3, <1>4, <1>5, <1>6 DEF Work

LEMMA UntouchedStep ==
  ASSUME TypeOK, Shape, Untouched, NEW c \in Clients, Step(c), ~Activate(c)
  PROVE  Untouched'
<1>1. Others(c) /\ stage[c] \in Quiet /\ todo[c] = {} /\ Active = {}
  BY OthersStay DEF Untouched, Shape, StageFits, Active
<1>2. ~MaySignIn /\ \A b \in Browsers : jar[b] = Nothing
  BY DEF Untouched, MaySignIn
<1>3. user' = user /\ sessions' = sessions /\ guesses' = guesses
  BY <1>1, <1>2 DEF Step, Work, ReadUser, Unlock, CheckUser, CountFailure, Lock, ClearFailures,
     ListActive, CreateSession, StoreToken, Deliver, Lookup, Punish, Authorize, Deactivate, Sweep,
     Revoke, Conclude, Breaks, Submit, record, history, Quiet
<1>4. \A b \in Browsers : jar'[b] = Nothing
  BY <1>1, <1>2, JarSteps, SessionsFit DEF Deliver, Quiet, TypeOK
<1>5. stage'[c] \in Quiet
  <2>1. CASE \E o \in Ops : Submit(c, o)
    <3>1. PICK o \in Ops : Submit(c, o)
      BY <2>1
    <3>2. o \notin SignedIn \cup {"refresh"} /\ stage'[c] = FirstStage(o)
      BY <1>2, <3>1, SessionsFit DEF Submit, TypeOK
    <3>3. QED
      BY <3>2 DEF FirstStage, Ops, Quiet
  <2>2. CASE Work(c) \/ Breaks(c)
    BY <1>1, <1>2, <2>2, GoesOn, Ends
       DEF Untouched, Work, ReadUser, Unlock, CheckUser, CountFailure, Lock, ClearFailures,
           ListActive, CreateSession, StoreToken, Deliver, Lookup, Punish, Authorize, Deactivate,
           Sweep, Revoke, Conclude, Breaks, Quiet
  <2>3. QED
    BY <2>1, <2>2 DEF Step
<1>6. QED
  BY <1>1, <1>3, <1>4, <1>5 DEF Untouched, Others

LEMMA LinkStep ==
  ASSUME TypeOK, Shape, LinkInv, NEW c \in Clients, Step(c)
  PROVE  LinkInv'
<1>1. Others(c)
  BY OthersStay
<1>2. link' = link \/ (Submit(c, "verify") /\ link /\ ~link')
  BY DEF Step, Work, ReadUser, Unlock, CheckUser, CountFailure, Lock, ClearFailures, ListActive,
     CreateSession, StoreToken, Deliver, Lookup, Punish, Authorize, Deactivate, Sweep, Revoke,
     Conclude, Activate, Breaks, Submit, record, TypeOK
<1>3. stage'[c] = "activate" => Submit(c, "verify") \/ (stage[c] = "activate" /\ link' = link)
  <2>1. ASSUME NEW o \in Ops, Submit(c, o) PROVE stage'[c] = "activate" => o = "verify"
    BY <2>1 DEF Submit, FirstStage, TypeOK
  <2>2. CASE Work(c) \/ Breaks(c)
    BY <1>2, <2>2, Onward DEF Revoke, Submit, Work, Breaks, Step
  <2>3. QED
    BY <2>1, <2>2 DEF Step
<1>4. Submit(c, "verify") => link /\ ~link' /\ stage[c] = "idle"
  BY DEF Submit, Busy, TypeOK
<1>5. \A d \in AtStage("activate")' : d \in AtStage("activate") \/ (d = c /\ Submit(c, "verify"))
  BY <1>1, <1>3 DEF AtStage, Others
<1>6. link' \/ AtStage("activate")' # {} => link \/ AtStage("activate") # {}
  BY <1>2, <1>4, <1>5
<1>7. Activate(c) => ~(link' \/ AtStage("activate")' # {})
  <2>1. SUFFICES ASSUME Activate(c) PROVE ~link' /\ AtStage("activate")' = {}
    OBVIOUS
  <2>2. c \in AtStage("activate") /\ ~link /\ link' = link /\ stage'[c] = "idle"
    BY <2>1, Ends DEF Activate, LinkInv, AtStage
  <2>3. QED
    BY <1>1, <2>2 DEF LinkInv, AtStage, Others
<1>8. /\ link' => AtStage("activate")' = {}
      /\ \A d, e \in AtStage("activate")' : d = e
  BY <1>2, <1>4, <1>5 DEF LinkInv
<1>9. link' \/ AtStage("activate")' # {} => Untouched'
  BY <1>6, <1>7, UntouchedStep DEF LinkInv
<1>10. QED
  BY <1>8, <1>9 DEF LinkInv

LEMMA LinkInductive == TypeOK /\ Shape /\ LinkInv /\ [Next]_vars => LinkInv'
<1> SUFFICES ASSUME TypeOK, Shape, LinkInv, [Next]_vars PROVE LinkInv'
  OBVIOUS
<1>1. CASE LockRunsOut
  <2>1. ~Untouched /\ Still
    BY <1>1, QuietSteps DEF LockRunsOut, Untouched
  <2>2. QED
    BY <2>1 DEF LinkInv, Still, request, AtStage
<1>2. CASE UNCHANGED vars
  BY <1>2 DEF vars, record, request, history, LinkInv, AtStage, Untouched
<1>3. QED
  BY <1>1, <1>2, LinkStep, NextCases

LEMMA InitLink == Init => LinkInv
BY DEF Init, LinkInv, AtStage, Untouched, Quiet

\* GoneForGood (deactivateAccount, login): with no lock and no sign-in past its
\* check, no step makes a deactivated account anything else.
THEOREM DeactivationIsFinal == Spec => GoneForGood
<1>1. TypeOK /\ Shape /\ LinkInv /\ [Next]_vars => [Gone => Gone']_vars
  <2> SUFFICES ASSUME TypeOK, Shape, LinkInv, Next, Gone PROVE Gone'
    OBVIOUS
  <2>1. ~link /\ ~MaySignIn
    BY DEF Gone, LinkInv, Untouched, MaySignIn
  <2>2. ~LockRunsOut
    BY DEF Gone, LockRunsOut
  <2>3. PICK c \in Clients : Step(c)
    BY <2>2 DEF Next, Step
  <2>4. Others(c) /\ stage[c] \notin {"unlock", "fail", "lock", "clear", "activate"}
    BY <2>3, OthersStay DEF Gone
  <2>5. user'.status = "DEACTIVATED" /\ user'.lock = "none"
    BY <2>3, <2>4
       DEF Gone, Step, Work, ReadUser, Unlock, CheckUser, CountFailure, Lock, ClearFailures,
           ListActive, CreateSession, StoreToken, Deliver, Lookup, Punish, Authorize, Deactivate,
           Sweep, Revoke, Conclude, Activate, Breaks, Submit, record, TypeOK, Users
  <2>6. stage'[c] \notin {"unlock", "fail", "lock", "clear", "activate"}
    <3>1. ASSUME NEW o \in Ops, Submit(c, o) PROVE stage'[c] = FirstStage(o) /\ o # "verify"
      BY <2>1, <3>1 DEF Submit, TypeOK
    <3>2. CASE \E o \in Ops : Submit(c, o)
      BY <3>1, <3>2 DEF FirstStage
    <3>3. CASE Work(c) \/ Breaks(c)
      BY <2>1, <2>4, <3>3, Onward DEF Gone
    <3>4. QED
      BY <2>3, <3>2, <3>3 DEF Step
  <2>7. QED
    BY <2>4, <2>5, <2>6 DEF Gone, Others
<1>2. QED
  BY <1>1, SessionsTypeCorrect, InitLink, LinkInductive, PTL DEF Spec, GoneForGood

-----------------------------------------------------------------------------
(* Counting requests.                                                      *)

UnderWay == {c \in Clients : op[c] = "login"}

\* crowd has seen every sign-in that is under way.
Crowded == Cardinality(UnderWay) <= crowd

LEMMA FiniteParts ==
  ASSUME NEW S \in SUBSET Clients
  PROVE  IsFiniteSet(S) /\ Cardinality(S) \in Nat
BY SessionsFit, FS_Subset, FS_CardinalityType

LEMMA StageCounts ==
  ASSUME NEW c \in Clients, Others(c), NEW x
  PROVE  /\ Cardinality(AtStage(x)) \in Nat /\ Cardinality(AtStage(x)') \in Nat
         /\ (stage[c] = x <=> stage'[c] = x) => AtStage(x)' = AtStage(x)
         /\ stage[c] = x /\ stage'[c] # x =>
              Cardinality(AtStage(x)') = Cardinality(AtStage(x)) - 1
         /\ stage[c] # x /\ stage'[c] = x =>
              Cardinality(AtStage(x)') = Cardinality(AtStage(x)) + 1
<1>1. AtStage(x) \in SUBSET Clients /\ AtStage(x)' \in SUBSET Clients
  BY DEF AtStage
<1>2. IsFiniteSet(AtStage(x)) /\ Cardinality(AtStage(x)) \in Nat /\ Cardinality(AtStage(x)') \in Nat
  BY <1>1, FiniteParts
<1>3. (stage[c] = x <=> stage'[c] = x) => AtStage(x)' = AtStage(x)
  BY DEF AtStage, Others
<1>4. ASSUME stage[c] = x, stage'[c] # x
      PROVE  Cardinality(AtStage(x)') = Cardinality(AtStage(x)) - 1
  <2>1. AtStage(x)' = AtStage(x) \ {c} /\ c \in AtStage(x)
    BY <1>4 DEF AtStage, Others
  <2>2. QED
    BY <1>2, <2>1, FS_RemoveElement
<1>5. ASSUME stage[c] # x, stage'[c] = x
      PROVE  Cardinality(AtStage(x)') = Cardinality(AtStage(x)) + 1
  <2>1. AtStage(x)' = AtStage(x) \cup {c} /\ c \notin AtStage(x)
    BY <1>5 DEF AtStage, Others
  <2>2. QED
    BY <1>2, <2>1, FS_AddElement
<1>6. QED
  BY <1>2, <1>3, <1>4, <1>5

LEMMA DisjointParts ==
  ASSUME NEW U, IsFiniteSet(U), NEW F \in SUBSET U, NEW L \in SUBSET U, F \cap L = {}
  PROVE  Cardinality(F) + Cardinality(L) <= Cardinality(U)
<1>1. /\ IsFiniteSet(F) /\ IsFiniteSet(L)
      /\ Cardinality(F) \in Nat /\ Cardinality(L) \in Nat
  BY FS_Subset, FS_CardinalityType
<1>2. Cardinality(F \cup L) = Cardinality(F) + Cardinality(L) - Cardinality(F \cap L)
  BY <1>1, FS_Union
<1>3. Cardinality(F \cup L) <= Cardinality(U)
  <2>1. F \cup L \in SUBSET U
    OBVIOUS
  <2>2. QED
    BY <1>1, <2>1, FS_Subset
<1>4. QED
  BY <1>1, <1>2, <1>3, FS_EmptySet

\* Sign-ins past the check, before the lock and before the limit are under way.
LEMMA WithinCrowd ==
  ASSUME TypeOK', Shape', Crowded'
  PROVE  /\ Cardinality(AtStage("fail")') + Cardinality(AtStage("lock")') <= crowd'
         /\ Cardinality(AtStage("evict")') <= crowd'
         /\ crowd' \in Nat
<1>1. /\ AtStage("fail")' \in SUBSET (UnderWay') /\ AtStage("lock")' \in SUBSET (UnderWay')
      /\ AtStage("evict")' \in SUBSET (UnderWay')
      /\ AtStage("fail")' \cap AtStage("lock")' = {}
  BY DEF AtStage, UnderWay, Shape, StageFits, SigningIn
<1>2. UnderWay' \in SUBSET Clients
  BY DEF UnderWay
<1>3. Cardinality(AtStage("fail")') + Cardinality(AtStage("lock")') <= Cardinality(UnderWay')
  BY <1>1, <1>2, FiniteParts, DisjointParts
<1>4. Cardinality(AtStage("evict")') <= Cardinality(UnderWay')
  BY <1>1, <1>2, FiniteParts, FS_Subset
<1>5. /\ Cardinality(AtStage("fail")') \in Nat /\ Cardinality(AtStage("lock")') \in Nat
      /\ Cardinality(AtStage("evict")') \in Nat /\ Cardinality(UnderWay') \in Nat
  <2>1. /\ AtStage("fail")' \in SUBSET Clients /\ AtStage("lock")' \in SUBSET Clients
        /\ AtStage("evict")' \in SUBSET Clients
    BY <1>1, <1>2
  <2>2. QED
    BY <1>2, <2>1, FiniteParts
<1>6. crowd' \in Nat /\ Cardinality(UnderWay') <= crowd'
  BY DEF TypeOK, Crowded
<1>7. QED
  BY <1>3, <1>4, <1>5, <1>6

LEMMA CrowdStep ==
  ASSUME TypeOK, Shape, Crowded, NEW c \in Clients, Step(c)
  PROVE  Crowded' /\ crowd <= crowd' /\ crowd' \in Nat
<1>1. Others(c) /\ crowd \in Nat
  BY OthersStay DEF TypeOK
<1>2. UnderWay \in SUBSET Clients /\ UnderWay' \in SUBSET Clients
  BY DEF UnderWay
<1>3. /\ IsFiniteSet(UnderWay) /\ Cardinality(UnderWay) \in Nat
      /\ Cardinality(UnderWay') \in Nat /\ Cardinality(UnderWay) <= crowd
  BY <1>2, FiniteParts DEF Crowded
<1>4. CASE Work(c) \/ Breaks(c)
  <2>1. op'[c] = op[c] \/ op'[c] = "none"
    BY <1>4, GoesOn, Ends
       DEF Work, ReadUser, Unlock, CheckUser, CountFailure, Lock, ClearFailures, ListActive,
           CreateSession, StoreToken, Deliver, Lookup, Punish, Refuse, Authorize, Deactivate,
           Sweep, Revoke, Conclude, Activate, Breaks
  <2>2. UnderWay' \in SUBSET UnderWay
    BY <1>1, <2>1 DEF UnderWay, Others
  <2>3. crowd' = crowd
    BY <1>4
       DEF Work, ReadUser, Unlock, CheckUser, CountFailure, Lock, ClearFailures, ListActive,
           CreateSession, StoreToken, Deliver, Lookup, Punish, Authorize, Deactivate,
           Sweep, Revoke, Conclude, Activate, Breaks, history
  <2>4. Cardinality(UnderWay') <= Cardinality(UnderWay)
    BY <1>3, <2>2, FS_Subset
  <2>5. QED
    BY <1>1, <1>3, <2>3, <2>4 DEF Crowded
<1>5. ASSUME NEW o \in Ops, Submit(c, o) PROVE Crowded' /\ crowd <= crowd' /\ crowd' \in Nat
  <2>1. op'[c] = o /\ SignIns(c, o) \in SUBSET Clients
    BY <1>5 DEF Submit, SignIns, TypeOK
  <2>2. UnderWay' \in SUBSET SignIns(c, o)
    BY <1>1, <2>1 DEF UnderWay, SignIns, Others, Busy, Shape, StageFits
  <2>3. IsFiniteSet(SignIns(c, o)) /\ Cardinality(SignIns(c, o)) \in Nat
    BY <2>1, FiniteParts
  <2>4. Cardinality(UnderWay') <= Cardinality(SignIns(c, o))
    BY <2>2, <2>3, FS_Subset
  <2>5. crowd' = IF Cardinality(SignIns(c, o)) > crowd THEN Cardinality(SignIns(c, o)) ELSE crowd
    BY <1>5 DEF Submit
  <2>6. QED
    BY <1>1, <1>3, <2>3, <2>4, <2>5 DEF Crowded
<1>6. QED
  BY <1>4, <1>5 DEF Step

-----------------------------------------------------------------------------
(* Wrong passwords.  While sign-ins are let in, each guess beyond the last *)
(* allowed one belongs to a sign-in that is about to write the lock; the   *)
(* guesses still to be counted were let in before it was written.          *)

GuessInv ==
  /\ guesses <= user.attempts
  /\ MaySignIn => guesses <= MaxAttempts - 1 + Cardinality(AtStage("lock"))
  /\ guesses + Cardinality(AtStage("fail")) <= MaxAttempts - 1 + crowd

\* Where sign-ins are let in, the last part follows from the second.
LEMMA GuessesFit ==
  ASSUME TypeOK', Shape', Crowded', (guesses <= user.attempts)',
         guesses' <= MaxAttempts - 1 + Cardinality(AtStage("lock")')
  PROVE  GuessInv'
<1>1. /\ AtStage("lock")' \in SUBSET Clients /\ AtStage("fail")' \in SUBSET Clients
  BY DEF AtStage
<1>2. Cardinality(AtStage("lock")') \in Nat /\ Cardinality(AtStage("fail")') \in Nat
  BY <1>1, FiniteParts
<1>3. Cardinality(AtStage("fail")') + Cardinality(AtStage("lock")') <= crowd' /\ crowd' \in Nat
  BY WithinCrowd
<1>4. guesses' \in Int /\ MaxAttempts \in Nat
  BY SessionsFit DEF TypeOK
<1>5. guesses' + Cardinality(AtStage("fail")') <= MaxAttempts - 1 + crowd'
  BY <1>2, <1>3, <1>4
<1>6. QED
  BY <1>5 DEF GuessInv

LEMMA GuessStep ==
  ASSUME TypeOK, Shape, Crowded, LinkInv, GuessInv, NEW c \in Clients, Step(c)
  PROVE  GuessInv'
<1>1. /\ TypeOK' /\ Shape' /\ Crowded' /\ Others(c)
      /\ crowd \in Nat /\ crowd' \in Nat /\ crowd <= crowd'
  BY TypeStep, ShapeStep, CrowdStep, OthersStay DEF TypeOK
<1>2. PICK fail \in Nat, lock \in Nat, fail1 \in Nat, lock1 \in Nat :
        /\ fail = Cardinality(AtStage("fail")) /\ lock = Cardinality(AtStage("lock"))
        /\ fail1 = Cardinality(AtStage("fail")') /\ lock1 = Cardinality(AtStage("lock")')
  BY <1>1, StageCounts
<1>3. /\ (stage[c] = "fail" <=> stage'[c] = "fail") => fail1 = fail
      /\ stage[c] = "fail" /\ stage'[c] # "fail" => fail1 = fail - 1
      /\ (stage[c] = "lock" <=> stage'[c] = "lock") => lock1 = lock
      /\ stage[c] = "lock" /\ stage'[c] # "lock" => lock1 = lock - 1
      /\ stage[c] # "lock" /\ stage'[c] = "lock" => lock1 = lock + 1
  BY <1>1, <1>2, StageCounts
<1>4. /\ guesses \in Int /\ user \in Users /\ user.attempts \in Nat /\ MaxAttempts \in Nat \ {0}
      /\ guesses <= user.attempts
      /\ MaySignIn => guesses <= MaxAttempts - 1 + lock
      /\ guesses + fail <= MaxAttempts - 1 + crowd
  BY <1>2, SessionsFit DEF GuessInv, TypeOK, Users
<1>5. ASSUME guesses' <= user'.attempts, MaySignIn',
             guesses' <= MaxAttempts - 1 + lock1
      PROVE  GuessInv'
  BY <1>1, <1>2, <1>5, GuessesFit
<1>6. ASSUME guesses' <= user'.attempts, MaySignIn' => guesses' <= MaxAttempts - 1 + lock1,
             guesses' + fail1 <= guesses + fail, guesses' \in Int
      PROVE  GuessInv'
  <2>1. /\ guesses' \in Int /\ guesses \in Int /\ crowd \in Int /\ crowd' \in Int
        /\ MaxAttempts \in Int
    BY <1>1, <1>4, <1>6
  <2>2. guesses' + fail1 <= MaxAttempts - 1 + crowd'
    <3>1. guesses + fail <= MaxAttempts - 1 + crowd /\ crowd <= crowd'
      BY <1>1, <1>4
    <3>2. guesses' + fail1 <= guesses + fail
      BY <1>6
    <3>3. \A g, g1, k, k1, m \in Int :
            g + fail <= m - 1 + k /\ k <= k1 /\ g1 + fail1 <= g + fail => g1 + fail1 <= m - 1 + k1
      OBVIOUS
    <3>4. QED
      BY <2>1, <3>1, <3>2, <3>3
  <2>3. guesses' + Cardinality(AtStage("fail")') <= MaxAttempts - 1 + crowd'
    BY <1>2, <2>2
  <2>4. MaySignIn' => guesses' <= MaxAttempts - 1 + Cardinality(AtStage("lock")')
    BY <1>2, <1>6
  <2>5. guesses' <= user'.attempts
    BY <1>6
  <2>6. QED
    BY <2>3, <2>4, <2>5 DEF GuessInv
<1>7. CASE Unlock(c) \/ ClearFailures(c)
  <2>1. guesses' = 0 /\ user'.attempts = 0
    <3>1. CASE Unlock(c)
      BY <3>1 DEF Unlock
    <3>2. CASE ClearFailures(c)
      <4>1. guesses' = 0 /\ user' = [user EXCEPT !.attempts = 0, !.lock = "none"]
        BY <3>2 DEF ClearFailures
      <4>2. QED
        BY <1>4, <4>1 DEF Users
    <3>3. QED
      BY <1>7, <3>1, <3>2
  <2>2. 0 <= MaxAttempts - 1 + lock1
    BY <1>4
  <2>3. QED
    BY <1>1, <1>2, <2>1, <2>2, GuessesFit
<1>8. CASE CheckUser(c)
  <2>1. user' = user /\ guesses' = guesses /\ stage[c] = "check" /\ MaySignIn' = MaySignIn
    BY <1>8 DEF CheckUser, record, history, MaySignIn
  <2>2. lock1 = lock
    BY <1>3, <1>8, <2>1, Onward DEF Work
  <2>3. CASE MaySignIn
    BY <1>4, <1>5, <2>1, <2>2, <2>3
  <2>4. CASE ~MaySignIn
    <3>1. fail1 = fail
      BY <1>3, <1>8, <2>1, <2>4, Onward DEF Work
    <3>2. QED
      BY <1>4, <1>6, <2>1, <2>4, <3>1
  <2>5. QED
    BY <2>3, <2>4
<1>9. CASE CountFailure(c)
  <2>1. /\ guesses' = guesses + 1 /\ user'.attempts = user.attempts + 1
        /\ stage[c] = "fail" /\ MaySignIn' = MaySignIn
    BY <1>4, <1>9 DEF CountFailure, Users, MaySignIn
  <2>2. /\ fail1 = fail - 1
        /\ \/ lock1 = lock + 1
           \/ lock1 = lock /\ user.attempts + 1 < MaxAttempts
    <3>1. CASE user.attempts + 1 >= MaxAttempts
      <4>1. stage'[c] = "lock"
        BY <1>9, <3>1, GoesOn DEF CountFailure
      <4>2. QED
        BY <1>3, <2>1, <4>1
    <3>2. CASE ~(user.attempts + 1 >= MaxAttempts)
      <4>1. stage'[c] = "idle"
        BY <1>9, <3>2, Ends DEF CountFailure
      <4>2. user.attempts + 1 < MaxAttempts
        BY <1>4, <3>2
      <4>3. QED
        BY <1>3, <2>1, <4>1, <4>2
    <3>3. QED
      BY <3>1, <3>2
  <2>3. MaySignIn => guesses + 1 <= MaxAttempts - 1 + lock1
    BY <1>4, <2>2
  <2>4. guesses' + fail1 <= guesses + fail /\ guesses' <= user'.attempts /\ guesses' \in Int
    BY <1>4, <2>1, <2>2
  <2>5. QED
    BY <1>6, <2>1, <2>3, <2>4
<1>10. CASE Lock(c) \/ Deactivate(c)
  <2>1. guesses' = guesses /\ user'.attempts = user.attempts /\ ~MaySignIn'
    <3>1. CASE Lock(c)
      <4>1. guesses' = guesses /\ user' = [user EXCEPT !.status = "LOCKED", !.lock = "running"]
        BY <3>1 DEF Lock, history
      <4>2. user'.attempts = user.attempts /\ user'.status = "LOCKED" /\ user'.lock = "running"
        BY <1>4, <4>1 DEF Users
      <4>3. QED
        BY <4>1, <4>2 DEF MaySignIn
    <3>2. CASE Deactivate(c)
      <4>1. guesses' = guesses /\ user' = [user EXCEPT !.status = "DEACTIVATED"]
        BY <3>2 DEF Deactivate, history
      <4>2. user'.attempts = user.attempts /\ user'.status = "DEACTIVATED"
        BY <1>4, <4>1 DEF Users
      <4>3. QED
        BY <4>1, <4>2 DEF MaySignIn
    <3>3. QED
      BY <1>10, <3>1, <3>2
  <2>2. stage[c] # "fail" /\ stage'[c] # "fail"
    <3>1. CASE Lock(c)
      BY <3>1, Ends DEF Lock
    <3>2. CASE Deactivate(c)
      BY <3>2, GoesOn DEF Deactivate
    <3>3. QED
      BY <1>10, <3>1, <3>2
  <2>3. fail1 = fail
    BY <1>3, <2>2
  <2>4. QED
    BY <1>4, <1>6, <2>1, <2>3
<1>11. CASE Activate(c)
  <2>1. Untouched /\ guesses' = guesses /\ user'.attempts = user.attempts
    BY <1>4, <1>11 DEF Activate, LinkInv, AtStage, history, Users
  <2>2. guesses' = 0 /\ user'.attempts = 0 /\ 0 <= MaxAttempts - 1 + lock1
    BY <1>4, <2>1 DEF Untouched
  <2>3. QED
    BY <1>1, <1>2, <2>2, GuessesFit
<1>12. CASE Breaks(c)
  <2>1. user' = user /\ MaySignIn' = MaySignIn /\ stage'[c] = "idle"
    BY <1>12, Ends DEF Breaks, record, MaySignIn
  <2>2. guesses' = IF stage[c] = "lock" THEN guesses - 1 ELSE guesses
    BY <1>12 DEF Breaks
  <2>3. fail1 <= fail /\ (IF stage[c] = "lock" THEN lock1 = lock - 1 ELSE lock1 = lock)
    BY <1>3, <2>1
  <2>4. QED
    BY <1>4, <1>6, <2>1, <2>2, <2>3
<1>13. CASE \/ ReadUser(c) \/ ListActive(c) \/ CreateSession(c) \/ StoreToken(c) \/ Deliver(c)
            \/ Lookup(c) \/ Punish(c) \/ Authorize(c) \/ Sweep(c) \/ Revoke(c) \/ Conclude(c)
            \/ \E o \in Ops : Submit(c, o)
  <2>1. user' = user /\ guesses' = guesses /\ MaySignIn' = MaySignIn
    BY <1>13 DEF ReadUser, ListActive, CreateSession, StoreToken, Deliver, Lookup, Punish, Authorize,
       Sweep, Revoke, Conclude, Submit, record, history, MaySignIn
  <2>2. stage[c] \notin {"fail", "lock"} /\ stage'[c] \notin {"fail", "lock"}
    <3>1. CASE \E o \in Ops : Submit(c, o)
      <4>1. PICK o \in Ops : Submit(c, o)
        BY <3>1
      <4>2. stage[c] = "idle" /\ stage'[c] = FirstStage(o)
        BY <4>1 DEF Submit, Busy, TypeOK
      <4>3. QED
        BY <4>2 DEF FirstStage
    <3>2. CASE \/ ReadUser(c) \/ ListActive(c) \/ CreateSession(c) \/ StoreToken(c) \/ Deliver(c)
               \/ Lookup(c) \/ Punish(c) \/ Authorize(c) \/ Sweep(c) \/ Revoke(c) \/ Conclude(c)
      <4>1. /\ stage[c] \in {"read", "list", "evict", "token", "answer", "lookup", "punish",
                             "authorize", "sweep", "revoke"}
        BY <3>2 DEF ReadUser, ListActive, CreateSession, StoreToken, Deliver, Lookup, Punish,
           Authorize, Sweep, Revoke, Conclude
      <4>2. stage'[c] \in {"idle", "unlock", "check", "evict", "token", "answer", "punish",
                           "deactivate", "sweep", "revoke"}
        BY <3>2, <4>1, GoesOn, Ends
           DEF ReadUser, ListActive, CreateSession, StoreToken, Deliver, Lookup, Punish, Refuse,
               Authorize, Sweep, Revoke, Conclude
      <4>3. QED
        BY <4>1, <4>2
    <3>3. QED
      BY <1>13, <3>1, <3>2
  <2>3. fail1 = fail /\ lock1 = lock
    BY <1>3, <2>2
  <2>4. QED
    BY <1>4, <1>6, <2>1, <2>3
<1>14. QED
  BY <1>7, <1>8, <1>9, <1>10, <1>11, <1>12, <1>13 DEF Step, Work

LEMMA GuessInductive ==
  TypeOK /\ Shape /\ Crowded /\ LinkInv /\ GuessInv /\ [Next]_vars => (Crowded /\ GuessInv)'
<1> SUFFICES ASSUME TypeOK, Shape, Crowded, LinkInv, GuessInv, [Next]_vars
             PROVE  Crowded' /\ GuessInv'
  OBVIOUS
<1>1. CASE LockRunsOut
  <2>1. Still /\ TypeOK' /\ Shape'
    BY <1>1, QuietSteps, TypeInductive
  <2>2. Crowded'
    BY <2>1 DEF Still, request, Crowded, UnderWay
  <2>3. user'.attempts \in Nat /\ guesses' = 0 /\ MaxAttempts \in Nat \ {0}
    BY <1>1, SessionsFit DEF LockRunsOut, TypeOK, Users
  <2>4. AtStage("lock")' \in SUBSET Clients
    BY DEF AtStage
  <2>5. Cardinality(AtStage("lock")') \in Nat
    BY <2>4, FiniteParts
  <2>6. guesses' <= user'.attempts /\ guesses' <= MaxAttempts - 1 + Cardinality(AtStage("lock")')
    BY <2>3, <2>5
  <2>7. QED
    BY <2>1, <2>2, <2>6, GuessesFit
<1>2. CASE UNCHANGED vars
  BY <1>2 DEF vars, record, request, history, Crowded, UnderWay, GuessInv, AtStage, MaySignIn
<1>3. QED
  BY <1>1, <1>2, GuessStep, CrowdStep, NextCases

LEMMA InitGuesses == Init => Crowded /\ GuessInv
<1> SUFFICES ASSUME Init PROVE Crowded /\ GuessInv
  OBVIOUS
<1>1. UnderWay = {} /\ AtStage("fail") = {} /\ AtStage("lock") = {} /\ crowd = 0
  BY DEF Init, UnderWay, AtStage
<1>2. Cardinality({}) = 0
  BY FS_EmptySet
<1>3. guesses = 0 /\ user.attempts = 0 /\ MaxAttempts \in Nat /\ MaxAttempts # 0
  <2>1. guesses = 0 /\ user.attempts = 0
    BY DEF Init
  <2>2. MaxAttempts \in Nat \ {0}
    BY SessionsFit
  <2>3. QED
    BY <2>1, <2>2
<1>4. Crowded
  BY <1>1, <1>2 DEF Crowded
<1>5. guesses <= user.attempts /\ guesses <= MaxAttempts - 1 + 0 /\ guesses + 0 <= MaxAttempts - 1 + crowd
  BY <1>1, <1>3
<1>6. QED
  BY <1>1, <1>2, <1>4, <1>5 DEF GuessInv

\* GuessesAreLimited (registerFailedAttempt): the lockout stops the guessing, up
\* to the other sign-ins that were under way at once.
THEOREM LockoutHolds == Spec => []GuessesAreLimited
<1>1. TypeOK /\ Shape /\ Crowded /\ GuessInv => GuessesAreLimited
  <2> SUFFICES ASSUME TypeOK, GuessInv PROVE GuessesAreLimited
    OBVIOUS
  <2>1. AtStage("fail") \in SUBSET Clients
    BY DEF AtStage
  <2>2. Cardinality(AtStage("fail")) \in Nat
    BY <2>1, FiniteParts
  <2>3. guesses \in Int /\ crowd \in Nat /\ MaxAttempts \in Nat
    BY SessionsFit DEF TypeOK
  <2>4. QED
    BY <2>2, <2>3 DEF GuessInv, GuessesAreLimited
<1>2. QED
  BY <1>1, SessionsTypeCorrect, InitLink, LinkInductive, InitGuesses, GuessInductive, PTL DEF Spec

-----------------------------------------------------------------------------
(* session.max_concurrent.  A sign-in that makes room leaves fewer sessions *)
(* than the limit, but each of the others may add one before it goes on.    *)

\* With sessions A, the sign-ins E making room, and what each has still to
\* revoke: those that would leave at least n.
Sparing(A, E, revoking, n) == {c \in E : Cardinality(A \ revoking[c]) >= n}

Room(A, E, revoking, most) ==
  /\ \A n \in Nat :
       Sparing(A, E, revoking, n) # {} =>
         n + Cardinality(Sparing(A, E, revoking, n)) <= MaxConcurrent - 1 + most
  /\ Cardinality(A) <= MaxConcurrent - 1 + most

RoomInv == Room(Active, AtStage("evict"), todo, crowd)

LEMMA LeastNumber ==
  ASSUME NEW X \in SUBSET Nat, X # {}
  PROVE  \E n \in X : \A m \in X : n <= m
<1> DEFINE R == {ss \in Nat \X Nat : ss[1] < ss[2]}
<1>1. \E n \in X : \A m \in X : <<m, n>> \notin R
  <2>1. IsWellFoundedOn(R, Nat)
    BY NatLessThanWellFounded DEF OpToRel
  <2> HIDE DEF R
  <2> QED
    BY <2>1, WFMin
<1>2. PICK n \in X : \A m \in X : <<m, n>> \notin R
  BY <1>1
<1>3. ASSUME NEW m \in X PROVE n <= m
  <2>1. m \in Nat /\ n \in Nat /\ ~(m < n)
    BY <1>2
  <2> QED
    BY <2>1
<1> QED
  BY <1>3

\* Without its n oldest elements a set has n fewer, or none.
LEMMA OldestCount ==
  ASSUME NEW S \in SUBSET Nat, IsFiniteSet(S), NEW n \in Int, S \ Oldest(n, S) # {}
  PROVE  Cardinality(S \ Oldest(n, S)) <= Cardinality(S) - n
<1>1. PICK first \in S \ Oldest(n, S) : \A s \in S \ Oldest(n, S) : first <= s
  <2>1. S \ Oldest(n, S) \in SUBSET Nat
    OBVIOUS
  <2>2. QED
    BY <2>1, LeastNumber
<1>2. {r \in S : r < first} \in SUBSET S /\ S \ Oldest(n, S) \in SUBSET S
  OBVIOUS
<1>3. {r \in S : r < first} \cap (S \ Oldest(n, S)) = {}
  <2>1. ASSUME NEW r \in S, r < first, r \notin Oldest(n, S) PROVE FALSE
    <3>1. first <= r /\ first \in Nat /\ r \in Nat
      BY <1>1, <2>1
    <3>2. QED
      BY <2>1, <3>1
  <2>2. QED
    BY <2>1
<1>4. /\ Cardinality({r \in S : r < first}) \in Nat /\ Cardinality(S \ Oldest(n, S)) \in Nat
      /\ Cardinality(S) \in Nat
  BY <1>2, FS_Subset, FS_CardinalityType
<1>5. ~(Cardinality({r \in S : r < first}) < n)
  BY <1>1 DEF Oldest
<1>6. Cardinality({r \in S : r < first}) + Cardinality(S \ Oldest(n, S)) <= Cardinality(S)
  BY <1>2, <1>3, DisjointParts
<1>7. QED
  BY <1>4, <1>5, <1>6

LEMMA ActiveFinite ==
  ASSUME TypeOK
  PROVE  IsFiniteSet(Active) /\ Active \in SUBSET Nat /\ Cardinality(Active) \in Nat
<1>1. Len(sessions) \in Nat /\ Active \in SUBSET (1..Len(sessions))
  BY DEF TypeOK, Active
<1>2. IsFiniteSet(1..Len(sessions))
  BY <1>1, FS_Interval
<1>3. IsFiniteSet(Active)
  BY <1>1, <1>2, FS_Subset
<1>4. QED
  BY <1>1, <1>3, FS_CardinalityType

\* Once the excess is revoked there is room for one more.
LEMMA ExcessLeaves ==
  ASSUME TypeOK
  PROVE  Cardinality(Active \ Excess) <= MaxConcurrent - 1
<1>1. /\ IsFiniteSet(Active) /\ Active \in SUBSET Nat /\ Cardinality(Active) \in Nat
      /\ MaxConcurrent \in Nat \ {0}
  BY ActiveFinite, SessionsFit
<1>2. Cardinality(Active) - MaxConcurrent + 1 \in Int
  BY <1>1
<1>3. CASE Active \ Excess = {}
  BY <1>1, <1>3, FS_EmptySet
<1>4. CASE Active \ Excess # {}
  <2>1. Cardinality(Active \ Excess) <= Cardinality(Active) - (Cardinality(Active) - MaxConcurrent + 1)
    BY <1>1, <1>2, <1>4, OldestCount DEF Excess
  <2>2. QED
    BY <1>1, <2>1
<1>5. QED
  BY <1>3, <1>4

-----------------------------------------------------------------------------
\* Fewer sessions, fewer sign-ins making room: the room stays.
LEMMA RoomShrinks ==
  ASSUME NEW A, IsFiniteSet(A), NEW A1 \in SUBSET A,
         NEW E \in SUBSET Clients, NEW E1 \in SUBSET E, NEW t, NEW t1,
         \A c \in E1 : A1 \ t1[c] \subseteq A \ t[c],
         NEW k \in Nat, NEW k1 \in Nat, k <= k1, Room(A, E, t, k)
  PROVE  Room(A1, E1, t1, k1)
<1>1. MaxConcurrent \in Nat
  BY SessionsFit
<1>2. Cardinality(A1) <= MaxConcurrent - 1 + k1
  <2>1. /\ Cardinality(A1) <= Cardinality(A) /\ Cardinality(A) \in Nat /\ Cardinality(A1) \in Nat
        /\ Cardinality(A) <= MaxConcurrent - 1 + k
    BY FS_Subset, FS_CardinalityType DEF Room
  <2>2. QED
    BY <1>1, <2>1
<1>3. ASSUME NEW n \in Nat, Sparing(A1, E1, t1, n) # {}
      PROVE  n + Cardinality(Sparing(A1, E1, t1, n)) <= MaxConcurrent - 1 + k1
  <2>1. Sparing(A1, E1, t1, n) \in SUBSET Sparing(A, E, t, n)
    <3>1. ASSUME NEW c \in E1, Cardinality(A1 \ t1[c]) >= n PROVE Cardinality(A \ t[c]) >= n
      <4>1. A1 \ t1[c] \in SUBSET (A \ t[c]) /\ A \ t[c] \in SUBSET A
        OBVIOUS
      <4>2. /\ Cardinality(A1 \ t1[c]) <= Cardinality(A \ t[c])
            /\ Cardinality(A \ t[c]) \in Nat /\ Cardinality(A1 \ t1[c]) \in Nat
        BY <4>1, FS_Subset, FS_CardinalityType
      <4>3. QED
        BY <3>1, <4>2
    <3>2. QED
      BY <3>1 DEF Sparing
  <2>2. Sparing(A, E, t, n) \in SUBSET Clients
    BY DEF Sparing
  <2>3. PICK x \in Nat, y \in Nat : /\ x = Cardinality(Sparing(A, E, t, n))
                                    /\ y = Cardinality(Sparing(A1, E1, t1, n)) /\ y <= x
    BY <2>1, <2>2, FiniteParts, FS_Subset
  <2>4. n + x <= MaxConcurrent - 1 + k
    BY <1>3, <2>1, <2>3 DEF Room
  <2>5. n + y <= MaxConcurrent - 1 + k1
    BY <1>1, <2>3, <2>4
  <2>6. QED
    BY <2>3, <2>5
<1>4. QED
  BY <1>2, <1>3 DEF Room

\* A sign-in that has read the sessions joins those that make room.
LEMMA RoomListed ==
  ASSUME NEW A, IsFiniteSet(A), NEW c \in Clients, NEW E \in SUBSET Clients,
         NEW t, NEW t1, \A d \in E : t1[d] = t[d], c \notin E,
         Cardinality(A \ t1[c]) <= MaxConcurrent - 1,
         NEW k \in Nat, NEW k1 \in Nat, k <= k1, Cardinality(E \cup {c}) <= k1, Room(A, E, t, k)
  PROVE  Room(A, E \cup {c}, t1, k1)
<1>1. MaxConcurrent \in Nat /\ Cardinality(A) \in Nat /\ E \cup {c} \in SUBSET Clients
  BY SessionsFit, FS_CardinalityType
<1>2. Cardinality(A) <= MaxConcurrent - 1 + k1
  <2>1. Cardinality(A) <= MaxConcurrent - 1 + k
    BY DEF Room
  <2>2. QED
    BY <1>1, <2>1
<1>3. ASSUME NEW n \in Nat, Sparing(A, E \cup {c}, t1, n) # {}
      PROVE  n + Cardinality(Sparing(A, E \cup {c}, t1, n)) <= MaxConcurrent - 1 + k1
  <2>1. CASE n <= MaxConcurrent - 1
    <3>1. Sparing(A, E \cup {c}, t1, n) \in SUBSET (E \cup {c})
      BY DEF Sparing
    <3>2. PICK x \in Nat, y \in Nat : /\ x = Cardinality(E \cup {c})
                                      /\ y = Cardinality(Sparing(A, E \cup {c}, t1, n)) /\ y <= x
      BY <1>1, <3>1, FiniteParts, FS_Subset
    <3>3. n + y <= MaxConcurrent - 1 + k1
      BY <1>1, <2>1, <3>2
    <3>4. QED
      BY <3>2, <3>3
  <2>2. CASE ~(n <= MaxConcurrent - 1)
    <3>1. A \ t1[c] \in SUBSET A
      OBVIOUS
    <3>2. Cardinality(A \ t1[c]) \in Nat
      BY <3>1, FS_Subset, FS_CardinalityType
    <3>3. ~(Cardinality(A \ t1[c]) >= n)
      BY <1>1, <2>2, <3>2
    <3>4. Sparing(A, E \cup {c}, t1, n) = Sparing(A, E, t, n)
      BY <3>3 DEF Sparing
    <3>5. Sparing(A, E, t, n) \in SUBSET Clients
      BY DEF Sparing
    <3>6. PICK x \in Nat : x = Cardinality(Sparing(A, E, t, n))
      BY <3>5, FiniteParts
    <3>7. n + x <= MaxConcurrent - 1 + k
      BY <1>3, <3>4, <3>6 DEF Room
    <3>8. n + x <= MaxConcurrent - 1 + k1
      BY <1>1, <3>7
    <3>9. QED
      BY <3>4, <3>6, <3>8
  <2>3. QED
    BY <2>1, <2>2
<1>4. QED
  BY <1>2, <1>3 DEF Room

\* A sign-in that has made room adds a session, which none of the others will
\* revoke.
LEMMA RoomUsed ==
  ASSUME NEW A, IsFiniteSet(A), NEW s, s \notin A, NEW E \in SUBSET Clients, NEW c \in E,
         NEW t, t[c] = {}, NEW t1, \A d \in E \ {c} : t1[d] = t[d] /\ s \notin t[d],
         NEW k \in Nat, Cardinality(E) <= k, Room(A, E, t, k)
  PROVE  Room(A \cup {s}, E \ {c}, t1, k)
<1>1. PICK a \in Nat : a = Cardinality(A)
  BY FS_CardinalityType
<1>2. MaxConcurrent \in Nat
  BY SessionsFit
<1>3. \A n : Sparing(A, E, t, n) \in SUBSET Clients
  BY DEF Sparing
<1>4. \A n \in Nat : n <= a => c \in Sparing(A, E, t, n)
  BY <1>1 DEF Sparing
<1>5. Cardinality(A \cup {s}) <= MaxConcurrent - 1 + k
  <2>1. PICK x \in Nat : x = Cardinality(Sparing(A, E, t, a))
    BY <1>3, FiniteParts
  <2>2. x # 0
    BY <1>1, <1>3, <1>4, <2>1, FiniteParts, FS_EmptySet
  <2>3. a + x <= MaxConcurrent - 1 + k
    BY <1>1, <1>4, <2>1 DEF Room
  <2>4. Cardinality(A \cup {s}) = a + 1
    BY <1>1, FS_AddElement
  <2>5. a + 1 <= MaxConcurrent - 1 + k
    BY <1>2, <2>1, <2>2, <2>3
  <2>6. QED
    BY <2>4, <2>5
<1>6. ASSUME NEW d \in E \ {c}
      PROVE  /\ Cardinality((A \cup {s}) \ t1[d]) = Cardinality(A \ t[d]) + 1
             /\ Cardinality(A \ t[d]) \in Nat /\ Cardinality(A \ t[d]) <= a
  <2>1. (A \cup {s}) \ t1[d] = (A \ t[d]) \cup {s} /\ s \notin A \ t[d] /\ A \ t[d] \in SUBSET A
    OBVIOUS
  <2>2. IsFiniteSet(A \ t[d])
    BY <2>1, FS_Subset
  <2>3. QED
    BY <1>1, <2>1, <2>2, FS_AddElement, FS_Subset, FS_CardinalityType
<1>7. ASSUME NEW n \in Nat, Sparing(A \cup {s}, E \ {c}, t1, n) # {}
      PROVE  n + Cardinality(Sparing(A \cup {s}, E \ {c}, t1, n)) <= MaxConcurrent - 1 + k
  <2>1. CASE n = 0
    <3>1. Sparing(A \cup {s}, E \ {c}, t1, 0) \in SUBSET E /\ E \ {c} \in SUBSET E
      BY DEF Sparing
    <3>2. Sparing(A \cup {s}, E \ {c}, t1, 0) \in SUBSET (E \ {c})
      BY DEF Sparing
    <3>3. /\ Cardinality(E \ {c}) = Cardinality(E) - 1 /\ IsFiniteSet(E \ {c})
          /\ Cardinality(E) \in Nat
      BY FiniteParts, FS_RemoveElement
    <3>4. PICK x \in Nat, y \in Nat :
            x = Cardinality(E \ {c}) /\ y = Cardinality(Sparing(A \cup {s}, E \ {c}, t1, 0)) /\ y <= x
      BY <3>2, <3>3, FS_Subset, FS_CardinalityType
    <3>5. n + y <= MaxConcurrent - 1 + k
      BY <1>2, <2>1, <3>3, <3>4
    <3>6. QED
      BY <2>1, <3>4, <3>5
  <2>2. CASE n # 0
    <3>1. n - 1 \in Nat
      BY <2>2
    <3>2. Sparing(A \cup {s}, E \ {c}, t1, n) = Sparing(A, E, t, n - 1) \ {c}
      <4>1. ASSUME NEW d \in E \ {c}
            PROVE  Cardinality((A \cup {s}) \ t1[d]) >= n <=> Cardinality(A \ t[d]) >= n - 1
        BY <1>6
      <4>2. QED
        BY <4>1 DEF Sparing
    <3>3. PICK d \in E \ {c} : Cardinality(A \ t[d]) >= n - 1
      BY <1>7, <3>2 DEF Sparing
    <3>4. n - 1 <= a
      <4>1. PICK m \in Nat : m = Cardinality(A \ t[d]) /\ m <= a
        BY <1>6
      <4>2. m >= n - 1
        BY <3>3, <4>1
      <4>3. QED
        BY <1>1, <4>1, <4>2
    <3>5. c \in Sparing(A, E, t, n - 1)
      BY <1>4, <3>1, <3>4
    <3>6. PICK x \in Nat : x = Cardinality(Sparing(A, E, t, n - 1))
      BY <1>3, FiniteParts
    <3>7. Cardinality(Sparing(A \cup {s}, E \ {c}, t1, n)) = x - 1
      <4>1. IsFiniteSet(Sparing(A, E, t, n - 1))
        BY <1>3, FiniteParts
      <4>2. Cardinality(Sparing(A, E, t, n - 1) \ {c}) = Cardinality(Sparing(A, E, t, n - 1)) - 1
        BY <3>5, <4>1, FS_RemoveElement
      <4>3. QED
        BY <3>2, <3>6, <4>2
    <3>8. n - 1 + x <= MaxConcurrent - 1 + k
      BY <3>1, <3>5, <3>6 DEF Room
    <3>9. n + (x - 1) <= MaxConcurrent - 1 + k
      BY <1>2, <3>6, <3>8
    <3>10. QED
      BY <3>7, <3>9
  <2>3. QED
    BY <2>1, <2>2
<1>8. QED
  BY <1>5, <1>7 DEF Room

\* Only CreateSession adds a session that counts.
LEMMA ActiveSteps ==
  ASSUME TypeOK, Shape, NEW c \in Clients, Step(c)
  PROVE  \/ Active' \in SUBSET Active
         \/ CreateSession(c) /\ Active' = Active \cup {Len(sessions) + 1}
<1>1. sessions \in Seq(Session) /\ Len(sessions) \in Nat
  BY DEF TypeOK
<1>2. CASE sessions' = sessions
  BY <1>2 DEF Active
<1>3. CASE CreateSession(c) /\ Adds
  <2>1. /\ Len(sessions') = Len(sessions) + 1
        /\ sessions'[Len(sessions) + 1].status = "ACTIVE"
        /\ \A r \in 1..Len(sessions) : sessions'[r] = sessions[r]
    BY <1>1, <1>3, SessionAdded
  <2>2. 1..Len(sessions') = (1..Len(sessions)) \cup {Len(sessions) + 1}
    BY <1>1, <2>1
  <2>3. Active' = Active \cup {Len(sessions) + 1}
    BY <2>1, <2>2 DEF Active
  <2>4. QED
    BY <1>3, <2>3
<1>4. ASSUME NEW s \in 1..Len(sessions), StoresToken(s) PROVE Active' \in SUBSET Active
  <2>1. /\ Len(sessions') = Len(sessions)
        /\ \A r \in 1..Len(sessions) : sessions'[r].status = sessions[r].status
    BY <1>1, <1>4, TokenStored
  <2>2. QED
    BY <2>1 DEF Active
<1>5. ASSUME NEW s \in 1..Len(sessions), Revokes(s) PROVE Active' \in SUBSET Active
  <2>1. /\ Len(sessions') = Len(sessions) /\ sessions'[s].status = "REVOKED"
        /\ \A r \in 1..Len(sessions) : r # s => sessions'[r] = sessions[r]
    BY <1>1, <1>5, SessionRevoked
  <2>2. QED
    BY <2>1 DEF Active
<1>6. QED
  BY <1>2, <1>3, <1>4, <1>5, TableSteps

LEMMA RoomStep ==
  ASSUME TypeOK, Shape, Crowded, RoomInv, NEW c \in Clients, Step(c)
  PROVE  RoomInv'
<1>1. /\ TypeOK' /\ Shape' /\ Crowded' /\ Others(c)
      /\ crowd \in Nat /\ crowd' \in Nat /\ crowd <= crowd'
  BY TypeStep, ShapeStep, CrowdStep, OthersStay DEF TypeOK
<1>2. /\ AtStage("evict") \in SUBSET Clients /\ IsFiniteSet(Active)
      /\ Room(Active, AtStage("evict"), todo, crowd)
      /\ Cardinality(AtStage("evict")') <= crowd'
  BY <1>1, ActiveFinite, WithinCrowd DEF AtStage, RoomInv
<1>3. ASSUME Active' \in SUBSET Active,
             \A d \in AtStage("evict")' :
               d \in AtStage("evict") /\ Active' \ todo'[d] \subseteq Active \ todo[d]
      PROVE  RoomInv'
  <2>1. AtStage("evict")' \in SUBSET AtStage("evict")
    BY <1>3
  <2>2. Room(Active', AtStage("evict")', todo', crowd')
    BY <1>1, <1>2, <1>3, <2>1, RoomShrinks
  <2>3. QED
    BY <2>2 DEF RoomInv
<1>4. CASE ListActive(c)
  <2>1. /\ Active' = Active /\ crowd' = crowd
        /\ stage[c] = "list" /\ stage'[c] = "evict" /\ todo'[c] = Excess
    BY <1>4, GoesOn DEF ListActive, record, history, Active, TypeOK
  <2>2. AtStage("evict")' = AtStage("evict") \cup {c} /\ c \notin AtStage("evict")
    BY <1>1, <2>1 DEF AtStage, Others
  <2>3. \A d \in AtStage("evict") : todo'[d] = todo[d]
    BY <1>1, <2>2 DEF Others, AtStage
  <2>4. Cardinality(Active \ todo'[c]) <= MaxConcurrent - 1
    BY <2>1, ExcessLeaves
  <2>5. Cardinality(AtStage("evict") \cup {c}) <= crowd'
    BY <1>2, <2>2
  <2>6. Room(Active, AtStage("evict") \cup {c}, todo', crowd')
    BY <1>1, <1>2, <2>2, <2>3, <2>4, <2>5, RoomListed
  <2>7. QED
    BY <2>1, <2>2, <2>6 DEF RoomInv
<1>5. CASE CreateSession(c) /\ Active' = Active \cup {Len(sessions) + 1}
  <2>1. /\ stage[c] = "evict" /\ stage'[c] = "token" /\ todo[c] = {} /\ todo' = todo
        /\ crowd' = crowd
    BY <1>5, GoesOn DEF CreateSession, history
  <2>2. AtStage("evict")' = AtStage("evict") \ {c} /\ c \in AtStage("evict")
    BY <1>1, <2>1 DEF AtStage, Others
  <2>3. Len(sessions) \in Nat /\ Len(sessions) + 1 \notin 1..Len(sessions)
    BY DEF TypeOK
  <2>4. Len(sessions) + 1 \notin Active
    BY <2>3 DEF Active
  <2>5. \A d \in AtStage("evict") \ {c} : todo'[d] = todo[d] /\ Len(sessions) + 1 \notin todo[d]
    BY <2>1, <2>3 DEF AtStage, Shape, StageFits
  <2>6. Cardinality(AtStage("evict")) <= crowd
    <3>1. AtStage("evict") \in SUBSET UnderWay /\ UnderWay \in SUBSET Clients
      BY DEF AtStage, UnderWay, Shape, StageFits, SigningIn
    <3>2. PICK x \in Nat, y \in Nat :
            x = Cardinality(AtStage("evict")) /\ y = Cardinality(UnderWay) /\ x <= y
      BY <1>2, <3>1, FiniteParts, FS_Subset
    <3>3. y <= crowd
      BY <3>2 DEF Crowded
    <3>4. x <= crowd
      BY <1>1, <3>2, <3>3
    <3>5. QED
      BY <3>2, <3>4
  <2>7. Room(Active \cup {Len(sessions) + 1}, AtStage("evict") \ {c}, todo', crowd)
    BY <1>1, <1>2, <2>1, <2>2, <2>4, <2>5, <2>6, RoomUsed
  <2>8. QED
    BY <1>5, <2>1, <2>2, <2>7 DEF RoomInv
<1>6. CASE Revoke(c) /\ Active' \in SUBSET Active
  <2>1. PICK s \in todo[c] : /\ sessions' = [sessions EXCEPT ![s].status = "REVOKED"]
                             /\ todo' = [todo EXCEPT ![c] = @ \ {s}] /\ stage' = stage
    BY <1>6 DEF Revoke
  <2>2. s \in 1..Len(sessions) /\ sessions \in Seq(Session) /\ Revokes(s)
    BY <2>1 DEF Revokes, Shape, StageFits, TypeOK
  <2>3. s \notin Active'
    BY <2>2, SessionRevoked DEF Active
  <2>4. todo'[c] = todo[c] \ {s} /\ AtStage("evict")' = AtStage("evict")
    BY <2>1 DEF TypeOK, AtStage
  <2>5. ASSUME NEW d \in AtStage("evict")'
        PROVE  d \in AtStage("evict") /\ Active' \ todo'[d] \subseteq Active \ todo[d]
    <3>1. CASE d = c
      BY <1>6, <2>3, <2>4, <3>1
    <3>2. CASE d # c
      BY <1>1, <1>6, <2>4, <3>2 DEF Others, AtStage
    <3>3. QED
      BY <3>1, <3>2
  <2>6. QED
    BY <1>3, <1>6, <2>5
<1>7. CASE ~ListActive(c) /\ ~Revoke(c) /\ Active' \in SUBSET Active
  <2>1. stage'[c] # "evict"
    <3>1. ASSUME NEW o \in Ops, Submit(c, o) PROVE stage'[c] # "evict"
      <4>1. stage'[c] = FirstStage(o)
        BY <3>1 DEF Submit, TypeOK
      <4>2. QED
        BY <4>1 DEF FirstStage
    <3>2. CASE Breaks(c)
      BY <3>2, Ends DEF Breaks
    <3>3. ASSUME NEW s, s # "evict", Goto(c, s) PROVE stage'[c] # "evict"
      BY <3>3, GoesOn
    <3>4. ASSUME Finish(c) PROVE stage'[c] # "evict"
      BY <3>4, Ends
    <3>5. CASE ReadUser(c) \/ Unlock(c) \/ CheckUser(c)
      BY <3>3, <3>4, <3>5 DEF ReadUser, Unlock, CheckUser
    <3>6. CASE CountFailure(c) \/ Lock(c) \/ ClearFailures(c)
      BY <3>3, <3>4, <3>6 DEF CountFailure, Lock, ClearFailures
    <3>7. CASE CreateSession(c) \/ StoreToken(c) \/ Deliver(c)
      BY <3>3, <3>4, <3>7 DEF CreateSession, StoreToken, Deliver
    <3>8. CASE Lookup(c) \/ Punish(c)
      BY <3>3, <3>4, <3>8 DEF Lookup, Punish, Refuse
    <3>9. CASE Authorize(c) \/ Deactivate(c)
      BY <3>3, <3>4, <3>9 DEF Authorize, Deactivate
    <3>10. CASE Sweep(c) \/ Conclude(c) \/ Activate(c)
      BY <3>3, <3>4, <3>10 DEF Sweep, Conclude, Activate
    <3>11. QED
      BY <1>7, <3>1, <3>2, <3>5, <3>6, <3>7, <3>8, <3>9, <3>10 DEF Step, Work
  <2>2. ASSUME NEW d \in AtStage("evict")'
        PROVE  d \in AtStage("evict") /\ Active' \ todo'[d] \subseteq Active \ todo[d]
    BY <1>1, <1>7, <2>1 DEF Others, AtStage
  <2>3. QED
    BY <1>3, <1>7, <2>2
<1>8. QED
  BY <1>4, <1>5, <1>6, <1>7, ActiveSteps

LEMMA RoomInductive ==
  TypeOK /\ Shape /\ Crowded /\ RoomInv /\ [Next]_vars => (Crowded /\ RoomInv)'
<1> SUFFICES ASSUME TypeOK, Shape, Crowded, RoomInv, [Next]_vars PROVE Crowded' /\ RoomInv'
  OBVIOUS
<1>1. CASE LockRunsOut \/ UNCHANGED vars
  <2>1. Still /\ crowd' = crowd
    BY <1>1, QuietSteps DEF LockRunsOut, vars, history
  <2>2. /\ UnderWay' = UnderWay /\ Active' = Active /\ AtStage("evict")' = AtStage("evict")
        /\ todo' = todo
    BY <2>1 DEF Still, request, UnderWay, Active, AtStage
  <2>3. QED
    BY <2>1, <2>2 DEF Crowded, RoomInv
<1>2. QED
  BY <1>1, RoomStep, CrowdStep, NextCases

LEMMA InitRoom == Init => Crowded /\ RoomInv
<1> SUFFICES ASSUME Init PROVE Crowded /\ RoomInv
  OBVIOUS
<1>1. UnderWay = {} /\ AtStage("evict") = {} /\ crowd = 0 /\ Active = {}
  BY DEF Init, UnderWay, AtStage, Active
<1>2. Cardinality({}) = 0
  BY FS_EmptySet
<1>3. MaxConcurrent \in Nat \ {0}
  BY SessionsFit
<1>4. Crowded
  BY <1>1, <1>2 DEF Crowded
<1>5. \A n : Sparing({}, {}, todo, n) = {}
  BY DEF Sparing
<1>6. 0 <= MaxConcurrent - 1 + 0
  BY <1>3
<1>7. QED
  BY <1>1, <1>2, <1>4, <1>5, <1>6 DEF RoomInv, Room

\* SessionsAreLimited (enforceConcurrentLimit): the limit holds up to the other
\* sign-ins that were under way at once.
THEOREM SessionLimitHolds == Spec => []SessionsAreLimited
<1>1. TypeOK /\ RoomInv => SessionsAreLimited
  <2> SUFFICES ASSUME TypeOK, RoomInv PROVE SessionsAreLimited
    OBVIOUS
  <2>1. Cardinality(Active) \in Nat /\ crowd \in Nat /\ MaxConcurrent \in Nat
    BY ActiveFinite, SessionsFit DEF TypeOK
  <2>2. Cardinality(Active) <= MaxConcurrent - 1 + crowd
    BY DEF RoomInv, Room
  <2>3. QED
    BY <2>1, <2>2 DEF SessionsAreLimited
<1>2. QED
  BY <1>1, SessionsTypeCorrect, InitRoom, RoomInductive, PTL DEF Spec
=============================================================================
