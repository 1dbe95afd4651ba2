------------------------ MODULE AccessControlProofs ------------------------
(***************************************************************************)
(* For any clients, roles and depth: how often overlapping reviews decide, *)
(* when a sensitive role takes two, how far overlapping changes fork the   *)
(* audit chain, that the hierarchy gets no short cycle, and that a lost    *)
(* permission is forgotten.                                                *)
(***************************************************************************)
EXTENDS AccessControl, SequenceTheorems, FiniteSetTheorems, NaturalsInduction,
        WellFoundedInduction, TLAPS

-----------------------------------------------------------------------------
(* Requests.                                                               *)

AskType ==
  [kind : Kinds \cup {"none"}, user : Users \cup {None}, role : Roles \cup {None},
   parent : Roles \cup {None}, by : Admins \cup {None}, n : Nat]
JobType ==
  [at : Stages, ask : AskType, todo : SUBSET (Roles \X Nat), roles : SUBSET Roles,
   users : SUBSET Users, flag : BOOLEAN, found : Nat, now : Nat, clean : BOOLEAN]

Changes == {"reparent", "classify", "grant", "withdraw"}

\* Which request is at which await.
KindsAt(s) ==
  CASE s = "idle"                           -> {"none"}
    [] s = "role"                           -> {"assign", "delete"} \cup Changes
    [] s \in {"held", "request", "give"}    -> {"assign"}
    [] s = "pending"                        -> Reviews
    [] s \in {"again", "commit"}            -> {"approve"}
    [] s = "turn"                           -> {"reject"}
    [] s \in {"mine", "drop"}               -> {"revoke"}
    [] s \in {"name", "create"}             -> {"create"}
    [] s = "parent"                         -> {"create", "reparent"}
    [] s = "climb"                          -> {"reparent"}
    [] s \in {"write", "collect", "holders"} -> Changes
    [] s = "forget"                         -> {"assign", "approve", "revoke"} \cup Changes
    [] s \in {"counts", "erase"}            -> {"delete"}
    [] s \in {"link", "log"}                -> Writers
    [] OTHER                                -> {"check"}

\* What a request of each kind names.
AskFits(a, m) ==
  /\ a.kind \in {"assign", "revoke", "check"} => a.user \in Users
  /\ a.kind \in {"assign", "revoke", "create", "delete"} \cup Changes => a.role \in Roles
  /\ a.kind \in {"assign"} \cup Reviews => a.by \in Admins
  /\ a.kind \in Reviews => a.n \in 1..m

StageFits(c) ==
  /\ Of(c).kind \in KindsAt(job[c].at)
  /\ AskFits(Of(c), Len(approvals))
  /\ job[c].at \in {"parent", "climb"} => Of(c).parent # None
  /\ job[c].at = "parent" /\ Of(c).kind = "reparent" => Of(c).parent # Of(c).role
  /\ job[c].at \in {"climb", "write"} /\ Of(c).kind = "reparent" /\ Of(c).parent # None
       => Of(c).parent \in live \cup gone
  /\ job[c].at = "log" => 0 < job[c].now /\ job[c].now <= clock

\* A parent is a role that exists, and no id comes back.
HierarchyFits ==
  /\ live \cap gone = {}
  /\ \A r \in Roles : ParentOf(r) \in live \cup {None}

\* Entries were made at an instant that has passed.
LogFits == \A e \in log : 0 < e.createdAt /\ e.createdAt <= clock

Shape ==
  /\ job \in [Clients -> JobType]
  /\ HierarchyFits
  /\ LogFits
  /\ \A c \in Clients : StageFits(c)

\* A request changes nothing of the others', but may spoil their reads.
Others(c) == \A d \in Clients \ {c} :
  /\ job'[d].at = job[d].at /\ Of(d)' = Of(d) /\ job'[d].todo = job[d].todo
  /\ job'[d].roles = job[d].roles /\ job'[d].users = job[d].users
  /\ job'[d].flag = job[d].flag /\ job'[d].found = job[d].found
  /\ job'[d].now = job[d].now /\ (job'[d].clean => job[d].clean)

\* Nor does it forget what it is asked.
Goes(c, s) ==
  /\ job' \in [Clients -> JobType] /\ Others(c)
  /\ job'[c].at = s /\ Of(c)' = Of(c) /\ job'[c].clean = job[c].clean

LEMMA RowUpdated ==
  ASSUME job \in [Clients -> JobType], NEW c \in Clients, NEW r \in JobType,
         job' = [job EXCEPT ![c] = r]
  PROVE  job' \in [Clients -> JobType] /\ Others(c) /\ job'[c] = r
<1>1. \A d \in Clients \ {c} : job'[d] = job[d]
  OBVIOUS
<1>2. QED
  BY <1>1 DEF Others, Of

LEMMA IdleRow == Idle \in JobType /\ Idle.at = "idle" /\ Idle.ask = Ask /\ Ask.kind = "none"
<1>1. Ask \in AskType /\ Ask.kind = "none"
  BY DEF Ask, AskFor, AskType
<1>2. QED
  BY <1>1 DEF Idle, JobType, Stages

LEMMA Ends ==
  ASSUME job \in [Clients -> JobType], NEW c \in Clients, Finish(c)
  PROVE  /\ job' \in [Clients -> JobType] /\ Others(c) /\ job'[c] = Idle
         /\ job'[c].at = "idle" /\ Of(c)' = Ask /\ Ask.kind = "none"
BY IdleRow, RowUpdated DEF Finish, Of

LEMMA Advances ==
  ASSUME job \in [Clients -> JobType], NEW c \in Clients, NEW s \in Stages, Step(c, s)
  PROVE  /\ Goes(c, s) /\ job'[c].todo = job[c].todo /\ job'[c].roles = job[c].roles
         /\ job'[c].users = job[c].users /\ job'[c].flag = job[c].flag
         /\ job'[c].found = job[c].found /\ job'[c].now = job[c].now
<1>1. PICK j \in JobType : j = job[c]
  OBVIOUS
<1>2. PICK r : r = [j EXCEPT !.at = s]
  OBVIOUS
<1>3. /\ r \in JobType /\ r.at = s /\ r.ask = j.ask /\ r.clean = j.clean /\ r.todo = j.todo
      /\ r.roles = j.roles /\ r.users = j.users /\ r.flag = j.flag /\ r.found = j.found
      /\ r.now = j.now
  BY <1>2 DEF JobType
<1>4. job' = [job EXCEPT ![c] = r]
  BY <1>1, <1>2, Zenon DEF Step
<1>5. QED
  BY <1>1, <1>3, <1>4, RowUpdated DEF Goes, Of

\* The other rows that are replaced.
LEMMA RoleRead ==
  ASSUME job \in [Clients -> JobType], NEW c \in Clients, NEW b \in BOOLEAN, NEW s \in Stages,
         job' = [job EXCEPT ![c].flag = b, ![c].at = s]
  PROVE  Goes(c, s) /\ job'[c].flag = b
<1>1. PICK j \in JobType : j = job[c]
  OBVIOUS
<1>2. PICK r : r = [j EXCEPT !.flag = b, !.at = s]
  OBVIOUS
<1>3. r \in JobType /\ r.at = s /\ r.ask = j.ask /\ r.clean = j.clean /\ r.flag = b
  BY <1>2 DEF JobType
<1>4. job' = [job EXCEPT ![c] = r]
  BY <1>1, <1>2 
<1>5. QED
  BY <1>1, <1>3, <1>4, RowUpdated DEF Goes, Of
LEMMA TodoRead ==
  ASSUME job \in [Clients -> JobType], NEW c \in Clients,
         NEW s \in Stages, NEW t \in SUBSET (Roles \X Nat),
         job' = [job EXCEPT ![c].at = s, ![c].todo = t]
  PROVE  /\ Goes(c, s) /\ job'[c].todo = t /\ job'[c].roles = job[c].roles
         /\ job'[c].users = job[c].users /\ job'[c].flag = job[c].flag
<1>1. PICK j \in JobType : j = job[c]
  OBVIOUS
<1>2. PICK r : r = [j EXCEPT !.at = s, !.todo = t]
  OBVIOUS
<1>3. /\ r \in JobType /\ r.ask = j.ask /\ r.clean = j.clean /\ r.at = s /\ r.todo = t
      /\ r.roles = j.roles /\ r.users = j.users /\ r.flag = j.flag
  BY <1>2 DEF JobType
<1>4. job' = [job EXCEPT ![c] = r]
  BY <1>1, <1>2
<1>5. QED
  BY <1>1, <1>3, <1>4, RowUpdated DEF Goes, Of

LEMMA TodoFound ==
  ASSUME job \in [Clients -> JobType], NEW c \in Clients,
         NEW t \in SUBSET (Roles \X Nat), NEW s \in Stages,
         job' = [job EXCEPT ![c].todo = t, ![c].at = s]
  PROVE  /\ Goes(c, s) /\ job'[c].todo = t /\ job'[c].roles = job[c].roles
         /\ job'[c].users = job[c].users /\ job'[c].flag = job[c].flag
<1>1. PICK j \in JobType : j = job[c]
  OBVIOUS
<1>2. PICK r : r = [j EXCEPT !.todo = t, !.at = s]
  OBVIOUS
<1>3. /\ r \in JobType /\ r.ask = j.ask /\ r.clean = j.clean /\ r.todo = t /\ r.at = s
      /\ r.roles = j.roles /\ r.users = j.users /\ r.flag = j.flag
  BY <1>2 DEF JobType
<1>4. job' = [job EXCEPT ![c] = r]
  BY <1>1, <1>2
<1>5. QED
  BY <1>1, <1>3, <1>4, RowUpdated DEF Goes, Of

LEMMA TodoTurned ==
  ASSUME job \in [Clients -> JobType], NEW c \in Clients,
         NEW t \in SUBSET (Roles \X Nat),
         job' = [job EXCEPT ![c].todo = t]
  PROVE  /\ Goes(c, job[c].at) /\ job'[c].todo = t /\ job'[c].roles = job[c].roles
         /\ job'[c].users = job[c].users /\ job'[c].flag = job[c].flag
<1>1. PICK j \in JobType : j = job[c]
  OBVIOUS
<1>2. PICK r : r = [j EXCEPT !.todo = t]
  OBVIOUS
<1>3. /\ r \in JobType /\ r.ask = j.ask /\ r.clean = j.clean /\ r.todo = t
      /\ r.roles = j.roles /\ r.users = j.users /\ r.flag = j.flag /\ r.at = j.at
  BY <1>2 DEF JobType
<1>4. job' = [job EXCEPT ![c] = r]
  BY <1>1, <1>2
<1>5. QED
  BY <1>1, <1>3, <1>4, RowUpdated DEF Goes, Of

LEMMA UsersRead ==
  ASSUME job \in [Clients -> JobType], NEW c \in Clients,
         NEW s \in Stages, NEW us \in SUBSET Users,
         job' = [job EXCEPT ![c].at = s, ![c].users = us]
  PROVE  /\ Goes(c, s) /\ job'[c].users = us /\ job'[c].todo = job[c].todo
         /\ job'[c].roles = job[c].roles /\ job'[c].flag = job[c].flag
<1>1. PICK j \in JobType : j = job[c]
  OBVIOUS
<1>2. PICK r : r = [j EXCEPT !.at = s, !.users = us]
  OBVIOUS
<1>3. /\ r \in JobType /\ r.ask = j.ask /\ r.clean = j.clean /\ r.at = s /\ r.users = us
      /\ r.todo = j.todo /\ r.roles = j.roles /\ r.flag = j.flag
  BY <1>2 DEF JobType
<1>4. job' = [job EXCEPT ![c] = r]
  BY <1>1, <1>2
<1>5. QED
  BY <1>1, <1>3, <1>4, RowUpdated DEF Goes, Of

LEMMA UsersTurned ==
  ASSUME job \in [Clients -> JobType], NEW c \in Clients,
         NEW us \in SUBSET Users,
         job' = [job EXCEPT ![c].users = us]
  PROVE  /\ Goes(c, job[c].at) /\ job'[c].users = us /\ job'[c].todo = job[c].todo
         /\ job'[c].roles = job[c].roles /\ job'[c].flag = job[c].flag
<1>1. PICK j \in JobType : j = job[c]
  OBVIOUS
<1>2. PICK r : r = [j EXCEPT !.users = us]
  OBVIOUS
<1>3. /\ r \in JobType /\ r.ask = j.ask /\ r.clean = j.clean /\ r.users = us
      /\ r.todo = j.todo /\ r.roles = j.roles /\ r.flag = j.flag /\ r.at = j.at
  BY <1>2 DEF JobType
<1>4. job' = [job EXCEPT ![c] = r]
  BY <1>1, <1>2
<1>5. QED
  BY <1>1, <1>3, <1>4, RowUpdated DEF Goes, Of

LEMMA CodesRead ==
  ASSUME job \in [Clients -> JobType], NEW c \in Clients,
         NEW s \in Stages, NEW b \in BOOLEAN,
         job' = [job EXCEPT ![c].at = s, ![c].flag = b]
  PROVE  /\ Goes(c, s) /\ job'[c].flag = b /\ job'[c].todo = job[c].todo
         /\ job'[c].roles = job[c].roles /\ job'[c].users = job[c].users
<1>1. PICK j \in JobType : j = job[c]
  OBVIOUS
<1>2. PICK r : r = [j EXCEPT !.at = s, !.flag = b]
  OBVIOUS
<1>3. /\ r \in JobType /\ r.ask = j.ask /\ r.clean = j.clean /\ r.at = s /\ r.flag = b
      /\ r.todo = j.todo /\ r.roles = j.roles /\ r.users = j.users
  BY <1>2 DEF JobType
<1>4. job' = [job EXCEPT ![c] = r]
  BY <1>1, <1>2
<1>5. QED
  BY <1>1, <1>3, <1>4, RowUpdated DEF Goes, Of

-----------------------------------------------------------------------------
(* Which stage follows which.                                              *)

LEMMA KindsOf ==
  /\ KindsAt("idle") = {"none"}
  /\ KindsAt("role") = {"assign", "delete", "reparent", "classify", "grant", "withdraw"}
  /\ \A s \in {"held", "request", "give"} : KindsAt(s) = {"assign"}
  /\ KindsAt("pending") = {"approve", "reject"}
  /\ \A s \in {"again", "commit"} : KindsAt(s) = {"approve"}
  /\ KindsAt("turn") = {"reject"}
  /\ \A s \in {"mine", "drop"} : KindsAt(s) = {"revoke"}
  /\ \A s \in {"name", "create"} : KindsAt(s) = {"create"}
  /\ KindsAt("parent") = {"create", "reparent"}
  /\ KindsAt("climb") = {"reparent"}
  /\ \A s \in {"write", "collect", "holders"} :
       KindsAt(s) = {"reparent", "classify", "grant", "withdraw"}
  /\ KindsAt("forget") =
       {"assign", "approve", "revoke", "reparent", "classify", "grant", "withdraw"}
  /\ \A s \in {"counts", "erase"} : KindsAt(s) = {"delete"}
  /\ \A s \in {"link", "log"} : KindsAt(s) =
       {"assign", "revoke", "approve", "reject", "reparent", "classify", "create", "delete",
        "grant", "withdraw"}
  /\ \A s \in {"get", "roles", "walk", "codes", "store"} : KindsAt(s) = {"check"}
BY DEF KindsAt, Changes, Reviews, Writers, Kinds

\* Where a request may go next, and with what.
Admits(c, s) ==
  /\ s \in Stages
  /\ Of(c).kind \in KindsAt(s)
  /\ s \in {"parent", "climb"} => Of(c).parent # None
  /\ s = "parent" /\ Of(c).kind = "reparent" => Of(c).parent # Of(c).role
  /\ s \in {"climb", "write"} /\ Of(c).kind = "reparent" /\ Of(c).parent # None
       => Of(c).parent \in live \cup gone

Over(c) == /\ job' \in [Clients -> JobType] /\ Others(c) /\ job'[c] = Idle
           /\ job'[c].at = "idle" /\ Of(c)' = Ask /\ Ask.kind = "none"

\* What it has read when it gets there.
Enters(c, s) ==
  /\ s = "held" => /\ At(c, "role") /\ Of(c).role \in live
                   /\ job'[c].flag = (Of(c).role \in sensitive)
  /\ s = "give" => At(c, "held") /\ ~job[c].flag
  /\ s \in {"again", "turn"} => /\ At(c, "pending") /\ approvals[Of(c).n].status = "PENDING"
                                /\ approvals[Of(c).n].by # Of(c).by
  /\ s = "commit" => At(c, "again")
  /\ s = "log" => /\ At(c, "link") /\ clock' = clock + 1 /\ job'[c].now = clock + 1
                  /\ job'[c].found = LatestHash(log)
  /\ s = "climb" =>
       \/ At(c, "parent") /\ Of(c).parent # Of(c).role /\ job'[c].todo = {<<Of(c).parent, 0>>}
       \/ /\ At(c, "climb")
          /\ \E e \in job[c].todo : /\ ParentOf(e[1]) # Of(c).role /\ e[2] + 1 < MaxDepth
                                    /\ job'[c].todo = {<<ParentOf(e[1]), e[2] + 1>>}
  /\ s = "write" /\ Of(c).kind = "reparent" /\ Of(c).parent # None =>
       /\ At(c, "climb")
       /\ \E e \in job[c].todo : ParentOf(e[1]) = None \/ e[2] + 1 >= MaxDepth
  /\ s = "erase" => At(c, "counts") /\ ~InUse(Of(c).role)

Moves(c) == Over(c) \/ \E s \in Stages : Goes(c, s) /\ Admits(c, s) /\ Enters(c, s)

LEMMA Known ==
  ASSUME Shape, NEW c \in Clients
  PROVE  /\ job[c] \in JobType /\ Of(c) \in AskType /\ job[c].at \in Stages
         /\ Of(c).kind \in KindsAt(job[c].at) /\ AskFits(Of(c), Len(approvals))
         /\ job[c].todo \subseteq Roles \X Nat /\ job[c].roles \subseteq Roles
         /\ job[c].users \subseteq Users /\ job[c].flag \in BOOLEAN /\ job[c].clean \in BOOLEAN
         /\ job[c].found \in Nat /\ job[c].now \in Nat
BY DEF Shape, StageFits, JobType, Of

LEMMA EndMoves ==
  ASSUME Shape, NEW c \in Clients, Finish(c)
  PROVE  Moves(c)
BY Ends DEF Moves, Over, Shape

LEMMA StepMoves ==
  ASSUME Shape, NEW c \in Clients, NEW s, Step(c, s), Admits(c, s), Enters(c, s)
  PROVE  Moves(c)
BY Advances DEF Moves, Shape, Admits

LEMMA ReadRoleMoves ==
  ASSUME Shape, NEW c \in Clients, ReadRole(c)
  PROVE  Moves(c)
<1>1. /\ Of(c).kind \in {"assign", "delete", "reparent", "classify", "grant", "withdraw"}
      /\ At(c, "role")
  BY Known, KindsOf DEF ReadRole, At
<1>2. CASE Finish(c)
  BY <1>2, EndMoves
<1>3. CASE ~Finish(c)
  <2>1. PICK b \in BOOLEAN : b = (Of(c).role \in sensitive)
    <3>1. WITNESS (Of(c).role \in sensitive) \in BOOLEAN
    <3>2. QED
      OBVIOUS
  <2>2. PICK s : s = CASE Of(c).kind = "assign" -> "held"
                       [] Of(c).kind = "delete" -> "counts"
                       [] Of(c).kind = "reparent" /\ Of(c).parent # None -> "parent"
                       [] OTHER -> "write"
    OBVIOUS
  <2>3. /\ job' = [job EXCEPT ![c].flag = b, ![c].at = s]
        /\ ~(Of(c).kind = "reparent" /\ Of(c).parent = Of(c).role) /\ Of(c).role \in live
    BY <1>3, <2>1, <2>2, Zenon DEF ReadRole
  <2>4. /\ Admits(c, s) /\ s \in {"held", "counts", "parent", "write"}
        /\ s = "write" => ~(Of(c).kind = "reparent" /\ Of(c).parent # None)
    <3>1. CASE Of(c).kind = "assign" \/ Of(c).kind = "delete"
      BY <2>2, <3>1, KindsOf DEF Admits, Stages
    <3>2. CASE Of(c).kind = "reparent" /\ Of(c).parent # None
      BY <2>2, <2>3, <3>2, KindsOf DEF Admits, Stages
    <3>3. CASE /\ Of(c).kind \in {"reparent", "classify", "grant", "withdraw"}
               /\ ~(Of(c).kind = "reparent" /\ Of(c).parent # None)
      <4>1. s = "write"
        BY <2>2, <3>3
      <4>2. QED
        BY <3>3, <4>1, KindsOf DEF Admits, Stages
    <3>4. QED
      BY <1>1, <3>1, <3>2, <3>3
  <2>5. Goes(c, s) /\ job'[c].flag = b
    BY <2>3, <2>4, RoleRead DEF Shape, Admits
  <2>6. Enters(c, s)
    BY <1>1, <2>1, <2>3, <2>4, <2>5 DEF Enters
  <2>7. QED
    BY <2>4, <2>5, <2>6 DEF Moves, Admits
<1>4. QED
  BY <1>2, <1>3

\* Steps that only read: which stages they lead to.
LEMMA ReadsMove ==
  ASSUME Shape, NEW c \in Clients,
         \/ ReadHeldRole(c) \/ ReadPending(c) \/ ReadHeldAgain(c) \/ ReadOwn(c)
         \/ ReadName(c) \/ Count(c) \/ Get(c)
  PROVE  Moves(c)
<1>1. CASE Finish(c)
  BY <1>1, EndMoves
<1>2. ASSUME NEW s, Step(c, s), s \notin {"climb", "write", "parent", "held", "log"}, s \in Stages,
             Of(c).kind \in KindsAt(s), Enters(c, s)
      PROVE  Moves(c)
  BY <1>2, StepMoves DEF Admits
<1>3. Of(c).kind \in KindsAt(job[c].at)
  BY Known
<1>4. CASE ReadHeldRole(c) /\ ~Finish(c)
  <2>1. At(c, "held") /\ Of(c).kind = "assign"
    BY <1>3, <1>4, KindsOf DEF ReadHeldRole, At
  <2>2. CASE job[c].flag
    <3>1. Step(c, "request")
      BY <1>4, <2>2 DEF ReadHeldRole
    <3>2. QED
      BY <1>2, <2>1, <3>1, KindsOf DEF Enters, Stages
  <2>3. CASE ~job[c].flag
    <3>1. Step(c, "give")
      BY <1>4, <2>3 DEF ReadHeldRole
    <3>2. QED
      BY <1>2, <2>1, <2>3, <3>1, KindsOf DEF Enters, Stages
  <2>4. QED
    BY <2>2, <2>3
<1>5. CASE ReadPending(c) /\ ~Finish(c)
  <2>1. /\ At(c, "pending") /\ Of(c).kind \in {"approve", "reject"}
        /\ approvals[Of(c).n].status = "PENDING" /\ approvals[Of(c).n].by # Of(c).by
    BY <1>3, <1>5, KindsOf DEF ReadPending, At
  <2>2. CASE Of(c).kind = "approve"
    <3>1. Step(c, "again")
      BY <1>5, <2>2 DEF ReadPending
    <3>2. QED
      BY <1>2, <2>1, <2>2, <3>1, KindsOf DEF Enters, Stages
  <2>3. CASE Of(c).kind = "reject"
    <3>1. Step(c, "turn")
      BY <1>5, <2>3 DEF ReadPending
    <3>2. QED
      BY <1>2, <2>1, <2>3, <3>1, KindsOf DEF Enters, Stages
  <2>4. QED
    BY <2>1, <2>2, <2>3
<1>6. CASE ReadHeldAgain(c) /\ ~Finish(c)
  <2>1. At(c, "again") /\ Of(c).kind = "approve" /\ Step(c, "commit")
    BY <1>3, <1>6, KindsOf DEF ReadHeldAgain, At
  <2>2. QED
    BY <1>2, <2>1, KindsOf DEF Enters, Stages
<1>7. CASE ReadOwn(c) /\ ~Finish(c)
  <2>1. At(c, "mine") /\ Of(c).kind = "revoke" /\ Step(c, "drop")
    BY <1>3, <1>7, KindsOf DEF ReadOwn, At
  <2>2. QED
    BY <1>2, <2>1, KindsOf DEF Enters, Stages
<1>8. CASE ReadName(c) /\ ~Finish(c)
  <2>1. At(c, "name") /\ Of(c).kind = "create"
    BY <1>3, <1>8, KindsOf DEF ReadName, At
  <2>2. CASE Of(c).parent = None
    <3>1. Step(c, "create")
      BY <1>8, <2>2 DEF ReadName
    <3>2. QED
      BY <1>2, <2>1, <3>1, KindsOf DEF Enters, Stages
  <2>3. CASE Of(c).parent # None
    <3>1. Step(c, "parent")
      BY <1>8, <2>3 DEF ReadName
    <3>2. Admits(c, "parent") /\ Enters(c, "parent")
      BY <2>1, <2>3, KindsOf DEF Admits, Enters, Stages
    <3>3. QED
      BY <3>1, <3>2, StepMoves
  <2>4. QED
    BY <2>2, <2>3
<1>9. CASE Count(c) /\ ~Finish(c)
  <2>1. /\ At(c, "counts") /\ Of(c).kind = "delete" /\ Step(c, "erase")
        /\ ~InUse(Of(c).role)
    BY <1>3, <1>9, KindsOf DEF Count, At
  <2>2. QED
    BY <1>2, <2>1, KindsOf DEF Enters, Stages
<1>10. CASE Get(c) /\ ~Finish(c)
  <2>1. At(c, "get") /\ Of(c).kind = "check" /\ Step(c, "roles")
    BY <1>3, <1>10, KindsOf DEF Get, At
  <2>2. QED
    BY <1>2, <2>1, KindsOf DEF Enters, Stages
<1>11. QED
  BY <1>1, <1>4, <1>5, <1>6, <1>7, <1>8, <1>9, <1>10

\* A stage that nothing is kept about.
Plain(s) == s \in Stages \ {"held", "give", "again", "turn", "commit", "log", "climb", "write",
                            "erase", "parent"}

LEMMA PlainMoves ==
  ASSUME Shape, NEW c \in Clients, NEW s, Goes(c, s), Plain(s), Of(c).kind \in KindsAt(s)
  PROVE  Moves(c)
BY DEF Plain, Moves, Admits, Enters

LEMMA TodoParts ==
  ASSUME Shape, NEW c \in Clients, NEW e \in job[c].todo
  PROVE  e[1] \in Roles /\ e[2] \in Nat /\ e = <<e[1], e[2]>>
BY Known

LEMMA ParentRange ==
  ASSUME TypeOK, Shape, NEW r \in Roles
  PROVE  ParentOf(r) \in live \cup {None} /\ ParentOf(r) \in Roles \cup {None}
BY DEF Shape, HierarchyFits, TypeOK

LEMMA ClimbMoves ==
  ASSUME TypeOK, Shape, NEW c \in Clients, ReadParent(c) \/ Climb(c)
  PROVE  Moves(c)
<1>1. CASE Finish(c)
  BY <1>1, EndMoves
<1>2. CASE ReadParent(c) /\ ~Finish(c)
  <2>1. /\ At(c, "parent") /\ Of(c).kind \in {"create", "reparent"} /\ Of(c).parent \in live
        /\ Of(c).kind = "reparent" => Of(c).parent # Of(c).role
    BY <1>2, Known, KindsOf DEF ReadParent, At, Shape, StageFits
  <2>2. CASE Of(c).kind = "create"
    <3>1. Step(c, "create")
      BY <1>2, <2>1, <2>2 DEF ReadParent
    <3>2. QED
      BY <2>2, <3>1, StepMoves, KindsOf DEF Admits, Enters, Stages
  <2>3. CASE Of(c).kind = "reparent"
    <3>1. job' = [job EXCEPT ![c].at = "climb", ![c].todo = {<<Of(c).parent, 0>>}]
      BY <1>2, <2>1, <2>3 DEF ReadParent
    <3>2. {<<Of(c).parent, 0>>} \in SUBSET (Roles \X Nat) /\ "climb" \in Stages
          /\ Of(c).parent # None
      BY <2>1, AccessFits DEF TypeOK, Stages
    <3>3. Goes(c, "climb") /\ job'[c].todo = {<<Of(c).parent, 0>>}
      BY <3>1, <3>2, TodoRead DEF Shape
    <3>4. Admits(c, "climb") /\ Enters(c, "climb")
      BY <2>1, <2>3, <3>2, <3>3, KindsOf DEF Admits, Enters
    <3>5. QED
      BY <3>2, <3>3, <3>4 DEF Moves
  <2>4. QED
    BY <2>1, <2>2, <2>3
<1>3. CASE Climb(c) /\ ~Finish(c)
  <2>1. /\ At(c, "climb") /\ Of(c).kind = "reparent" /\ Of(c).parent # None
        /\ Of(c).parent \in live \cup gone
    BY <1>3, Known, KindsOf DEF Climb, At, Shape, StageFits
  <2>2. PICK e \in job[c].todo :
          LET next == ParentOf(e[1])
          IN  IF next = None \/ e[2] + 1 >= MaxDepth THEN Step(c, "write")
              ELSE IF next = Of(c).role THEN Finish(c)
              ELSE job' = [job EXCEPT ![c].todo = {<<next, e[2] + 1>>}]
    BY <1>3 DEF Climb
  <2>3. PICK x, i : x = ParentOf(e[1]) /\ i = e[2] + 1
    OBVIOUS
  <2>4. x \in Roles \cup {None} /\ i \in Nat
    BY <2>3, TodoParts, ParentRange
  <2>5. CASE x = None \/ i >= MaxDepth
    <3>1. Step(c, "write")
      BY <2>2, <2>3, <2>5
    <3>2. QED
      BY <2>1, <2>3, <2>5, <3>1, StepMoves, KindsOf DEF Admits, Enters, Stages
  <2>6. CASE ~(x = None \/ i >= MaxDepth)
    <3>1. x # Of(c).role /\ job' = [job EXCEPT ![c].todo = {<<x, i>>}]
      BY <1>3, <2>2, <2>3, <2>6
    <3>2. {<<x, i>>} \in SUBSET (Roles \X Nat) /\ i < MaxDepth
      BY <2>4, <2>6, AccessFits
    <3>3. Goes(c, "climb") /\ job'[c].todo = {<<x, i>>}
      BY <2>1, <3>1, <3>2, TodoTurned DEF Shape, At
    <3>4. Admits(c, "climb") /\ Enters(c, "climb")
      BY <2>1, <2>3, <3>1, <3>2, <3>3, KindsOf DEF Admits, Enters, Stages
    <3>5. QED
      BY <3>3, <3>4 DEF Moves, Admits
  <2>7. QED
    BY <2>5, <2>6
<1>4. QED
  BY <1>1, <1>2, <1>3

LEMMA LeastNumber ==
  ASSUME NEW X \in SUBSET Nat, X # {}
  PROVE  \E n \in X : \A m \in X : n <= m
<1> DEFINE R == {ss \in Nat \X Nat : ss[1] < ss[2]}
<1>1. \E n \in X : \A m \in X : <<m, n>> \notin R
  <2>1. IsWellFoundedOn(R, Nat)
    BY NatLessThanWellFounded DEF OpToRel
  <2> HIDE DEF R
  <2> QED
    BY <2>1, WFMin
<1>2. PICK n \in X : \A m \in X : <<m, n>> \notin R
  BY <1>1
<1>3. ASSUME NEW m \in X PROVE n <= m
  <2>1. m \in Nat /\ n \in Nat /\ ~(m < n)
    BY <1>2
  <2> QED
    BY <2>1
<1> QED
  BY <1>3

\* A log has a newest entry, and its hash is the one that is found.
LEMMA Latest ==
  ASSUME NEW L \in SUBSET Entries, NEW m \in Nat, \A e \in L : e.createdAt <= m
  PROVE  /\ L = {} => LatestHash(L) = Undefined
         /\ L # {} => \E e \in L : /\ LatestHash(L) = e.createdAt
                                   /\ \A f \in L : f.createdAt <= e.createdAt
         /\ LatestHash(L) \in Nat
<1>1. \A e \in L : e.createdAt \in Nat
  BY DEF Entries
<1>2. CASE L # {}
  <2>1. PICK k \in {k \in Nat : \A e \in L : e.createdAt <= k} :
          \A i \in {i \in Nat : \A e \in L : e.createdAt <= i} : k <= i
    <3>1. {k \in Nat : \A e \in L : e.createdAt <= k} \in SUBSET Nat
          /\ m \in {k \in Nat : \A e \in L : e.createdAt <= k}
      OBVIOUS
    <3>2. QED
      BY <3>1, LeastNumber
  <2>2. k \in Nat /\ \A e \in L : e.createdAt <= k
    BY <2>1
  <2>3. \E e \in L : e.createdAt = k
    <3>1. SUFFICES ASSUME \A e \in L : e.createdAt # k PROVE FALSE
      OBVIOUS
    <3>2. \A e \in L : e.createdAt <= k - 1
      BY <1>1, <2>2, <3>1
    <3>3. k - 1 \in Nat
      BY <1>1, <1>2, <2>2, <3>2
    <3>4. k <= k - 1
      BY <2>1, <3>2, <3>3
    <3>5. QED
      BY <2>2, <3>4
  <2>4. \E e \in Newest(L) : TRUE
    BY <2>2, <2>3 DEF Newest
  <2>5. (CHOOSE e \in Newest(L) : TRUE) \in Newest(L)
    BY <2>4
  <2>6. QED
    BY <1>1, <1>2, <2>5 DEF LatestHash, Newest
<1>3. QED
  BY <1>2 DEF LatestHash, Undefined

LEMMA LinkMoves ==
  ASSUME TypeOK, Shape, NEW c \in Clients, Link(c)
  PROVE  Moves(c) /\ job'[c].now = clock' /\ clock' = clock + 1
<1>1. At(c, "link") /\ clock' = clock + 1 /\ clock \in Nat /\ clock + 1 \in Nat
  BY DEF Link, TypeOK
<1>2. LatestHash(log) \in Nat
  BY <1>1, Latest DEF TypeOK, Shape, LogFits
<1>3. PICK k \in Nat : k = LatestHash(log)
  BY <1>2
<1>4. job' = [job EXCEPT ![c].at = "log", ![c].found = k, ![c].now = clock + 1]
  BY <1>1, <1>3 DEF Link
<1>5. Goes(c, "log") /\ job'[c].found = k /\ job'[c].now = clock + 1
  <2>1. PICK j \in JobType : j = job[c]
    BY DEF Shape
  <2>2. PICK m \in Nat : m = clock + 1
    BY <1>1
  <2>3. PICK r : r = [j EXCEPT !.at = "log", !.found = k, !.now = m]
    OBVIOUS
  <2>4. /\ r \in JobType /\ r.ask = j.ask /\ r.clean = j.clean /\ r.at = "log" /\ r.found = k
        /\ r.now = m
    BY <1>3, <2>2, <2>3 DEF JobType, Stages
  <2>5. job' = [job EXCEPT ![c] = r]
    BY <1>4, <2>1, <2>2, <2>3
  <2>6. QED
    BY <2>1, <2>2, <2>4, <2>5, RowUpdated DEF Goes, Of, Shape
<1>6. Admits(c, "log") /\ Enters(c, "log")
  BY <1>1, <1>3, <1>5, Known, KindsOf DEF Admits, Enters, Stages, At
<1>7. QED
  BY <1>1, <1>5, <1>6 DEF Moves, Admits

\* collectDescendants takes one role and puts its children in its place.
LEMMA CollectMoves ==
  ASSUME TypeOK, Shape, NEW c \in Clients, Collect(c)
  PROVE  /\ Moves(c) /\ At(c, "collect") /\ job'[c].at \in {"collect", "holders"}
         /\ \E e \in job[c].todo :
              /\ job'[c].roles = job[c].roles \cup {e[1]}
              /\ job'[c].todo = (job[c].todo \ {e}) \cup
                   ({r \in live : parent[r] = e[1] /\ e[2] < MaxDepth} \X {e[2] + 1})
              /\ job'[c].at = "holders" => job'[c].todo = {}
<1>1. /\ At(c, "collect") /\ job[c].todo \in SUBSET (Roles \X Nat)
      /\ Of(c).kind \in {"reparent", "classify", "grant", "withdraw"}
  BY Known, KindsOf DEF Collect, At
<1>2. PICK e \in Deepest(job[c].todo) :
        LET children == {r \in live : parent[r] = e[1] /\ e[2] < MaxDepth}
            rest == (job[c].todo \ {e}) \cup (children \X {e[2] + 1})
        IN  job' = [job EXCEPT ![c].roles = job[c].roles \cup {e[1]}, ![c].todo = rest,
                               ![c].at = IF rest = {} THEN "holders" ELSE "collect"]
  BY DEF Collect
<1>3. e \in job[c].todo /\ e[1] \in Roles /\ e[2] \in Nat
  BY <1>2, TodoParts DEF Deepest
<1>4. PICK t : t = (job[c].todo \ {e}) \cup
                     ({r \in live : parent[r] = e[1] /\ e[2] < MaxDepth} \X {e[2] + 1})
  OBVIOUS
<1>5. t \in SUBSET (Roles \X Nat)
  <2>1. PICK k \in Nat : k = e[2] + 1
    BY <1>3
  <2>2. {r \in live : parent[r] = e[1] /\ e[2] < MaxDepth} \subseteq Roles
    BY DEF TypeOK
  <2>3. QED
    BY <1>1, <1>4, <2>1, <2>2
<1>6. PICK rs \in SUBSET Roles : rs = job[c].roles \cup {e[1]}
  <2>1. job[c].roles \cup {e[1]} \in SUBSET Roles
    BY <1>3, Known
  <2>2. QED
    BY <2>1
<1>7. PICK s : s = IF t = {} THEN "holders" ELSE "collect"
  OBVIOUS
<1>8. s \in Stages /\ Plain(s) /\ s \in {"collect", "holders"} /\ Of(c).kind \in KindsAt(s)
      /\ (s = "holders" => t = {})
  BY <1>1, <1>7, KindsOf DEF Plain, Stages
<1>9. job' = [job EXCEPT ![c].roles = rs, ![c].todo = t, ![c].at = s]
  BY <1>2, <1>4, <1>6, <1>7, Zenon
<1>10. Goes(c, s) /\ job'[c].roles = rs /\ job'[c].todo = t
  <2>1. PICK j \in JobType : j = job[c]
    BY DEF Shape
  <2>2. PICK r : r = [j EXCEPT !.roles = rs, !.todo = t, !.at = s]
    OBVIOUS
  <2>3. /\ r \in JobType /\ r.ask = j.ask /\ r.clean = j.clean /\ r.at = s /\ r.roles = rs
        /\ r.todo = t
    BY <1>5, <1>6, <1>8, <2>2 DEF JobType
  <2>4. job' = [job EXCEPT ![c] = r]
    BY <1>9, <2>1, <2>2
  <2>5. QED
    BY <2>1, <2>3, <2>4, RowUpdated DEF Goes, Of, Shape
<1>11. Moves(c)
  BY <1>8, <1>10, PlainMoves
<1>12. QED
  BY <1>1, <1>3, <1>4, <1>6, <1>8, <1>10, <1>11 DEF Goes

\* Everybody who holds one of the roles that were collected.
LEMMA HoldersMoves ==
  ASSUME TypeOK, Shape, NEW c \in Clients, Holders(c)
  PROVE  /\ Moves(c) /\ At(c, "holders") /\ job'[c].at = "forget"
         /\ job'[c].users = {u \in Users : \E r \in job[c].roles : <<u, r>> \in held}
<1>1. /\ At(c, "holders") /\ Of(c).kind \in {"reparent", "classify", "grant", "withdraw"}
  BY Known, KindsOf DEF Holders, At
<1>2. PICK us \in SUBSET Users : us = {u \in Users : \E r \in job[c].roles : <<u, r>> \in held}
  OBVIOUS
<1>3. PICK rs \in SUBSET Roles : rs = {}
  OBVIOUS
<1>4. job' = [job EXCEPT ![c].at = "forget", ![c].roles = rs, ![c].users = us]
  BY <1>2, <1>3, Zenon DEF Holders
<1>5. /\ "forget" \in Stages /\ Plain("forget") /\ Of(c).kind \in KindsAt("forget")
  BY <1>1, KindsOf DEF Stages, Plain
<1>6. Goes(c, "forget") /\ job'[c].users = us
  <2>1. PICK j \in JobType : j = job[c]
    BY DEF Shape
  <2>2. PICK r : r = [j EXCEPT !.at = "forget", !.roles = rs, !.users = us]
    OBVIOUS
  <2>3. /\ r \in JobType /\ r.ask = j.ask /\ r.clean = j.clean /\ r.at = "forget"
        /\ r.users = us
    BY <1>2, <1>3, <1>5, <2>2 DEF JobType
  <2>4. job' = [job EXCEPT ![c] = r]
    BY <1>4, <2>1, <2>2
  <2>5. QED
    BY <2>1, <2>3, <2>4, RowUpdated DEF Goes, Of, Shape
<1>7. QED
  BY <1>1, <1>2, <1>5, <1>6, PlainMoves DEF Goes

\* One user's cached permissions are deleted, or all have been.
LEMMA ForgetMoves ==
  ASSUME TypeOK, Shape, NEW c \in Clients, Forget(c)
  PROVE  /\ Moves(c) /\ At(c, "forget")
         /\ \/ job[c].users = {} /\ cache' = cache /\ job'[c].at = "link"
            \/ \E u \in job[c].users : /\ cache' = [cache EXCEPT ![u] = Absent]
                                       /\ job'[c].users = job[c].users \ {u}
                                       /\ job'[c].at = "forget"
<1>1. /\ At(c, "forget")
      /\ Of(c).kind \in {"assign", "approve", "revoke", "reparent", "classify", "grant",
                         "withdraw"}
  BY Known, KindsOf DEF Forget, At
<1>2. CASE job[c].users = {} /\ Step(c, "link") /\ cache' = cache
  <2>1. Admits(c, "link") /\ Enters(c, "link")
    BY <1>1, KindsOf DEF Admits, Enters, Stages
  <2>2. job'[c].at = "link"
    BY <1>2, <2>1, Advances DEF Goes, Shape, Admits
  <2>3. QED
    BY <1>1, <1>2, <2>1, <2>2, StepMoves
<1>3. ASSUME NEW u \in job[c].users, cache' = [cache EXCEPT ![u] = Absent],
             job' = [job EXCEPT ![c].users = job[c].users \ {u}]
      PROVE  Moves(c) /\ job'[c].users = job[c].users \ {u} /\ job'[c].at = "forget"
  <2>1. PICK us \in SUBSET Users : us = job[c].users \ {u}
    <3>1. job[c].users \ {u} \in SUBSET Users
      BY Known
    <3>2. QED
      BY <3>1
  <2>2. job' = [job EXCEPT ![c].users = us]
    BY <1>3, <2>1
  <2>3. Goes(c, "forget") /\ job'[c].users = us
    BY <1>1, <2>2, UsersTurned DEF Shape, At
  <2>4. Plain("forget") /\ Of(c).kind \in KindsAt("forget")
    BY <1>1, KindsOf DEF Stages, Plain
  <2>5. QED
    BY <2>1, <2>3, <2>4, PlainMoves DEF Goes
<1>4. QED
  BY <1>1, <1>2, <1>3 DEF Forget

\* The resolver: the user's own roles, their ancestors, and whether one grants.
LEMMA ReadRolesMoves ==
  ASSUME TypeOK, Shape, NEW c \in Clients, ReadRoles(c)
  PROVE  /\ Moves(c) /\ At(c, "roles") /\ job'[c].at \in {"store", "walk"}
         /\ job'[c].todo = {r \in Roles : <<Of(c).user, r>> \in held} \X {0}
         /\ job'[c].roles = job[c].roles /\ job'[c].flag = job[c].flag
<1>1. At(c, "roles") /\ Of(c).kind = "check"
  BY Known, KindsOf DEF ReadRoles, At
<1>2. PICK own : own = {r \in Roles : <<Of(c).user, r>> \in held}
  OBVIOUS
<1>3. PICK t \in SUBSET (Roles \X Nat) : t = own \X {0}
  <2>1. own \X {0} \in SUBSET (Roles \X Nat)
    BY <1>2
  <2>2. QED
    BY <2>1
<1>4. PICK s : s = IF own = {} THEN "store" ELSE "walk"
  OBVIOUS
<1>5. s \in Stages /\ Plain(s) /\ s \in {"store", "walk"} /\ Of(c).kind \in KindsAt(s)
  BY <1>1, <1>4, KindsOf DEF Plain, Stages
<1>6. job' = [job EXCEPT ![c].todo = t, ![c].at = s]
  BY <1>2, <1>3, <1>4, Zenon DEF ReadRoles
<1>7. Goes(c, s) /\ job'[c].todo = t /\ job'[c].roles = job[c].roles /\ job'[c].flag = job[c].flag
  BY <1>5, <1>6, TodoFound DEF Shape
<1>8. QED
  BY <1>1, <1>2, <1>3, <1>5, <1>7, PlainMoves DEF Goes

LEMMA WalkMoves ==
  ASSUME TypeOK, Shape, NEW c \in Clients, Walk(c)
  PROVE  /\ Moves(c) /\ At(c, "walk") /\ job'[c].at \in {"walk", "codes"}
         /\ \E e \in job[c].todo :
              /\ \A f \in job'[c].todo :
                   f \in job[c].todo
                     \/ (ParentOf(e[1]) # None /\ f = <<ParentOf(e[1]), e[2] + 1>>)
              /\ \A r \in job'[c].roles : r \in job[c].roles \/ (r = e[1] /\ e[2] < MaxDepth)
<1>1. At(c, "walk") /\ Of(c).kind = "check" /\ job[c].todo \in SUBSET (Roles \X Nat)
  BY Known, KindsOf DEF Walk, At
<1>2. PICK e \in Deepest(job[c].todo) :
        LET skip == e[1] \in job[c].roles \/ e[2] >= MaxDepth
            up == {<<ParentOf(e[1]), e[2] + 1>>}
            rest == (job[c].todo \ {e}) \cup (IF skip \/ ParentOf(e[1]) = None THEN {} ELSE up)
        IN  job' = [job EXCEPT ![c].roles = job[c].roles \cup (IF skip THEN {} ELSE {e[1]}),
                               ![c].todo = rest,
                               ![c].at = IF rest = {} THEN "codes" ELSE "walk"]
  BY DEF Walk
<1>3. e \in job[c].todo /\ e[1] \in Roles /\ e[2] \in Nat
  BY <1>2, TodoParts DEF Deepest
<1>4. PICK t : t = (job[c].todo \ {e}) \cup
                     (IF (e[1] \in job[c].roles \/ e[2] >= MaxDepth) \/ ParentOf(e[1]) = None
                      THEN {} ELSE {<<ParentOf(e[1]), e[2] + 1>>})
  OBVIOUS
<1>5. t \in SUBSET (Roles \X Nat)
  <2>1. e[2] + 1 \in Nat
    BY <1>3
  <2>2. ParentOf(e[1]) # None => ParentOf(e[1]) \in Roles
    BY <1>3, ParentRange
  <2>3. QED
    BY <1>1, <1>4, <2>1, <2>2
<1>6. PICK rs : rs = job[c].roles \cup
                       (IF e[1] \in job[c].roles \/ e[2] >= MaxDepth THEN {} ELSE {e[1]})
  OBVIOUS
<1>7. rs \in SUBSET Roles
  BY <1>3, <1>6, Known
<1>8. PICK s : s = IF t = {} THEN "codes" ELSE "walk"
  OBVIOUS
<1>9. s \in Stages /\ Plain(s) /\ s \in {"walk", "codes"} /\ Of(c).kind \in KindsAt(s)
  BY <1>1, <1>8, KindsOf DEF Plain, Stages
<1>10. job' = [job EXCEPT ![c].roles = rs, ![c].todo = t, ![c].at = s]
  BY <1>2, <1>4, <1>6, <1>8, Zenon
<1>11. Goes(c, s) /\ job'[c].roles = rs /\ job'[c].todo = t
  <2>1. PICK j \in JobType : j = job[c]
    BY DEF Shape
  <2>2. PICK r : r = [j EXCEPT !.roles = rs, !.todo = t, !.at = s]
    OBVIOUS
  <2>3. /\ r \in JobType /\ r.ask = j.ask /\ r.clean = j.clean /\ r.at = s /\ r.roles = rs
        /\ r.todo = t
    BY <1>5, <1>7, <1>9, <2>2 DEF JobType
  <2>4. job' = [job EXCEPT ![c] = r]
    BY <1>10, <2>1, <2>2
  <2>5. QED
    BY <2>1, <2>3, <2>4, RowUpdated DEF Goes, Of, Shape
<1>12. \A f \in t : f \in job[c].todo
                      \/ (ParentOf(e[1]) # None /\ f = <<ParentOf(e[1]), e[2] + 1>>)
  BY <1>4
<1>13. \A r \in rs : r \in job[c].roles \/ (r = e[1] /\ e[2] < MaxDepth)
  BY <1>3, <1>6, AccessFits
<1>14. Moves(c)
  BY <1>9, <1>11, PlainMoves
<1>15. QED
  BY <1>1, <1>3, <1>9, <1>11, <1>12, <1>13, <1>14 DEF Goes

LEMMA ReadCodesMoves ==
  ASSUME TypeOK, Shape, NEW c \in Clients, ReadCodes(c)
  PROVE  /\ Moves(c) /\ At(c, "codes") /\ job'[c].at = "store"
         /\ job'[c].flag => job[c].roles \cap granting # {}
<1>1. At(c, "codes") /\ Of(c).kind = "check"
  BY Known, KindsOf DEF ReadCodes, At
<1>2. PICK b \in BOOLEAN : b = (job[c].roles \cap granting # {})
  <2>1. WITNESS (job[c].roles \cap granting # {}) \in BOOLEAN
  <2>2. QED
    OBVIOUS
<1>3. job' = [job EXCEPT ![c].at = "store", ![c].flag = b]
  BY <1>2, Zenon DEF ReadCodes
<1>4. "store" \in Stages /\ Plain("store") /\ Of(c).kind \in KindsAt("store")
  BY <1>1, KindsOf DEF Plain, Stages
<1>5. Goes(c, "store") /\ job'[c].flag = b
  BY <1>3, <1>4, CodesRead DEF Shape
<1>6. QED
  BY <1>1, <1>2, <1>4, <1>5, PlainMoves DEF Goes

\* An approval is asked for.
LEMMA RequestMoves ==
  ASSUME TypeOK, Shape, NEW c \in Clients, Request(c)
  PROVE  /\ Moves(c) /\ At(c, "request")
         /\ approvals' \in Seq([user : Users, role : Roles, by : Admins, grants : Nat,
                                status : {"PENDING", "APPROVED", "REJECTED", "DELETED"}])
         /\ Len(approvals) <= Len(approvals')
         /\ \A n \in 1..Len(approvals) : approvals'[n] = approvals[n]
         /\ \A n \in 1..Len(approvals') : n \notin 1..Len(approvals) =>
              approvals'[n].grants = 0 /\ approvals'[n].status = "PENDING"
<1> DEFINE Rows == [user : Users, role : Roles, by : Admins, grants : Nat,
                    status : {"PENDING", "APPROVED", "REJECTED", "DELETED"}]
<1>1. At(c, "request") /\ Of(c).kind = "assign" /\ approvals \in Seq(Rows)
  BY Known, KindsOf DEF Request, At, TypeOK
<1>2. CASE Finish(c) /\ approvals' = approvals
  BY <1>1, <1>2, EndMoves
<1>3. CASE /\ Step(c, "link")
           /\ approvals' = Append(approvals,
               [user |-> Of(c).user, role |-> Of(c).role, by |-> Of(c).by,
                status |-> "PENDING", grants |-> 0])
  <2>1. PICK row : row = [user |-> Of(c).user, role |-> Of(c).role, by |-> Of(c).by,
                          status |-> "PENDING", grants |-> 0]
    OBVIOUS
  <2>2. Of(c).user \in Users /\ Of(c).role \in Roles /\ Of(c).by \in Admins
    BY <1>1, Known DEF AskFits
  <2>3. row \in Rows /\ row.grants = 0 /\ row.status = "PENDING"
    BY <2>1, <2>2
  <2>4. approvals' = Append(approvals, row)
    BY <1>3, <2>1
  <2> HIDE DEF Rows
  <2>5. /\ approvals' \in Seq(Rows) /\ Len(approvals') = Len(approvals) + 1
        /\ \A n \in 1..Len(approvals) : approvals'[n] = approvals[n]
        /\ approvals'[Len(approvals) + 1] = row
    BY <1>1, <2>3, <2>4
  <2>6. \A n \in 1..Len(approvals') : n \notin 1..Len(approvals) => n = Len(approvals) + 1
    BY <1>1, <2>5
  <2>7. Admits(c, "link") /\ Enters(c, "link")
    BY <1>1, KindsOf DEF Admits, Enters, Stages
  <2>8. Moves(c)
    BY <1>3, <2>7, StepMoves
  <2>9. Len(approvals) <= Len(approvals')
    BY <1>1, <2>5
  <2>10. QED
    BY <1>1, <2>3, <2>5, <2>6, <2>8, <2>9 DEF Rows
<1>4. QED
  BY <1>2, <1>3 DEF Request

\* A change of what somebody holds is on its way to the cache.
LEMMA Forgets ==
  ASSUME Shape, NEW c \in Clients, NEW u \in Users, ThenForget(c, u),
         Of(c).kind \in {"assign", "approve", "revoke"}
  PROVE  Moves(c) /\ job'[c].at = "forget" /\ job'[c].users = {u}
<1>1. PICK us \in SUBSET Users : us = {u}
  OBVIOUS
<1>2. "forget" \in Stages /\ Plain("forget") /\ Of(c).kind \in KindsAt("forget")
  BY KindsOf DEF Plain, Stages
<1>3. job' = [job EXCEPT ![c].at = "forget", ![c].users = us]
  BY <1>1 DEF ThenForget
<1>4. Goes(c, "forget") /\ job'[c].users = us
  BY <1>2, <1>3, UsersRead DEF Shape
<1>5. QED
  BY <1>1, <1>2, <1>4, PlainMoves DEF Goes

LEMMA GiveMoves ==
  ASSUME TypeOK, Shape, NEW c \in Clients, Give(c)
  PROVE  /\ Moves(c) /\ At(c, "give") /\ Of(c).role \in Roles
         /\ held \subseteq held' /\ held' \subseteq Users \X Roles
         /\ unaided' \subseteq unaided \cup ({Of(c).role} \cap sensitive)
<1>1. At(c, "give") /\ Of(c).kind = "assign" /\ Of(c).user \in Users /\ Of(c).role \in Roles
  BY Known, KindsOf DEF Give, At, AskFits
<1>2. CASE Finish(c) /\ held' = held /\ unaided' = unaided
  BY <1>1, <1>2, EndMoves DEF TypeOK
<1>3. CASE /\ held' = held \cup {<<Of(c).user, Of(c).role>>}
           /\ unaided' = unaided \cup ({Of(c).role} \cap sensitive)
           /\ ThenForget(c, Of(c).user)
  BY <1>1, <1>3, Forgets DEF TypeOK
<1>4. QED
  BY <1>2, <1>3 DEF Give

LEMMA DropMoves ==
  ASSUME TypeOK, Shape, NEW c \in Clients, Drop(c)
  PROVE  /\ Moves(c) /\ At(c, "drop") /\ held' \subseteq held
         /\ held' # held => job'[c].at = "forget" /\ job'[c].users = {Of(c).user}
         /\ \A u, r : <<u, r>> \in held /\ u # Of(c).user => <<u, r>> \in held'
<1>1. At(c, "drop") /\ Of(c).kind = "revoke" /\ Of(c).user \in Users
  BY Known, KindsOf DEF Drop, At, AskFits
<1>2. held' \subseteq held /\ \A u, r : <<u, r>> \in held /\ u # Of(c).user => <<u, r>> \in held'
  BY DEF Drop
<1>3. CASE held' # held
  BY <1>1, <1>2, <1>3, Forgets DEF Drop
<1>4. CASE held' = held
  BY <1>1, <1>2, <1>4, EndMoves DEF Drop
<1>5. QED
  BY <1>3, <1>4

-----------------------------------------------------------------------------
(* What the reviews do to the approvals.                                   *)

Rows == [user : Users, role : Roles, by : Admins, grants : Nat,
         status : {"PENDING", "APPROVED", "REJECTED", "DELETED"}]

LEMMA ElementInRange ==
  \A R : \A q \in Seq(R) : \A k \in 1..Len(q) : q[k] \in R
OBVIOUS

\* One row of a table replaced.
LEMMA RowReplaced ==
  ASSUME NEW R, NEW q \in Seq(R), NEW n \in 1..Len(q), NEW r \in R, NEW q1,
         q1 = [q EXCEPT ![n] = r]
  PROVE  /\ q1 \in Seq(R) /\ Len(q1) = Len(q) /\ q1[n] = r
         /\ \A m \in 1..Len(q) : m # n => q1[m] = q[m]
OBVIOUS

\* A row for each row.
LEMMA RowsMapped ==
  ASSUME NEW R, NEW q \in Seq(R), NEW f \in [1..Len(q) -> R]
  PROVE  f \in Seq(R) /\ Len(f) = Len(q)
OBVIOUS

\* Approval n has become a, and no other has changed.
Turned(n, a) ==
  /\ approvals' \in Seq(Rows) /\ Len(approvals') = Len(approvals) /\ approvals'[n] = a
  /\ \A m \in 1..Len(approvals) : m # n => approvals'[m] = approvals[m]

LEMMA CommitMoves ==
  ASSUME TypeOK, Shape, NEW c \in Clients, Commit(c)
  PROVE  /\ Moves(c) /\ At(c, "commit") /\ Of(c).n \in 1..Len(approvals)
         /\ held \subseteq held' /\ held' \subseteq Users \X Roles
         /\ approvals[Of(c).n] \in Rows
         /\ \/ held' = held /\ approvals' = approvals /\ unaided' = unaided
            \/ \E a \in Rows :
                 /\ Turned(Of(c).n, a) /\ a.by = approvals[Of(c).n].by
                 /\ a.status = "APPROVED" /\ a.grants = approvals[Of(c).n].grants + 1
                 /\ unaided' = IF approvals[Of(c).n].by = Of(c).by
                               THEN unaided \cup {approvals[Of(c).n].role} ELSE unaided
<1>1. /\ At(c, "commit") /\ Of(c).kind = "approve" /\ Of(c).n \in 1..Len(approvals)
      /\ approvals \in Seq(Rows)
  BY Known, KindsOf DEF Commit, At, AskFits, Reviews, TypeOK, Rows
<1>2. PICK p \in Rows : p = approvals[Of(c).n]
  BY <1>1, ElementInRange
<1>3. CASE Finish(c) /\ held' = held /\ approvals' = approvals /\ unaided' = unaided
  BY <1>1, <1>2, <1>3, EndMoves DEF TypeOK
<1>4. CASE /\ held' = held \cup {<<p.user, p.role>>}
           /\ approvals' = [approvals EXCEPT ![Of(c).n] =
                [p EXCEPT !.status = "APPROVED", !.grants = p.grants + 1]]
           /\ unaided' = IF p.by = Of(c).by THEN unaided \cup {p.role} ELSE unaided
           /\ ThenForget(c, p.user)
  <2>1. PICK a : a = [p EXCEPT !.status = "APPROVED", !.grants = p.grants + 1]
    OBVIOUS
  <2>2. p.grants + 1 \in Nat /\ p.user \in Users /\ p.role \in Roles
    BY DEF Rows
  <2>3. a \in Rows /\ a.by = p.by /\ a.status = "APPROVED" /\ a.grants = p.grants + 1
    BY <2>1, <2>2 DEF Rows
  <2>4. approvals' = [approvals EXCEPT ![Of(c).n] = a]
    BY <1>4, <2>1, Zenon
  <2>5. Turned(Of(c).n, a)
    BY <1>1, <2>3, <2>4, RowReplaced DEF Turned
  <2>6. Moves(c)
    BY <1>1, <1>4, <2>2, Forgets
  <2>7. held \subseteq held' /\ held' \subseteq Users \X Roles
    BY <1>4, <2>2 DEF TypeOK
  <2>8. unaided' = IF approvals[Of(c).n].by = Of(c).by
                   THEN unaided \cup {approvals[Of(c).n].role} ELSE unaided
    BY <1>2, <1>4, Zenon
  <2>9. a.by = approvals[Of(c).n].by /\ a.grants = approvals[Of(c).n].grants + 1
    BY <1>2, <2>3
  <2>10. approvals[Of(c).n] \in Rows
    BY <1>2
  <2>11. QED
    BY <1>1, <2>3, <2>5, <2>6, <2>7, <2>8, <2>9, <2>10
<1>5. QED
  <2>1. \/ Finish(c) /\ held' = held /\ approvals' = approvals /\ unaided' = unaided
        \/ /\ held' = held \cup {<<p.user, p.role>>}
           /\ approvals' = [approvals EXCEPT ![Of(c).n] =
                [p EXCEPT !.status = "APPROVED", !.grants = p.grants + 1]]
           /\ unaided' = IF p.by = Of(c).by THEN unaided \cup {p.role} ELSE unaided
           /\ ThenForget(c, p.user)
    BY <1>2, Zenon DEF Commit
  <2>2. QED
    BY <1>3, <1>4, <2>1

LEMMA TurnMoves ==
  ASSUME TypeOK, Shape, NEW c \in Clients, Turn(c)
  PROVE  /\ Moves(c) /\ At(c, "turn") /\ Of(c).n \in 1..Len(approvals)
         /\ \/ approvals' = approvals
            \/ \E a \in Rows :
                 /\ Turned(Of(c).n, a) /\ a.by = approvals[Of(c).n].by
                 /\ a.status = "REJECTED" /\ a.grants = approvals[Of(c).n].grants
<1>1. /\ At(c, "turn") /\ Of(c).kind = "reject" /\ Of(c).n \in 1..Len(approvals)
      /\ approvals \in Seq(Rows)
  BY Known, KindsOf DEF Turn, At, AskFits, Reviews, TypeOK, Rows
<1>2. PICK p \in Rows : p = approvals[Of(c).n]
  BY <1>1, ElementInRange
<1>3. CASE Finish(c) /\ approvals' = approvals
  BY <1>1, <1>3, EndMoves
<1>4. CASE /\ approvals' = [approvals EXCEPT ![Of(c).n].status = "REJECTED"]
           /\ Step(c, "link")
  <2>1. PICK a : a = [p EXCEPT !.status = "REJECTED"]
    OBVIOUS
  <2>2. a \in Rows /\ a.by = p.by /\ a.status = "REJECTED" /\ a.grants = p.grants
    BY <2>1 DEF Rows
  <2>3. approvals' = [approvals EXCEPT ![Of(c).n] = a]
    BY <1>2, <1>4, <2>1, Zenon
  <2>4. Turned(Of(c).n, a)
    BY <1>1, <2>2, <2>3, RowReplaced DEF Turned
  <2>5. Admits(c, "link") /\ Enters(c, "link")
    BY <1>1, KindsOf DEF Admits, Enters, Stages
  <2>6. Moves(c)
    BY <1>4, <2>5, StepMoves
  <2>7. QED
    BY <1>1, <1>2, <2>2, <2>4, <2>6
<1>5. QED
  BY <1>3, <1>4 DEF Turn

-----------------------------------------------------------------------------
(* What the changes of a role do to the hierarchy.                         *)

LEMMA CreateRoleMoves ==
  ASSUME TypeOK, Shape, NEW c \in Clients, CreateRole(c)
  PROVE  /\ Moves(c) /\ At(c, "create") /\ Of(c).role \in Roles
         /\ \/ live' = live /\ parent' = parent /\ sensitive' = sensitive
            \/ /\ Of(c).role \notin live \cup gone /\ live' = live \cup {Of(c).role}
               /\ parent' = [parent EXCEPT ![Of(c).role] = Of(c).parent]
               /\ Of(c).parent \in live \cup {None}
               /\ sensitive' \subseteq sensitive \cup {Of(c).role}
<1>1. At(c, "create") /\ Of(c).kind = "create" /\ Of(c).role \in Roles
  BY Known, KindsOf DEF CreateRole, At, AskFits
<1>2. CASE Finish(c) /\ live' = live /\ parent' = parent /\ sensitive' = sensitive
  BY <1>1, <1>2, EndMoves
<1>3. CASE /\ Of(c).role \notin live \cup gone /\ Of(c).parent \in live \cup {None}
           /\ live' = live \cup {Of(c).role}
           /\ parent' = [parent EXCEPT ![Of(c).role] = Of(c).parent]
           /\ sensitive' \in {sensitive, sensitive \cup {Of(c).role}}
           /\ Step(c, "link")
  <2>1. Admits(c, "link") /\ Enters(c, "link")
    BY <1>1, KindsOf DEF Admits, Enters, Stages
  <2>2. Moves(c)
    BY <1>3, <2>1, StepMoves
  <2>3. QED
    BY <1>1, <1>3, <2>2
<1>4. QED
  BY <1>2, <1>3 DEF CreateRole

\* A change of a role queues the role for the cache to be told.
LEMMA WriteMoves ==
  ASSUME TypeOK, Shape, NEW c \in Clients, Write(c)
  PROVE  /\ Moves(c) /\ At(c, "write") /\ Of(c).role \in Roles
         /\ \/ parent' = parent /\ sensitive' = sensitive /\ granting' = granting
            \/ /\ job'[c].at = "collect" /\ job'[c].todo = {<<Of(c).role, 0>>}
               /\ \/ parent' = parent /\ Of(c).kind # "reparent"
                  \/ /\ Of(c).kind = "reparent" /\ Of(c).role \in live
                     /\ Of(c).parent \in live \cup {None}
                     /\ parent' = [parent EXCEPT ![Of(c).role] = Of(c).parent]
               /\ sensitive' \subseteq sensitive \cup {Of(c).role}
               /\ granting' \subseteq granting \cup {Of(c).role}
               /\ granting \subseteq granting' \cup {Of(c).role}
<1>1. /\ At(c, "write") /\ Of(c).role \in Roles
      /\ Of(c).kind \in {"reparent", "classify", "grant", "withdraw"}
  BY Known, KindsOf DEF Write, At, AskFits, Changes
<1>2. CASE Finish(c) /\ parent' = parent /\ sensitive' = sensitive /\ granting' = granting
  BY <1>1, <1>2, EndMoves
<1>3. CASE /\ Of(c).role \in live \/ Of(c).kind = "withdraw"
           /\ Of(c).kind = "reparent" => Of(c).parent \in live \cup {None}
           /\ parent' = IF Of(c).kind = "reparent"
                        THEN [parent EXCEPT ![Of(c).role] = Of(c).parent] ELSE parent
           /\ sensitive' = IF Of(c).kind # "classify" THEN sensitive
                           ELSE (sensitive \cup {Of(c).role}) \ (sensitive \cap {Of(c).role})
           /\ granting' = CASE Of(c).kind = "grant"    -> granting \cup {Of(c).role}
                            [] Of(c).kind = "withdraw" -> granting \ {Of(c).role}
                            [] OTHER                   -> granting
           /\ ThenCollect(c)
  <2>1. PICK t \in SUBSET (Roles \X Nat) : t = {<<Of(c).role, 0>>}
    <3>1. {<<Of(c).role, 0>>} \in SUBSET (Roles \X Nat)
      BY <1>1
    <3>2. QED
      BY <3>1
  <2>2. job' = [job EXCEPT ![c].at = "collect", ![c].todo = t]
    BY <1>3, <2>1 DEF ThenCollect
  <2>3. "collect" \in Stages /\ Plain("collect") /\ Of(c).kind \in KindsAt("collect")
    BY <1>1, KindsOf DEF Plain, Stages
  <2>4. Goes(c, "collect") /\ job'[c].todo = t
    BY <2>2, <2>3, TodoRead DEF Shape
  <2>5. Moves(c) /\ job'[c].at = "collect" /\ job'[c].todo = {<<Of(c).role, 0>>}
    BY <2>1, <2>3, <2>4, PlainMoves DEF Goes
  <2>6. \/ parent' = parent /\ Of(c).kind # "reparent"
        \/ /\ Of(c).kind = "reparent" /\ Of(c).role \in live
           /\ Of(c).parent \in live \cup {None}
           /\ parent' = [parent EXCEPT ![Of(c).role] = Of(c).parent]
    BY <1>3
  <2>7. sensitive' \subseteq sensitive \cup {Of(c).role}
    BY <1>3
  <2>8. granting' \subseteq granting \cup {Of(c).role} /\ granting \subseteq granting' \cup {Of(c).role}
    BY <1>1, <1>3
  <2>9. QED
    BY <1>1, <2>5, <2>6, <2>7, <2>8
<1>4. QED
  BY <1>2, <1>3, Zenon DEF Write

\* A role that becomes sensitive while it is being assigned is noted.
LEMMA TurnedByWrite ==
  ASSUME NEW c \in Clients, Write(c)
  PROVE  turned' = turned \cup {r \in sensitive' \ sensitive : BeingAssigned(r)}
<1>1. CASE UNCHANGED <<sensitive, turned>>
  BY <1>1
<1>2. QED
  BY <1>1 DEF Write

LEMMA EraseMoves ==
  ASSUME TypeOK, Shape, NEW c \in Clients, Erase(c)
  PROVE  /\ Moves(c) /\ At(c, "erase") /\ Of(c).role \in Roles
         /\ \/ UNCHANGED database
            \/ /\ live' = live \ {Of(c).role} /\ gone' = gone \cup {Of(c).role}
               /\ parent' = [q \in Roles |->
                    IF q = Of(c).role \/ parent[q] = Of(c).role THEN None ELSE parent[q]]
               /\ sensitive' = sensitive \ {Of(c).role} /\ granting' = granting \ {Of(c).role}
               /\ held' = {h \in held : h[2] # Of(c).role}
               /\ Of(c).role \in live
               /\ approvals' \in Seq(Rows) /\ Len(approvals') = Len(approvals)
               /\ \A n \in 1..Len(approvals) :
                    /\ approvals'[n].by = approvals[n].by
                    /\ approvals'[n].grants = approvals[n].grants
                    /\ approvals'[n].status \in {approvals[n].status, "DELETED"}
<1>1. /\ At(c, "erase") /\ Of(c).role \in Roles /\ Of(c).kind = "delete"
  BY Known, KindsOf DEF Erase, At, AskFits
<1>2. CASE Finish(c) /\ UNCHANGED database
  BY <1>1, <1>2, EndMoves
<1>3. CASE /\ Of(c).role \in live /\ live' = live \ {Of(c).role} /\ gone' = gone \cup {Of(c).role}
           /\ parent' = [q \in Roles |->
                IF q = Of(c).role \/ parent[q] = Of(c).role THEN None ELSE parent[q]]
           /\ sensitive' = sensitive \ {Of(c).role} /\ granting' = granting \ {Of(c).role}
           /\ held' = {h \in held : h[2] # Of(c).role}
           /\ approvals' = [n \in 1..Len(approvals) |->
                IF approvals[n].role = Of(c).role
                THEN [approvals[n] EXCEPT !.status = "DELETED"] ELSE approvals[n]]
           /\ Step(c, "link")
  <2>1. approvals \in Seq(Rows)
    BY DEF TypeOK, Rows
  <2>2. ASSUME NEW n \in 1..Len(approvals)
        PROVE  /\ approvals[n] \in Rows /\ [approvals[n] EXCEPT !.status = "DELETED"] \in Rows
               /\ [approvals[n] EXCEPT !.status = "DELETED"].by = approvals[n].by
               /\ [approvals[n] EXCEPT !.status = "DELETED"].grants = approvals[n].grants
               /\ [approvals[n] EXCEPT !.status = "DELETED"].status = "DELETED"
    <3>1. approvals[n] \in Rows
      BY <2>1, ElementInRange
    <3>2. QED
      BY <3>1 DEF Rows
  <2>3. approvals' \in [1..Len(approvals) -> Rows]
    BY <1>3, <2>2
  <2>4. approvals' \in Seq(Rows) /\ Len(approvals') = Len(approvals)
    BY <2>1, <2>3, RowsMapped
  <2>5. ASSUME NEW n \in 1..Len(approvals)
        PROVE  /\ approvals'[n].by = approvals[n].by
               /\ approvals'[n].grants = approvals[n].grants
               /\ approvals'[n].status \in {approvals[n].status, "DELETED"}
    <3>1. \/ approvals'[n] = approvals[n]
          \/ approvals'[n] = [approvals[n] EXCEPT !.status = "DELETED"]
      BY <1>3
    <3>2. QED
      BY <2>2, <3>1
  <2>6. Admits(c, "link") /\ Enters(c, "link")
    BY <1>1, KindsOf DEF Admits, Enters, Stages
  <2>7. Moves(c)
    BY <1>3, <2>6, StepMoves
  <2>8. QED
    BY <1>1, <1>3, <2>4, <2>5, <2>7, Zenon
<1>4. QED
  BY <1>2, <1>3, Zenon DEF Erase

-----------------------------------------------------------------------------
(* Any step of a request.                                                  *)

LEMMA AskParts ==
  ASSUME TypeOK, NEW a \in Asks
  PROVE  a \in AskType /\ a.kind \in Kinds /\ AskFits(a, Len(approvals))
<1>1. Len(approvals) \in Nat
  BY DEF TypeOK
<1>2. ASSUME NEW u \in Users, NEW r \in Roles, NEW b \in Admins,
             a = AskFor("assign", u, r, None, b, 0)
      PROVE  /\ a \in AskType /\ a.kind = "assign"
             /\ a.user \in Users /\ a.role \in Roles /\ a.by \in Admins
  BY <1>2 DEF AskFor, AskType, Kinds
<1>3. ASSUME NEW u \in Users, NEW r \in Roles, a = AskFor("revoke", u, r, None, None, 0)
      PROVE  a \in AskType /\ a.kind = "revoke" /\ a.user \in Users /\ a.role \in Roles
  BY <1>3 DEF AskFor, AskType, Kinds
<1>4. ASSUME NEW k \in Reviews, NEW b \in Admins, NEW n \in 1..Len(approvals),
             a = AskFor(k, None, None, None, b, n)
      PROVE  a \in AskType /\ a.kind \in Reviews /\ a.by \in Admins /\ a.n \in 1..Len(approvals)
  <2>1. n \in Nat /\ k \in Kinds
    BY <1>1 DEF Kinds, Reviews
  <2>2. QED
    BY <1>4, <2>1 DEF AskFor, AskType
<1>5. ASSUME NEW k \in {"reparent", "create"}, NEW r \in Roles, NEW p \in Roles \cup {None},
             a = AskFor(k, None, r, p, None, 0)
      PROVE  a \in AskType /\ a.kind \in {"reparent", "create"} /\ a.role \in Roles
  BY <1>5 DEF AskFor, AskType, Kinds
<1>6. ASSUME NEW k \in {"classify", "delete", "grant", "withdraw"}, NEW r \in Roles,
             a = AskFor(k, None, r, None, None, 0)
      PROVE  /\ a \in AskType /\ a.kind \in {"classify", "delete", "grant", "withdraw"}
             /\ a.role \in Roles
  BY <1>6 DEF AskFor, AskType, Kinds
<1>7. ASSUME NEW u \in Users, a = AskFor("check", u, None, None, None, 0)
      PROVE  a \in AskType /\ a.kind = "check" /\ a.user \in Users
  BY <1>7 DEF AskFor, AskType, Kinds
<1>8. \/ \E u \in Users, r \in Roles, b \in Admins : a = AskFor("assign", u, r, None, b, 0)
      \/ \E u \in Users, r \in Roles : a = AskFor("revoke", u, r, None, None, 0)
      \/ \E k \in Reviews, b \in Admins, n \in 1..Len(approvals) :
           a = AskFor(k, None, None, None, b, n)
      \/ \E k \in {"reparent", "create"}, r \in Roles, p \in Roles \cup {None} :
           a = AskFor(k, None, r, p, None, 0)
      \/ \E k \in {"classify", "delete", "grant", "withdraw"}, r \in Roles :
           a = AskFor(k, None, r, None, None, 0)
      \/ \E u \in Users : a = AskFor("check", u, None, None, None, 0)
  BY DEF Asks
<1>9. /\ a \in AskType
      /\ \/ a.kind = "assign" /\ a.user \in Users /\ a.role \in Roles /\ a.by \in Admins
         \/ a.kind = "revoke" /\ a.user \in Users /\ a.role \in Roles
         \/ a.kind \in Reviews /\ a.by \in Admins /\ a.n \in 1..Len(approvals)
         \/ a.kind \in {"reparent", "create"} /\ a.role \in Roles
         \/ a.kind \in {"classify", "delete", "grant", "withdraw"} /\ a.role \in Roles
         \/ a.kind = "check" /\ a.user \in Users
  BY <1>2, <1>3, <1>4, <1>5, <1>6, <1>7, <1>8, Zenon
<1>10. QED
  BY <1>9 DEF AskFits, Kinds, Reviews, Changes

LEMMA FirstStages ==
  ASSUME NEW k \in Kinds
  PROVE  FirstStage(k) \in {"mine", "pending", "name", "get", "role"} /\ k \in KindsAt(FirstStage(k))
BY KindsOf DEF FirstStage, Kinds, Reviews

LEMMA SubmitMoves ==
  ASSUME TypeOK, Shape, NEW c \in Clients, NEW a \in Asks, Submit(c, a)
  PROVE  /\ ~Busy(c) /\ Others(c) /\ job' \in [Clients -> JobType]
         /\ Of(c)' = a /\ a \in AskType /\ a.kind \in Kinds /\ AskFits(a, Len(approvals))
         /\ job'[c].at = FirstStage(a.kind)
         /\ job'[c].at \in {"mine", "pending", "name", "get", "role"}
         /\ a.kind \in KindsAt(job'[c].at)
         /\ job'[c].todo = {} /\ job'[c].roles = {} /\ job'[c].flag = FALSE
         /\ (job'[c].clean => ~Writing)
         /\ \A d \in Clients \ {c} : job'[d].clean => a.kind \notin Writers
<1>1. a \in AskType /\ a.kind \in Kinds /\ AskFits(a, Len(approvals))
  BY AskParts
<1>2. /\ FirstStage(a.kind) \in {"mine", "pending", "name", "get", "role"}
      /\ a.kind \in KindsAt(FirstStage(a.kind))
  BY <1>1, FirstStages
<1>3. PICK s \in Stages : s = FirstStage(a.kind)
  BY <1>2 DEF Stages
<1>4. PICK b \in BOOLEAN : b = ~Writing
  <2>1. WITNESS (~Writing) \in BOOLEAN
  <2>2. QED
    OBVIOUS
<1>5. PICK w \in BOOLEAN : w = (a.kind \notin Writers)
  <2>1. WITNESS (a.kind \notin Writers) \in BOOLEAN
  <2>2. QED
    OBVIOUS
<1>6. PICK r : r = [Idle EXCEPT !.at = s, !.ask = a, !.clean = b]
  OBVIOUS
<1>7. /\ r \in JobType /\ r.at = s /\ r.ask = a /\ r.clean = b /\ r.todo = {} /\ r.roles = {}
      /\ r.flag = FALSE
  BY <1>1, <1>6, IdleRow DEF JobType, Idle
<1>8. job'[c] = r
  BY <1>3, <1>4, <1>6, Zenon DEF Submit
<1>9. ASSUME NEW d \in Clients \ {c}
      PROVE  /\ job'[d] \in JobType /\ job'[d].at = job[d].at /\ Of(d)' = Of(d)
             /\ job'[d].todo = job[d].todo /\ job'[d].roles = job[d].roles
             /\ job'[d].users = job[d].users /\ job'[d].flag = job[d].flag
             /\ job'[d].found = job[d].found /\ job'[d].now = job[d].now
             /\ (job'[d].clean => job[d].clean /\ w)
  <2>1. PICK j \in JobType : j = job[d]
    BY DEF Shape
  <2>2. PICK v \in BOOLEAN : v = (j.clean /\ w)
    <3>1. WITNESS (j.clean /\ w) \in BOOLEAN
    <3>2. QED
      OBVIOUS
  <2>3. job'[d] = [j EXCEPT !.clean = v]
    <3>1. job'[d] = [job[d] EXCEPT !.clean = job[d].clean /\ a.kind \notin Writers]
      BY <1>9 DEF Submit
    <3>2. QED
      BY <1>5, <2>1, <2>2, <3>1, Zenon
  <2>4. PICK i : i = [j EXCEPT !.clean = v]
    OBVIOUS
  <2>5. /\ i \in JobType /\ i.at = j.at /\ i.ask = j.ask /\ i.todo = j.todo /\ i.roles = j.roles
        /\ i.users = j.users /\ i.flag = j.flag /\ i.found = j.found /\ i.now = j.now
        /\ i.clean = v
    BY <2>4 DEF JobType
  <2>6. QED
    BY <2>1, <2>2, <2>3, <2>4, <2>5 DEF Of
<1>10. job' \in [Clients -> JobType]
  <2>1. \A d \in Clients : job'[d] \in JobType
    BY <1>7, <1>8, <1>9
  <2>2. job' = [d \in Clients |-> job'[d]]
    BY DEF Submit
  <2>3. QED
    BY <2>1, <2>2
<1>11. Others(c)
  BY <1>9 DEF Others
<1>12. QED
  BY <1>1, <1>2, <1>3, <1>4, <1>5, <1>7, <1>8, <1>9, <1>10, <1>11 DEF Submit, Of

LEMMA WorkMoves ==
  ASSUME TypeOK, Shape, NEW c \in Clients, Work(c) \/ Breaks(c)
  PROVE  Moves(c)
BY EndMoves, ReadRoleMoves, ReadsMove, ClimbMoves, LinkMoves, CollectMoves, HoldersMoves,
   ForgetMoves, ReadRolesMoves, WalkMoves, ReadCodesMoves, RequestMoves, GiveMoves, DropMoves,
   CommitMoves, TurnMoves, CreateRoleMoves, WriteMoves, EraseMoves
   DEF Work, Breaks, Log, Store

Acts(c) == Work(c) \/ Breaks(c) \/ \E a \in Asks : Submit(c, a)

\* A step that changes the request alone.
Quiet == UNCHANGED <<database, cache, log, clock, requests, crowd, history>>

QuietSteps(c) ==
  \/ ReadRole(c) \/ ReadHeldRole(c) \/ ReadPending(c) \/ ReadHeldAgain(c) \/ ReadOwn(c)
  \/ ReadName(c) \/ ReadParent(c) \/ Climb(c) \/ Collect(c) \/ Holders(c) \/ Count(c)
  \/ Get(c) \/ ReadRoles(c) \/ Walk(c) \/ ReadCodes(c)

LEMMA QuietUnchanged ==
  ASSUME NEW c \in Clients, QuietSteps(c)
  PROVE  Quiet
BY DEF QuietSteps, Quiet, ReadRole, ReadHeldRole, ReadPending, ReadHeldAgain, ReadOwn, ReadName,
       ReadParent, Climb, Collect, Holders, Count, Get, ReadRoles, Walk, ReadCodes

LEMMA StepCases ==
  ASSUME NEW c \in Clients, Acts(c)
  PROVE  \/ QuietSteps(c) \/ Request(c) \/ Give(c) \/ Commit(c) \/ Turn(c) \/ Drop(c)
         \/ CreateRole(c) \/ Write(c) \/ Forget(c) \/ Erase(c) \/ Link(c) \/ Log(c) \/ Store(c)
         \/ Breaks(c) \/ \E a \in Asks : Submit(c, a)
BY DEF Acts, Work, QuietSteps

\* The variables apart from job keep their types.
RestFits ==
  /\ live \subseteq Roles /\ gone \subseteq Roles
  /\ parent \in [Roles -> Roles \cup {None}]
  /\ sensitive \subseteq Roles /\ granting \subseteq Roles
  /\ held \subseteq Users \X Roles
  /\ approvals \in Seq(Rows)
  /\ cache \in [Users -> Cached]
  /\ log \subseteq Entries /\ clock \in Nat
  /\ requests \in Nat
  /\ crowd \in [Groups -> Nat]
  /\ unaided \subseteq Roles /\ turned \subseteq Roles
  /\ unforgotten \in BOOLEAN

LEMMA TypeParts == TypeOK <=> RestFits /\ \A c \in Clients : job[c].at \in Stages
BY DEF TypeOK, RestFits, Rows

\* What never shrinks.
Grows == /\ live \cup gone \subseteq live' \cup gone'
         /\ Len(approvals) <= Len(approvals') /\ clock <= clock'

Keeps == RestFits' /\ HierarchyFits' /\ LogFits' /\ Grows

LEMMA Unmoved ==
  ASSUME TypeOK, Shape, UNCHANGED <<live, gone, parent>>
  PROVE  HierarchyFits' /\ \A r : ParentOf(r)' = ParentOf(r)
BY DEF Shape, HierarchyFits, ParentOf

LEMMA KeptBySmall ==
  ASSUME TypeOK, Shape, NEW c \in Clients,
         QuietSteps(c) \/ Request(c) \/ Give(c) \/ Commit(c) \/ Turn(c) \/ Drop(c)
  PROVE  Keeps /\ UNCHANGED <<live, gone, parent, sensitive, granting, cache, log, clock, crowd>>
<1>1. UNCHANGED <<live, gone, parent, sensitive, granting, cache, log, clock, crowd, requests,
                  turned, unforgotten>>
  BY QuietUnchanged DEF Quiet, Request, Give, Commit, Turn, Drop, database, history
<1>2. HierarchyFits' /\ LogFits'
  BY <1>1, Unmoved DEF Shape, LogFits
<1>3. /\ held' \subseteq Users \X Roles /\ approvals' \in Seq(Rows) /\ unaided' \subseteq Roles
      /\ Len(approvals) <= Len(approvals')
  <2>0. /\ held \subseteq Users \X Roles /\ approvals \in Seq(Rows) /\ unaided \subseteq Roles
        /\ Len(approvals) \in Nat
    BY TypeParts DEF RestFits
  <2>1. CASE QuietSteps(c)
    BY <2>0, <2>1, QuietUnchanged DEF Quiet, database, history
  <2>2. CASE Request(c)
    <3>1. held' = held /\ unaided' = unaided
      BY <2>2 DEF Request, history
    <3>2. approvals' \in Seq(Rows) /\ Len(approvals) <= Len(approvals')
      BY <2>2, RequestMoves DEF Rows
    <3>3. QED
      BY <2>0, <3>1, <3>2
  <2>3. CASE Give(c)
    <3>1. approvals' = approvals
      BY <2>3 DEF Give
    <3>2. QED
      BY <2>0, <2>3, <3>1, GiveMoves
  <2>4. CASE Commit(c)
    <3>1. /\ held' \subseteq Users \X Roles /\ approvals[Of(c).n].role \in Roles
          /\ approvals' = approvals \/ \E n, a : Turned(n, a)
          /\ \/ unaided' = unaided
             \/ unaided' = IF approvals[Of(c).n].by = Of(c).by
                           THEN unaided \cup {approvals[Of(c).n].role} ELSE unaided
      BY <2>4, CommitMoves DEF Rows
    <3>2. approvals' \in Seq(Rows) /\ Len(approvals) <= Len(approvals')
      BY <2>0, <3>1 DEF Turned
    <3>3. QED
      BY <2>0, <3>1, <3>2
  <2>5. CASE Turn(c)
    <3>1. held' = held /\ unaided' = unaided
      BY <2>5 DEF Turn, history
    <3>2. approvals' \in Seq(Rows) /\ Len(approvals) <= Len(approvals')
      BY <2>0, <2>5, TurnMoves DEF Turned
    <3>3. QED
      BY <2>0, <3>1, <3>2
  <2>6. CASE Drop(c)
    <3>1. approvals' = approvals /\ unaided' = unaided
      BY <2>6 DEF Drop, history
    <3>2. QED
      BY <2>0, <2>6, <3>1, DropMoves
  <2>7. QED
    BY <2>1, <2>2, <2>3, <2>4, <2>5, <2>6
<1>4. RestFits'
  BY <1>1, <1>3, TypeParts DEF RestFits
<1>5. QED
  BY <1>1, <1>2, <1>3, <1>4, TypeParts DEF Keeps, Grows, RestFits

LEMMA KeptByRoles ==
  ASSUME TypeOK, Shape, NEW c \in Clients, CreateRole(c) \/ Write(c) \/ Erase(c)
  PROVE  Keeps /\ UNCHANGED <<cache, log, clock, crowd>>
<1>1. /\ UNCHANGED <<cache, log, clock, crowd, requests, unforgotten, unaided>>
      /\ turned' \subseteq turned \cup sensitive'
  BY TurnedByWrite DEF CreateRole, Write, Erase, history
<1>2. LogFits' /\ RestFits
  BY <1>1, TypeParts DEF Shape, LogFits
<1>3. CASE CreateRole(c)
  <2>1. UNCHANGED <<gone, granting, held, approvals>>
    BY <1>3 DEF CreateRole
  <2>2. CASE UNCHANGED <<live, parent, sensitive>>
    <3>1. RestFits' /\ Grows /\ HierarchyFits'
      BY <1>1, <1>2, <2>1, <2>2, Unmoved DEF RestFits, Grows
    <3>2. QED
      BY <1>1, <1>2, <3>1 DEF Keeps
  <2>3. CASE /\ Of(c).role \in Roles
             /\ Of(c).role \notin live \cup gone /\ live' = live \cup {Of(c).role}
             /\ parent' = [parent EXCEPT ![Of(c).role] = Of(c).parent]
             /\ Of(c).parent \in live \cup {None}
             /\ sensitive' \subseteq sensitive \cup {Of(c).role}
    <3>1. RestFits' /\ Grows
      BY <1>1, <1>2, <2>1, <2>3 DEF RestFits, Grows
    <3>2. HierarchyFits'
      BY <1>2, <2>1, <2>3, AccessFits DEF RestFits, HierarchyFits, ParentOf, Shape
    <3>3. QED
      BY <1>1, <1>2, <3>1, <3>2 DEF Keeps
  <2>4. QED
    BY <1>3, <2>2, <2>3, CreateRoleMoves
<1>4. CASE Write(c)
  <2>1. UNCHANGED <<live, gone, held, approvals>>
    BY <1>4 DEF Write
  <2>2. /\ Of(c).role \in Roles
        /\ parent' \in {parent, [parent EXCEPT ![Of(c).role] = Of(c).parent]}
        /\ parent' # parent => Of(c).parent \in live \cup {None}
        /\ sensitive' \subseteq sensitive \cup {Of(c).role}
        /\ granting' \subseteq granting \cup {Of(c).role}
    BY <1>4, WriteMoves
  <2>3. RestFits' /\ Grows
    BY <1>1, <1>2, <2>1, <2>2 DEF RestFits, Grows
  <2>4. HierarchyFits'
    BY <1>2, <2>1, <2>2 DEF RestFits, HierarchyFits, ParentOf, Shape
  <2>5. QED
    BY <1>1, <1>2, <2>3, <2>4 DEF Keeps
<1>5. CASE Erase(c)
  <2>1. CASE UNCHANGED database
    <3>1. RestFits' /\ Grows /\ HierarchyFits'
      BY <1>1, <1>2, <2>1, Unmoved DEF RestFits, Grows, database
    <3>2. QED
      BY <1>1, <1>2, <3>1 DEF Keeps
  <2>2. CASE ~UNCHANGED database
    <3>1. /\ live' = live \ {Of(c).role} /\ gone' = gone \cup {Of(c).role}
          /\ parent' = [q \in Roles |->
               IF q = Of(c).role \/ parent[q] = Of(c).role THEN None ELSE parent[q]]
          /\ sensitive' = sensitive \ {Of(c).role} /\ granting' = granting \ {Of(c).role}
          /\ held' = {h \in held : h[2] # Of(c).role}
          /\ Of(c).role \in live /\ Of(c).role \in Roles
          /\ approvals' \in Seq(Rows) /\ Len(approvals') = Len(approvals)
      BY <1>5, <2>2, EraseMoves
    <3>2. RestFits' /\ Grows
      BY <1>1, <1>2, <3>1 DEF RestFits, Grows
    <3>3. HierarchyFits'
      BY <1>2, <3>1 DEF RestFits, HierarchyFits, ParentOf, Shape
    <3>4. QED
      BY <1>1, <1>2, <3>2, <3>3 DEF Keeps
  <2>3. QED
    BY <2>1, <2>2
<1>6. QED
  BY <1>3, <1>4, <1>5

LEMMA FiniteParts ==
  ASSUME NEW S \in SUBSET Clients
  PROVE  IsFiniteSet(S) /\ Cardinality(S) \in Nat
BY AccessFits, FS_Subset, FS_CardinalityType

LEMMA LogMoves ==
  ASSUME TypeOK, Shape, NEW c \in Clients, Log(c)
  PROVE  /\ At(c, "log")
         /\ \E e \in Entries :
              /\ log' = log \cup {e} /\ e.createdAt = job[c].now
              /\ job[c].found = Undefined => e.previousHash = Null
              /\ job[c].found # Undefined => e.previousHash = job[c].found
<1>1. At(c, "log") /\ job[c].found \in Nat /\ job[c].now \in Nat
  BY Known DEF Log
<1>2. PICK e : e = Entry(job[c].found, job[c].now)
  OBVIOUS
<1>3. log' = log \cup {e}
  BY <1>2, Zenon DEF Log
<1>4. e = [createdAt |-> job[c].now,
           previousHash |-> IF job[c].found = Undefined THEN Null ELSE job[c].found]
  BY <1>2 DEF Entry
<1>5. /\ e \in Entries /\ e.createdAt = job[c].now
      /\ job[c].found = Undefined => e.previousHash = Null
      /\ job[c].found # Undefined => e.previousHash = job[c].found
  BY <1>1, <1>4 DEF Entries
<1>6. QED
  BY <1>1, <1>3, <1>5

LEMMA KeptByRest ==
  ASSUME TypeOK, Shape, NEW c \in Clients,
         \/ Forget(c) \/ Link(c) \/ Log(c) \/ Store(c) \/ Breaks(c) \/ \E a \in Asks : Submit(c, a)
  PROVE  Keeps /\ UNCHANGED database
<1>1. UNCHANGED database /\ RestFits
  BY TypeParts DEF Forget, Link, Log, Store, Breaks, Submit
<1>2. HierarchyFits' /\ Len(approvals) \in Nat /\ clock \in Nat
  BY <1>1, Unmoved DEF database, RestFits
<1>3. ASSUME log' = log, clock' = clock PROVE LogFits'
  BY <1>3 DEF Shape, LogFits
<1>4. CASE Forget(c)
  <2>1. UNCHANGED <<log, clock, requests, crowd, unaided, turned, unforgotten>>
    BY <1>4 DEF Forget, history
  <2>2. cache' \in [Users -> Cached]
    <3>1. Absent \in Cached
      BY DEF Absent, Cached
    <3>2. cache' = cache \/ \E u : cache' = [cache EXCEPT ![u] = Absent]
      BY <1>4, ForgetMoves
    <3>3. QED
      BY <1>1, <3>1, <3>2 DEF RestFits
  <2>3. QED
    BY <1>1, <1>2, <1>3, <2>1, <2>2 DEF Keeps, Grows, RestFits, database
<1>5. CASE Link(c)
  <2>1. UNCHANGED <<log, cache, requests, crowd, unaided, turned, unforgotten>> /\ clock' = clock + 1
    BY <1>5 DEF Link, history
  <2>2. LogFits'
    BY <1>1, <1>2, <2>1 DEF Shape, LogFits, RestFits, Entries
  <2>3. clock' \in Nat /\ clock <= clock'
    BY <1>2, <2>1
  <2>4. QED
    BY <1>1, <1>2, <2>1, <2>2, <2>3 DEF Keeps, Grows, RestFits, database
<1>6. CASE Log(c)
  <2>1. UNCHANGED <<clock, cache, requests, crowd, unaided, turned, unforgotten>>
    BY <1>6 DEF Log, history
  <2>2. PICK e \in Entries : log' = log \cup {e} /\ e.createdAt = job[c].now /\ At(c, "log")
    BY <1>6, LogMoves
  <2>3. 0 < job[c].now /\ job[c].now <= clock
    BY <2>2 DEF At, Shape, StageFits
  <2>4. LogFits' /\ log' \subseteq Entries
    BY <1>1, <2>1, <2>2, <2>3 DEF Shape, LogFits, RestFits
  <2>5. QED
    BY <1>1, <1>2, <2>1, <2>4 DEF Keeps, Grows, RestFits, database
<1>7. CASE Store(c)
  <2>1. UNCHANGED <<log, clock, requests, crowd, unaided, turned, unforgotten>>
    BY <1>7 DEF Store, history
  <2>2. PICK x : x = [kept |-> TRUE, has |-> job[c].flag, clean |-> job[c].clean]
    OBVIOUS
  <2>3. x \in Cached
    BY <2>2, Known DEF Cached
  <2>4. cache' = [cache EXCEPT ![Of(c).user] = x]
    BY <1>7, <2>2, Zenon DEF Store
  <2>5. cache' \in [Users -> Cached]
    BY <1>1, <2>3, <2>4 DEF RestFits
  <2>6. QED
    BY <1>1, <1>2, <1>3, <2>1, <2>5 DEF Keeps, Grows, RestFits, database
<1>8. CASE Breaks(c)
  <2>1. UNCHANGED <<log, clock, cache, requests, crowd, unaided, turned>> /\ unforgotten' \in BOOLEAN
    BY <1>8 DEF Breaks
  <2>2. QED
    BY <1>1, <1>2, <1>3, <2>1 DEF Keeps, Grows, RestFits, database
<1>9. ASSUME NEW a \in Asks, Submit(c, a) PROVE Keeps
  <2>1. UNCHANGED <<log, clock, cache, unaided, turned, unforgotten>> /\ requests' = requests + 1
    BY <1>9 DEF Submit, history
  <2>2. crowd' \in [Groups -> Nat]
    <3>1. ASSUME NEW g \in Groups PROVE crowd'[g] \in Nat
      <4>1. PICK S \in SUBSET Clients :
              S = {d \in Clients : IF d = c THEN a.kind \in Members(g)
                                            ELSE Of(d).kind \in Members(g)}
        OBVIOUS
      <4>2. crowd'[g] = IF Cardinality(S) > crowd[g] THEN Cardinality(S) ELSE crowd[g]
        BY <1>9, <4>1 DEF Submit
      <4>3. QED
        BY <1>1, <4>2, FiniteParts DEF RestFits
    <3>2. crowd' = [g \in Groups |-> crowd'[g]]
      BY <1>9 DEF Submit
    <3>3. QED
      BY <3>1, <3>2
  <2>3. requests' \in Nat
    BY <1>1, <2>1 DEF RestFits
  <2>4. QED
    BY <1>1, <1>2, <1>3, <2>1, <2>2, <2>3 DEF Keeps, Grows, RestFits, database
<1>10. QED
  BY <1>1, <1>4, <1>5, <1>6, <1>7, <1>8, <1>9

LEMMA KeptByStep ==
  ASSUME TypeOK, Shape, NEW c \in Clients, Acts(c)
  PROVE  Keeps
BY StepCases, KeptBySmall, KeptByRoles, KeptByRest

\* Nothing else is asked of a request, and others are where they were.
LEMMA StageStep ==
  ASSUME TypeOK, Shape, NEW c \in Clients, Acts(c)
  PROVE  job' \in [Clients -> JobType] /\ Others(c) /\ \A d \in Clients : StageFits(d)'
<1>1. Grows
  BY KeptByStep DEF Keeps
<1>2. Len(approvals) \in Nat /\ Len(approvals') \in Nat /\ clock \in Nat /\ clock' \in Nat
  BY KeptByStep, TypeParts DEF Keeps, RestFits
<1>3. \A d \in Clients : StageFits(d) /\ Of(d) \in AskType /\ job[d].now \in Nat
  BY Known DEF Shape
<1>4. ASSUME NEW a, AskFits(a, Len(approvals)) PROVE AskFits(a, Len(approvals'))
  BY <1>1, <1>2, <1>4 DEF AskFits, Grows
<1>5. ASSUME NEW d \in Clients \ {c}, Others(c) PROVE StageFits(d)'
  <2>1. job'[d].at = job[d].at /\ Of(d)' = Of(d) /\ job'[d].now = job[d].now
    BY <1>5 DEF Others
  <2>2. AskFits(Of(d)', Len(approvals'))
    BY <1>3, <1>4, <2>1 DEF StageFits
  <2>3. QED
    BY <1>1, <1>2, <1>3, <2>1, <2>2 DEF StageFits, Grows
<1>6. CASE Moves(c)
  <2>1. CASE Over(c)
    <3>1. StageFits(c)'
      BY <2>1, KindsOf DEF Over, StageFits, AskFits, Reviews, Changes
    <3>2. QED
      BY <1>5, <2>1, <3>1 DEF Over
  <2>2. ASSUME NEW s \in Stages, Goes(c, s), Admits(c, s), Enters(c, s)
        PROVE  Others(c) /\ job' \in [Clients -> JobType] /\ StageFits(c)'
    <3>1. job'[c].at = s /\ Of(c)' = Of(c)
      BY <2>2 DEF Goes
    <3>2. AskFits(Of(c)', Len(approvals'))
      BY <1>3, <1>4, <3>1 DEF StageFits
    <3>3. s = "log" => 0 < job'[c].now /\ job'[c].now <= clock'
      BY <1>2, <2>2 DEF Enters
    <3>4. QED
      BY <1>1, <2>2, <3>1, <3>2, <3>3 DEF Goes, Admits, StageFits, Grows
  <2>3. QED
    BY <1>5, <1>6, <2>1, <2>2 DEF Moves
<1>7. ASSUME NEW a \in Asks, Submit(c, a)
      PROVE  Others(c) /\ job' \in [Clients -> JobType] /\ StageFits(c)'
  <2>1. AskFits(a, Len(approvals'))
    BY <1>4, <1>7, SubmitMoves
  <2>2. AskFits(Of(c)', Len(approvals'))
    BY <1>7, <2>1, SubmitMoves
  <2>3. QED
    BY <1>7, <2>2, SubmitMoves DEF StageFits
<1>8. QED
  BY <1>5, <1>6, <1>7, WorkMoves DEF Acts

LEMMA NextCases ==
  ASSUME [Next]_vars
  PROVE  \/ \E c \in Clients : Acts(c)
         \/ \E u \in Users : Expires(u)
         \/ UNCHANGED vars
BY DEF Next, Acts

LEMMA InitTypes == Init => TypeOK /\ Shape
<1> SUFFICES ASSUME Init PROVE TypeOK /\ Shape
  OBVIOUS
<1>1. approvals \in Seq(Rows)
  <2>1. InitAsked \in Seq([user : Users, role : Seeded, by : Admins]) /\ Seeded \subseteq Roles
    BY AccessFits
  <2>2. ASSUME NEW n \in 1..Len(InitAsked)
        PROVE  [user |-> InitAsked[n].user, role |-> InitAsked[n].role, by |-> InitAsked[n].by,
                status |-> "PENDING", grants |-> 0] \in Rows
    <3>1. InitAsked[n] \in [user : Users, role : Seeded, by : Admins]
      BY <2>1, ElementInRange
    <3>2. QED
      BY <2>1, <3>1 DEF Rows
  <2>3. approvals \in [1..Len(InitAsked) -> Rows]
    BY <2>2 DEF Init
  <2>4. Len(InitAsked) \in Nat
    BY <2>1
  <2>5. QED
    BY <2>3, <2>4
<1>2. RestFits
  BY <1>1, AccessFits DEF Init, RestFits, Cached, Absent, Groups
<1>3. job \in [Clients -> JobType] /\ \A c \in Clients : job[c].at = "idle" /\ Of(c) = Ask
  BY IdleRow DEF Init, Of
<1>4. \A c \in Clients : StageFits(c)
  BY <1>3, IdleRow, KindsOf DEF StageFits, AskFits, Reviews, Changes
<1>5. HierarchyFits /\ LogFits
  BY AccessFits DEF Init, HierarchyFits, LogFits, ParentOf
<1>6. QED
  BY <1>2, <1>3, <1>4, <1>5, TypeParts DEF Shape, Stages

LEMMA TypeInductive == TypeOK /\ Shape /\ [Next]_vars => (TypeOK /\ Shape)'
<1> SUFFICES ASSUME TypeOK, Shape, [Next]_vars PROVE TypeOK' /\ Shape'
  OBVIOUS
<1>1. ASSUME NEW c \in Clients, Acts(c) PROVE TypeOK' /\ Shape'
  <2>1. Keeps /\ job' \in [Clients -> JobType] /\ \A d \in Clients : StageFits(d)'
    BY <1>1, KeptByStep, StageStep
  <2>2. Shape'
    BY <2>1 DEF Shape, Keeps
  <2>3. \A d \in Clients : job'[d].at \in Stages
    BY <2>1 DEF JobType
  <2>4. TypeOK'
    BY <2>1, <2>3 DEF Keeps, TypeOK, RestFits, Rows
  <2>5. QED
    BY <2>2, <2>4
<1>2. ASSUME NEW u \in Users, Expires(u) PROVE TypeOK' /\ Shape'
  <2>1. UNCHANGED <<live, gone, parent, sensitive, granting, held, approvals, log, clock, job,
                    requests, crowd, unaided, turned, unforgotten>>
    BY <1>2 DEF Expires, database, history
  <2>2. cache' \in [Users -> Cached]
    BY <1>2 DEF Expires, TypeOK, Absent, Cached
  <2>3. TypeOK'
    BY <2>1, <2>2 DEF TypeOK
  <2>4. \A c \in Clients : StageFits(c)'
    BY <2>1 DEF Shape, StageFits, AskFits, Of
  <2>5. QED
    BY <2>1, <2>3, <2>4, Unmoved DEF Shape, LogFits
<1>3. CASE UNCHANGED vars
  <2>1. UNCHANGED <<live, gone, parent, sensitive, granting, held, approvals, cache, log, clock,
                    job, requests, crowd, unaided, turned, unforgotten>>
    BY <1>3 DEF vars, database, history
  <2>2. \A c \in Clients : StageFits(c)'
    BY <2>1 DEF Shape, StageFits, AskFits, Of
  <2>3. QED
    BY <2>1, <2>2, Unmoved DEF Shape, LogFits, TypeOK
<1>4. QED
  BY <1>1, <1>2, <1>3, NextCases

\* TypeOK: the tables keep their form, no id comes back, a parent exists, and every
\* request is where its kind can take it.
THEOREM AccessTypeCorrect == Spec => [](TypeOK /\ Shape)
<1>1. QED
  BY InitTypes, TypeInductive, PTL DEF Spec

-----------------------------------------------------------------------------
(* Requests that overlap.                                                  *)

InGroup(g) == {c \in Clients : Of(c).kind \in Members(g)}

\* crowd has seen every overlap.
Crowded == \A g \in Groups : Cardinality(InGroup(g)) <= crowd[g]

LEMMA MembersOf ==
  /\ Members("writers") = Writers /\ Members("reviews") = Reviews
  /\ Members("reparents") = {"reparent"} /\ {"writers", "reviews", "reparents"} \subseteq Groups
  /\ \A g \in Groups : "none" \notin Members(g)
BY DEF Members, Groups, Kinds, Writers, Reviews

LEMMA CrowdStep ==
  ASSUME TypeOK, Shape, Crowded, NEW c \in Clients, Acts(c)
  PROVE  Crowded' /\ \A g \in Groups : crowd[g] \in Nat /\ crowd'[g] \in Nat /\ crowd[g] <= crowd'[g]
<1>1. Others(c) /\ \A g \in Groups : crowd[g] \in Nat /\ crowd'[g] \in Nat
  BY StageStep, KeptByStep, TypeParts DEF Keeps, RestFits
<1>2. \A g : InGroup(g) \in SUBSET Clients /\ InGroup(g)' \in SUBSET Clients
  BY DEF InGroup
<1>3. CASE Work(c) \/ Breaks(c)
  <2>1. crowd' = crowd
    <3>1. \/ QuietSteps(c) \/ Request(c) \/ Give(c) \/ Commit(c) \/ Turn(c) \/ Drop(c)
          \/ CreateRole(c) \/ Write(c) \/ Forget(c) \/ Erase(c) \/ Link(c) \/ Log(c) \/ Store(c)
          \/ Breaks(c)
      BY <1>3 DEF Work, QuietSteps
    <3>2. QED
      BY <3>1, KeptBySmall, KeptByRoles DEF Forget, Link, Log, Store, Breaks
  <2>2. ASSUME NEW g \in Groups PROVE Cardinality(InGroup(g)') <= crowd'[g] /\ crowd[g] <= crowd'[g]
    <3>1. Of(c)' = Of(c) \/ Of(c)'.kind = "none"
      BY <1>3, WorkMoves DEF Moves, Over, Goes
    <3>2. InGroup(g)' \in SUBSET InGroup(g)
      BY <1>1, <3>1, MembersOf DEF InGroup, Others
    <3>3. PICK x \in Nat, y \in Nat :
            x = Cardinality(InGroup(g)') /\ y = Cardinality(InGroup(g)) /\ x <= y
      BY <1>2, <3>2, FiniteParts, FS_Subset
    <3>4. y <= crowd[g]
      BY <3>3 DEF Crowded
    <3>5. QED
      BY <1>1, <2>1, <3>3, <3>4
  <2>3. QED
    BY <1>1, <2>2 DEF Crowded
<1>4. ASSUME NEW a \in Asks, Submit(c, a)
      PROVE  Crowded' /\ \A g \in Groups : crowd[g] <= crowd'[g]
  <2>1. ASSUME NEW g \in Groups PROVE Cardinality(InGroup(g)') <= crowd'[g] /\ crowd[g] <= crowd'[g]
    <3>1. InGroup(g)' = {d \in Clients : IF d = c THEN a.kind \in Members(g)
                                                  ELSE Of(d).kind \in Members(g)}
      BY <1>1, <1>4, SubmitMoves DEF InGroup, Others
    <3>2. PICK x \in Nat : x = Cardinality(InGroup(g)')
      BY <1>2, FiniteParts
    <3>3. crowd'[g] = IF x > crowd[g] THEN x ELSE crowd[g]
      BY <1>4, <3>1, <3>2 DEF Submit
    <3>4. QED
      BY <1>1, <3>2, <3>3
  <2>2. QED
    BY <2>1 DEF Crowded
<1>5. QED
  BY <1>1, <1>3, <1>4 DEF Acts

\* Without an overlap there is one request of the group.
LEMMA Alone ==
  ASSUME TypeOK, Crowded, NEW g \in Groups, crowd[g] <= 1, NEW c \in Clients, NEW d \in Clients,
         Of(c).kind \in Members(g), Of(d).kind \in Members(g)
  PROVE  c = d
<1>1. SUFFICES ASSUME c # d PROVE FALSE
  OBVIOUS
<1>2. {c, d} \in SUBSET InGroup(g) /\ InGroup(g) \in SUBSET Clients
  BY DEF InGroup
<1>3. IsFiniteSet(InGroup(g)) /\ Cardinality(InGroup(g)) \in Nat /\ Cardinality({c, d}) \in Nat
  BY <1>2, FiniteParts
<1>4. Cardinality({c, d}) <= Cardinality(InGroup(g))
  BY <1>2, <1>3, FS_Subset
<1>5. Cardinality({c, d}) = 2
  <2>1. {c, d} = {c} \cup {d} /\ IsFiniteSet({c}) /\ Cardinality({c}) = 1 /\ d \notin {c}
    BY <1>1, FS_Singleton
  <2>2. Cardinality({c} \cup {d}) = Cardinality({c}) + 1
    BY <2>1, FS_AddElement
  <2>3. QED
    BY <2>1, <2>2
<1>6. crowd[g] \in Nat /\ Cardinality(InGroup(g)) <= crowd[g]
  BY DEF Crowded, TypeOK
<1>7. QED
  BY <1>3, <1>4, <1>5, <1>6

LEMMA InitCrowd == Init => Crowded
<1> SUFFICES ASSUME Init PROVE Crowded
  OBVIOUS
<1>1. ASSUME NEW g \in Groups PROVE InGroup(g) = {}
  BY MembersOf, IdleRow DEF InGroup, Init, Of
<1>2. \A g \in Groups : crowd[g] = 0
  BY DEF Init
<1>3. QED
  BY <1>1, <1>2, FS_EmptySet DEF Crowded

\* Steps that are no request's: an entry of the cache expires, or nothing happens.
Aside == UNCHANGED <<live, gone, parent, sensitive, granting, held, approvals, log, clock, job,
                     crowd, unaided, turned, unforgotten>>

LEMMA StepOrAside ==
  ASSUME [Next]_vars
  PROVE  (\E c \in Clients : Acts(c)) \/ Aside
BY NextCases DEF Aside, Expires, vars, database, history

LEMMA CrowdInductive == TypeOK /\ Shape /\ Crowded /\ [Next]_vars => Crowded'
<1> SUFFICES ASSUME TypeOK, Shape, Crowded, [Next]_vars PROVE Crowded'
  OBVIOUS
<1>1. CASE Aside
  BY <1>1 DEF Aside, Crowded, InGroup, Of
<1>2. QED
  BY <1>1, CrowdStep, StepOrAside

\* Requests of one group that are under way at once are no more than ever overlapped.
LEMMA Within ==
  ASSUME TypeOK, Crowded, NEW g \in Groups, NEW S \in SUBSET InGroup(g)
  PROVE  /\ Cardinality(S) \in Nat /\ Together(g) \in Nat
         /\ Cardinality(S) <= Together(g)
<1>1. InGroup(g) \in SUBSET Clients /\ S \in SUBSET Clients
  BY DEF InGroup
<1>2. PICK x \in Nat, y \in Nat : x = Cardinality(S) /\ y = Cardinality(InGroup(g)) /\ x <= y
  BY <1>1, FiniteParts, FS_Subset
<1>3. crowd[g] \in Nat /\ y <= crowd[g]
  BY <1>2 DEF TypeOK, Crowded
<1>4. QED
  BY <1>2, <1>3 DEF Together

LEMMA WithinNext ==
  ASSUME TypeOK, Shape, Crowded, NEW c \in Clients, Acts(c), NEW g \in Groups,
         NEW S \in SUBSET Clients, \A d \in S : Of(d)'.kind \in Members(g)
  PROVE  /\ Cardinality(S) \in Nat /\ Together(g) \in Nat /\ Together(g)' \in Nat
         /\ Cardinality(S) <= Together(g)' /\ Together(g) <= Together(g)'
<1>1. InGroup(g)' \in SUBSET Clients /\ S \in SUBSET InGroup(g)'
  BY DEF InGroup
<1>2. PICK x \in Nat, y \in Nat : x = Cardinality(S) /\ y = Cardinality(InGroup(g)') /\ x <= y
  BY <1>1, FiniteParts, FS_Subset
<1>3. crowd[g] \in Nat /\ crowd'[g] \in Nat /\ crowd[g] <= crowd'[g] /\ y <= crowd'[g]
  BY <1>2, CrowdStep DEF Crowded
<1>4. QED
  BY <1>2, <1>3 DEF Together

-----------------------------------------------------------------------------
(* A review is final.                                                      *)

Deciding == {"again", "commit", "turn"}

\* Reviews that have seen request n undecided and have yet to decide it.
Awaiting(n) == {c \in Clients : job[c].at \in Deciding /\ Of(c).n = n}
Decided(n) == approvals[n].grants + (IF approvals[n].status = "REJECTED" THEN 1 ELSE 0)

\* An undecided request has granted nothing; one that is decided has been decided, and
\* can still be, by reviews that were under way at once.
FinalInv == \A n \in 1..Len(approvals) :
  IF approvals[n].status = "PENDING" THEN approvals[n].grants = 0
  ELSE Decided(n) + Cardinality(Awaiting(n)) <= Together("reviews")

LEMMA Reviewing ==
  ASSUME Shape, NEW c \in Clients, job[c].at \in Deciding \cup {"pending"}
  PROVE  Of(c).kind \in Reviews /\ Of(c).n \in 1..Len(approvals)
BY Known, KindsOf DEF Deciding, AskFits, Reviews

\* The approvals are as they were, or another is asked for.
LEMMA ApprovalsStay ==
  ASSUME TypeOK, Shape, NEW c \in Clients, Acts(c), ~Commit(c), ~Turn(c)
  PROVE  /\ \A n \in 1..Len(approvals) :
              /\ approvals'[n].by = approvals[n].by
              /\ approvals'[n].grants = approvals[n].grants
              /\ approvals'[n].status \in {approvals[n].status, "DELETED"}
         /\ \A n \in 1..Len(approvals') : n \notin 1..Len(approvals) =>
              approvals'[n].grants = 0 /\ approvals'[n].status = "PENDING"
<1>1. CASE approvals' = approvals
  BY <1>1
<1>2. CASE Request(c)
  BY <1>2, RequestMoves
<1>3. CASE Erase(c)
  <2>1. CASE ~UNCHANGED database
    BY <1>3, <2>1, EraseMoves
  <2>2. CASE UNCHANGED database
    BY <1>1, <2>2 DEF database
  <2>3. QED
    BY <2>1, <2>2
<1>4. approvals' = approvals \/ Request(c) \/ Erase(c)
  BY StepCases, QuietUnchanged, KeptByRest
     DEF Quiet, Give, Drop, CreateRole, Write, database
<1>5. QED
  BY <1>1, <1>2, <1>3, <1>4

\* Where a request is that is about to decide.
LEMMA OwnDecision ==
  ASSUME TypeOK, Shape, NEW c \in Clients, Acts(c), job'[c].at \in Deciding
  PROVE  /\ Of(c)' = Of(c) /\ job[c].at \in {"pending", "again"}
         /\ job[c].at = "pending" => approvals[Of(c).n].status = "PENDING"
<1>1. CASE Moves(c)
  BY <1>1 DEF Moves, Over, Goes, Enters, At, Deciding
<1>2. ASSUME NEW a \in Asks, Submit(c, a) PROVE FALSE
  BY <1>2, SubmitMoves DEF Deciding
<1>3. QED
  BY <1>1, <1>2, WorkMoves DEF Acts

\* Whoever awaits a decision is a review.
LEMMA AwaitingReviews ==
  ASSUME TypeOK, Shape, Crowded, NEW n
  PROVE  /\ Awaiting(n) \in SUBSET Clients /\ IsFiniteSet(Awaiting(n))
         /\ Cardinality(Awaiting(n)) \in Nat /\ Together("reviews") \in Nat
         /\ Cardinality(Awaiting(n)) <= Together("reviews")
<1>1. Awaiting(n) \in SUBSET Clients /\ Awaiting(n) \in SUBSET InGroup("reviews")
  BY Reviewing, MembersOf DEF Awaiting, InGroup
<1>2. QED
  BY <1>1, FiniteParts, MembersOf, Within

LEMMA AwaitingReviewsNext ==
  ASSUME TypeOK, Shape, Crowded, NEW c \in Clients, Acts(c), NEW n
  PROVE  /\ Cardinality(Awaiting(n)') \in Nat /\ Together("reviews")' \in Nat
         /\ Cardinality(Awaiting(n)') <= Together("reviews")'
         /\ Together("reviews") <= Together("reviews")'
<1>1. ASSUME NEW d \in Clients, job'[d].at \in Deciding PROVE Of(d)'.kind \in Members("reviews")
  <2>1. Of(d)'.kind \in KindsAt(job'[d].at)
    BY StageStep DEF StageFits
  <2>2. QED
    BY <1>1, <2>1, KindsOf, MembersOf DEF Deciding, Reviews
<1>2. PICK S \in SUBSET Clients : S = Awaiting(n)'
  BY DEF Awaiting
<1>3. \A d \in S : Of(d)'.kind \in Members("reviews")
  BY <1>1, <1>2 DEF Awaiting
<1>4. QED
  BY <1>2, <1>3, MembersOf, WithinNext

\* Only a look at an undecided request adds a review to those that await it.
LEMMA AwaitingStep ==
  ASSUME TypeOK, Shape, NEW c \in Clients, Acts(c), NEW n
  PROVE  /\ n \in 1..Len(approvals) /\ approvals[n].status # "PENDING" =>
              Awaiting(n)' \subseteq Awaiting(n)
         /\ Commit(c) \/ Turn(c) => /\ c \in Awaiting(Of(c).n)
                                   /\ Awaiting(n)' \subseteq Awaiting(n) \ {c}
<1>1. Others(c)
  BY StageStep
<1>2. \A d \in Clients \ {c} : d \in Awaiting(n)' => d \in Awaiting(n)
  BY <1>1 DEF Others, Awaiting
<1>3. Commit(c) \/ Turn(c) => /\ job[c].at \in {"commit", "turn"} /\ c \in Awaiting(Of(c).n)
  BY CommitMoves, TurnMoves DEF At, Awaiting, Deciding
<1>4. c \in Awaiting(n)' => /\ Of(c)' = Of(c) /\ Of(c).n = n /\ job[c].at \in {"pending", "again"}
                            /\ job[c].at = "pending" => approvals[n].status = "PENDING"
  BY OwnDecision DEF Awaiting
<1>5. ASSUME n \in 1..Len(approvals), approvals[n].status # "PENDING"
      PROVE  Awaiting(n)' \subseteq Awaiting(n)
  <2>1. c \in Awaiting(n)' => c \in Awaiting(n)
    BY <1>4, <1>5 DEF Awaiting, Deciding
  <2>2. Awaiting(n)' \subseteq Clients
    BY DEF Awaiting
  <2>3. QED
    BY <1>2, <2>1, <2>2
<1>6. ASSUME Commit(c) \/ Turn(c) PROVE Awaiting(n)' \subseteq Awaiting(n) \ {c}
  <2>1. c \notin Awaiting(n)'
    BY <1>3, <1>4, <1>6
  <2>2. Awaiting(n)' \subseteq Clients
    BY DEF Awaiting
  <2>3. QED
    BY <1>2, <2>1, <2>2
<1>7. QED
  BY <1>3, <1>5, <1>6

LEMMA FinalStep ==
  ASSUME TypeOK, Shape, Crowded, FinalInv, NEW c \in Clients, Acts(c)
  PROVE  FinalInv'
<1> SUFFICES ASSUME NEW n \in 1..Len(approvals'), approvals'[n].status # "PENDING" \/
                                                 approvals'[n].grants # 0
             PROVE  /\ approvals'[n].status # "PENDING"
                    /\ Decided(n)' + Cardinality(Awaiting(n)') <= Together("reviews")'
  BY DEF FinalInv
<1>1. PICK t \in Nat, t1 \in Nat, x \in Nat, x1 \in Nat :
        /\ t = Together("reviews") /\ t1 = Together("reviews")' /\ t <= t1
        /\ x = Cardinality(Awaiting(n)) /\ x <= t
        /\ x1 = Cardinality(Awaiting(n)') /\ x1 <= t1
  BY AwaitingReviews, AwaitingReviewsNext
<1>2. /\ IsFiniteSet(Awaiting(n)) /\ approvals \in Seq(Rows) /\ Len(approvals) \in Nat
      /\ \A m \in 1..Len(approvals) : approvals[m] \in Rows /\ approvals[m].grants \in Nat
  <2>1. IsFiniteSet(Awaiting(n)) /\ approvals \in Seq(Rows)
    BY AwaitingReviews, TypeParts DEF RestFits
  <2>2. \A m \in 1..Len(approvals) : approvals[m] \in Rows
    BY <2>1, ElementInRange
  <2>3. QED
    BY <2>1, <2>2 DEF Rows
<1>3. \A S \in SUBSET Awaiting(n) : Cardinality(S) \in Nat /\ Cardinality(S) <= x
  BY <1>1, <1>2, FS_Subset, FS_CardinalityType
<1>4. ASSUME n \in 1..Len(approvals), approvals'[n].grants = approvals[n].grants,
             approvals'[n].status \in {approvals[n].status, "DELETED"}
      PROVE  /\ approvals'[n].status # "PENDING"
             /\ Decided(n)' + Cardinality(Awaiting(n)') <= Together("reviews")'
  <2>1. approvals'[n].status # "PENDING"
    BY <1>4 DEF FinalInv
  <2>2. CASE approvals[n].status = "PENDING"
    <3>1. approvals[n].grants = 0 /\ approvals'[n].status = "DELETED"
      BY <1>4, <2>1, <2>2 DEF FinalInv
    <3>2. Decided(n)' = 0
      BY <1>4, <3>1 DEF Decided
    <3>3. QED
      BY <1>1, <2>1, <3>2
  <2>3. CASE approvals[n].status # "PENDING"
    <3>1. Awaiting(n)' \subseteq Awaiting(n)
      BY <1>4, <2>3, AwaitingStep
    <3>2. x1 <= x
      BY <1>1, <1>3, <3>1
    <3>3. PICK d \in Nat, d1 \in Nat : d = Decided(n) /\ d1 = Decided(n)' /\ d1 <= d
      BY <1>2, <1>4 DEF Decided
    <3>4. d + x <= t
      BY <1>1, <1>4, <2>3, <3>3 DEF FinalInv
    <3>5. QED
      BY <1>1, <2>1, <3>2, <3>3, <3>4
  <2>4. QED
    BY <2>2, <2>3
<1>5. CASE ~Commit(c) /\ ~Turn(c)
  <2>1. n \in 1..Len(approvals)
    BY <1>5, ApprovalsStay
  <2>2. QED
    BY <1>4, <1>5, <2>1, ApprovalsStay
<1>6. CASE approvals' = approvals
  BY <1>4, <1>6
<1>7. ASSUME Commit(c) \/ Turn(c), NEW a \in Rows, Turned(Of(c).n, a),
             Of(c).n \in 1..Len(approvals),
             \/ a.status = "APPROVED" /\ a.grants = approvals[Of(c).n].grants + 1
             \/ a.status = "REJECTED" /\ a.grants = approvals[Of(c).n].grants
      PROVE  /\ approvals'[n].status # "PENDING"
             /\ Decided(n)' + Cardinality(Awaiting(n)') <= Together("reviews")'
  <2>1. n \in 1..Len(approvals)
    BY <1>7 DEF Turned
  <2>2. CASE n # Of(c).n
    <3>1. approvals'[n] = approvals[n]
      BY <1>7, <2>1, <2>2 DEF Turned
    <3>2. QED
      BY <1>4, <2>1, <3>1
  <2>3. CASE n = Of(c).n
    <3>1. approvals'[n] = a /\ c \in Awaiting(n) /\ Awaiting(n)' \subseteq Awaiting(n) \ {c}
      BY <1>7, <2>3, AwaitingStep DEF Turned
    <3>2. x1 + 1 <= x
      <4>1. Cardinality(Awaiting(n) \ {c}) = x - 1
        BY <1>1, <1>2, <3>1, FS_RemoveElement
      <4>2. x1 <= x - 1
        <5>1. IsFiniteSet(Awaiting(n) \ {c})
          BY <1>2, FS_RemoveElement
        <5>2. QED
          BY <1>1, <3>1, <4>1, <5>1, FS_Subset
      <4>3. QED
        BY <4>2
    <3>3. PICK g \in Nat : g = approvals[n].grants
      BY <1>2, <2>1
    <3>4. /\ approvals'[n].status # "PENDING"
          /\ Decided(n)' = g + 1
      BY <1>7, <2>3, <3>1, <3>3 DEF Decided
    <3>5. CASE approvals[n].status = "PENDING"
      <4>1. g = 0
        BY <2>1, <3>3, <3>5 DEF FinalInv
      <4>2. QED
        BY <1>1, <3>2, <3>4, <4>1
    <3>6. CASE approvals[n].status # "PENDING"
      <4>1. PICK d \in Nat : d = Decided(n) /\ g <= d
        BY <3>3 DEF Decided
      <4>2. d + x <= t
        BY <1>1, <2>1, <3>6, <4>1 DEF FinalInv
      <4>3. QED
        BY <1>1, <3>2, <3>4, <4>1, <4>2
    <3>7. QED
      BY <3>5, <3>6
  <2>4. QED
    BY <2>2, <2>3
<1>8. QED
  <2>1. CASE Commit(c)
    BY <1>6, <1>7, <2>1, CommitMoves
  <2>2. CASE Turn(c)
    BY <1>6, <1>7, <2>2, TurnMoves
  <2>3. QED
    BY <1>5, <2>1, <2>2

\* ReviewsAreFinal: however reviews overlap, a request for a role is decided no more
\* often than the reviews that ever overlapped, a grant or a rejection each counting.
THEOREM ReviewsDecideOnce == Spec => []ReviewsAreFinal
<1>1. Init => FinalInv
  <2> SUFFICES ASSUME Init, NEW n \in 1..Len(approvals)
               PROVE  approvals[n].status = "PENDING" /\ approvals[n].grants = 0
    BY DEF FinalInv
  <2>1. Len(InitAsked) \in Nat
    BY AccessFits
  <2>2. QED
    BY <2>1 DEF Init
<1>2. TypeOK /\ Shape /\ Crowded /\ FinalInv /\ [Next]_vars => FinalInv'
  <2> SUFFICES ASSUME TypeOK, Shape, Crowded, FinalInv, [Next]_vars PROVE FinalInv'
    OBVIOUS
  <2>1. CASE Aside
    BY <2>1 DEF Aside, FinalInv, Decided, Awaiting, Together, Of
  <2>2. QED
    BY <2>1, FinalStep, StepOrAside
<1>3. TypeOK /\ Shape /\ Crowded /\ FinalInv => ReviewsAreFinal
  <2> SUFFICES ASSUME TypeOK, Shape, Crowded, FinalInv, NEW n \in 1..Len(approvals)
               PROVE  Decided(n) <= Together("reviews")
    BY DEF ReviewsAreFinal, Decided
  <2>1. Cardinality(Awaiting(n)) \in Nat /\ Together("reviews") \in Nat
    BY AwaitingReviews
  <2>2. approvals[n].grants \in Nat
    <3>1. approvals \in Seq(Rows)
      BY TypeParts DEF RestFits
    <3>2. approvals[n] \in Rows
      BY <3>1, ElementInRange
    <3>3. QED
      BY <3>2 DEF Rows
  <2>3. PICK d \in Nat : d = Decided(n) /\ (approvals[n].status = "PENDING" => d = approvals[n].grants)
    BY <2>2 DEF Decided
  <2>4. CASE approvals[n].status = "PENDING"
    BY <2>1, <2>3, <2>4 DEF FinalInv
  <2>5. CASE approvals[n].status # "PENDING"
    BY <2>1, <2>3, <2>5 DEF FinalInv
  <2>6. QED
    BY <2>4, <2>5
<1>4. QED
  BY <1>1, <1>2, <1>3, InitTypes, TypeInductive, InitCrowd, CrowdInductive, PTL DEF Spec

-----------------------------------------------------------------------------
(* A sensitive role takes two.                                             *)

\* Who approves is not who asked; and a role that is about to be given without an
\* approval is one that exists, or has, and is not sensitive, or was made so meanwhile.
TwoAdmins == \A c \in Clients :
  job[c].at \in {"again", "commit"} => approvals[Of(c).n].by # Of(c).by
Harmless(c) ==
  At(c, "give") \/ (At(c, "held") /\ ~job[c].flag) =>
    Of(c).role \in live \cup gone /\ (Of(c).role \in sensitive => Of(c).role \in turned)
TwoInv ==
  /\ TwoAdmins
  /\ unaided \subseteq turned
  /\ \A c \in Clients : Harmless(c)

\* What makes a role sensitive, and that whoever is assigning it then is noticed.
LEMMA SensitiveStep ==
  ASSUME TypeOK, Shape, NEW c \in Clients, Acts(c)
  PROVE  /\ turned \subseteq turned'
         /\ \/ sensitive' \subseteq sensitive
            \/ /\ At(c, "create") /\ Of(c).role \notin live \cup gone
               /\ sensitive' \subseteq sensitive \cup {Of(c).role}
            \/ /\ At(c, "write")
               /\ \A r \in sensitive' \ sensitive : BeingAssigned(r) => r \in turned'
<1>1. CASE Write(c)
  BY <1>1, WriteMoves, TurnedByWrite
<1>2. CASE ~Write(c)
  <2>1. turned' = turned
    BY <1>2, StepCases, QuietUnchanged
       DEF Quiet, history, Request, Give, Commit, Turn, Drop, CreateRole, Forget, Erase, Link, Log,
           Store, Breaks, Submit
  <2>2. CASE CreateRole(c)
    BY <2>1, <2>2, CreateRoleMoves
  <2>3. CASE Erase(c)
    BY <2>1, <2>3, EraseMoves DEF database
  <2>4. CASE ~CreateRole(c) /\ ~Erase(c)
    BY <1>2, <2>1, <2>4, StepCases, KeptBySmall, KeptByRest DEF database
  <2>5. QED
    BY <2>2, <2>3, <2>4
<1>3. QED
  BY <1>1, <1>2

\* The maker of an approval stays.
LEMMA MakersStay ==
  ASSUME TypeOK, Shape, NEW c \in Clients, Acts(c)
  PROVE  \A n \in 1..Len(approvals) : approvals'[n].by = approvals[n].by
<1>1. CASE ~Commit(c) /\ ~Turn(c)
  BY <1>1, ApprovalsStay
<1>2. CASE Commit(c)
  BY <1>2, CommitMoves DEF Turned
<1>3. CASE Turn(c)
  BY <1>3, TurnMoves DEF Turned
<1>4. QED
  BY <1>1, <1>2, <1>3

LEMMA TwoAdminsStep ==
  ASSUME TypeOK, Shape, TwoAdmins, NEW c \in Clients, Acts(c)
  PROVE  TwoAdmins'
<1> SUFFICES ASSUME NEW d \in Clients, job'[d].at \in {"again", "commit"}
             PROVE  approvals'[Of(d)'.n].by # Of(d)'.by
  BY DEF TwoAdmins
<1>1. Others(c)
  BY StageStep
<1>2. /\ Of(d)' = Of(d) /\ job[d].at \in Deciding \cup {"pending"}
      /\ approvals[Of(d).n].by # Of(d).by
  <2>1. CASE d # c
    BY <1>1, <2>1 DEF Others, TwoAdmins, Deciding
  <2>2. CASE d = c /\ Moves(c)
    BY <2>2 DEF Moves, Over, Goes, Enters, At, TwoAdmins, Deciding
  <2>3. CASE d = c /\ \E a \in Asks : Submit(c, a)
    BY <2>3, SubmitMoves
  <2>4. QED
    BY <2>1, <2>2, <2>3, WorkMoves DEF Acts
<1>3. Of(d).n \in 1..Len(approvals)
  BY <1>2, Reviewing
<1>4. QED
  BY <1>2, <1>3, MakersStay

LEMMA TwoStep ==
  ASSUME TypeOK, Shape, TwoInv, NEW c \in Clients, Acts(c)
  PROVE  TwoInv'
<1>1. TwoAdmins'
  BY TwoAdminsStep DEF TwoInv
<1>2. unaided \subseteq turned /\ turned \subseteq turned' /\ \A d \in Clients : Harmless(d)
  BY SensitiveStep DEF TwoInv
<1>3. unaided' \subseteq turned'
  <2>1. CASE Give(c)
    <3>1. At(c, "give") /\ unaided' \subseteq unaided \cup ({Of(c).role} \cap sensitive)
      BY <2>1, GiveMoves
    <3>2. Of(c).role \in sensitive => Of(c).role \in turned
      BY <1>2, <3>1 DEF Harmless
    <3>3. QED
      BY <1>2, <3>1, <3>2
  <2>2. CASE Commit(c)
    <3>1. approvals[Of(c).n].by # Of(c).by
      BY <2>2, CommitMoves DEF TwoInv, TwoAdmins, At
    <3>2. QED
      BY <1>2, <2>2, <3>1, CommitMoves
  <2>3. CASE ~Give(c) /\ ~Commit(c)
    <3>1. unaided' = unaided
      BY <2>3, StepCases, QuietUnchanged
         DEF Quiet, history, Request, Turn, Drop, CreateRole, Write, Forget, Erase, Link, Log, Store,
             Breaks, Submit
    <3>2. QED
      BY <1>2, <3>1
  <2>4. QED
    BY <2>1, <2>2, <2>3
<1>4. live \cup gone \subseteq live' \cup gone'
  BY KeptByStep DEF Keeps, Grows
<1>5. ASSUME NEW d \in Clients, At(d, "give")' \/ (At(d, "held")' /\ ~job'[d].flag)
      PROVE  /\ Of(d)'.role \in live' \cup gone'
             /\ Of(d)'.role \in sensitive' => Of(d)'.role \in turned'
  <2>1. CASE d # c
    <3>1. Of(d)' = Of(d) /\ (At(d, "give") \/ (At(d, "held") /\ ~job[d].flag))
      <4>1. Others(c)
        BY StageStep
      <4>2. QED
        BY <1>5, <2>1, <4>1 DEF Others, At
    <3>2. Of(d).role \in live \cup gone /\ (Of(d).role \in sensitive => Of(d).role \in turned)
      BY <1>2, <3>1 DEF Harmless
    <3>3. BeingAssigned(Of(d).role)
      <4>1. Of(d).kind = "assign"
        BY <3>1, Known, KindsOf DEF At
      <4>2. QED
        BY <3>1, <4>1 DEF BeingAssigned, At
    <3>4. Of(d).role \in sensitive' => Of(d).role \in turned'
      BY <1>2, <3>2, <3>3, SensitiveStep
    <3>5. QED
      BY <1>4, <3>1, <3>2, <3>4
  <2>2. CASE d = c
    <3>1. CASE \E a \in Asks : Submit(c, a)
      BY <1>5, <2>2, <3>1, SubmitMoves DEF At
    <3>2. CASE Moves(c)
      <4>1. /\ Of(c)' = Of(c)
            /\ \/ /\ At(c, "role") /\ Of(c).role \in live
                  /\ job'[c].flag = (Of(c).role \in sensitive) /\ ~job'[c].flag
               \/ At(c, "held") /\ ~job[c].flag
        BY <1>5, <2>2, <3>2 DEF Moves, Over, Goes, Enters, At
      <4>2. Of(c).role \in live \cup gone /\ (Of(c).role \in sensitive => Of(c).role \in turned)
        BY <1>2, <4>1 DEF Harmless
      <4>3. sensitive' \subseteq sensitive
        BY <4>1, SensitiveStep DEF At
      <4>4. QED
        BY <1>2, <1>4, <2>2, <4>1, <4>2, <4>3
    <3>3. QED
      BY <3>1, <3>2, WorkMoves DEF Acts
  <2>3. QED
    BY <2>1, <2>2
<1>6. QED
  BY <1>1, <1>3, <1>5 DEF Harmless, TwoInv

\* SensitiveNeedsTwo: whatever overlaps, a sensitive role is given on an approval that
\* somebody else has asked for, unless it was made sensitive while being assigned.
THEOREM SensitiveTakesTwo == Spec => []SensitiveNeedsTwo
<1>1. Init => TwoInv
  <2> SUFFICES ASSUME Init PROVE TwoInv
    OBVIOUS
  <2>1. unaided = {} /\ \A c \in Clients : job[c].at = "idle"
    BY IdleRow DEF Init
  <2>2. QED
    BY <2>1 DEF TwoInv, TwoAdmins, Harmless, At
<1>2. TypeOK /\ Shape /\ TwoInv /\ [Next]_vars => TwoInv'
  <2> SUFFICES ASSUME TypeOK, Shape, TwoInv, [Next]_vars PROVE TwoInv'
    OBVIOUS
  <2>1. CASE Aside
    BY <2>1 DEF Aside, TwoInv, TwoAdmins, Harmless, At, Of
  <2>2. QED
    BY <2>1, TwoStep, StepOrAside
<1>3. TwoInv => SensitiveNeedsTwo
  BY DEF TwoInv, SensitiveNeedsTwo
<1>4. QED
  BY <1>1, <1>2, <1>3, InitTypes, TypeInductive, PTL DEF Spec

-----------------------------------------------------------------------------
(* The audit chain.                                                        *)

\* The hash a change is about to link to, as the entry will hold it.
Hash(k) == IF k = Undefined THEN Null ELSE k
Naming(h) == {e \in log : e.previousHash = h}
About(h) == {c \in Clients : At(c, "log") /\ Hash(job[c].found) = h}

\* An entry is younger than the one it links to.
LinksBack ==
  /\ IsFiniteSet(log)
  /\ \A e \in log : e.previousHash < e.createdAt
  /\ \A c \in Clients : At(c, "log") => job[c].found < job[c].now

\* Entries that link to the same one, and those about to, were changes at once.
Forks == \A h \in Nat \cup {Null} :
  Cardinality(Naming(h)) + Cardinality(About(h)) <= Together("writers")

\* Between the entry that was found, h, and its own instant t a change is passed by
\* others: entries by now, or about to be.
Passed(h, t) == {f \in log : h < f.createdAt /\ f.createdAt < t}
Passing(h, t) == {d \in Clients : At(d, "log") /\ h < job[d].now /\ job[d].now < t}
Gap(h, t) == Cardinality(Passed(h, t)) + Cardinality(Passing(h, t))
Gaps ==
  /\ \A e \in log : Gap(e.previousHash, e.createdAt) < Together("writers")
  /\ \A c \in Clients : At(c, "log") => Gap(Hash(job[c].found), job[c].now) < Together("writers")

LogInv == LinksBack /\ Forks /\ Gaps

LEMMA LogStays ==
  ASSUME TypeOK, Shape, NEW c \in Clients, Acts(c), ~Log(c)
  PROVE  log' = log
BY StepCases, KeptBySmall, KeptByRoles DEF Forget, Link, Store, Breaks, Submit

\* How a request gets to the insert.
LEMMA LogEntered ==
  ASSUME TypeOK, Shape, NEW c \in Clients, Acts(c), NEW d \in Clients, At(d, "log")'
  PROVE  \/ /\ d = c /\ ~At(c, "log") /\ job'[c].found = LatestHash(log)
            /\ job'[c].now = clock + 1 /\ ~Log(c)
         \/ /\ d # c /\ At(d, "log") /\ job'[d].found = job[d].found /\ job'[d].now = job[d].now
<1>1. CASE d # c
  <2>1. Others(c)
    BY StageStep
  <2>2. QED
    BY <1>1, <2>1 DEF Others, At
<1>2. CASE d = c
  <2>1. Moves(c)
    BY <1>2, WorkMoves, SubmitMoves DEF Acts, At
  <2>2. /\ At(c, "link") /\ job'[c].found = LatestHash(log) /\ job'[c].now = clock + 1
    BY <1>2, <2>1 DEF Moves, Over, Goes, Enters, At
  <2>3. QED
    BY <1>2, <2>2, LogMoves DEF At
<1>3. QED
  BY <1>1, <1>2

\* The hash found is that of the newest entry, and no entry links to it yet.
LEMMA NothingAfter ==
  ASSUME TypeOK, Shape, LinksBack
  PROVE  LatestHash(log) \in Nat /\ LatestHash(log) <= clock /\ Naming(Hash(LatestHash(log))) = {}
<1>1. /\ log \in SUBSET Entries /\ clock \in Nat
      /\ \A e \in log : 0 < e.createdAt /\ e.createdAt <= clock /\ e.createdAt \in Nat
      /\ \A e \in log : e.previousHash \in Int /\ e.previousHash < e.createdAt
  BY DEF TypeOK, Shape, LogFits, LinksBack, Entries, Null
<1>2. CASE log = {}
  BY <1>1, <1>2, Latest DEF Naming, Undefined
<1>3. CASE log # {}
  <2>1. PICK e \in log : /\ LatestHash(log) = e.createdAt
                         /\ \A f \in log : f.createdAt <= e.createdAt
    BY <1>1, <1>3, Latest
  <2>2. Hash(LatestHash(log)) = e.createdAt
    BY <1>1, <2>1 DEF Hash, Undefined
  <2>3. ASSUME NEW f \in log, f.previousHash = e.createdAt PROVE FALSE
    BY <1>1, <2>1, <2>3
  <2>4. QED
    BY <1>1, <2>1, <2>2, <2>3 DEF Naming
<1>4. QED
  BY <1>2, <1>3

LEMMA LinksBackStep ==
  ASSUME TypeOK, Shape, LinksBack, NEW c \in Clients, Acts(c)
  PROVE  LinksBack'
<1>1. ASSUME NEW d \in Clients, At(d, "log")' PROVE job'[d].found < job'[d].now
  <2>1. LatestHash(log) \in Nat /\ LatestHash(log) <= clock /\ clock \in Nat
    BY NothingAfter DEF TypeOK
  <2>2. QED
    BY <1>1, <2>1, LogEntered DEF LinksBack
<1>2. CASE Log(c)
  <2>1. PICK e \in Entries :
          /\ log' = log \cup {e} /\ e.createdAt = job[c].now
          /\ job[c].found = Undefined => e.previousHash = Null
          /\ job[c].found # Undefined => e.previousHash = job[c].found
    BY <1>2, LogMoves
  <2>2. At(c, "log") /\ job[c].found \in Nat /\ job[c].now \in Nat /\ job[c].found < job[c].now
    BY <1>2, LogMoves, Known DEF LinksBack
  <2>3. e.previousHash < e.createdAt
    BY <2>1, <2>2 DEF Undefined, Null
  <2>4. IsFiniteSet(log')
    BY <2>1, FS_AddElement DEF LinksBack
  <2>5. QED
    BY <1>1, <2>1, <2>3, <2>4 DEF LinksBack
<1>3. CASE ~Log(c)
  BY <1>1, <1>3, LogStays DEF LinksBack
<1>4. QED
  BY <1>2, <1>3

LEMMA CountedEntries ==
  ASSUME TypeOK, LinksBack, NEW h
  PROVE  /\ IsFiniteSet(Naming(h)) /\ Cardinality(Naming(h)) \in Nat
         /\ IsFiniteSet(About(h)) /\ Cardinality(About(h)) \in Nat
<1>1. Naming(h) \in SUBSET log /\ About(h) \in SUBSET Clients
  BY DEF Naming, About
<1>2. QED
  BY <1>1, FiniteParts, FS_Subset, FS_CardinalityType DEF LinksBack

LEMMA TogetherGrows ==
  ASSUME TypeOK, Shape, Crowded, NEW c \in Clients, Acts(c)
  PROVE  /\ Together("writers") \in Nat /\ Together("writers")' \in Nat
         /\ Together("writers") <= Together("writers")'
         /\ crowd'["writers"] <= Together("writers")' /\ crowd'["writers"] \in Nat
         /\ (crowd'["writers"] <= 1 => crowd["writers"] <= 1)
<1>1. /\ crowd["writers"] \in Nat /\ crowd'["writers"] \in Nat
      /\ crowd["writers"] <= crowd'["writers"]
  BY CrowdStep, MembersOf
<1>2. QED
  BY <1>1 DEF Together

\* Whoever is about to insert is a writer.
LEMMA AboutWriters ==
  ASSUME TypeOK, Shape, Crowded, NEW c \in Clients, Acts(c), NEW h
  PROVE  Cardinality(About(h)') <= crowd'["writers"]
<1>1. ASSUME NEW d \in Clients, At(d, "log")' PROVE Of(d)'.kind \in Members("writers")
  <2>1. StageFits(d)'
    BY StageStep
  <2>2. Of(d)'.kind \in KindsAt("log")
    BY <1>1, <2>1 DEF StageFits, At
  <2>3. QED
    BY <2>2, MembersOf DEF KindsAt
<1>2. About(h)' \in SUBSET InGroup("writers")' /\ InGroup("writers")' \in SUBSET Clients
  BY <1>1 DEF InGroup, About
<1>3. PICK x \in Nat, y \in Nat :
        x = Cardinality(About(h)') /\ y = Cardinality(InGroup("writers")') /\ x <= y
  BY <1>2, FiniteParts, FS_Subset
<1>4. y <= crowd'["writers"] /\ crowd'["writers"] \in Nat
  BY <1>3, MembersOf, CrowdStep DEF Crowded
<1>5. QED
  BY <1>3, <1>4

LEMMA ForksStep ==
  ASSUME TypeOK, Shape, Crowded, LinksBack, Forks, NEW c \in Clients, Acts(c)
  PROVE  Forks'
<1> SUFFICES ASSUME NEW h \in Nat \cup {Null}
             PROVE  Cardinality(Naming(h)') + Cardinality(About(h)') <= Together("writers")'
  BY DEF Forks
<1>1. PICK t \in Nat, t1 \in Nat, w1 \in Nat :
        /\ t = Together("writers") /\ t1 = Together("writers")' /\ w1 = crowd'["writers"]
        /\ t <= t1 /\ w1 <= t1
  BY TogetherGrows
<1>2. PICK x \in Nat, y \in Nat :
        x = Cardinality(Naming(h)) /\ y = Cardinality(About(h)) /\ x + y <= t
  BY <1>1, CountedEntries DEF Forks
<1>3. IsFiniteSet(Naming(h)) /\ IsFiniteSet(About(h))
  BY CountedEntries
<1>4. CASE Log(c)
  <2>1. PICK e \in Entries :
          /\ log' = log \cup {e}
          /\ job[c].found = Undefined => e.previousHash = Null
          /\ job[c].found # Undefined => e.previousHash = job[c].found
    BY <1>4, LogMoves
  <2>2. At(c, "log") /\ Hash(job[c].found) = e.previousHash
    BY <1>4, <2>1, LogMoves DEF Hash
  <2>3. About(h)' = About(h) \ {c}
    <3>1. \A d \in Clients : At(d, "log")' => d # c /\ At(d, "log") /\ job'[d].found = job[d].found
      BY <1>4, LogEntered
    <3>2. \A d \in Clients \ {c} : At(d, "log") => At(d, "log")' /\ job'[d].found = job[d].found
      BY StageStep DEF Others, At
    <3>3. QED
      BY <3>1, <3>2 DEF About
  <2>4. CASE e.previousHash = h
    <3>1. c \in About(h)
      BY <2>2, <2>4 DEF About
    <3>2. Cardinality(About(h)') = y - 1
      BY <1>2, <1>3, <2>3, <3>1, FS_RemoveElement
    <3>3. Naming(h)' = Naming(h) \cup {e}
      BY <2>1, <2>4 DEF Naming
    <3>4. PICK z \in Nat : z = Cardinality(Naming(h)') /\ z <= x + 1
      <4>1. Cardinality(Naming(h) \cup {e}) = IF e \in Naming(h) THEN x ELSE x + 1
        BY <1>2, <1>3, FS_AddElement
      <4>2. QED
        BY <3>3, <4>1
    <3>5. QED
      BY <1>1, <1>2, <3>2, <3>4
  <2>5. CASE e.previousHash # h
    <3>1. Naming(h)' = Naming(h) /\ About(h)' = About(h)
      <4>1. c \notin About(h)
        BY <2>2, <2>5 DEF About
      <4>2. Naming(h)' = Naming(h)
        BY <2>1, <2>5 DEF Naming
      <4>3. QED
        BY <2>3, <4>1, <4>2
    <3>2. QED
      BY <1>1, <1>2, <3>1
  <2>6. QED
    BY <2>4, <2>5
<1>5. CASE ~Log(c)
  <2>1. Naming(h)' = Naming(h)
    BY <1>5, LogStays DEF Naming
  <2>2. CASE c \in About(h)' /\ ~At(c, "log")
    <3>1. Hash(LatestHash(log)) = h
      BY <2>2, LogEntered DEF About
    <3>2. x = 0
      BY <1>2, <3>1, NothingAfter, FS_EmptySet
    <3>3. PICK z \in Nat : z = Cardinality(About(h)') /\ z <= w1
      <4>1. About(h)' \in SUBSET Clients
        BY DEF About
      <4>2. QED
        BY <1>1, <4>1, FiniteParts, AboutWriters
    <3>4. QED
      BY <1>1, <1>2, <2>1, <3>2, <3>3
  <2>3. CASE ~(c \in About(h)' /\ ~At(c, "log"))
    <3>1. About(h)' \in SUBSET About(h)
      BY <2>3, LogEntered DEF About
    <3>2. PICK z \in Nat : z = Cardinality(About(h)') /\ z <= y
      BY <1>2, <1>3, <3>1, FS_Subset, FS_CardinalityType
    <3>3. QED
      BY <1>1, <1>2, <2>1, <3>2
  <2>4. QED
    BY <2>2, <2>3
<1>6. QED
  BY <1>4, <1>5

LEMMA GapParts ==
  ASSUME TypeOK, LinksBack, NEW h, NEW t
  PROVE  /\ IsFiniteSet(Passed(h, t)) /\ Cardinality(Passed(h, t)) \in Nat
         /\ IsFiniteSet(Passing(h, t)) /\ Cardinality(Passing(h, t)) \in Nat
<1>1. Passed(h, t) \in SUBSET log /\ Passing(h, t) \in SUBSET Clients
  BY DEF Passed, Passing
<1>2. QED
  BY <1>1, FiniteParts, FS_Subset, FS_CardinalityType DEF LinksBack

\* Nobody comes in between once the instant has passed.
LEMMA GapCloses ==
  ASSUME TypeOK, Shape, LinksBack, NEW c \in Clients, Acts(c), NEW h \in Int, NEW t \in Nat,
         t <= clock
  PROVE  Gap(h, t)' \in Nat /\ Gap(h, t) \in Nat /\ Gap(h, t)' <= Gap(h, t)
<1>1. PICK x \in Nat, y \in Nat : x = Cardinality(Passed(h, t)) /\ y = Cardinality(Passing(h, t))
  BY GapParts
<1>2. /\ IsFiniteSet(Passed(h, t)) /\ IsFiniteSet(Passing(h, t))
      /\ clock \in Nat /\ \A d \in Clients : job[d].now \in Nat
  BY GapParts, Known DEF TypeOK
<1>3. Passing(h, t)' \in SUBSET Passing(h, t)
  <2>1. ASSUME NEW d \in Clients, At(d, "log")', h < job'[d].now, job'[d].now < t
        PROVE  d \in Passing(h, t)
    <3>1. At(d, "log") /\ job'[d].now = job[d].now
      BY <1>2, <2>1, LogEntered
    <3>2. QED
      BY <2>1, <3>1 DEF Passing
  <2>2. QED
    BY <2>1 DEF Passing
<1>4. PICK y1 \in Nat : y1 = Cardinality(Passing(h, t)') /\ y1 <= y
  BY <1>1, <1>2, <1>3, FS_Subset, FS_CardinalityType
<1>5. CASE ~Log(c)
  <2>1. Passed(h, t)' = Passed(h, t)
    BY <1>5, LogStays DEF Passed
  <2>2. QED
    BY <1>1, <1>4, <2>1 DEF Gap
<1>6. CASE Log(c)
  <2>1. PICK e \in Entries : log' = log \cup {e} /\ e.createdAt = job[c].now /\ At(c, "log")
    BY <1>6, LogMoves
  <2>2. CASE h < job[c].now /\ job[c].now < t
    <3>1. c \in Passing(h, t) /\ c \notin Passing(h, t)'
      <4>1. ~At(c, "log")'
        BY <1>6, LogEntered
      <4>2. QED
        BY <2>1, <2>2, <4>1 DEF Passing
    <3>2. y1 <= y - 1
      <4>1. Cardinality(Passing(h, t) \ {c}) = y - 1 /\ IsFiniteSet(Passing(h, t) \ {c})
        BY <1>1, <1>2, <3>1, FS_RemoveElement
      <4>2. Passing(h, t)' \in SUBSET (Passing(h, t) \ {c})
        BY <1>3, <3>1
      <4>3. QED
        BY <1>4, <4>1, <4>2, FS_Subset
    <3>3. Passed(h, t)' = Passed(h, t) \cup {e}
      BY <2>1, <2>2 DEF Passed
    <3>4. PICK x1 \in Nat : x1 = Cardinality(Passed(h, t)') /\ x1 <= x + 1
      <4>1. Cardinality(Passed(h, t) \cup {e}) = IF e \in Passed(h, t) THEN x ELSE x + 1
        BY <1>1, <1>2, FS_AddElement
      <4>2. QED
        BY <3>3, <4>1
    <3>5. QED
      BY <1>1, <1>4, <3>2, <3>4 DEF Gap
  <2>3. CASE ~(h < job[c].now /\ job[c].now < t)
    <3>1. Passed(h, t)' = Passed(h, t)
      BY <2>1, <2>3 DEF Passed
    <3>2. QED
      BY <1>1, <1>4, <3>1 DEF Gap
  <2>4. QED
    BY <2>2, <2>3
<1>7. QED
  BY <1>5, <1>6

\* Between the newest entry and now there are only those that are about to be entered.
LEMMA GapOpens ==
  ASSUME TypeOK, Shape, Crowded, LinksBack, NEW c \in Clients, Acts(c), At(c, "log")',
         ~At(c, "log")
  PROVE  Gap(Hash(job[c].found), job[c].now)' < Together("writers")'
<1>1. job'[c].found = LatestHash(log) /\ job'[c].now = clock + 1 /\ log' = log
  BY LogEntered, LogStays
<1>2. PICK h, t : h = Hash(LatestHash(log)) /\ t = clock + 1
  OBVIOUS
<1>3. Passed(h, t)' = {}
  <2>1. CASE log = {}
    BY <1>1, <2>1 DEF Passed
  <2>2. CASE log # {}
    <3>1. /\ log \in SUBSET Entries /\ clock \in Nat
          /\ \A e \in log : 0 < e.createdAt /\ e.createdAt <= clock /\ e.createdAt \in Nat
      BY DEF TypeOK, Shape, LogFits, Entries
    <3>2. PICK e \in log : /\ LatestHash(log) = e.createdAt
                           /\ \A f \in log : f.createdAt <= e.createdAt
      BY <2>2, <3>1, Latest
    <3>3. h = e.createdAt
      BY <1>2, <3>1, <3>2 DEF Hash, Undefined
    <3>4. \A f \in log : ~(h < f.createdAt)
      BY <3>1, <3>2, <3>3
    <3>5. QED
      BY <1>1, <3>4 DEF Passed
  <2>3. QED
    BY <2>1, <2>2
<1>4. ASSUME NEW d \in Clients, At(d, "log")' PROVE Of(d)'.kind \in Members("writers")
  <2>1. Of(d)'.kind \in KindsAt("log")
    BY <1>4, StageStep DEF StageFits, At
  <2>2. QED
    BY <2>1, MembersOf DEF KindsAt
<1>5. PICK S \in SUBSET Clients : S = Passing(h, t)'
  BY DEF Passing
<1>6. c \notin S
  <2>1. ~(job'[c].now < t)
    BY <1>1, <1>2 DEF TypeOK
  <2>2. QED
    BY <1>5, <2>1 DEF Passing
<1>7. \A d \in S \cup {c} : Of(d)'.kind \in Members("writers")
  BY <1>4, <1>5 DEF Passing
<1>8. S \cup {c} \in SUBSET Clients /\ IsFiniteSet(S)
  BY <1>5, FiniteParts
<1>9. PICK k \in Nat, t1 \in Nat : /\ k = Cardinality(S \cup {c}) /\ t1 = Together("writers")'
                                  /\ k <= t1
  BY <1>7, <1>8, MembersOf, WithinNext
<1>10. PICK m \in Nat : m = Cardinality(S) /\ k = m + 1
  BY <1>6, <1>8, <1>9, FS_AddElement, FiniteParts
<1>11. Gap(h, t)' = 0 + m
  BY <1>3, <1>5, <1>10, FS_EmptySet DEF Gap
<1>12. Gap(Hash(job[c].found), job[c].now)' = m
  <2>1. Hash(job[c].found)' = h /\ job'[c].now = t
    BY <1>1, <1>2 DEF Hash
  <2>2. QED
    BY <1>11, <2>1 DEF Gap, Passed, Passing
<1>13. QED
  BY <1>9, <1>10, <1>12

LEMMA GapsStep ==
  ASSUME TypeOK, Shape, Crowded, LinksBack, Gaps, NEW c \in Clients, Acts(c)
  PROVE  Gaps'
<1>1. PICK t \in Nat, t1 \in Nat : /\ t = Together("writers") /\ t1 = Together("writers")'
                                  /\ t <= t1
  BY TogetherGrows
<1>2. ASSUME NEW h \in Int, NEW k \in Nat, k <= clock, Gap(h, k) < Together("writers")
      PROVE  Gap(h, k)' < Together("writers")'
  <2>1. PICK x \in Nat, y \in Nat : x = Gap(h, k)' /\ y = Gap(h, k) /\ x <= y
    BY <1>2, GapCloses
  <2>2. QED
    BY <1>1, <1>2, <2>1
<1>3. /\ log \in SUBSET Entries
      /\ \A e \in log : /\ e.previousHash \in Int /\ e.createdAt \in Nat /\ e.createdAt <= clock
  BY DEF TypeOK, Shape, LogFits, Entries, Null
<1>4. ASSUME NEW d \in Clients, At(d, "log")
      PROVE  /\ Hash(job[d].found) \in Int /\ job[d].now \in Nat /\ job[d].now <= clock
             /\ Gap(Hash(job[d].found), job[d].now) < Together("writers")
  BY <1>4, Known DEF Shape, StageFits, At, Hash, Null, Gaps
<1>5. ASSUME NEW e \in log' PROVE Gap(e.previousHash, e.createdAt)' < Together("writers")'
  <2>1. CASE e \in log
    BY <1>2, <1>3, <2>1 DEF Gaps
  <2>2. CASE e \notin log
    <3>1. Log(c)
      BY <2>2, LogStays
    <3>2. PICK f \in Entries :
            /\ log' = log \cup {f} /\ f.createdAt = job[c].now /\ At(c, "log")
            /\ job[c].found = Undefined => f.previousHash = Null
            /\ job[c].found # Undefined => f.previousHash = job[c].found
      BY <3>1, LogMoves
    <3>3. PICK h \in Int, k \in Nat :
            /\ h = Hash(job[c].found) /\ k = job[c].now /\ k <= clock
            /\ Gap(h, k) < Together("writers")
      BY <1>4, <3>2
    <3>4. e.previousHash = h /\ e.createdAt = k
      BY <2>2, <3>2, <3>3 DEF Hash
    <3>5. Gap(h, k)' < Together("writers")'
      BY <1>2, <3>3
    <3>6. QED
      BY <3>4, <3>5
  <2>3. QED
    BY <2>1, <2>2
<1>6. ASSUME NEW d \in Clients, At(d, "log")'
      PROVE  Gap(Hash(job[d].found), job[d].now)' < Together("writers")'
  <2>1. CASE At(d, "log") /\ d # c
    <3>1. PICK h \in Int, k \in Nat :
            /\ h = Hash(job[d].found) /\ k = job[d].now /\ k <= clock
            /\ Gap(h, k) < Together("writers")
      BY <1>4, <2>1
    <3>2. Hash(job[d].found)' = h /\ job'[d].now = k
      <4>1. job'[d].found = job[d].found /\ job'[d].now = job[d].now
        BY <1>6, <2>1, LogEntered
      <4>2. QED
        BY <3>1, <4>1 DEF Hash
    <3>3. Gap(h, k)' < Together("writers")'
      BY <1>2, <3>1
    <3>4. QED
      BY <3>2, <3>3 DEF Gap, Passed, Passing
  <2>2. CASE ~(At(d, "log") /\ d # c)
    <3>1. d = c /\ ~At(c, "log")
      BY <1>6, <2>2, LogEntered
    <3>2. QED
      BY <1>6, <3>1, GapOpens
  <2>3. QED
    BY <2>1, <2>2
<1>7. QED
  BY <1>5, <1>6 DEF Gaps

\* ForksAreOverlaps: of changes that overlap, and no others, several link to the same
\* entry, and one links past the others.
THEOREM ChainForksByOverlap == Spec => []ForksAreOverlaps
<1>1. Init => LogInv
  <2> SUFFICES ASSUME Init PROVE LogInv
    OBVIOUS
  <2>1. log = {} /\ \A c \in Clients : ~At(c, "log")
    BY IdleRow DEF Init, At
  <2>2. \A h : Naming(h) = {} /\ About(h) = {}
    BY <2>1 DEF Naming, About
  <2>3. Together("writers") \in Nat
    BY MembersOf DEF Init, Together
  <2>4. QED
    BY <2>1, <2>2, <2>3, FS_EmptySet DEF LogInv, LinksBack, Forks, Gaps
<1>2. TypeOK /\ Shape /\ Crowded /\ LogInv /\ [Next]_vars => LogInv'
  <2> SUFFICES ASSUME TypeOK, Shape, Crowded, LogInv, [Next]_vars PROVE LogInv'
    OBVIOUS
  <2>1. CASE Aside
    BY <2>1 DEF Aside, LogInv, LinksBack, Forks, Gaps, Gap, Passed, Passing, Naming, About, At,
                Together
  <2>2. QED
    BY <2>1, LinksBackStep, ForksStep, GapsStep, StepOrAside DEF LogInv
<1>3. TypeOK /\ LogInv => ForksAreOverlaps
  <2> SUFFICES ASSUME TypeOK, LogInv, NEW e \in log
               PROVE  /\ Cardinality(Siblings(log, e)) <= Together("writers")
                      /\ Cardinality(Skipped(log, e)) < Together("writers")
    BY DEF ForksAreOverlaps
  <2>1. Together("writers") \in Nat /\ e.previousHash \in Nat \cup {Null}
    <3>1. crowd["writers"] \in Nat
      BY MembersOf DEF TypeOK
    <3>2. QED
      BY <3>1 DEF Together, TypeOK, Entries
  <2>2. Siblings(log, e) = Naming(e.previousHash)
    BY DEF Siblings, Naming
  <2>3. Skipped(log, e) = Passed(e.previousHash, e.createdAt)
    BY DEF Skipped, Passed
  <2>4. PICK x \in Nat, y \in Nat :
          /\ x = Cardinality(Naming(e.previousHash)) /\ y = Cardinality(About(e.previousHash))
          /\ x + y <= Together("writers")
    BY <2>1, CountedEntries DEF LogInv, Forks
  <2>5. PICK z \in Nat, w \in Nat :
          /\ z = Cardinality(Passed(e.previousHash, e.createdAt))
          /\ w = Cardinality(Passing(e.previousHash, e.createdAt))
          /\ z + w < Together("writers")
    BY GapParts DEF LogInv, Gaps, Gap
  <2>6. QED
    BY <2>1, <2>2, <2>3, <2>4, <2>5
<1>4. QED
  BY <1>1, <1>2, <1>3, InitTypes, TypeInductive, InitCrowd, CrowdInductive, PTL DEF Spec

-----------------------------------------------------------------------------
(* Chains of the hierarchy.                                                *)

\* f climbs k steps of the hierarchy h.
Chain(h, f, k) == f \in [0..k -> Roles] /\ \A i \in 1..k : f[i] = h[f[i - 1]]
Leads(h, r, s, k) == \E f \in [0..k -> Roles] : Chain(h, f, k) /\ f[0] = r /\ f[k] = s
Above == [r \in Roles |-> ParentOf(r)]

LEMMA ChainHere ==
  ASSUME NEW h, NEW r \in Roles
  PROVE  Leads(h, r, r, 0)
<1>1. PICK f \in [0..0 -> Roles] : f = [i \in 0..0 |-> r]
  OBVIOUS
<1>2. Chain(h, f, 0) /\ f[0] = r
  BY <1>1 DEF Chain
<1>3. QED
  BY <1>2 DEF Leads

LEMMA ChainLonger ==
  ASSUME NEW h, NEW k \in Nat, NEW r, NEW q \in Roles, Leads(h, r, q, k), h[q] \in Roles
  PROVE  Leads(h, r, h[q], k + 1)
<1>1. PICK f \in [0..k -> Roles] : Chain(h, f, k) /\ f[0] = r /\ f[k] = q
  BY DEF Leads
<1>2. PICK g : g = [i \in 0..k+1 |-> IF i = k + 1 THEN h[q] ELSE f[i]]
  OBVIOUS
<1>3. g \in [0..k+1 -> Roles]
  <2>1. ASSUME NEW i \in 0..k+1 PROVE IF i = k + 1 THEN h[q] \in Roles ELSE f[i] \in Roles
    BY <1>1
  <2>2. QED
    BY <1>2, <2>1
<1>4. ASSUME NEW i \in 1..k+1 PROVE g[i] = h[g[i - 1]]
  <2>1. CASE i = k + 1
    BY <1>1, <1>2, <2>1
  <2>2. CASE i \in 1..k
    BY <1>1, <1>2, <2>2 DEF Chain
  <2>3. QED
    BY <2>1, <2>2
<1>5. g[0] = r /\ g[k + 1] = h[q]
  BY <1>1, <1>2
<1>6. QED
  BY <1>4, <1>5, <1>3 DEF Leads, Chain

LEMMA ChainShorter ==
  ASSUME NEW h, NEW k \in Nat \ {0}, NEW r, NEW s, Leads(h, r, s, k)
  PROVE  \E q \in Roles : Leads(h, r, q, k - 1) /\ h[q] = s
<1>1. PICK f \in [0..k -> Roles] : Chain(h, f, k) /\ f[0] = r /\ f[k] = s
  BY DEF Leads
<1>2. PICK g : g = [i \in 0..k-1 |-> f[i]]
  OBVIOUS
<1>3. g \in [0..k-1 -> Roles]
  BY <1>2
<1>4. Chain(h, g, k - 1) /\ g[0] = r
  BY <1>1, <1>2, <1>3 DEF Chain
<1>5. f[k - 1] = g[k - 1] /\ g[k - 1] \in Roles /\ h[f[k - 1]] = s
  BY <1>1, <1>2 DEF Chain
<1>6. QED
  BY <1>4, <1>5, <1>3 DEF Leads

\* A hierarchy with fewer links has no other chains.
LEMMA ChainUnder ==
  ASSUME NEW h, NEW h1, \A q \in Roles : h1[q] = h[q] \/ h1[q] = None,
         NEW k \in Nat, NEW f, Chain(h1, f, k)
  PROVE  Chain(h, f, k)
<1>1. ASSUME NEW i \in 1..k PROVE f[i] = h[f[i - 1]]
  <2>1. f[i] \in Roles /\ f[i - 1] \in Roles /\ f[i] = h1[f[i - 1]]
    BY DEF Chain
  <2>2. QED
    BY <2>1, AccessFits
<1>2. QED
  BY <1>1 DEF Chain

\* Nor does a change of a role's parent matter to a chain that does not pass it.
LEMMA ChainAside ==
  ASSUME NEW h, NEW h1, NEW r, \A q \in Roles \ {r} : h1[q] = h[q],
         NEW k \in Nat, NEW f, Chain(h1, f, k), \A i \in 0..k-1 : f[i] # r
  PROVE  Chain(h, f, k)
<1>1. ASSUME NEW i \in 1..k PROVE f[i] = h[f[i - 1]]
  <2>1. f[i - 1] \in Roles /\ f[i] = h1[f[i - 1]] /\ f[i - 1] # r
    BY DEF Chain
  <2>2. QED
    BY <2>1
<1>2. QED
  BY <1>1 DEF Chain

\* Of a chain that meets s, the part to where it first does: the parent of s does
\* not matter to it.
FirstPart(h, f, s, k) == \E m \in 0..k : \E g \in [0..m -> Roles] :
  Chain(h, g, m) /\ g[m] = s /\ \A i \in 0..m : g[i] = f[i]

LEMMA ChainPart ==
  ASSUME NEW h, NEW h1, NEW s \in Roles, \A q \in Roles \ {s} : h1[q] = h[q],
         NEW k \in Nat, NEW f, Chain(h1, f, k), NEW j \in 0..k, f[j] = s
  PROVE  FirstPart(h, f, s, k)
<1>1. PICK X : X = {i \in 0..k : f[i] = s}
  OBVIOUS
<1>2. PICK m \in X : \A i \in X : m <= i
  <2>1. j \in X /\ X \in SUBSET Nat
    BY <1>1
  <2>2. QED
    BY <2>1, LeastNumber
<1>3. m \in 0..k /\ f[m] = s /\ \A i \in 0..m-1 : f[i] # s
  BY <1>1, <1>2
<1>4. PICK g : g = [i \in 0..m |-> f[i]]
  OBVIOUS
<1>5. g \in [0..m -> Roles]
  BY <1>3, <1>4 DEF Chain
<1>6. /\ Chain(h1, g, m) /\ g[m] = s
      /\ (\A i \in 0..m : g[i] = f[i]) /\ (\A i \in 0..m-1 : g[i] # s)
  BY <1>3, <1>4, <1>5 DEF Chain
<1>7. Chain(h, g, m)
  <2>1. m \in Nat
    BY <1>3
  <2>2. Chain(h1, g, m) /\ \A i \in 0..m-1 : g[i] # s
    BY <1>6
  <2>3. QED
    BY <2>1, <2>2, ChainAside
<1>8. QED
  BY <1>3, <1>5, <1>6, <1>7 DEF FirstPart

LEMMA ChainCut ==
  ASSUME NEW h, NEW h1, NEW s \in Roles, \A q \in Roles \ {s} : h1[q] = h[q],
         NEW k \in Nat, NEW f, Chain(h1, f, k), f[k] = s
  PROVE  \E m \in 0..k : Leads(h, f[0], s, m)
<1>1. PICK m \in 0..k : \E g \in [0..m -> Roles] :
        Chain(h, g, m) /\ g[m] = s /\ \A i \in 0..m : g[i] = f[i]
  <2>1. k \in 0..k
    OBVIOUS
  <2>2. FirstPart(h, f, s, k)
    BY <2>1, ChainPart
  <2>3. QED
    BY <2>2 DEF FirstPart
<1>2. PICK g \in [0..m -> Roles] : Chain(h, g, m) /\ g[m] = s /\ \A i \in 0..m : g[i] = f[i]
  BY <1>1
<1>3. g[0] = f[0]
  BY <1>2
<1>4. QED
  BY <1>2, <1>3 DEF Leads

\* A cycle through s that begins elsewhere, begun after s.
LEMMA CycleTurned ==
  ASSUME NEW h, NEW k \in Nat \ {0}, NEW f, Chain(h, f, k), f[0] = f[k], NEW i \in 0..k-1
  PROVE  Leads(h, f[i + 1], f[i], k - 1)
<1>1. f \in [0..k -> Roles] /\ \A j \in 1..k : f[j] = h[f[j - 1]]
  BY DEF Chain
<1>2. PICK g :
        g = [j \in 0..k-1 |-> IF i + 1 + j <= k THEN f[i + 1 + j] ELSE f[i + 1 + j - k]]
  OBVIOUS
<1>3. g \in [0..k-1 -> Roles]
  <2>1. ASSUME NEW j \in 0..k-1
        PROVE  IF i + 1 + j <= k THEN f[i + 1 + j] \in Roles ELSE f[i + 1 + j - k] \in Roles
    BY <1>1
  <2>2. QED
    BY <1>2, <2>1
<1>4. ASSUME NEW j \in 1..k-1 PROVE g[j] = h[g[j - 1]]
  <2>1. CASE i + 1 + j <= k
    <3>1. g[j] = f[i + 1 + j] /\ g[j - 1] = f[i + j] /\ i + 1 + j \in 1..k
      BY <1>2, <2>1
    <3>2. f[i + 1 + j] = h[f[(i + 1 + j) - 1]]
      BY <1>1, <3>1
    <3>3. QED
      BY <3>1, <3>2
  <2>2. CASE i + j = k
    <3>1. g[j] = f[1] /\ g[j - 1] = f[k]
      BY <1>2, <2>2
    <3>2. f[1] = h[f[0]]
      BY <1>1
    <3>3. QED
      BY <3>1, <3>2
  <2>3. CASE i + j > k
    <3>1. /\ g[j] = f[i + 1 + j - k] /\ g[j - 1] = f[i + j - k]
          /\ i + 1 + j - k \in 1..k
      BY <1>2, <2>3
    <3>2. f[i + 1 + j - k] = h[f[(i + 1 + j - k) - 1]]
      BY <1>1, <3>1
    <3>3. QED
      BY <3>1, <3>2
  <2>4. QED
    BY <2>1, <2>2, <2>3
<1>5. g[0] = f[i + 1] /\ g[k - 1] = f[i]
  BY <1>1, <1>2
<1>6. QED
  BY <1>4, <1>5, <1>3 DEF Leads, Chain

-----------------------------------------------------------------------------
(* The hierarchy gets no short cycle.                                      *)

\* What assertNoCycle has found out: a chain from the new parent to the role would
\* have to go on from where the walk is, and when it is over there is none.
NoCycle == \A r \in Roles : \A k \in 1..MaxDepth : ~Leads(Above, r, r, k)
Climbed(c) == \A e \in job[c].todo : \A k \in 0..MaxDepth-1 : \A f \in [0..k -> Roles] :
  Chain(Above, f, k) /\ f[0] = Of(c).parent /\ f[k] = Of(c).role => e[2] < k /\ f[e[2]] = e[1]
Clear(c) == \A k \in 0..MaxDepth-1 : ~Leads(Above, Of(c).parent, Of(c).role, k)
Reparents(c) == At(c, "write") /\ Of(c).kind = "reparent" /\ Of(c).parent # None
CycleInv == crowd["reparents"] <= 1 =>
  /\ NoCycle
  /\ \A c \in Clients : At(c, "climb") => Climbed(c)
  /\ \A c \in Clients : Reparents(c) => Clear(c)

\* What a step does to the hierarchy: take links away, add a role nobody is under,
\* or re-parent one.
FewerLinks == \A q \in Roles : Above'[q] = Above[q] \/ Above'[q] = None
RoleAdded == \E r \in Roles :
  /\ r \notin live \cup gone /\ \A q \in Roles \ {r} : Above'[q] = Above[q]
  /\ \A q \in Roles : Above'[q] # r

LEMMA AboveType ==
  ASSUME TypeOK, Shape, NEW q \in Roles
  PROVE  Above[q] = ParentOf(q) /\ Above[q] \in live \cup {None} /\ Above[q] \in Roles \cup {None}
BY ParentRange DEF Above

LEMMA AboveStep ==
  ASSUME TypeOK, Shape, NEW c \in Clients, Acts(c)
  PROVE  \/ FewerLinks
         \/ RoleAdded
         \/ /\ Reparents(c) /\ Of(c).role \in Roles /\ Of(c).parent \in Roles
            /\ ~At(c, "climb")' /\ ~At(c, "write")'
            /\ Above' = [Above EXCEPT ![Of(c).role] = Of(c).parent]
<1>0. live \subseteq Roles /\ parent \in [Roles -> Roles \cup {None}]
  BY DEF TypeOK
<1>1. CASE CreateRole(c)
  <2>1. CASE live' = live /\ parent' = parent
    BY <2>1 DEF FewerLinks, Above, ParentOf
  <2>2. CASE ~(live' = live /\ parent' = parent)
    <3>1. PICK r \in Roles :
            /\ r = Of(c).role /\ r \notin live \cup gone /\ live' = live \cup {r}
            /\ parent' = [parent EXCEPT ![r] = Of(c).parent]
            /\ Of(c).parent \in live \cup {None}
      BY <1>1, <2>2, CreateRoleMoves
    <3>2. \A q \in Roles \ {r} : Above'[q] = Above[q]
      BY <1>0, <3>1 DEF Above, ParentOf
    <3>3. Above'[r] = Of(c).parent
      BY <1>0, <3>1 DEF Above, ParentOf
    <3>4. \A q \in Roles : Above'[q] # r
      BY <3>1, <3>2, <3>3, AboveType, AccessFits
    <3>5. QED
      BY <3>1, <3>2, <3>4 DEF RoleAdded
  <2>3. QED
    BY <2>1, <2>2
<1>2. CASE Write(c)
  <2>1. live' = live
    BY <1>2 DEF Write
  <2>2. CASE parent' = parent
    BY <2>1, <2>2 DEF FewerLinks, Above, ParentOf
  <2>3. CASE parent' # parent
    <3>1. /\ At(c, "write") /\ Of(c).role \in Roles /\ job'[c].at = "collect"
          /\ Of(c).kind = "reparent" /\ Of(c).role \in live /\ Of(c).parent \in live \cup {None}
          /\ parent' = [parent EXCEPT ![Of(c).role] = Of(c).parent]
      BY <1>2, <2>3, WriteMoves
    <3>2. \A q \in Roles \ {Of(c).role} : Above'[q] = Above[q]
      BY <1>0, <2>1, <3>1 DEF Above, ParentOf
    <3>3. Above'[Of(c).role] = Of(c).parent
      BY <1>0, <2>1, <3>1 DEF Above, ParentOf
    <3>4. CASE Of(c).parent = None
      BY <3>2, <3>3, <3>4 DEF FewerLinks
    <3>5. CASE Of(c).parent # None
      <4>1. Above' = [Above EXCEPT ![Of(c).role] = Of(c).parent]
        BY <3>1, <3>2, <3>3 DEF Above
      <4>2. QED
        BY <1>0, <3>1, <3>5, <4>1 DEF Reparents, At
    <3>6. QED
      BY <3>4, <3>5
  <2>4. QED
    BY <2>2, <2>3
<1>3. CASE Erase(c)
  <2>1. CASE UNCHANGED database
    BY <2>1 DEF FewerLinks, Above, ParentOf, database
  <2>2. CASE ~UNCHANGED database
    <3>1. PICK r \in Roles : /\ live' = live \ {r}
                             /\ parent' = [q \in Roles |-> IF q = r \/ parent[q] = r THEN None
                                                                                     ELSE parent[q]]
      BY <1>3, <2>2, EraseMoves
    <3>2. ASSUME NEW q \in Roles PROVE Above'[q] = Above[q] \/ Above'[q] = None
      BY <1>0, <3>1 DEF Above, ParentOf
    <3>3. QED
      BY <3>2 DEF FewerLinks
  <2>3. QED
    BY <2>1, <2>2
<1>4. CASE ~CreateRole(c) /\ ~Write(c) /\ ~Erase(c)
  <2>1. live' = live /\ parent' = parent
    BY <1>4, StepCases, KeptBySmall, KeptByRest DEF database
  <2>2. QED
    BY <2>1 DEF FewerLinks, Above, ParentOf
<1>5. QED
  BY <1>1, <1>2, <1>3, <1>4

LEMMA NoCycleStep ==
  ASSUME TypeOK, Shape, NoCycle, NEW c \in Clients, Acts(c), Reparents(c) => Clear(c)
  PROVE  NoCycle'
<1>1. PICK h : h = Above
  OBVIOUS
<1>2. PICK h1 : h1 = Above'
  OBVIOUS
<1> SUFFICES ASSUME NEW r \in Roles, NEW k \in 1..MaxDepth, NEW f \in [0..k -> Roles],
                    Chain(h1, f, k), f[0] = r, f[k] = r
             PROVE  FALSE
  BY <1>2 DEF NoCycle, Leads
<1>3. k \in Nat /\ k # 0 /\ MaxDepth \in Nat
  BY AccessFits
<1>4. ~Chain(h, f, k)
  BY <1>1 DEF NoCycle, Leads
<1>5. CASE FewerLinks
  <2>1. \A q \in Roles : h1[q] = h[q] \/ h1[q] = None
    BY <1>1, <1>2, <1>5 DEF FewerLinks
  <2>2. Chain(h, f, k)
    BY <1>3, <2>1, ChainUnder
  <2>3. QED
    BY <1>4, <2>2
<1>6. CASE RoleAdded
  <2>1. PICK s \in Roles : \A q \in Roles : (q # s => h1[q] = h[q]) /\ h1[q] # s
    BY <1>1, <1>2, <1>6 DEF RoleAdded
  <2>2. ASSUME NEW i \in 0..k-1 PROVE f[i] # s
    <3>1. PICK j \in 1..k : f[j] = f[i]
      BY <1>3
    <3>2. f[j] = h1[f[j - 1]] /\ f[j - 1] \in Roles
      BY <1>3 DEF Chain
    <3>3. QED
      BY <2>1, <3>1, <3>2
  <2>3. Chain(h, f, k)
    BY <1>3, <2>1, <2>2, ChainAside
  <2>4. QED
    BY <1>4, <2>3
<1>7. CASE /\ Reparents(c) /\ Of(c).role \in Roles /\ Of(c).parent \in Roles
           /\ Above' = [Above EXCEPT ![Of(c).role] = Of(c).parent]
  <2>1. PICK s \in Roles, p \in Roles : s = Of(c).role /\ p = Of(c).parent
    BY <1>7
  <2>2. h1[s] = p /\ \A q \in Roles \ {s} : h1[q] = h[q]
    BY <1>1, <1>2, <1>7, <2>1 DEF Above
  <2>3. PICK i \in 0..k-1 : f[i] = s
    BY <1>3, <1>4, <2>2, ChainAside
  <2>4. Leads(h1, f[i + 1], s, k - 1)
    BY <1>3, <2>3, CycleTurned
  <2>5. f[i + 1] = p
    <3>1. f[i + 1] = h1[f[(i + 1) - 1]]
      BY <1>3 DEF Chain
    <3>2. QED
      BY <1>3, <2>2, <2>3, <3>1
  <2>6. PICK g : Chain(h1, g, k - 1) /\ g[0] = p /\ g[k - 1] = s
    BY <2>4, <2>5 DEF Leads
  <2>7. PICK m \in 0..k-1 : Leads(h, p, s, m)
    <3>1. k - 1 \in Nat
      BY <1>3
    <3>2. \E m \in 0..k-1 : Leads(h, g[0], s, m)
      BY <2>2, <2>6, <3>1, ChainCut
    <3>3. QED
      BY <2>6, <3>2
  <2>8. m \in 0..MaxDepth-1
    BY <1>3
  <2>9. QED
    BY <1>1, <1>7, <2>1, <2>7, <2>8 DEF Clear
<1>8. QED
  BY <1>5, <1>6, <1>7, AboveStep

\* The new parent was once a role, so no role added later is part of a chain from it.
LEMMA OldChain ==
  ASSUME TypeOK, Shape, NEW c \in Clients, Acts(c), ~Reparents(c),
         NEW k \in Nat, NEW f \in [0..k -> Roles], Chain(Above', f, k), f[0] \in live \cup gone
  PROVE  Chain(Above, f, k)
<1>1. PICK h : h = Above
  OBVIOUS
<1>2. PICK h1 : h1 = Above' /\ Chain(h1, f, k)
  OBVIOUS
<1>3. CASE FewerLinks
  <2>1. \A q \in Roles : h1[q] = h[q] \/ h1[q] = None
    BY <1>1, <1>2, <1>3 DEF FewerLinks
  <2>2. Chain(h, f, k)
    BY <1>2, <2>1, ChainUnder
  <2>3. QED
    BY <1>1, <2>2
<1>4. CASE RoleAdded
  <2>1. PICK s \in Roles : s \notin live \cup gone /\ \A q \in Roles : (q # s => h1[q] = h[q]) /\ h1[q] # s
    BY <1>1, <1>2, <1>4 DEF RoleAdded
  <2>2. ASSUME NEW i \in 0..k-1 PROVE f[i] # s
    <3>1. CASE i = 0
      BY <2>1, <3>1
    <3>2. CASE i # 0
      <4>1. i \in 1..k /\ i - 1 \in 0..k
        BY <3>2
      <4>2. f[i] = h1[f[i - 1]] /\ f[i - 1] \in Roles
        BY <1>2, <4>1 DEF Chain
      <4>3. QED
        BY <2>1, <4>2
    <3>3. QED
      BY <3>1, <3>2
  <2>3. Chain(h, f, k)
    BY <1>2, <2>1, <2>2, ChainAside
  <2>4. QED
    BY <1>1, <2>3
<1>5. QED
  BY <1>3, <1>4, AboveStep

\* Who is climbing, or about to re-parent, was there or climbing before.
LEMMA ClimbersBefore ==
  ASSUME TypeOK, Shape, Crowded, NEW c \in Clients, Acts(c), crowd["reparents"] <= 1,
         NEW d \in Clients, At(d, "climb")' \/ Reparents(d)'
  PROVE  /\ Of(d)' = Of(d) /\ Of(d).parent \in live \cup gone /\ ~Reparents(c)
         /\ d # c => job'[d].at = job[d].at /\ job'[d].todo = job[d].todo
         /\ d = c => /\ \E s \in Stages : Enters(c, s) /\ s = job'[c].at
                     /\ Of(c).kind = "reparent" /\ Of(c).parent # None
<1>1. CASE d # c
  <2>1. /\ Of(d)' = Of(d) /\ job'[d].at = job[d].at /\ job'[d].todo = job[d].todo
        /\ (At(d, "climb") \/ Reparents(d))
    BY <1>1, StageStep DEF Others, At, Reparents
  <2>2. Of(d).kind = "reparent" /\ Of(d).parent # None
    <3>1. CASE At(d, "climb")
      BY <3>1, Known, KindsOf DEF At, Shape, StageFits
    <3>2. CASE Reparents(d)
      BY <3>2 DEF Reparents
    <3>3. QED
      BY <2>1, <3>1, <3>2
  <2>3. Of(d).parent \in live \cup gone
    BY <2>1, <2>2 DEF Shape, StageFits, At, Reparents
  <2>4. ~Reparents(c)
    BY <1>1, <2>2, Alone, MembersOf DEF Reparents
  <2>5. QED
    BY <1>1, <2>1, <2>3, <2>4
<1>2. CASE d = c
  <2>1. Moves(c)
    BY <1>2, WorkMoves, SubmitMoves DEF Acts, At, Reparents
  <2>2. PICK s \in Stages : Goes(c, s) /\ Admits(c, s) /\ Enters(c, s)
    BY <1>2, <2>1 DEF Moves, Over, At, Reparents
  <2>3. /\ Of(c)' = Of(c) /\ s = job'[c].at /\ s \in {"climb", "write"}
        /\ Of(c).kind = "reparent" /\ Of(c).parent # None
    BY <1>2, <2>2, KindsOf DEF Goes, Admits, At, Reparents
  <2>4. Of(c).parent \in live \cup gone
    BY <2>2, <2>3 DEF Admits
  <2>5. At(c, "parent") \/ At(c, "climb")
    BY <2>2, <2>3 DEF Enters
  <2>6. QED
    BY <1>2, <2>2, <2>3, <2>4, <2>5 DEF At, Reparents
<1>3. QED
  BY <1>1, <1>2

LEMMA ClimbedStep ==
  ASSUME TypeOK, Shape, Crowded, NEW c \in Clients, Acts(c), crowd["reparents"] <= 1,
         NEW d \in Clients, At(d, "climb")', At(d, "climb") => Climbed(d)
  PROVE  Climbed(d)'
<1>1. Of(d)' = Of(d) /\ Of(d).parent \in live \cup gone /\ ~Reparents(c)
  BY ClimbersBefore
<1> SUFFICES ASSUME NEW e \in job'[d].todo, NEW k \in 0..MaxDepth-1, NEW f \in [0..k -> Roles],
                    Chain(Above', f, k), f[0] = Of(d).parent, f[k] = Of(d).role
             PROVE  e[2] < k /\ f[e[2]] = e[1]
  BY <1>1 DEF Climbed
<1>2. k \in Nat /\ Chain(Above, f, k)
  BY <1>1, OldChain
<1>3. CASE d # c
  BY <1>2, <1>3, ClimbersBefore DEF Climbed, At
<1>4. CASE d = c
  <2>1. Enters(c, "climb")
    BY <1>4, ClimbersBefore DEF At
  <2>2. CASE Of(c).parent # Of(c).role /\ job'[c].todo = {<<Of(c).parent, 0>>}
    BY <1>2, <1>4, <2>2
  <2>3. CASE /\ At(c, "climb")
             /\ \E g \in job[c].todo : /\ ParentOf(g[1]) # Of(c).role /\ g[2] + 1 < MaxDepth
                                       /\ job'[c].todo = {<<ParentOf(g[1]), g[2] + 1>>}
    <3>1. PICK g \in job[c].todo : /\ ParentOf(g[1]) # Of(c).role
                                   /\ job'[c].todo = {<<ParentOf(g[1]), g[2] + 1>>}
      BY <2>3
    <3>2. g[1] \in Roles /\ g[2] \in Nat
      BY TodoParts
    <3>3. g[2] < k /\ f[g[2]] = g[1]
      BY <1>2, <1>4, <2>3 DEF Climbed
    <3>4. f[g[2] + 1] = ParentOf(g[1])
      <4>1. g[2] + 1 \in 1..k
        BY <1>2, <3>2, <3>3
      <4>2. f[g[2] + 1] = Above[f[(g[2] + 1) - 1]]
        BY <1>2, <4>1 DEF Chain
      <4>3. QED
        BY <3>2, <3>3, <4>2 DEF Above
    <3>5. g[2] + 1 # k
      BY <1>4, <3>1, <3>4
    <3>6. QED
      BY <1>2, <1>4, <3>1, <3>2, <3>3, <3>4, <3>5
  <2>4. QED
    BY <2>1, <2>2, <2>3 DEF Enters
<1>5. QED
  BY <1>3, <1>4

LEMMA ClearStep ==
  ASSUME TypeOK, Shape, Crowded, NEW c \in Clients, Acts(c), crowd["reparents"] <= 1,
         NEW d \in Clients, Reparents(d)',
         At(d, "climb") => Climbed(d), Reparents(d) => Clear(d)
  PROVE  Clear(d)'
<1>1. Of(d)' = Of(d) /\ Of(d).parent \in live \cup gone /\ ~Reparents(c)
  BY ClimbersBefore
<1> SUFFICES ASSUME NEW k \in 0..MaxDepth-1, NEW f \in [0..k -> Roles],
                    Chain(Above', f, k), f[0] = Of(d).parent, f[k] = Of(d).role
             PROVE  FALSE
  BY <1>1 DEF Clear, Leads
<1>2. k \in Nat /\ MaxDepth \in Nat /\ Chain(Above, f, k)
  BY <1>1, OldChain, AccessFits
<1>3. CASE d # c
  <2>1. Reparents(d)
    BY <1>1, <1>3, ClimbersBefore DEF Reparents, At
  <2>2. QED
    BY <1>2, <2>1 DEF Clear, Leads
<1>4. CASE d = c
  <2>1. Enters(c, "write") /\ Of(c).kind = "reparent" /\ Of(c).parent # None
    BY <1>4, ClimbersBefore DEF Reparents, At
  <2>2. PICK g \in job[c].todo : ParentOf(g[1]) = None \/ g[2] + 1 >= MaxDepth
    BY <2>1 DEF Enters
  <2>3. g[1] \in Roles /\ g[2] \in Nat
    BY TodoParts
  <2>4. At(c, "climb") /\ g[2] < k /\ f[g[2]] = g[1]
    BY <1>2, <1>4, <2>1 DEF Climbed, Enters
  <2>5. f[g[2] + 1] \in Roles /\ f[g[2] + 1] = ParentOf(g[1])
    <3>1. g[2] + 1 \in 1..k
      BY <1>2, <2>3, <2>4
    <3>2. f[g[2] + 1] = Above[f[(g[2] + 1) - 1]]
      BY <1>2, <3>1 DEF Chain
    <3>3. QED
      BY <2>3, <2>4, <3>1, <3>2 DEF Above
  <2>6. QED
    BY <1>2, <2>2, <2>3, <2>4, <2>5, AccessFits
<1>5. QED
  BY <1>3, <1>4

LEMMA CycleStep ==
  ASSUME TypeOK, Shape, Crowded, CycleInv, NEW c \in Clients, Acts(c)
  PROVE  CycleInv'
<1> SUFFICES ASSUME crowd'["reparents"] <= 1
             PROVE  /\ NoCycle'
                    /\ \A d \in Clients : At(d, "climb")' => Climbed(d)'
                    /\ \A d \in Clients : Reparents(d)' => Clear(d)'
  BY DEF CycleInv
<1>1. crowd["reparents"] <= 1
  <2>1. /\ crowd["reparents"] \in Nat /\ crowd'["reparents"] \in Nat
        /\ crowd["reparents"] <= crowd'["reparents"]
    BY CrowdStep, MembersOf
  <2>2. QED
    BY <2>1
<1>2. /\ NoCycle
      /\ \A d \in Clients : At(d, "climb") => Climbed(d)
      /\ \A d \in Clients : Reparents(d) => Clear(d)
  BY <1>1 DEF CycleInv
<1>3. NoCycle'
  BY <1>2, NoCycleStep
<1>4. \A d \in Clients : At(d, "climb")' => Climbed(d)'
  BY <1>1, <1>2, ClimbedStep
<1>5. \A d \in Clients : Reparents(d)' => Clear(d)'
  BY <1>1, <1>2, ClearStep
<1>6. QED
  BY <1>3, <1>4, <1>5

\* Ancestry computes chains.
Ascent(from, up) ==
  [k \in 0..MaxDepth |-> IF k = 0 THEN from ELSE {ParentOf(r) : r \in up[k - 1]} \ {None}]

LEMMA AncestryEquation ==
  ASSUME TypeOK, Shape, NEW from \in SUBSET Roles
  PROVE  Ancestry(from) = Ascent(from, Ancestry(from))
<1>1. PICK w : w = [k \in 0..MaxDepth |-> {s \in Roles : \E r \in from : Leads(Above, r, s, k)}]
  OBVIOUS
<1>2. MaxDepth \in Nat
  BY AccessFits
<1>3. w[0] = from
  <2>1. ASSUME NEW r \in from PROVE r \in w[0]
    BY <1>1, <1>2, <2>1, ChainHere
  <2>2. ASSUME NEW s \in w[0] PROVE s \in from
    <3>1. PICK r \in from : Leads(Above, r, s, 0)
      BY <1>1, <1>2, <2>2
    <3>2. QED
      BY <3>1 DEF Leads
  <2>3. QED
    BY <2>1, <2>2
<1>4. ASSUME NEW k \in 0..MaxDepth, k # 0
      PROVE  w[k] = {ParentOf(r) : r \in w[k - 1]} \ {None}
  <2>1. k - 1 \in 0..MaxDepth /\ k - 1 \in Nat /\ k \in Nat /\ (k - 1) + 1 = k
    BY <1>2, <1>4
  <2>2. ASSUME NEW s \in w[k] PROVE s # None /\ \E q \in w[k - 1] : s = ParentOf(q)
    <3>1. PICK r \in from : Leads(Above, r, s, k) /\ s \in Roles
      BY <1>1, <2>2
    <3>2. PICK q \in Roles : Leads(Above, r, q, k - 1) /\ Above[q] = s
      BY <1>4, <2>1, <3>1, ChainShorter
    <3>3. q \in w[k - 1]
      BY <1>1, <2>1, <3>2
    <3>4. QED
      BY <3>1, <3>2, <3>3, AccessFits DEF Above
  <2>3. ASSUME NEW q \in w[k - 1], ParentOf(q) # None PROVE ParentOf(q) \in w[k]
    <3>1. PICK r \in from : Leads(Above, r, q, k - 1) /\ q \in Roles
      BY <1>1, <2>1, <2>3
    <3>2. Above[q] = ParentOf(q) /\ Above[q] \in Roles
      BY <2>3, <3>1, AboveType
    <3>3. Leads(Above, r, Above[q], (k - 1) + 1)
      BY <2>1, <3>1, <3>2, ChainLonger
    <3>4. QED
      BY <1>1, <2>1, <3>2, <3>3
  <2>4. QED
    BY <2>2, <2>3
<1>5. w = Ascent(from, w)
  <2>1. \A k \in 0..MaxDepth :
          w[k] = IF k = 0 THEN from ELSE {ParentOf(r) : r \in w[k - 1]} \ {None}
    BY <1>3, <1>4
  <2>2. w = [k \in 0..MaxDepth |-> w[k]]
    BY <1>1
  <2>3. Ascent(from, w) = [k \in 0..MaxDepth |-> w[k]]
    BY <2>1 DEF Ascent
  <2>4. QED
    BY <2>2, <2>3
<1>6. Ancestry(from) = CHOOSE up : up = Ascent(from, up)
  BY DEF Ancestry, Ascent
<1>7. QED
  BY <1>5, <1>6

LEMMA AncestryChains ==
  ASSUME TypeOK, Shape, NEW from \in SUBSET Roles, NEW k \in 0..MaxDepth,
         NEW s \in Ancestry(from)[k]
  PROVE  s \in Roles /\ \E r \in from : Leads(Above, r, s, k)
<1>1. PICK up : up = Ancestry(from) /\ up = Ascent(from, up)
  BY AncestryEquation
<1>2. MaxDepth \in Nat
  BY AccessFits
<1> DEFINE Bad == {n \in 0..MaxDepth :
                     \E q \in up[n] : ~(q \in Roles /\ \E r \in from : Leads(Above, r, q, n))}
<1>3. Bad = {}
  <2>1. SUFFICES ASSUME Bad # {} PROVE FALSE
    OBVIOUS
  <2>2. Bad \in SUBSET Nat
    OBVIOUS
  <2>3. PICK n \in Bad : \A m \in Bad : n <= m
    BY <2>1, <2>2, LeastNumber
  <2>4. n \in 0..MaxDepth /\ n \in Nat
    OBVIOUS
  <2>5. PICK q \in up[n] : ~(q \in Roles /\ \E r \in from : Leads(Above, r, q, n))
    OBVIOUS
  <2>6. CASE n = 0
    <3>1. up[0] = from
      BY <1>1, <1>2 DEF Ascent
    <3>2. QED
      BY <2>5, <2>6, <3>1, ChainHere
  <2>7. CASE n # 0
    <3>1. up[n] = {ParentOf(r) : r \in up[n - 1]} \ {None}
      BY <1>1, <2>4, <2>7 DEF Ascent
    <3>2. PICK p \in up[n - 1] : q = ParentOf(p) /\ q # None
      BY <2>5, <3>1
    <3>3. n - 1 \in 0..MaxDepth /\ n - 1 \in Nat /\ ~(n <= n - 1) /\ (n - 1) + 1 = n
      BY <1>2, <2>4, <2>7
    <3>4. n - 1 \notin Bad
      BY <2>3, <3>3
    <3>5. p \in Roles /\ \E r \in from : Leads(Above, r, p, n - 1)
      BY <3>2, <3>3, <3>4
    <3>6. PICK r \in from : Leads(Above, r, p, n - 1)
      BY <3>5
    <3>7. Above[p] = q /\ Above[p] \in Roles
      BY <3>2, <3>5, AboveType
    <3>8. Leads(Above, r, q, n)
      <4>1. Leads(Above, r, Above[p], (n - 1) + 1)
        BY <3>3, <3>5, <3>6, <3>7, ChainLonger
      <4>2. QED
        BY <3>3, <3>7, <4>1
    <3>9. QED
      BY <2>5, <3>7, <3>8
  <2>8. QED
    BY <2>6, <2>7
<1>4. k \notin Bad
  BY <1>3
<1>5. QED
  BY <1>1, <1>4

\* NoShortCycle: re-parentings that do not overlap leave no role above itself within
\* the depth that the walks go.
THEOREM HierarchyHasNoShortCycle == Spec => []NoShortCycle
<1>1. Init => CycleInv
  <2> SUFFICES ASSUME Init PROVE CycleInv
    OBVIOUS
  <2>1. /\ \A c \in Clients : ~At(c, "climb") /\ ~At(c, "write")
        /\ live = Seeded /\ parent = InitParent
    BY IdleRow DEF Init, At
  <2>2. PICK h : h = Above
    OBVIOUS
  <2>3. \A q \in Roles : h[q] = IF q \in Seeded THEN InitParent[q] ELSE None
    BY <2>1, <2>2 DEF Above, ParentOf
  <2>4. ASSUME NEW k \in 1..MaxDepth, NEW f \in [0..k -> Roles], Chain(h, f, k), f[0] = f[k]
        PROVE  FALSE
    <3>0. k \in Nat /\ k # 0
      BY AccessFits
    <3>1. ASSUME NEW i \in 1..k PROVE f[i - 1] \in Seeded /\ f[i] = InitParent[f[i - 1]]
      <4>1. i - 1 \in 0..k /\ i \in 0..k
        BY <3>0
      <4>2. f[i] \in Roles /\ f[i - 1] \in Roles /\ f[i] = h[f[i - 1]]
        BY <2>4, <4>1 DEF Chain
      <4>3. QED
        BY <2>3, <4>2, AccessFits
    <3>2. ASSUME NEW i \in 0..k PROVE f[i] \in Seeded
      <4>1. CASE i < k
        <5>1. i + 1 \in 1..k /\ (i + 1) - 1 = i
          BY <3>0, <4>1
        <5>2. QED
          BY <3>1, <5>1
      <4>2. CASE i = k
        <5>1. 1 \in 1..k /\ 1 - 1 = 0
          BY <3>0
        <5>2. f[0] \in Seeded
          BY <3>1, <5>1
        <5>3. QED
          BY <2>4, <4>2, <5>2
      <4>3. QED
        BY <3>0, <4>1, <4>2
    <3>3. f \in [0..k -> Seeded]
      BY <3>2
    <3>4. QED
      BY <2>4, <3>1, <3>3, SeedHasNoCycle
  <2>5. NoCycle
    BY <2>2, <2>4 DEF NoCycle, Leads
  <2>6. QED
    BY <2>1, <2>5 DEF CycleInv, Reparents
<1>2. TypeOK /\ Shape /\ Crowded /\ CycleInv /\ [Next]_vars => CycleInv'
  <2> SUFFICES ASSUME TypeOK, Shape, Crowded, CycleInv, [Next]_vars PROVE CycleInv'
    OBVIOUS
  <2>1. CASE Aside
    BY <2>1 DEF Aside, CycleInv, NoCycle, Climbed, Clear, Reparents, At, Of, Above, ParentOf
  <2>2. QED
    BY <2>1, CycleStep, StepOrAside
<1>3. TypeOK /\ Shape /\ CycleInv => NoShortCycle
  <2> SUFFICES ASSUME TypeOK, Shape, CycleInv, crowd["reparents"] <= 1,
                      NEW r \in Roles, NEW k \in 1..MaxDepth, r \in Ancestry({r})[k]
               PROVE  FALSE
    BY DEF NoShortCycle
  <2>1. k \in 0..MaxDepth
    BY AccessFits
  <2>2. Leads(Above, r, r, k)
    BY <2>1, AncestryChains
  <2>3. QED
    BY <2>2 DEF CycleInv, NoCycle
<1>4. QED
  BY <1>1, <1>2, <1>3, InitTypes, TypeInductive, InitCrowd, CrowdInductive, PTL DEF Spec

-----------------------------------------------------------------------------
(* A permission that is lost is forgotten.                                 *)

\* A deletion that has found the role unused is about to go through.
Doomed(r) == \E c \in Clients : At(c, "erase") /\ Of(c).role = r

\* A writer whose walk will yet visit, k links below r, a role that somebody holds.
Visits(c, r, k) ==
  \/ At(c, "collect") /\ \E e \in job[c].todo : e[1] = r /\ e[2] + k <= MaxDepth
  \/ (At(c, "collect") \/ At(c, "holders")) /\ k = 0 /\ r \in job[c].roles
Queued(r, k) == \E c \in Clients : Visits(c, r, k)

\* f climbs k links from a role that u holds to one that grants the permission, or
\* to one whose change is being followed.
Grants(r, k) == (r \in granting /\ k < MaxDepth) \/ Queued(r, k)
Accounts(u, k, f) ==
  /\ Chain(Above, f, k) /\ <<u, f[0]>> \in held
  /\ \A i \in 0..k : ~Doomed(f[i])
  /\ Grants(f[k], k)
Accounted(u) == \E k \in 0..MaxDepth : \E f \in [0..k -> Roles] : Accounts(u, k, f)
Forgetting(u) == \E c \in Clients : At(c, "forget") /\ u \in job[c].users

LEMMA DoomedStep ==
  ASSUME TypeOK, Shape, NEW c \in Clients, Acts(c), NEW r, Doomed(r)'
  PROVE  Doomed(r) \/ ~InUse(r)
<1>1. PICK d \in Clients : At(d, "erase")' /\ Of(d)'.role = r
  BY DEF Doomed
<1>2. CASE d # c
  <2>1. At(d, "erase") /\ Of(d)' = Of(d)
    BY <1>1, <1>2, StageStep DEF Others, At
  <2>2. QED
    BY <1>1, <2>1 DEF Doomed
<1>3. CASE d = c
  <2>1. Moves(c)
    BY <1>1, <1>3, WorkMoves, SubmitMoves DEF Acts, At
  <2>2. Of(c)' = Of(c) /\ ~InUse(Of(c).role)
    BY <1>1, <1>3, <2>1 DEF Moves, Over, Goes, Enters, At
  <2>3. QED
    BY <1>1, <1>3, <2>2
<1>4. QED
  BY <1>2, <1>3

\* No deletion starts of a role in use.
LEMMA StillSpared ==
  ASSUME TypeOK, Shape, NEW c \in Clients, Acts(c), NEW u \in Users,
         NEW k \in Nat, NEW f \in [0..k -> Roles], Chain(Above, f, k), <<u, f[0]>> \in held,
         \A i \in 0..k : ~Doomed(f[i])
  PROVE  \A i \in 0..k : ~Doomed(f[i])'
<1> SUFFICES ASSUME NEW i \in 0..k, Doomed(f[i])' PROVE FALSE
  OBVIOUS
<1>1. ~InUse(f[i])
  BY DoomedStep
<1>2. i # 0
  BY <1>1 DEF InUse
<1>3. i \in 1..k /\ i - 1 \in 0..k
  BY <1>2
<1>4. f[i] = Above[f[i - 1]] /\ f[i - 1] \in Roles /\ f[i] \in Roles
  BY <1>3 DEF Chain
<1>5. f[i - 1] \in live /\ parent[f[i - 1]] = f[i]
  BY <1>4, AccessFits DEF Above, ParentOf
<1>6. QED
  BY <1>1, <1>5 DEF InUse

LEMMA StillVisits ==
  ASSUME TypeOK, Shape, NEW c \in Clients, Acts(c), NEW d \in Clients \ {c}, NEW r, NEW k,
         Visits(d, r, k)
  PROVE  Visits(d, r, k)'
BY StageStep DEF Others, Visits, At

LEMMA StillQueued ==
  ASSUME TypeOK, Shape, NEW c \in Clients, Acts(c), NEW r, NEW k, Queued(r, k),
         ~At(c, "collect") /\ ~At(c, "holders")
  PROVE  Queued(r, k)'
<1>1. PICK d \in Clients : Visits(d, r, k)
  BY DEF Queued
<1>2. d # c
  BY <1>1 DEF Visits
<1>3. QED
  BY <1>1, <1>2, StillVisits DEF Queued

LEMMA AccountedNext ==
  ASSUME NEW u, NEW k \in 0..MaxDepth, NEW f \in [0..k -> Roles],
         Chain(Above', f, k), <<u, f[0]>> \in held', \A i \in 0..k : ~Doomed(f[i])',
         Grants(f[k], k)'
  PROVE  Accounted(u)'
<1>1. Accounts(u, k, f)'
  BY DEF Accounts
<1>2. QED
  BY <1>1 DEF Accounted

\* Steps that follow a change down the hierarchy.
LEMMA AccountedByCollect ==
  ASSUME TypeOK, Shape, NEW c \in Clients, Collect(c), Acts(c),
         NEW u \in Users, NEW k \in 0..MaxDepth, NEW f \in [0..k -> Roles], Accounts(u, k, f)
  PROVE  Accounted(u)'
<1>1. k \in Nat /\ MaxDepth \in Nat
  BY AccessFits
<1>2. UNCHANGED <<live, parent, granting, held>>
  BY QuietUnchanged DEF QuietSteps, Quiet, database
<1>3. Above' = Above
  BY <1>2 DEF Above, ParentOf
<1>4. Chain(Above, f, k) /\ <<u, f[0]>> \in held /\ \A i \in 0..k : ~Doomed(f[i])'
  BY <1>1, StillSpared DEF Accounts
<1>5. CASE Grants(f[k], k)'
  BY <1>2, <1>3, <1>4, <1>5, AccountedNext
<1>6. CASE ~Grants(f[k], k)'
  <2>1. PICK d \in Clients : Visits(d, f[k], k)
    BY <1>2, <1>6 DEF Accounts, Grants, Queued
  <2>2. d = c
    BY <1>6, <2>1, StillVisits DEF Grants, Queued
  <2>3. PICK e \in job[c].todo :
          /\ job'[c].roles = job[c].roles \cup {e[1]}
          /\ job'[c].todo = (job[c].todo \ {e}) \cup
               ({r \in live : parent[r] = e[1] /\ e[2] < MaxDepth} \X {e[2] + 1})
          /\ (job'[c].at = "holders" => job'[c].todo = {})
    BY CollectMoves
  <2>4. At(c, "collect") /\ (At(c, "collect")' \/ At(c, "holders")')
    BY CollectMoves DEF At
  <2>5. ~Visits(c, f[k], k)'
    BY <1>6 DEF Grants, Queued
  <2>6. ~(k = 0 /\ f[k] \in job[c].roles)
    BY <2>3, <2>4, <2>5 DEF Visits
  <2>7. PICK g \in job[c].todo : g[1] = f[k] /\ g[2] + k <= MaxDepth
    BY <2>1, <2>2, <2>6 DEF Visits
  <2>8. g = e
    <3>1. SUFFICES ASSUME g # e PROVE FALSE
      OBVIOUS
    <3>2. g \in job'[c].todo
      BY <2>3, <3>1
    <3>3. At(c, "collect")'
      BY <2>3, <2>4, <3>2 DEF At
    <3>4. QED
      BY <2>5, <2>7, <3>2, <3>3 DEF Visits
  <2>9. k # 0
    BY <2>3, <2>4, <2>5, <2>7, <2>8 DEF Visits
  <2>10. /\ k - 1 \in 0..MaxDepth /\ k - 1 \in 0..k /\ k - 1 \in Nat
         /\ f[k] = Above[f[k - 1]] /\ f[k - 1] \in Roles /\ f[k] \in Roles
    BY <1>1, <1>4, <2>9 DEF Chain
  <2>11. f[k - 1] \in live /\ parent[f[k - 1]] = f[k]
    BY <2>10, AccessFits DEF Above, ParentOf
  <2>12. g[2] \in Nat /\ g[2] < MaxDepth /\ (g[2] + 1) + (k - 1) <= MaxDepth
    <3>1. g[2] \in Nat
      BY TodoParts
    <3>2. QED
      BY <1>1, <2>7, <2>9, <3>1
  <2>13. <<f[k - 1], g[2] + 1>> \in job'[c].todo
    BY <2>3, <2>7, <2>8, <2>11, <2>12
  <2>14. At(c, "collect")'
    BY <2>3, <2>4, <2>13 DEF At
  <2>15. Visits(c, f[k - 1], k - 1)'
    BY <2>12, <2>13, <2>14 DEF Visits
  <2>16. PICK g1 : g1 = [i \in 0..k-1 |-> f[i]]
    OBVIOUS
  <2>17. /\ g1 \in [0..k-1 -> Roles] /\ Chain(Above, g1, k - 1) /\ <<u, g1[0]>> \in held
         /\ (\A i \in 0..k-1 : ~Doomed(g1[i])') /\ g1[k - 1] = f[k - 1]
    <3>1. g1 \in [0..k-1 -> Roles] /\ \A i \in 0..k-1 : g1[i] = f[i] /\ i \in 0..k
      BY <1>1, <2>16
    <3>2. Chain(Above, g1, k - 1)
      BY <1>1, <1>4, <2>10, <3>1 DEF Chain
    <3>3. QED
      BY <1>4, <2>10, <3>1, <3>2
  <2>18. Grants(g1[k - 1], k - 1)'
    BY <2>15, <2>17 DEF Grants, Queued
  <2>19. QED
    BY <1>2, <1>3, <2>10, <2>17, <2>18, AccountedNext
<1>7. QED
  BY <1>5, <1>6

LEMMA AccountedByHolders ==
  ASSUME TypeOK, Shape, NEW c \in Clients, Holders(c), Acts(c),
         NEW u \in Users, NEW k \in 0..MaxDepth, NEW f \in [0..k -> Roles], Accounts(u, k, f)
  PROVE  Accounted(u)' \/ Forgetting(u)'
<1>1. k \in Nat /\ MaxDepth \in Nat
  BY AccessFits
<1>2. UNCHANGED <<live, parent, granting, held>>
  BY QuietUnchanged DEF QuietSteps, Quiet, database
<1>3. Above' = Above
  BY <1>2 DEF Above, ParentOf
<1>4. Chain(Above, f, k) /\ <<u, f[0]>> \in held /\ \A i \in 0..k : ~Doomed(f[i])'
  BY <1>1, StillSpared DEF Accounts
<1>5. CASE Grants(f[k], k)'
  BY <1>2, <1>3, <1>4, <1>5, AccountedNext
<1>6. CASE ~Grants(f[k], k)'
  <2>1. PICK d \in Clients : Visits(d, f[k], k)
    BY <1>2, <1>6 DEF Accounts, Grants, Queued
  <2>2. d = c
    BY <1>6, <2>1, StillVisits DEF Grants, Queued
  <2>3. At(c, "holders") /\ k = 0 /\ f[k] \in job[c].roles
    BY <2>1, <2>2, HoldersMoves DEF Visits, At
  <2>4. u \in job'[c].users /\ At(c, "forget")'
    BY <1>4, <2>3, HoldersMoves DEF At
  <2>5. QED
    BY <2>4 DEF Forgetting
<1>7. QED
  BY <1>5, <1>6

\* A change of a role is followed from the role down.
LEMMA AccountedByWrite ==
  ASSUME TypeOK, Shape, NEW c \in Clients, Write(c), Acts(c),
         NEW u \in Users, NEW k \in 0..MaxDepth, NEW f \in [0..k -> Roles], Accounts(u, k, f)
  PROVE  Accounted(u)'
<1>1. k \in Nat /\ MaxDepth \in Nat
  BY AccessFits
<1>2. UNCHANGED <<live, held>> /\ At(c, "write") /\ Of(c).role \in Roles
  BY WriteMoves DEF Write
<1>3. Chain(Above, f, k) /\ <<u, f[0]>> \in held /\ \A i \in 0..k : ~Doomed(f[i])'
  BY <1>1, StillSpared DEF Accounts
<1>4. Queued(f[k], k) => Queued(f[k], k)'
  BY <1>2, StillQueued DEF At
<1>5. CASE parent' = parent /\ granting' = granting
  <2>1. Above' = Above
    BY <1>2, <1>5 DEF Above, ParentOf
  <2>2. Grants(f[k], k)'
    BY <1>4, <1>5 DEF Accounts, Grants
  <2>3. QED
    BY <1>2, <1>3, <2>1, <2>2, AccountedNext
<1>6. CASE ~(parent' = parent /\ granting' = granting)
  <2>1. PICK s \in Roles : s = Of(c).role
    BY <1>2
  <2>2. /\ At(c, "collect")' /\ job'[c].todo = {<<s, 0>>}
        /\ parent' = parent \/ parent' = [parent EXCEPT ![s] = Of(c).parent]
        /\ granting \subseteq granting' \cup {s}
    BY <1>6, <2>1, WriteMoves DEF At
  <2>3. PICK h : h = Above
    OBVIOUS
  <2>4. PICK h1 : h1 = Above'
    OBVIOUS
  <2>5. \A q \in Roles \ {s} : h[q] = h1[q]
    BY <1>2, <2>2, <2>3, <2>4 DEF Above, ParentOf, TypeOK
  <2>6. CASE \E j \in 0..k : f[j] = s
    <3>1. PICK j \in 0..k : f[j] = s
      BY <2>6
    <3>2. PICK m \in 0..k : \E g \in [0..m -> Roles] :
            Chain(h1, g, m) /\ g[m] = s /\ \A i \in 0..m : g[i] = f[i]
      <4>1. Chain(h, f, k)
        BY <1>3, <2>3
      <4>2. FirstPart(h1, f, s, k)
        BY <1>1, <2>5, <3>1, <4>1, ChainPart
      <4>3. QED
        BY <4>2 DEF FirstPart
    <3>3. PICK g \in [0..m -> Roles] : Chain(h1, g, m) /\ g[m] = s /\ \A i \in 0..m : g[i] = f[i]
      BY <3>2
    <3>4. m \in 0..MaxDepth /\ m \in Nat /\ 0 + m <= MaxDepth /\ 0 \in 0..m
      BY <1>1
    <3>5. Visits(c, s, m)'
      BY <2>2, <3>4 DEF Visits
    <3>6. \A i \in 0..m : ~Doomed(g[i])'
      BY <1>1, <1>3, <3>3
    <3>7. <<u, g[0]>> \in held'
      BY <1>2, <1>3, <3>3, <3>4
    <3>8. Grants(g[m], m)'
      BY <3>3, <3>5 DEF Grants, Queued
    <3>9. QED
      BY <2>4, <3>3, <3>4, <3>6, <3>7, <3>8, AccountedNext
  <2>7. CASE ~\E j \in 0..k : f[j] = s
    <3>1. k \in 0..k /\ \A i \in 0..k : f[i] # s
      BY <1>1, <2>7
    <3>2. Chain(h1, f, k)
      <4>1. Chain(h, f, k) /\ \A i \in 0..k-1 : f[i] # s
        BY <1>1, <1>3, <2>3, <3>1
      <4>2. QED
        BY <1>1, <2>5, <4>1, ChainAside
    <3>3. Grants(f[k], k)'
      BY <1>4, <2>2, <3>1 DEF Accounts, Grants
    <3>4. QED
      BY <1>2, <1>3, <2>4, <3>2, <3>3, AccountedNext
  <2>8. QED
    BY <2>6, <2>7
<1>7. QED
  BY <1>5, <1>6

\* A role that is added had no parent, so a chain can only end at it.
LEMMA AccountedByCreate ==
  ASSUME TypeOK, Shape, NEW c \in Clients, CreateRole(c), Acts(c),
         NEW u \in Users, NEW k \in 0..MaxDepth, NEW f \in [0..k -> Roles], Accounts(u, k, f)
  PROVE  Accounted(u)'
<1>1. k \in Nat /\ MaxDepth \in Nat
  BY AccessFits
<1>2. UNCHANGED <<granting, held>> /\ At(c, "create")
  BY DEF CreateRole
<1>3. Chain(Above, f, k) /\ <<u, f[0]>> \in held /\ \A i \in 0..k : ~Doomed(f[i])'
  BY <1>1, StillSpared DEF Accounts
<1>4. Grants(f[k], k)'
  <2>1. Queued(f[k], k) => Queued(f[k], k)'
    BY <1>2, StillQueued DEF At
  <2>2. QED
    BY <1>2, <2>1 DEF Accounts, Grants
<1>5. CASE live' = live /\ parent' = parent
  <2>1. Above' = Above
    BY <1>5 DEF Above, ParentOf
  <2>2. QED
    BY <1>2, <1>3, <1>4, <2>1, AccountedNext
<1>6. CASE ~(live' = live /\ parent' = parent)
  <2>1. PICK s \in Roles : /\ s \notin live /\ live' = live \cup {s}
                           /\ parent' = [parent EXCEPT ![s] = Of(c).parent]
    BY <1>6, CreateRoleMoves
  <2>2. PICK h : h = Above
    OBVIOUS
  <2>3. PICK h1 : h1 = Above'
    OBVIOUS
  <2>4. h[s] = None /\ \A q \in Roles \ {s} : h1[q] = h[q]
    BY <2>1, <2>2, <2>3 DEF Above, ParentOf, TypeOK
  <2>5. ASSUME NEW i \in 0..k-1 PROVE f[i] # s
    <3>1. i + 1 \in 1..k /\ (i + 1) - 1 = i /\ i + 1 \in 0..k
      BY <1>1
    <3>2. f[i + 1] = h[f[i]] /\ f[i + 1] \in Roles
      BY <1>3, <2>2, <3>1 DEF Chain
    <3>3. QED
      BY <2>4, <3>2, AccessFits
  <2>6. Chain(h1, f, k)
    <3>1. Chain(h, f, k) /\ \A q \in Roles \ {s} : h[q] = h1[q]
      BY <1>3, <2>2, <2>4
    <3>2. QED
      BY <1>1, <2>5, <3>1, ChainAside
  <2>7. QED
    BY <1>2, <1>3, <1>4, <2>3, <2>6, AccountedNext
<1>7. QED
  BY <1>5, <1>6

\* A role that is deleted is in no chain by now.
LEMMA AccountedByErase ==
  ASSUME TypeOK, Shape, NEW c \in Clients, Erase(c), Acts(c),
         NEW u \in Users, NEW k \in 0..MaxDepth, NEW f \in [0..k -> Roles], Accounts(u, k, f)
  PROVE  Accounted(u)'
<1>1. k \in Nat /\ MaxDepth \in Nat /\ k \in 0..k /\ 0 \in 0..k
  BY AccessFits
<1>2. At(c, "erase") /\ Of(c).role \in Roles
  BY EraseMoves
<1>3. Chain(Above, f, k) /\ <<u, f[0]>> \in held /\ \A i \in 0..k : ~Doomed(f[i])'
  BY <1>1, StillSpared DEF Accounts
<1>4. Queued(f[k], k) => Queued(f[k], k)'
  BY <1>2, StillQueued DEF At
<1>5. CASE UNCHANGED database
  <2>1. UNCHANGED <<live, parent, held, granting>>
    BY <1>5 DEF database
  <2>2. Above' = Above
    BY <2>1 DEF Above, ParentOf
  <2>3. Grants(f[k], k)'
    BY <1>4, <2>1 DEF Accounts, Grants
  <2>4. QED
    BY <1>3, <2>1, <2>2, <2>3, AccountedNext
<1>6. CASE ~UNCHANGED database
  <2>1. PICK s \in Roles : s = Of(c).role
    BY <1>2
  <2>2. /\ live' = live \ {s} /\ granting' = granting \ {s} /\ held' = {h \in held : h[2] # s}
        /\ parent' = [q \in Roles |-> IF q = s \/ parent[q] = s THEN None ELSE parent[q]]
    BY <1>6, <2>1, EraseMoves
  <2>3. \A i \in 0..k : f[i] # s
    BY <1>2, <2>1 DEF Accounts, Doomed
  <2>4. ASSUME NEW i \in 1..k PROVE f[i] = Above'[f[i - 1]]
    <3>1. /\ i - 1 \in 0..k /\ i \in 0..k /\ f[i] = Above[f[i - 1]]
          /\ f[i - 1] \in Roles /\ f[i] \in Roles
      BY <1>1, <1>3 DEF Chain
    <3>2. f[i - 1] \in live /\ f[i] = parent[f[i - 1]]
      BY <3>1, AccessFits DEF Above, ParentOf
    <3>3. f[i - 1] # s /\ f[i] # s
      BY <2>3, <3>1
    <3>4. f[i - 1] \in live' /\ parent'[f[i - 1]] = f[i]
      BY <2>2, <3>1, <3>2, <3>3
    <3>5. QED
      BY <3>1, <3>4 DEF Above, ParentOf
  <2>5. Chain(Above', f, k)
    BY <2>4 DEF Chain
  <2>6. <<u, f[0]>> \in held'
    BY <1>1, <1>3, <2>2, <2>3
  <2>7. Grants(f[k], k)'
    BY <1>1, <1>4, <2>2, <2>3 DEF Accounts, Grants
  <2>8. QED
    BY <1>3, <2>5, <2>6, <2>7, AccountedNext
<1>7. QED
  BY <1>5, <1>6

\* Every other step leaves roles, grants and hierarchy alone, and a role that is
\* revoked is forgotten by whoever revokes it.
LEMMA AccountedByRest ==
  ASSUME TypeOK, Shape, NEW c \in Clients, Acts(c), ~unforgotten',
         ~Collect(c), ~Holders(c), ~Write(c), ~CreateRole(c), ~Erase(c),
         NEW u \in Users, NEW k \in 0..MaxDepth, NEW f \in [0..k -> Roles], Accounts(u, k, f)
  PROVE  Accounted(u)' \/ Forgetting(u)'
<1>1. k \in Nat /\ MaxDepth \in Nat
  BY AccessFits
<1>2. UNCHANGED <<live, parent, granting>>
  BY StepCases, KeptBySmall, KeptByRest DEF database
<1>3. Above' = Above
  BY <1>2 DEF Above, ParentOf
<1>4. Chain(Above, f, k) /\ <<u, f[0]>> \in held /\ \A i \in 0..k : ~Doomed(f[i])'
  BY <1>1, StillSpared DEF Accounts
<1>5. ~At(c, "collect") /\ ~At(c, "holders")
  <2>1. CASE Breaks(c)
    BY <2>1 DEF Breaks, At
  <2>2. CASE \E a \in Asks : Submit(c, a)
    BY <2>2 DEF Submit, Busy, At
  <2>3. CASE Work(c)
    BY <2>3 DEF Work, At, ReadRole, ReadHeldRole, Request, Give, ReadPending, ReadHeldAgain,
       Commit, Turn, ReadOwn, Drop, ReadName, ReadParent, Climb, Forget, Count, Link, Log, Get,
       ReadRoles, Walk, ReadCodes, Store
  <2>4. QED
    BY <2>1, <2>2, <2>3 DEF Acts
<1>6. Grants(f[k], k)'
  <2>1. Queued(f[k], k) => Queued(f[k], k)'
    BY <1>5, StillQueued
  <2>2. QED
    BY <1>2, <2>1 DEF Accounts, Grants
<1>7. CASE <<u, f[0]>> \in held'
  BY <1>3, <1>4, <1>6, <1>7, AccountedNext
<1>8. CASE <<u, f[0]>> \notin held'
  <2>1. Drop(c)
    <3>1. ~(held \subseteq held')
      BY <1>4, <1>8
    <3>2. QED
      BY <3>1, StepCases, QuietUnchanged, KeptByRest, GiveMoves, CommitMoves
         DEF Quiet, Request, Turn, database
  <2>2. u = Of(c).user /\ held' # held
    BY <1>4, <1>8, <2>1, DropMoves
  <2>3. At(c, "forget")' /\ u \in job'[c].users
    BY <2>1, <2>2, DropMoves DEF At
  <2>4. QED
    BY <2>3 DEF Forgetting
<1>9. QED
  BY <1>7, <1>8

LEMMA AccountedStep ==
  ASSUME TypeOK, Shape, NEW c \in Clients, Acts(c), ~unforgotten', NEW u \in Users, Accounted(u)
  PROVE  Accounted(u)' \/ Forgetting(u)'
<1>1. PICK k \in 0..MaxDepth : \E f \in [0..k -> Roles] : Accounts(u, k, f)
  BY DEF Accounted
<1>2. PICK f \in [0..k -> Roles] : Accounts(u, k, f)
  BY <1>1
<1>3. QED
  BY <1>2, AccountedByCollect, AccountedByHolders, AccountedByWrite, AccountedByCreate,
     AccountedByErase, AccountedByRest

LEMMA ForgettingStep ==
  ASSUME TypeOK, Shape, NEW c \in Clients, Acts(c), ~unforgotten', NEW u \in Users, Forgetting(u),
         cache'[u].kept
  PROVE  Forgetting(u)'
<1>1. PICK d \in Clients : At(d, "forget") /\ u \in job[d].users
  BY DEF Forgetting
<1>2. CASE d # c
  <2>1. At(d, "forget")' /\ u \in job'[d].users
    BY <1>1, <1>2, StageStep DEF Others, At
  <2>2. QED
    BY <2>1 DEF Forgetting
<1>3. CASE d = c
  <2>1. ~Breaks(c)
    BY <1>1, <1>3 DEF Breaks, At
  <2>2. ~\E a \in Asks : Submit(c, a)
    BY <1>1, <1>3 DEF Submit, Busy, At
  <2>3. Forget(c)
    BY <1>1, <1>3, <2>1, <2>2
       DEF Acts, Work, At, ReadRole, ReadHeldRole, Request, Give, ReadPending, ReadHeldAgain,
           Commit, Turn, ReadOwn, Drop, ReadName, ReadParent, Climb, CreateRole, Write, Collect,
           Holders, Count, Erase, Link, Log, Get, ReadRoles, Walk, ReadCodes, Store
  <2>4. PICK v \in job[c].users : /\ cache' = [cache EXCEPT ![v] = Absent]
                                  /\ job'[c].users = job[c].users \ {v}
                                  /\ job'[c].at = "forget"
    BY <1>1, <1>3, <2>3, ForgetMoves
  <2>5. u # v
    <3>1. cache \in [Users -> Cached]
      BY DEF TypeOK
    <3>2. u = v => cache'[u] = Absent
      BY <2>4, <3>1
    <3>3. QED
      BY <3>2 DEF Absent
  <2>6. At(c, "forget")' /\ u \in job'[c].users
    BY <1>1, <1>3, <2>4, <2>5 DEF At
  <2>7. QED
    BY <2>6 DEF Forgetting
<1>4. QED
  BY <1>2, <1>3

\* What a check has read is what it says, if no writer was under way meanwhile.
Upheld(u, s, k) == \E r \in Roles : <<u, r>> \in held /\ Leads(Above, r, s, k)
Seen(u, s) == \E k \in 0..MaxDepth-1 : Upheld(u, s, k)
ReadWell(c) == Of(c).kind = "check" /\ job[c].clean =>
  /\ ~Writing
  /\ At(c, "get") \/ At(c, "roles") => ~job[c].flag /\ job[c].roles = {}
  /\ At(c, "walk") => \A e \in job[c].todo : Upheld(Of(c).user, e[1], e[2])
  /\ At(c, "walk") \/ At(c, "codes") => \A s \in job[c].roles : Seen(Of(c).user, s)
  /\ At(c, "store") /\ job[c].flag => \E s \in granting : Seen(Of(c).user, s)

LEMMA WritersWrite ==
  ASSUME TypeOK, Shape, NEW c \in Clients, Work(c) \/ Breaks(c),
         ~(Busy(c) /\ Of(c).kind \in Writers)
  PROVE  UNCHANGED <<live, parent, held, granting>> /\ Busy(c) /\ Of(c).kind \notin Writers
<1>1. Busy(c)
  BY DEF Work, Breaks, Busy, At, ReadRole, ReadHeldRole, Request, Give, ReadPending, ReadHeldAgain,
       Commit, Turn, ReadOwn, Drop, ReadName, ReadParent, Climb, CreateRole, Write, Collect,
       Holders, Forget, Count, Erase, Link, Log, Get, ReadRoles, Walk, ReadCodes, Store
<1>2. ASSUME \/ Request(c) \/ Give(c) \/ Commit(c) \/ Turn(c) \/ Drop(c)
             \/ CreateRole(c) \/ Write(c) \/ Erase(c)
      PROVE  FALSE
  <2>1. job[c].at \in {"request", "give", "commit", "turn", "drop", "create", "write", "erase"}
    BY <1>2 DEF Request, Give, Commit, Turn, Drop, CreateRole, Write, Erase, At
  <2>2. Of(c).kind \in Writers
    BY <2>1, Known, KindsOf DEF Writers, Kinds
  <2>3. QED
    BY <1>1, <2>2
<1>3. UNCHANGED <<live, parent, held, granting>>
  BY <1>2, StepCases, QuietUnchanged, KeptByRest DEF Acts, Quiet, database
<1>4. QED
  BY <1>1, <1>3

LEMMA CleanReader ==
  ASSUME TypeOK, Shape, NEW c \in Clients, Acts(c), NEW d \in Clients, ReadWell(d),
         Of(d)'.kind = "check", job'[d].clean
  PROVE  /\ ~Writing'
         /\ \/ d = c /\ \E a \in Asks : Submit(c, a)
            \/ /\ Of(d)' = Of(d) /\ job[d].clean /\ ~Writing
               /\ UNCHANGED <<live, parent, held, granting>>
               /\ d = c => Work(c) /\ ~Finish(c)
<1>1. "check" \notin Writers /\ "none" \notin Writers
  BY DEF Writers, Kinds
<1>2. CASE \E a \in Asks : Submit(c, a)
  <2>1. PICK a \in Asks : Submit(c, a)
    BY <1>2
  <2>2. UNCHANGED <<live, parent, held, granting>>
    BY <2>1, KeptByRest DEF database
  <2>3. Others(c) /\ Of(c)' = a
    BY <2>1, SubmitMoves
  <2>4. ~Writing /\ a.kind \notin Writers
    <3>1. CASE d = c
      BY <1>1, <2>1, <2>3, <3>1, SubmitMoves
    <3>2. CASE d # c
      BY <2>1, <2>3, <3>2, SubmitMoves DEF ReadWell, Others
    <3>3. QED
      BY <3>1, <3>2
  <2>5. ~Writing'
    BY <2>3, <2>4 DEF Writing, Busy, Others
  <2>6. d # c => Of(d)' = Of(d) /\ job[d].clean
    BY <2>3 DEF Others
  <2>7. QED
    BY <1>2, <2>2, <2>4, <2>5, <2>6
<1>3. CASE Work(c) \/ Breaks(c)
  <2>1. Moves(c) /\ Others(c)
    BY <1>3, WorkMoves, StageStep DEF Acts
  <2>2. Of(d)' = Of(d) /\ job[d].clean /\ (d = c => ~Finish(c))
    <3>1. CASE d # c
      BY <2>1, <3>1 DEF Others
    <3>2. CASE d = c
      <4>1. ~Finish(c)
        BY <3>2, Ends DEF Shape
      <4>2. ~Over(c)
        BY <3>2 DEF Over
      <4>3. QED
        BY <2>1, <3>2, <4>1, <4>2 DEF Moves, Goes
    <3>3. QED
      BY <3>1, <3>2
  <2>3. ~Writing
    BY <2>2 DEF ReadWell
  <2>4. /\ UNCHANGED <<live, parent, held, granting>> /\ Of(c).kind \notin Writers
    BY <1>3, <2>3, WritersWrite DEF Writing
  <2>5. Of(c)'.kind \notin Writers
    BY <1>1, <2>1, <2>4 DEF Moves, Over, Goes
  <2>6. ~Writing'
    BY <2>1, <2>3, <2>5 DEF Writing, Busy, Others
  <2>7. d = c => Work(c)
    BY <1>3, <2>2 DEF Breaks
  <2>8. QED
    BY <2>2, <2>3, <2>4, <2>6, <2>7
<1>4. QED
  BY <1>2, <1>3 DEF Acts

LEMMA ReadWellStep ==
  ASSUME TypeOK, Shape, NEW c \in Clients, Acts(c), NEW d \in Clients, ReadWell(d)
  PROVE  ReadWell(d)'
<1> SUFFICES ASSUME Of(d)'.kind = "check", job'[d].clean
             PROVE  ReadWell(d)'
  BY DEF ReadWell
<1>1. ~Writing'
  BY CleanReader
<1>2. CASE d = c /\ \E a \in Asks : Submit(c, a)
  <2>1. PICK a \in Asks : Submit(c, a)
    BY <1>2
  <2>2. /\ job'[c].at \in {"mine", "pending", "name", "get", "role"}
        /\ job'[c].roles = {} /\ job'[c].flag = FALSE
    BY <2>1, SubmitMoves
  <2>3. QED
    BY <1>1, <1>2, <2>2 DEF ReadWell, At
<1>3. CASE /\ Of(d)' = Of(d) /\ job[d].clean /\ ~Writing
           /\ UNCHANGED <<live, parent, held, granting>>
           /\ d = c => Work(c) /\ ~Finish(c)
  <2>1. Above' = Above
    BY <1>3 DEF Above, ParentOf
  <2>2. \A u, s, k : Upheld(u, s, k)' = Upheld(u, s, k)
    BY <1>3, <2>1 DEF Upheld
  <2>3. \A u, s : Seen(u, s)' = Seen(u, s)
    BY <2>2 DEF Seen
  <2>4. /\ At(d, "get") \/ At(d, "roles") => ~job[d].flag /\ job[d].roles = {}
        /\ At(d, "walk") => \A e \in job[d].todo : Upheld(Of(d).user, e[1], e[2])
        /\ At(d, "walk") \/ At(d, "codes") => \A s \in job[d].roles : Seen(Of(d).user, s)
        /\ At(d, "store") /\ job[d].flag => \E s \in granting : Seen(Of(d).user, s)
    BY <1>3 DEF ReadWell
  <2>5. SUFFICES
          /\ At(d, "get")' \/ At(d, "roles")' => ~job'[d].flag /\ job'[d].roles = {}
          /\ At(d, "walk")' => \A e \in job'[d].todo : Upheld(Of(d).user, e[1], e[2])
          /\ At(d, "walk")' \/ At(d, "codes")' => \A s \in job'[d].roles : Seen(Of(d).user, s)
          /\ At(d, "store")' /\ job'[d].flag => \E s \in granting : Seen(Of(d).user, s)
    BY <1>1, <1>3, <2>2, <2>3 DEF ReadWell
  <2>6. CASE d # c
    BY <2>4, <2>6, StageStep DEF Others, At
  <2>7. CASE d = c
    <3>1. MaxDepth \in Nat /\ Work(c) /\ ~Finish(c) /\ Of(c).kind = "check"
      BY <1>3, <2>7, AccessFits
    <3>2. job[c].at \in {"get", "roles", "walk", "codes", "store"}
      <4>1. "check" \in KindsAt(job[c].at) /\ job[c].at \in Stages
        BY <3>1, Known
      <4>2. ASSUME NEW s \in Stages \ {"get", "roles", "walk", "codes", "store"}
            PROVE  "check" \notin KindsAt(s)
        BY KindsOf DEF Stages
      <4>3. QED
        BY <4>1, <4>2
    <3>3. Get(c) \/ ReadRoles(c) \/ Walk(c) \/ ReadCodes(c)
      BY <3>1, <3>2
         DEF Work, At, ReadRole, ReadHeldRole, Request, Give, ReadPending, ReadHeldAgain,
             Commit, Turn, ReadOwn, Drop, ReadName, ReadParent, Climb, CreateRole, Write, Collect,
             Holders, Forget, Count, Erase, Link, Log, Store
    <3>4. CASE Get(c)
      <4>1. Step(c, "roles") /\ "roles" \in Stages /\ At(c, "get")
        BY <3>1, <3>4 DEF Get, Stages
      <4>2. job'[c].at = "roles" /\ job'[c].flag = job[c].flag /\ job'[c].roles = job[c].roles
        BY <4>1, Advances DEF Goes, Shape
      <4>3. QED
        BY <2>4, <2>7, <4>1, <4>2 DEF At
    <3>5. CASE ReadRoles(c)
      <4>1. /\ At(c, "roles") /\ job'[c].at \in {"store", "walk"}
            /\ job'[c].todo = {r \in Roles : <<Of(c).user, r>> \in held} \X {0}
            /\ job'[c].roles = job[c].roles /\ job'[c].flag = job[c].flag
        BY <3>5, ReadRolesMoves
      <4>2. ASSUME NEW e \in job'[c].todo PROVE Upheld(Of(c).user, e[1], e[2])
        <5>1. e[1] \in Roles /\ <<Of(c).user, e[1]>> \in held /\ e[2] = 0
          BY <4>1
        <5>2. QED
          BY <5>1, ChainHere DEF Upheld
      <4>3. QED
        BY <2>4, <2>7, <4>1, <4>2 DEF At
    <3>6. CASE Walk(c)
      <4>1. At(c, "walk") /\ job'[c].at \in {"walk", "codes"}
        BY <3>6, WalkMoves
      <4>2. PICK e \in job[c].todo :
              /\ \A f \in job'[c].todo :
                   f \in job[c].todo
                     \/ (ParentOf(e[1]) # None /\ f = <<ParentOf(e[1]), e[2] + 1>>)
              /\ \A r \in job'[c].roles : r \in job[c].roles \/ (r = e[1] /\ e[2] < MaxDepth)
        BY <3>6, WalkMoves
      <4>3. Upheld(Of(c).user, e[1], e[2]) /\ e[1] \in Roles /\ e[2] \in Nat
        BY <2>4, <2>7, <4>1, TodoParts
      <4>4. ASSUME NEW f \in job'[c].todo PROVE Upheld(Of(c).user, f[1], f[2])
        <5>1. CASE f \in job[c].todo
          BY <2>4, <2>7, <4>1, <5>1
        <5>2. CASE ParentOf(e[1]) # None /\ f = <<ParentOf(e[1]), e[2] + 1>>
          <6>1. PICK r \in Roles : <<Of(c).user, r>> \in held /\ Leads(Above, r, e[1], e[2])
            BY <4>3 DEF Upheld
          <6>2. Above[e[1]] = ParentOf(e[1]) /\ Above[e[1]] \in Roles
            BY <4>3, <5>2, AboveType
          <6>3. Leads(Above, r, Above[e[1]], e[2] + 1)
            BY <4>3, <6>1, <6>2, ChainLonger
          <6>4. QED
            BY <5>2, <6>1, <6>2, <6>3 DEF Upheld
        <5>3. QED
          BY <4>2, <5>1, <5>2
      <4>5. ASSUME NEW s \in job'[c].roles PROVE Seen(Of(c).user, s)
        <5>1. CASE s \in job[c].roles
          BY <2>4, <2>7, <4>1, <5>1
        <5>2. CASE s = e[1] /\ e[2] < MaxDepth
          <6>1. e[2] \in 0..MaxDepth-1
            BY <3>1, <4>3, <5>2
          <6>2. QED
            BY <4>3, <5>2, <6>1 DEF Seen
        <5>3. QED
          BY <4>2, <5>1, <5>2
      <4>6. QED
        BY <2>7, <4>1, <4>4, <4>5 DEF At
    <3>7. CASE ReadCodes(c)
      <4>1. /\ At(c, "codes") /\ job'[c].at = "store"
            /\ job'[c].flag => job[c].roles \cap granting # {}
        BY <3>7, ReadCodesMoves
      <4>2. QED
        BY <2>4, <2>7, <4>1 DEF At
    <3>8. QED
      BY <3>3, <3>4, <3>5, <3>6, <3>7
  <2>8. QED
    BY <2>6, <2>7
<1>4. QED
  BY <1>2, <1>3, CleanReader

\* While no writer is under way what a check says is accounted for.
LEMMA SeenAccounted ==
  ASSUME TypeOK, Shape, ~Writing, NEW u, NEW s \in granting, Seen(u, s)
  PROVE  Accounted(u)
<1>1. PICK k \in 0..MaxDepth-1 : Upheld(u, s, k)
  BY DEF Seen
<1>2. PICK r \in Roles : <<u, r>> \in held /\ Leads(Above, r, s, k)
  BY <1>1 DEF Upheld
<1>3. PICK f \in [0..k -> Roles] : Chain(Above, f, k) /\ f[0] = r /\ f[k] = s
  BY <1>2 DEF Leads
<1>4. k \in 0..MaxDepth /\ k < MaxDepth
  BY AccessFits
<1>5. ASSUME NEW q PROVE ~Doomed(q)
  <2>1. SUFFICES ASSUME NEW c \in Clients, At(c, "erase") PROVE FALSE
    BY DEF Doomed
  <2>2. Busy(c) /\ Of(c).kind \in Writers
    BY <2>1, Known, KindsOf DEF At, Busy, Writers, Kinds
  <2>3. QED
    BY <2>2 DEF Writing
<1>6. Accounts(u, k, f)
  BY <1>2, <1>3, <1>4, <1>5 DEF Accounts, Grants
<1>7. QED
  BY <1>4, <1>6 DEF Accounted

CacheInv ==
  /\ \A c \in Clients : ReadWell(c)
  /\ unforgotten \/ \A u \in Users :
       cache[u].kept /\ cache[u].has /\ cache[u].clean => Forgetting(u) \/ Accounted(u)

LEMMA StoreStep ==
  ASSUME TypeOK, Shape, NEW c \in Clients, ReadWell(c), Store(c), Acts(c), ~unforgotten',
         NEW u \in Users, cache'[u].kept, cache'[u].has, cache'[u].clean, cache'[u] # cache[u]
  PROVE  Accounted(u)' \/ Forgetting(u)'
<1>1. cache \in [Users -> Cached] /\ At(c, "store")
  BY DEF TypeOK, Store
<1>2. u = Of(c).user /\ job[c].flag /\ job[c].clean
  <2>1. cache' = [cache EXCEPT ![Of(c).user] =
                    [kept |-> TRUE, has |-> job[c].flag, clean |-> job[c].clean]]
    BY DEF Store
  <2>2. u = Of(c).user
    BY <1>1, <2>1
  <2>3. cache'[u] = [kept |-> TRUE, has |-> job[c].flag, clean |-> job[c].clean]
    BY <1>1, <2>1, <2>2
  <2>4. QED
    BY <2>2, <2>3
<1>3. Of(c).kind = "check"
  BY <1>1, Known, KindsOf DEF At
<1>4. PICK s \in granting : Seen(u, s) /\ ~Writing
  BY <1>1, <1>2, <1>3 DEF ReadWell
<1>5. QED
  BY <1>4, SeenAccounted, AccountedStep

LEMMA CacheStep ==
  ASSUME TypeOK, Shape, CacheInv, NEW c \in Clients, Acts(c)
  PROVE  CacheInv'
<1>1. \A d \in Clients : ReadWell(d)'
  BY ReadWellStep DEF CacheInv
<1> SUFFICES ASSUME ~unforgotten', NEW u \in Users,
                    cache'[u].kept, cache'[u].has, cache'[u].clean
             PROVE  Forgetting(u)' \/ Accounted(u)'
  BY <1>1 DEF CacheInv
<1>2. ~unforgotten
  BY StepCases, QuietUnchanged
     DEF Quiet, history, Request, Give, Commit, Turn, Drop, CreateRole, Write, Forget, Erase, Link,
         Log, Store, Breaks, Submit
<1>3. CASE cache'[u] = cache[u]
  <2>1. Forgetting(u) \/ Accounted(u)
    BY <1>2, <1>3 DEF CacheInv
  <2>2. QED
    BY <2>1, ForgettingStep, AccountedStep
<1>4. CASE cache'[u] # cache[u]
  <2>1. Store(c) \/ Forget(c)
    BY <1>4, StepCases, KeptBySmall, KeptByRoles DEF Link, Log, Breaks, Submit
  <2>2. CASE Store(c)
    BY <1>4, <2>2, StoreStep DEF CacheInv
  <2>3. CASE Forget(c)
    <3>1. PICK v \in job[c].users : cache' = [cache EXCEPT ![v] = Absent]
      BY <1>4, <2>3, ForgetMoves
    <3>2. cache'[u] = Absent
      BY <1>4, <3>1 DEF TypeOK
    <3>3. QED
      BY <3>2 DEF Absent
  <2>4. QED
    BY <2>1, <2>2, <2>3
<1>5. QED
  BY <1>3, <1>4

\* Nor does Ancestry miss a chain.
LEMMA ChainsInAncestry ==
  ASSUME TypeOK, Shape, NEW from \in SUBSET Roles, NEW r \in from, NEW k \in 0..MaxDepth,
         NEW s, Leads(Above, r, s, k)
  PROVE  s \in Ancestry(from)[k]
<1>1. PICK up : up = Ancestry(from) /\ up = Ascent(from, up)
  BY AncestryEquation
<1>2. MaxDepth \in Nat
  BY AccessFits
<1> DEFINE Bad == {n \in 0..MaxDepth : \E q : Leads(Above, r, q, n) /\ q \notin up[n]}
<1>3. Bad = {}
  <2>1. SUFFICES ASSUME Bad # {} PROVE FALSE
    OBVIOUS
  <2>2. Bad \in SUBSET Nat
    OBVIOUS
  <2>3. PICK n \in Bad : \A m \in Bad : n <= m
    BY <2>1, <2>2, LeastNumber
  <2>4. n \in 0..MaxDepth /\ n \in Nat
    OBVIOUS
  <2>5. PICK q : Leads(Above, r, q, n) /\ q \notin up[n]
    OBVIOUS
  <2>6. CASE n = 0
    <3>1. up[0] = from
      BY <1>1, <1>2 DEF Ascent
    <3>2. q = r
      BY <2>5, <2>6 DEF Leads
    <3>3. QED
      BY <2>5, <2>6, <3>1, <3>2
  <2>7. CASE n # 0
    <3>1. up[n] = {ParentOf(p) : p \in up[n - 1]} \ {None}
      BY <1>1, <2>4, <2>7 DEF Ascent
    <3>2. n - 1 \in 0..MaxDepth /\ n - 1 \in Nat /\ ~(n <= n - 1) /\ n \in Nat \ {0}
      BY <1>2, <2>4, <2>7
    <3>3. PICK p \in Roles : Leads(Above, r, p, n - 1) /\ Above[p] = q
      BY <2>5, <3>2, ChainShorter
    <3>4. p \in up[n - 1]
      BY <2>3, <3>2, <3>3
    <3>5. q \in Roles
      BY <2>4, <2>5 DEF Leads
    <3>6. q = ParentOf(p) /\ q # None
      BY <3>3, <3>5, AccessFits DEF Above
    <3>7. QED
      BY <2>5, <3>1, <3>4, <3>6
  <2>8. QED
    BY <2>6, <2>7
<1>4. k \notin Bad
  BY <1>3
<1>5. QED
  BY <1>1, <1>4

\* LostPermissionsAreForgotten: once every writer is done, no entry that was read
\* while none was under way serves a permission its user has lost, provided no
\* writer broke off.  Not claimed: an entry read while a writer was under way, which
\* may be stored after the writer's invalidation and then stays until it expires.
THEOREM LostIsForgotten == Spec => []LostPermissionsAreForgotten
<1>1. Init => CacheInv
  <2> SUFFICES ASSUME Init PROVE CacheInv
    OBVIOUS
  <2>1. /\ \A c \in Clients : Of(c).kind = "none"
        /\ \A u \in Users : cache[u] = Absent
    BY IdleRow DEF Init, Of
  <2>2. QED
    BY <2>1 DEF CacheInv, ReadWell, Absent
<1>2. TypeOK /\ Shape /\ CacheInv /\ [Next]_vars => CacheInv'
  <2> SUFFICES ASSUME TypeOK, Shape, CacheInv, [Next]_vars PROVE CacheInv'
    OBVIOUS
  <2>1. CASE \E c \in Clients : Acts(c)
    BY <2>1, CacheStep
  <2>2. CASE Aside /\ (cache' = cache \/ \E u \in Users : Expires(u))
    <3>1. \A u \in Users : cache'[u] = cache[u] \/ ~cache'[u].kept
      <4>1. CASE cache' = cache
        BY <4>1
      <4>2. ASSUME NEW v \in Users, Expires(v)
            PROVE  \A u \in Users : cache'[u] = cache[u] \/ ~cache'[u].kept
        BY <4>2 DEF Expires, Absent, TypeOK
      <4>3. QED
        BY <2>2, <4>1, <4>2
    <3>2. Above' = Above /\ UNCHANGED <<granting, held, job, unforgotten>>
      BY <2>2 DEF Aside, Above, ParentOf
    <3>3. /\ \A c \in Clients : ReadWell(c)' = ReadWell(c)
          /\ \A u : Forgetting(u)' = Forgetting(u)
      BY <3>2 DEF ReadWell, Forgetting, Upheld, Seen, Writing, Busy, At, Of
    <3>4. ASSUME NEW u, Accounted(u) PROVE Accounted(u)'
      BY <3>2, <3>4 DEF Accounted, Accounts, Grants, Queued, Visits, Doomed, At, Of
    <3>5. QED
      BY <3>1, <3>2, <3>3, <3>4 DEF CacheInv
  <2>3. QED
    BY <2>1, <2>2, NextCases DEF Aside, Expires, vars, database, history
<1>3. TypeOK /\ Shape /\ CacheInv => LostPermissionsAreForgotten
  <2> SUFFICES ASSUME TypeOK, Shape, CacheInv, ~Writing, ~unforgotten, NEW u \in Users,
                      cache[u].kept, cache[u].has, cache[u].clean
               PROVE  Effective(u) \cap granting # {}
    BY DEF LostPermissionsAreForgotten
  <2>1. ASSUME NEW c \in Clients
        PROVE  ~At(c, "forget") /\ ~At(c, "collect") /\ ~At(c, "holders")
    <3>1. Busy(c) => Of(c).kind \notin Writers
      BY DEF Writing
    <3>2. QED
      BY <3>1, Known, KindsOf DEF At, Busy, Writers, Kinds
  <2>2. Accounted(u)
    BY <2>1 DEF CacheInv, Forgetting
  <2>3. PICK k \in 0..MaxDepth : \E f \in [0..k -> Roles] : Accounts(u, k, f)
    BY <2>2 DEF Accounted
  <2>4. PICK f \in [0..k -> Roles] : Accounts(u, k, f)
    BY <2>3
  <2>5. f[k] \in granting /\ k < MaxDepth
    BY <2>1, <2>4 DEF Accounts, Grants, Queued, Visits
  <2>6. MaxDepth \in Nat /\ k \in 0..MaxDepth-1
    BY <2>5, AccessFits
  <2>7. PICK from : from = {r \in Roles : <<u, r>> \in held}
    OBVIOUS
  <2>8. from \in SUBSET Roles /\ f[0] \in from /\ Leads(Above, f[0], f[k], k)
    BY <2>4, <2>6, <2>7 DEF Accounts, Leads
  <2>9. f[k] \in Ancestry(from)[k]
    BY <2>8, ChainsInAncestry
  <2>10. f[k] \in Effective(u)
    BY <2>6, <2>7, <2>9 DEF Effective
  <2>11. QED
    BY <2>5, <2>10
<1>4. QED
  BY <1>1, <1>2, <1>3, InitTypes, TypeInductive, PTL DEF Spec
=============================================================================
