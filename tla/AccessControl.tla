--------------------------- MODULE AccessControl ---------------------------
(***************************************************************************)
(* Who may do what:                                                        *)
(*   RoleService                     roles, their hierarchy, their grants  *)
(*   UserRoleService                 assigning and revoking roles          *)
(*   RoleAssignmentApprovalService   the second pair of eyes               *)
(*   PermissionResolverService       what a user may do, cached in Redis   *)
(*   AuthorizationAuditService       the audit entry of every change       *)
(* A request is a chain of awaits; job[c].at is the one it has reached.    *)
(* There is one permission; a role grants it or does not.                  *)
(***************************************************************************)
EXTENDS AuditChain, Sequences, FiniteSets

CONSTANTS
  Clients,      \* requests under way at once
  Users,        \* whose roles are managed
  Admins,       \* who assigns and reviews
  Roles,        \* ids a role may have
  None,         \* no parent
  MaxDepth,     \* MAX_HIERARCHY_DEPTH, of role.service and of the resolver
  MaxRequests,  \* bound: requests sent in all
  \* What the database holds at first.
  Seeded,       \* the roles that exist
  System,       \* isSystemRole
  InitParent,   \* [Roles -> Roles \cup {None}]
  InitSensitive, InitGranting,  \* sets of roles
  InitHeld,     \* SUBSET (Users \X Roles)
  InitAsked     \* Seq of [user, role, by], the pending approvals

ASSUME AccessFits ==
  /\ IsFiniteSet(Clients)
  /\ None \notin Roles
  /\ MaxDepth \in Nat \ {0} /\ MaxRequests \in Nat
  /\ System \subseteq Seeded /\ Seeded \subseteq Roles
  /\ InitParent \in [Roles -> Seeded \cup {None}]
  /\ InitSensitive \cup InitGranting \subseteq Seeded
  /\ InitHeld \subseteq Users \X Seeded
  /\ InitAsked \in Seq([user : Users, role : Seeded, by : Admins])

\* The seeded hierarchy has no cycle that a re-parenting would have to find.
ASSUME SeedHasNoCycle ==
  \A k \in 1..MaxDepth : \A f \in [0..k -> Seeded] :
    (\A i \in 1..k : f[i] = InitParent[f[i-1]]) => f[k] # f[0]

VARIABLES
  live,       \* the roles that exist
  gone,       \* ids that were used: a deleted role's id never comes back
  parent,     \* [Roles -> Roles \cup {None}]
  sensitive,  \* SUBSET Roles
  granting,   \* SUBSET Roles, role_permissions
  held,       \* SUBSET (Users \X Roles), user_roles
  approvals,  \* Seq of role_assignment_approvals
  cache,      \* [Users -> Cached], authz:permissions:<user>
  log,        \* audit_logs
  clock,      \* Nat, the last new Date() an entry was made with
  job,        \* [Clients -> Jobs]
  requests,   \* Nat, requests sent
  \* History, for the properties only.
  crowd,      \* [Groups -> Nat], the most requests of a group ever under way
  unaided,    \* sensitive roles somebody was given without a second admin
  turned,     \* roles made sensitive while somebody was assigning them
  unforgotten \* TRUE: a writer broke before it had invalidated the cache

database == <<live, gone, parent, sensitive, granting, held, approvals>>
history == <<unaided, turned, unforgotten>>
vars == <<database, cache, log, clock, job, requests, crowd, history>>

-----------------------------------------------------------------------------
Kinds == {"assign", "revoke", "approve", "reject", "reparent", "classify",
          "create", "delete", "grant", "withdraw", "check"}
Reviews == {"approve", "reject"}
Writers == Kinds \ {"check"}

\* What is asked: n is the number of an approval.
AskFor(kind, user, role, parentRole, by, n) ==
  [kind |-> kind, user |-> user, role |-> role, parent |-> parentRole, by |-> by, n |-> n]
Ask == AskFor("none", None, None, None, None, 0)
Asks ==
     {AskFor("assign", u, r, None, a, 0) : u \in Users, r \in Roles, a \in Admins}
  \cup {AskFor("revoke", u, r, None, None, 0) : u \in Users, r \in Roles}
  \cup {AskFor(k, None, None, None, a, n) : k \in Reviews, a \in Admins, n \in 1..Len(approvals)}
  \cup {AskFor(k, None, r, p, None, 0) :
          k \in {"reparent", "create"}, r \in Roles, p \in Roles \cup {None}}
  \cup {AskFor(k, None, r, None, None, 0) :
          k \in {"classify", "delete", "grant", "withdraw"}, r \in Roles}
  \cup {AskFor("check", u, None, None, None, 0) : u \in Users}

Idle == [at |-> "idle", ask |-> Ask, todo |-> {}, roles |-> {}, users |-> {},
         flag |-> FALSE, found |-> 0, now |-> 0, clean |-> TRUE]
Busy(c) == job[c].at # "idle"
Of(c) == job[c].ask
At(c, stage) == job[c].at = stage

\* A cached set of permissions; clean: no writer was under way while it was read.
Absent == [kept |-> FALSE, has |-> FALSE, clean |-> TRUE]
Cached == [kept : BOOLEAN, has : BOOLEAN, clean : BOOLEAN]

Groups == {"all", "writers", "reviews", "reparents"}
Members(g) ==
  CASE g = "all"       -> Kinds
    [] g = "writers"   -> Writers
    [] g = "reviews"   -> Reviews
    [] g = "reparents" -> {"reparent"}
Together(g) == IF crowd[g] > 1 THEN crowd[g] ELSE 1
Writing == \E c \in Clients : Busy(c) /\ Of(c).kind \in Writers

Init ==
  /\ live = Seeded
  /\ gone = {}
  /\ parent = InitParent
  /\ sensitive = InitSensitive
  /\ granting = InitGranting
  /\ held = InitHeld
  /\ approvals = [n \in 1..Len(InitAsked) |->
       [user |-> InitAsked[n].user, role |-> InitAsked[n].role, by |-> InitAsked[n].by,
        status |-> "PENDING", grants |-> 0]]
  /\ cache = [u \in Users |-> Absent]
  /\ log = {}
  /\ clock = 0
  /\ job = [c \in Clients |-> Idle]
  /\ requests = 0
  /\ crowd = [g \in Groups |-> 0]
  /\ unaided = {}
  /\ turned = {}
  /\ unforgotten = FALSE

-----------------------------------------------------------------------------
Step(c, stage) == job' = [job EXCEPT ![c].at = stage]

\* The request is answered, refused or has thrown.
Finish(c) == job' = [job EXCEPT ![c] = Idle]

FirstStage(kind) ==
  CASE kind = "revoke"  -> "mine"
    [] kind \in Reviews -> "pending"
    [] kind = "create"  -> "name"
    [] kind = "check"   -> "get"
    [] OTHER            -> "role"

Submit(c, a) ==
  /\ ~Busy(c)
  /\ requests < MaxRequests
  /\ a.kind = "create" => a.role \notin gone
  /\ job' = [d \in Clients |->
       CASE d = c -> [Idle EXCEPT !.at = FirstStage(a.kind), !.ask = a, !.clean = ~Writing]
         [] d # c -> [job[d] EXCEPT !.clean = @ /\ a.kind \notin Writers]]
  /\ requests' = requests + 1
  /\ crowd' = [g \in Groups |->
       LET n == Cardinality({d \in Clients : IF d = c THEN a.kind \in Members(g)
                                                     ELSE Of(d).kind \in Members(g)})
       IN  IF n > crowd[g] THEN n ELSE crowd[g]]
  /\ UNCHANGED <<database, cache, log, clock, history>>

\* A query fails or the process dies: what is written stays.
Breaks(c) ==
  /\ Busy(c)
  /\ Finish(c)
  /\ unforgotten' = (unforgotten \/ job[c].at \in {"collect", "holders", "forget"})
  /\ UNCHANGED <<database, cache, log, clock, requests, crowd, unaided, turned>>

-----------------------------------------------------------------------------
(* Assigning, revoking and reviewing.                                      *)

\* assertRoleExists, or assign's own look at the role, whose isSensitive it keeps.
ReadRole(c) ==
  /\ At(c, "role")
  /\ LET a == Of(c)
     IN  IF a.role \notin live \/ (a.kind = "delete" /\ a.role \in System)
              \/ (a.kind = "reparent" /\ a.parent = a.role)
         THEN Finish(c)
         ELSE job' = [job EXCEPT ![c].flag = a.role \in sensitive, ![c].at =
                CASE a.kind = "assign" -> "held"
                  [] a.kind = "delete" -> "counts"
                  [] a.kind = "reparent" /\ a.parent # None -> "parent"
                  [] OTHER -> "write"]
  /\ UNCHANGED <<database, cache, log, clock, requests, crowd, history>>

\* Faulty variant: a sensitive role is assigned like any other.
ReadHeldRoleOnly(c) ==
  /\ At(c, "held")
  /\ IF <<Of(c).user, Of(c).role>> \in held THEN Finish(c) ELSE Step(c, "give")
  /\ UNCHANGED <<database, cache, log, clock, requests, crowd, history>>

ReadHeldRole(c) ==
  /\ At(c, "held")
  /\ IF <<Of(c).user, Of(c).role>> \in held
     THEN Finish(c)
     ELSE Step(c, IF job[c].flag THEN "request" ELSE "give")
  /\ UNCHANGED <<database, cache, log, clock, requests, crowd, history>>

\* The approval is asked for; a role deleted meanwhile makes the insert throw.
Request(c) ==
  /\ At(c, "request")
  /\ IF Of(c).role \in live
     THEN /\ approvals' = Append(approvals,
               [user |-> Of(c).user, role |-> Of(c).role, by |-> Of(c).by,
                status |-> "PENDING", grants |-> 0])
          /\ Step(c, "link")
     ELSE Finish(c) /\ UNCHANGED approvals
  /\ UNCHANGED <<live, gone, parent, sensitive, granting, held, cache, log, clock, requests,
                 crowd, history>>

\* A change of what one user holds is followed by the invalidation for that user.
ThenForget(c, u) == job' = [job EXCEPT ![c].at = "forget", ![c].users = {u}]

\* The insert throws if the role is gone or held by now.
Give(c) ==
  /\ At(c, "give")
  /\ LET a == Of(c)
     IN  IF a.role \in live /\ <<a.user, a.role>> \notin held
         THEN /\ held' = held \cup {<<a.user, a.role>>}
              /\ unaided' = unaided \cup ({a.role} \cap sensitive)
              /\ ThenForget(c, a.user)
         ELSE Finish(c) /\ UNCHANGED <<held, unaided>>
  /\ UNCHANGED <<live, gone, parent, sensitive, granting, approvals, cache, log, clock,
                 requests, crowd, turned, unforgotten>>

\* Faulty variant: whether the approval is still pending is not looked at.
ReadPendingAnyStatus(c) ==
  /\ At(c, "pending")
  /\ IF approvals[Of(c).n].status # "DELETED" /\ approvals[Of(c).n].by # Of(c).by
     THEN Step(c, IF Of(c).kind = "approve" THEN "again" ELSE "turn")
     ELSE Finish(c)
  /\ UNCHANGED <<database, cache, log, clock, requests, crowd, history>>

\* getPendingOrThrow and assertMakerNotChecker.
ReadPending(c) ==
  /\ At(c, "pending")
  /\ IF approvals[Of(c).n].status = "PENDING" /\ approvals[Of(c).n].by # Of(c).by
     THEN Step(c, IF Of(c).kind = "approve" THEN "again" ELSE "turn")
     ELSE Finish(c)
  /\ UNCHANGED <<database, cache, log, clock, requests, crowd, history>>

ReadHeldAgain(c) ==
  /\ At(c, "again")
  /\ LET p == approvals[Of(c).n]
     IN  IF <<p.user, p.role>> \in held THEN Finish(c) ELSE Step(c, "commit")
  /\ UNCHANGED <<database, cache, log, clock, requests, crowd, history>>

\* One transaction; it throws if the approval was deleted or the role is held.
Commit(c) ==
  /\ At(c, "commit")
  /\ LET p == approvals[Of(c).n]
     IN  IF p.status # "DELETED" /\ <<p.user, p.role>> \notin held
         THEN /\ held' = held \cup {<<p.user, p.role>>}
              /\ approvals' = [approvals EXCEPT ![Of(c).n] =
                   [p EXCEPT !.status = "APPROVED", !.grants = p.grants + 1]]
              /\ unaided' = IF p.by = Of(c).by THEN unaided \cup {p.role} ELSE unaided
              /\ ThenForget(c, p.user)
         ELSE Finish(c) /\ UNCHANGED <<held, approvals, unaided>>
  /\ UNCHANGED <<live, gone, parent, sensitive, granting, cache, log, clock, requests, crowd,
                 turned, unforgotten>>

\* An update by id, whatever the status is by now.
Turn(c) ==
  /\ At(c, "turn")
  /\ IF approvals[Of(c).n].status # "DELETED"
     THEN approvals' = [approvals EXCEPT ![Of(c).n].status = "REJECTED"] /\ Step(c, "link")
     ELSE Finish(c) /\ UNCHANGED approvals
  /\ UNCHANGED <<live, gone, parent, sensitive, granting, held, cache, log, clock, requests,
                 crowd, history>>

ReadOwn(c) ==
  /\ At(c, "mine")
  /\ IF <<Of(c).user, Of(c).role>> \in held THEN Step(c, "drop") ELSE Finish(c)
  /\ UNCHANGED <<database, cache, log, clock, requests, crowd, history>>

Drop(c) ==
  /\ At(c, "drop")
  /\ held' = held \ {<<Of(c).user, Of(c).role>>}
  /\ IF held' # held THEN ThenForget(c, Of(c).user) ELSE Finish(c)
  /\ UNCHANGED <<live, gone, parent, sensitive, granting, approvals, cache, log, clock,
                 requests, crowd, history>>

-----------------------------------------------------------------------------
(* Changing roles and their hierarchy.                                     *)

ReadName(c) ==
  /\ At(c, "name")
  /\ IF Of(c).role \in live THEN Finish(c)
     ELSE Step(c, IF Of(c).parent = None THEN "create" ELSE "parent")
  /\ UNCHANGED <<database, cache, log, clock, requests, crowd, history>>

\* Faulty variant: no walk up the hierarchy.
ReadParentOnly(c) ==
  /\ At(c, "parent")
  /\ IF Of(c).parent \notin live THEN Finish(c)
     ELSE Step(c, IF Of(c).kind = "create" THEN "create" ELSE "write")
  /\ UNCHANGED <<database, cache, log, clock, requests, crowd, history>>

ReadParent(c) ==
  /\ At(c, "parent")
  /\ IF Of(c).parent \notin live THEN Finish(c)
     ELSE IF Of(c).kind = "create" THEN Step(c, "create")
     ELSE job' = [job EXCEPT ![c].at = "climb", ![c].todo = {<<Of(c).parent, 0>>}]
  /\ UNCHANGED <<database, cache, log, clock, requests, crowd, history>>

ParentOf(r) == IF r \in live THEN parent[r] ELSE None

\* assertNoCycle: one ancestor of the new parent after the other, up to MaxDepth.
Climb(c) ==
  /\ At(c, "climb")
  /\ \E e \in job[c].todo :
       LET next == ParentOf(e[1])
       IN  IF next = None \/ e[2] + 1 >= MaxDepth THEN Step(c, "write")
           ELSE IF next = Of(c).role THEN Finish(c)
           ELSE job' = [job EXCEPT ![c].todo = {<<next, e[2] + 1>>}]
  /\ UNCHANGED <<database, cache, log, clock, requests, crowd, history>>

CreateRole(c) ==
  /\ At(c, "create")
  /\ LET a == Of(c)
     IN  IF a.role \notin live \cup gone /\ a.parent \in live \cup {None}
         THEN /\ live' = live \cup {a.role}
              /\ parent' = [parent EXCEPT ![a.role] = a.parent]
              /\ sensitive' \in {sensitive, sensitive \cup {a.role}}
              /\ Step(c, "link")
         ELSE Finish(c) /\ UNCHANGED <<live, parent, sensitive>>
  /\ UNCHANGED <<gone, granting, held, approvals, cache, log, clock, requests, crowd, history>>

\* A change of a role is followed by the invalidation for all it may concern.
ThenCollect(c) == job' = [job EXCEPT ![c].at = "collect", ![c].todo = {<<Of(c).role, 0>>}]

\* Somebody has looked at the role to assign it and has yet to write.
BeingAssigned(r) ==
  \E c \in Clients : Of(c).kind = "assign" /\ Of(c).role = r /\ job[c].at \in {"held", "give"}

Write(c) ==
  /\ At(c, "write")
  /\ LET a == Of(c)
     IN  \/ /\ a.role \in live \/ a.kind = "withdraw"
            /\ a.kind = "reparent" => a.parent \in live \cup {None}
            /\ parent' = IF a.kind = "reparent" THEN [parent EXCEPT ![a.role] = a.parent]
                                                ELSE parent
            /\ sensitive' = IF a.kind # "classify" THEN sensitive
                            ELSE (sensitive \cup {a.role}) \ (sensitive \cap {a.role})
            /\ turned' = turned \cup {r \in sensitive' \ sensitive : BeingAssigned(r)}
            /\ granting' = CASE a.kind = "grant"    -> granting \cup {a.role}
                             [] a.kind = "withdraw" -> granting \ {a.role}
                             [] OTHER               -> granting
            /\ ThenCollect(c)
         \/ /\ \/ a.role \notin live /\ a.kind # "withdraw"
               \/ a.kind = "reparent" /\ a.parent \notin live \cup {None}
            /\ Finish(c)
            /\ UNCHANGED <<parent, sensitive, granting, turned>>
  /\ UNCHANGED <<live, gone, held, approvals, cache, log, clock, requests, crowd, unaided,
                 unforgotten>>

\* Depth first: the deepest of the roles still to be looked at.
Deepest(todo) == {e \in todo : \A f \in todo : f[2] <= e[2]}

\* Faulty variant: only the role itself.
CollectItself(c) ==
  /\ At(c, "collect")
  /\ job' = [job EXCEPT ![c].roles = {Of(c).role}, ![c].todo = {}, ![c].at = "holders"]
  /\ UNCHANGED <<database, cache, log, clock, requests, crowd, history>>

\* collectDescendants, one query of children after the other.
Collect(c) ==
  /\ At(c, "collect")
  /\ \E e \in Deepest(job[c].todo) :
       LET children == {r \in live : parent[r] = e[1] /\ e[2] < MaxDepth}
           rest == (job[c].todo \ {e}) \cup (children \X {e[2] + 1})
       IN  job' = [job EXCEPT ![c].roles = job[c].roles \cup {e[1]},
                              ![c].todo = rest,
                              ![c].at = IF rest = {} THEN "holders" ELSE "collect"]
  /\ UNCHANGED <<database, cache, log, clock, requests, crowd, history>>

Holders(c) ==
  /\ At(c, "holders")
  /\ job' = [job EXCEPT ![c].at = "forget", ![c].roles = {},
               ![c].users = {u \in Users : \E r \in job[c].roles : <<u, r>> \in held}]
  /\ UNCHANGED <<database, cache, log, clock, requests, crowd, history>>

\* invalidate: a DEL for each user concerned.
Forget(c) ==
  /\ At(c, "forget")
  /\ \/ /\ job[c].users = {}
        /\ Step(c, "link")
        /\ UNCHANGED cache
     \/ \E u \in job[c].users :
          /\ cache' = [cache EXCEPT ![u] = Absent]
          /\ job' = [job EXCEPT ![c].users = job[c].users \ {u}]
  /\ UNCHANGED <<database, log, clock, requests, crowd, history>>

InUse(r) == (\E u \in Users : <<u, r>> \in held) \/ (\E q \in live : parent[q] = r)

Count(c) ==
  /\ At(c, "counts")
  /\ IF InUse(Of(c).role) THEN Finish(c) ELSE Step(c, "erase")
  /\ UNCHANGED <<database, cache, log, clock, requests, crowd, history>>

\* The foreign keys take assignments, grants and approvals along and leave
\* children without a parent.
Erase(c) ==
  /\ At(c, "erase")
  /\ LET r == Of(c).role
     IN  IF r \in live
         THEN /\ live' = live \ {r}
              /\ gone' = gone \cup {r}
              /\ parent' = [q \in Roles |-> IF q = r \/ parent[q] = r THEN None ELSE parent[q]]
              /\ sensitive' = sensitive \ {r}
              /\ granting' = granting \ {r}
              /\ held' = {h \in held : h[2] # r}
              /\ approvals' = [n \in 1..Len(approvals) |->
                   IF approvals[n].role = r THEN [approvals[n] EXCEPT !.status = "DELETED"]
                                            ELSE approvals[n]]
              /\ Step(c, "link")
         ELSE Finish(c) /\ UNCHANGED database
  /\ UNCHANGED <<cache, log, clock, requests, crowd, history>>

-----------------------------------------------------------------------------
(* AuthorizationAuditService.record                                        *)

\* new Date() follows the query; two of them never give the same instant here.
Link(c) ==
  /\ At(c, "link")
  /\ clock' = clock + 1
  /\ job' = [job EXCEPT ![c].at = "log", ![c].found = LatestHash(log), ![c].now = clock']
  /\ UNCHANGED <<database, cache, log, requests, crowd, history>>

Log(c) ==
  /\ At(c, "log")
  /\ log' = log \cup {Entry(job[c].found, job[c].now)}
  /\ Finish(c)
  /\ UNCHANGED <<database, cache, clock, requests, crowd, history>>

-----------------------------------------------------------------------------
(* PermissionResolverService.getEffectivePermissions, through cache.wrap    *)

Get(c) ==
  /\ At(c, "get")
  /\ IF cache[Of(c).user].kept THEN Finish(c) ELSE Step(c, "roles")
  /\ UNCHANGED <<database, cache, log, clock, requests, crowd, history>>

ReadRoles(c) ==
  /\ At(c, "roles")
  /\ LET own == {r \in Roles : <<Of(c).user, r>> \in held}
     IN  job' = [job EXCEPT ![c].todo = own \X {0},
                            ![c].at = IF own = {} THEN "store" ELSE "walk"]
  /\ UNCHANGED <<database, cache, log, clock, requests, crowd, history>>

\* expandHierarchy, one role after the other.
Walk(c) ==
  /\ At(c, "walk")
  /\ \E e \in Deepest(job[c].todo) :
       LET skip == e[1] \in job[c].roles \/ e[2] >= MaxDepth
           up == {<<ParentOf(e[1]), e[2] + 1>>}
           rest == (job[c].todo \ {e}) \cup (IF skip \/ ParentOf(e[1]) = None THEN {} ELSE up)
       IN  job' = [job EXCEPT ![c].roles = job[c].roles \cup (IF skip THEN {} ELSE {e[1]}),
                              ![c].todo = rest,
                              ![c].at = IF rest = {} THEN "codes" ELSE "walk"]
  /\ UNCHANGED <<database, cache, log, clock, requests, crowd, history>>

ReadCodes(c) ==
  /\ At(c, "codes")
  /\ job' = [job EXCEPT ![c].at = "store", ![c].flag = job[c].roles \cap granting # {}]
  /\ UNCHANGED <<database, cache, log, clock, requests, crowd, history>>

Store(c) ==
  /\ At(c, "store")
  /\ cache' = [cache EXCEPT ![Of(c).user] =
                 [kept |-> TRUE, has |-> job[c].flag, clean |-> job[c].clean]]
  /\ Finish(c)
  /\ UNCHANGED <<database, log, clock, requests, crowd, history>>

\* CACHE_TTL_SECONDS pass.
Expires(u) ==
  /\ cache[u].kept
  /\ cache' = [cache EXCEPT ![u] = Absent]
  /\ UNCHANGED <<database, log, clock, job, requests, crowd, history>>

-----------------------------------------------------------------------------
Work(c) ==
  \/ ReadRole(c) \/ ReadHeldRole(c) \/ Request(c) \/ Give(c)
  \/ ReadPending(c) \/ ReadHeldAgain(c) \/ Commit(c) \/ Turn(c) \/ ReadOwn(c) \/ Drop(c)
  \/ ReadName(c) \/ ReadParent(c) \/ Climb(c) \/ CreateRole(c) \/ Write(c)
  \/ Collect(c) \/ Holders(c) \/ Forget(c) \/ Count(c) \/ Erase(c) \/ Link(c) \/ Log(c)
  \/ Get(c) \/ ReadRoles(c) \/ Walk(c) \/ ReadCodes(c) \/ Store(c)

Next ==
  \/ \E c \in Clients :
       \/ Work(c) \/ Breaks(c)
       \/ ~Busy(c) /\ requests < MaxRequests /\ \E a \in Asks : Submit(c, a)
  \/ \E u \in Users : Expires(u)

Spec == Init /\ [][Next]_vars

-----------------------------------------------------------------------------
Stages ==
  {"idle", "role", "held", "request", "give", "pending", "again", "commit", "turn",
   "mine", "drop", "name", "parent", "climb", "create", "write", "collect", "holders",
   "forget", "counts", "erase", "link", "log", "get", "roles", "walk", "codes", "store"}

TypeOK ==
  /\ live \subseteq Roles /\ gone \subseteq Roles
  /\ parent \in [Roles -> Roles \cup {None}]
  /\ sensitive \subseteq Roles /\ granting \subseteq Roles
  /\ held \subseteq Users \X Roles
  /\ approvals \in Seq([user : Users, role : Roles, by : Admins, grants : Nat,
                        status : {"PENDING", "APPROVED", "REJECTED", "DELETED"}])
  /\ cache \in [Users -> Cached]
  /\ log \subseteq Entries /\ clock \in Nat
  /\ \A c \in Clients : job[c].at \in Stages
  /\ requests \in Nat
  /\ crowd \in [Groups -> Nat]
  /\ unaided \subseteq Roles /\ turned \subseteq Roles
  /\ unforgotten \in BOOLEAN

\* The roles MaxDepth steps up or fewer from those a user holds.
Ancestry(from) ==
  LET up[k \in 0..MaxDepth] ==
        IF k = 0 THEN from ELSE {ParentOf(r) : r \in up[k - 1]} \ {None}
  IN  up

Effective(u) ==
  UNION {Ancestry({r \in Roles : <<u, r>> \in held})[k] : k \in 0..MaxDepth-1}

\* "Invalidated immediately on any role/permission write" (docs/authorization.md:20):
\* once every writer is done, a permission the user has lost is served from the
\* cache only if it was read while a writer was under way, or one broke off.
LostPermissionsAreForgotten ==
  Writing \/ unforgotten \/
    \A u \in Users : cache[u].kept /\ cache[u].has /\ cache[u].clean
                       => Effective(u) \cap granting # {}

\* Re-parenting makes no cycle of at most MAX_HIERARCHY_DEPTH roles, unless two
\* of them overlap.
NoShortCycle ==
  crowd["reparents"] <= 1 =>
    \A r \in Roles : \A k \in 1..MaxDepth : r \notin Ancestry({r})[k]

\* A request for a role is decided once: the times it granted the role, and its
\* rejection, are together no more than the reviews that ever overlapped.
ReviewsAreFinal ==
  \A n \in 1..Len(approvals) :
    approvals[n].grants + (IF approvals[n].status = "REJECTED" THEN 1 ELSE 0)
      <= Together("reviews")

\* "Never applied immediately, no matter who's asking" (docs/rbac.md:51): a sensitive
\* role is given by one admin alone only if it was turned sensitive between the
\* assignment's look at it and the insert; what else overlaps does not matter.
SensitiveNeedsTwo == unaided \subseteq turned

\* However changes overlap, with C under way at most: at most C entries of the
\* audit log name the same predecessor, and an entry passes over at most C - 1
\* others.  Without an overlap the links verifyChain walks are one chain.
ForksAreOverlaps ==
  \A e \in log :
    /\ Cardinality(Siblings(log, e)) <= Together("writers")
    /\ Cardinality(Skipped(log, e)) < Together("writers")
=============================================================================
