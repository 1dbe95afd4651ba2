------------------------------- MODULE Portal -------------------------------
(***************************************************************************)
(* The web front ends put together: what each page, hook, route and        *)
(* service method does is in the tables; here it is worked out for every   *)
(* control of both front ends and every query the control has to do with.  *)
(*                                                                         *)
(* A tour is one such pair: a page with a control, and one query, watched  *)
(* on that page or, when the page does not read it, on a viewer.  What     *)
(* then happens in the browser is in Tab.                                  *)
(***************************************************************************)
EXTENDS BankApi, RoleCatalog, SequencesExt

CONSTANT Stops  \* the portals toured

C == INSTANCE CustomerPortal
A == INSTANCE AdminConsole

\* The console is toured by somebody with every permission: what a role may
\* not see or do is in PortalRoles.
Apps ==
     ("customer" :> [calls |-> C!Calls, queries |-> C!Queries, mutations |-> C!Mutations,
                     screens |-> C!Screens, role |-> "CUSTOMER"])
  @@ ("admin" :> [calls |-> A!Calls, queries |-> A!Queries, mutations |-> A!Mutations,
                  screens |-> A!Screens, role |-> "SUPER_ADMINISTRATOR"])

RouteOf(app, call) == Routes[Apps[app].calls[call]]
MethodOf(app, call) == Methods[RouteOf(app, call).method]

\* JwtAuthGuard, PermissionsGuard, and assertStaff in the controller.
Served(app, call, role) ==
  LET route == RouteOf(app, call)
  IN  /\ route.needs \subseteq RoleGrants[role]
      /\ route.staffOnly => role \in StaffRoles

\* The call touches what the query shows; its hook invalidates the query.
Touches(app, call, query) ==
  MethodOf(app, call).changes \cap MethodOf(app, Apps[app].queries[query].call).reads # {}

Invalidates(app, mutation, query) ==
  \E prefix \in Apps[app].mutations[mutation].invalidates :
    IsPrefix(prefix, Apps[app].queries[query].key)

\* Where a hook, or a call without one, leaves a list behind that it has
\* touched: the list is right again when it is mounted more than thirty seconds
\* later, or the page is loaded anew.
LeftBehind == {
  <<"customer", "register", "useProfile">>,
  <<"customer", "changePassword", "useSessions">>,
  <<"customer", "resetPassword", "useSessions">>,
  <<"customer", "revokeDevice", "useSessions">>,
  <<"admin", "grantRolePermission", "useRoles">>,
  <<"admin", "grantRolePermission", "useRole">>,
  <<"admin", "approveTransferReview", "useStaffAccounts">>,
  <<"admin", "approveTransferReview", "useStaffAccount">>}

(***************************************************************************)
(* The tours.                                                              *)
(***************************************************************************)

StepOf(app, mutation, query) ==
  LET row == Apps[app].mutations[mutation]
  IN  [touches |-> Touches(app, row.call, query),
       covers |-> Invalidates(app, mutation, query),
       excused |-> <<app, row.call, query>> \in LeftBehind,
       waits |-> row.waits,
       again |-> MethodOf(app, row.call).again,
       served |-> Served(app, row.call, Apps[app].role)]

Tour(app, page, name, query, viewer) ==
  LET screen == Apps[app].screens[page]
      control == screen.offers[name]
  IN  [app |-> app, page |-> page, viewer |-> viewer, name |-> name, query |-> query,
       steps |-> [k \in DOMAIN control.steps |-> StepOf(app, control.steps[k], query)],
       guard |-> control.guard, says |-> control.says, code |-> control.code,
       refetches |-> query \in control.refetches,
       retries |-> query \in screen.retries,
       polls |-> Apps[app].queries[query].polls]

\* The queries a control touches, invalidates or refetches; when there is none
\* the tour has nothing to watch and any query will do.
Concerned(app, page, name) ==
  LET control == Apps[app].screens[page].offers[name]
      near == {q \in DOMAIN Apps[app].queries :
                 \/ q \in control.refetches
                 \/ \E k \in DOMAIN control.steps :
                      LET step == StepOf(app, control.steps[k], q) IN step.touches \/ step.covers}
  IN  IF near = {} THEN {CHOOSE q \in DOMAIN Apps[app].queries : TRUE} ELSE near

\* A page that reads the query shows it itself.
Viewers(app, page, query) ==
  LET readers == {p \in DOMAIN Apps[app].screens : query \in Apps[app].screens[p].reads}
  IN  IF page \in readers THEN {page} ELSE readers

PortalTours == UNION {UNION {UNION {UNION {
    {Tour(app, page, name, query, viewer) : viewer \in Viewers(app, page, query)}
      : query \in Concerned(app, page, name)}
      : name \in DOMAIN Apps[app].screens[page].offers}
      : page \in DOMAIN Apps[app].screens}
      : app \in Stops}
=============================================================================
