---------------------------- MODULE PortalRoles ----------------------------
(***************************************************************************)
(* What the pages offer and what the services allow, role by role: facts   *)
(* about the tables as they are seeded, evaluated when TLC starts.         *)
(***************************************************************************)
EXTENDS Portal

\* The pages a role is led to: every page of the customer's, the dashboard and
\* the entries of its menu in the console.
LedTo(app, role) ==
  IF app = "customer" THEN DOMAIN Apps[app].screens
  ELSE {"/dashboard"} \cup {page \in DOMAIN A!MenuPermission : A!MenuPermission[page] \in RoleGrants[role]}

\* The queries asked there although the role is turned away.
RefusedReads(app, role) ==
  {<<page, query>> \in LedTo(app, role) \X DOMAIN Apps[app].queries :
     LET screen == Apps[app].screens[page]
     IN  /\ query \in screen.reads
         /\ query \in DOMAIN screen.gates => screen.gates[query] \in RoleGrants[role]
         /\ ~Served(app, Apps[app].queries[query].call, role)}

\* The controls shown there although the role is turned away.
RefusedControls(app, role) ==
  {<<page, name>> \in UNION {{page} \X DOMAIN Apps[app].screens[page].offers : page \in LedTo(app, role)} :
     LET control == Apps[app].screens[page].offers[name]
     IN  /\ control.gate \subseteq RoleGrants[role]
         /\ \E k \in DOMAIN control.steps :
              ~Served(app, Apps[app].mutations[control.steps[k]].call, role)}

\* Every call has a route, every route a method, and every permission asked
\* for or granted is in the catalog.
ASSUME TablesMeet ==
  /\ \A app \in DOMAIN Apps : \A call \in DOMAIN Apps[app].calls : Apps[app].calls[call] \in DOMAIN Routes
  /\ \A route \in DOMAIN Routes :
       Routes[route].method \in DOMAIN Methods /\ Routes[route].needs \subseteq AllCodes
  /\ \A role \in DOMAIN RoleGrants : RoleGrants[role] \subseteq AllCodes

\* A customer can read every page and use every control but one: activation,
\* which only staff may do and the account page offers all the same.
ASSUME CustomersAreServed ==
  /\ RefusedReads("customer", "CUSTOMER") = {}
  /\ RefusedControls("customer", "CUSTOMER") = {<<"/accounts/:id", "activate">>}

\* No entry of the console's menu leads a role to a list it may not read, and
\* the dashboard asks only for what it may.
ASSUME MenusAreServed == \A role \in StaffRoles : RefusedReads("admin", role) = {}
=============================================================================
