---------------------------- MODULE PortalTables ----------------------------
(***************************************************************************)
(* How the tables of the two web front ends and of the services behind     *)
(* them are written.  A table is a function from names to rows; tables are *)
(* joined with @@.                                                         *)
(*                                                                         *)
(* A press of a control calls a function of lib/api, which sends a route,  *)
(* which a controller hands to a service method, which reads or changes    *)
(* facts.  A fact is a set of rows of one kind ("accounts", "balances",    *)
(* ...): which rows, and what is in them, is left out.                     *)
(***************************************************************************)
EXTENDS Sequences, FiniteSets, TLC

\* A route: the service method that serves it, the permissions its guard asks
\* for, and whether the controller then turns customers away.  An open route
\* is served to anyone.
Open(method) == [method |-> method, open |-> TRUE, needs |-> {}, staffOnly |-> FALSE]
SignedIn(method) == [method |-> method, open |-> FALSE, needs |-> {}, staffOnly |-> FALSE]
Permitted(method, codes) == [method |-> method, open |-> FALSE, needs |-> codes, staffOnly |-> FALSE]
ForStaff(method, codes) == [method |-> method, open |-> FALSE, needs |-> codes, staffOnly |-> TRUE]

\* A service method: the facts its answer is made of, or the facts it changes.
\* `again` says what the same call does a second time: "again", it acts once
\* more; "same", it leaves things as they are; "refused", it is turned down.
\* Audit rows, security events and messages to the customer are written by
\* almost every method and are not counted as changes.
Reads(facts) == [reads |-> facts, changes |-> {}, again |-> "same"]
Changes(facts, again) == [reads |-> {}, changes |-> facts, again |-> again]

\* useQuery: the cache key, the call that fills it, and whether the page polls.
Query(key, call) == [key |-> key, call |-> call, polls |-> FALSE]
Polled(key, call) == [key |-> key, call |-> call, polls |-> TRUE]

\* useMutation: the call, the key prefixes its onSuccess invalidates, and
\* whether onSuccess returns the promise of that invalidation: if so the
\* mutation stays pending, and its mutateAsync unresolved, until the queries
\* on the page have been fetched again.
Mutation(call, invalidates) == [call |-> call, invalidates |-> invalidates, waits |-> FALSE]
Awaited(call, invalidates) == [call |-> call, invalidates |-> invalidates, waits |-> TRUE]

\* A control: the mutations one press runs, one after the other; when it is
\* disabled ("pending": while they run; "first": while the first one runs;
\* "none": never; "mount": it is no button, the page runs it when mounted);
\* how a success is told ("toast", on every page; "card", on this page only;
\* "always", errors are told as successes; "silent"); whether the server may
\* ask for a code first; the queries refetched at the end; and the permission
\* without which it is not shown.
Control(steps, guard, says) ==
  [steps |-> steps, guard |-> guard, says |-> says, code |-> FALSE, refetches |-> {}, gate |-> {}]

WithCode(control) == [control EXCEPT !.code = TRUE]
ThenRefetch(control, queries) == [control EXCEPT !.refetches = queries]
ShownWith(control, codes) == [control EXCEPT !.gate = codes]

\* A React component: the queries it reads, those it has a retry button for,
\* those it reads only with a permission (the query, and the code), and its
\* controls.
Empty == [x \in {} |-> {}]
Component(reads, offers) ==
  [reads |-> reads, retries |-> {}, gates |-> Empty, offers |-> offers]
WithRetry(component, queries) == [component EXCEPT !.retries = queries]
WithGates(component, gates) == [component EXCEPT !.gates = gates]
NoControls == Empty

\* What is on the screen: several components at once.
RECURSIVE Screen(_)
Screen(components) ==
  IF components = << >> THEN Component({}, NoControls)
  ELSE LET one == Head(components)
           rest == Screen(Tail(components))
       IN  [reads |-> one.reads \cup rest.reads,
            retries |-> one.retries \cup rest.retries,
            gates |-> one.gates @@ rest.gates,
            offers |-> one.offers @@ rest.offers]
=============================================================================
