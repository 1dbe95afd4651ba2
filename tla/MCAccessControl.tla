-------------------------- MODULE MCAccessControl --------------------------
(***************************************************************************)
(* Small instances of AccessControl: a user, two admins, and a hierarchy   *)
(* like the seeded one, in which a role inherits from another.             *)
(***************************************************************************)
EXTENDS AccessControl, TLC

CONSTANTS alice, boss, deputy, base, lead, temp

\* lead inherits the permission from base; alice holds lead and has asked for
\* the sensitive base.
MCParent == (base :> None) @@ (lead :> base) @@ (temp :> None)
MCAsked == << [user |-> alice, role |-> base, by |-> boss] >>
MCHeld == {<<alice, lead>>}

Alike == Permutations(Clients)
=============================================================================
