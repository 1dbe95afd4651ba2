----------------------------- MODULE MCSessions -----------------------------
(***************************************************************************)
(* Small instances of Sessions: a laptop with two tabs and a phone.        *)
(***************************************************************************)
EXTENDS Sessions, TLC

CONSTANTS tab1, tab2, app, laptop, phone

MCBrowser == [c \in {tab1, tab2, app} |-> IF c = app THEN phone ELSE laptop]
MCRequests == (tab1 :> 2) @@ (tab2 :> 1) @@ (app :> 2)
MCMay ==
  (tab1 :> {"login", "refresh"}) @@
  (tab2 :> {"login", "refresh", "logout", "change"}) @@
  (app :> {"login", "reset", "others", "deactivate", "verify"})
=============================================================================
