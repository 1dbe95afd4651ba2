--------------------------- MODULE MCOneTimeCodes ---------------------------
(***************************************************************************)
(* Small instances of OneTimeCodes.                                        *)
(***************************************************************************)
EXTENDS OneTimeCodes, TLC

\* Requests differ only in what they are about.
Alike == Permutations(Clients)
=============================================================================
