----------------------------- MODULE MCWireDesk -----------------------------
EXTENDS WireDesk, TLC

CONSTANTS default, tier

MCSeededScope == [r \in Seeded |-> IF r = default THEN "GLOBAL" ELSE "TIER"]
MCAddressee == [w \in Wires |-> "iban"]
Interchangeable == Permutations(Changes) \cup Permutations(Wires)
=============================================================================
