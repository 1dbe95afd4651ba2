\* Two wires to one recipient, two limit changes, one edit of the list.
CONSTANTS
  default = default
  tier = tier
  Seeded = {default, tier}
  SeededScope <- MCSeededScope
  Changes = {c1, c2}
  Wires = {w1, w2}
  Recipients = {"iban"}
  Addressee <- MCAddressee
  MaxCalls = 2
  MaxEntries = 3
  MaxEdits = 1
SYMMETRY Interchangeable
SPECIFICATION Spec
\* The requests run out.
CHECK_DEADLOCK FALSE
INVARIANTS
  NeverUnlimited
  LimitWasInEffect
  OneLimitPerScope
  RecipientIsListedOnce
