------------------------------ MODULE MCPortal ------------------------------
EXTENDS Tab, PortalRoles

\* What the theorems about a tab ask of a tour holds of every tour of the two
\* front ends: no button of theirs can be pressed again during what a second
\* call would do again, and no hook leaves out a query its call touches, except
\* those LeftBehind names.
ASSUME ToursKeepTheRules == \A t \in PortalTours : KeepsOut(t) /\ CoversAll(t)
=============================================================================
