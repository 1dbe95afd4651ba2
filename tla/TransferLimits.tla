--------------------------- MODULE TransferLimits ---------------------------
(***************************************************************************)
(* The TransferLimit rows of one currency, as one transfer sees them, and  *)
(* the staff requests that replace and retire them                         *)
(* (TransferLimitsAdminService).  A limit is set for one of four scopes;   *)
(* the narrowest scope that has an active row decides.                     *)
(***************************************************************************)
EXTENDS Integers, Sequences, FiniteSets

CONSTANTS
  Seeded,       \* rows that may be present at the start
  SeededScope,  \* [Seeded -> Scopes]
  Changes       \* staff requests; a request inserts at most one row, its own

Precedence == <<"ACCOUNT", "CUSTOMER", "TIER", "GLOBAL">>
Scopes == {Precedence[k] : k \in DOMAIN Precedence}
RowIds == Seeded \cup Changes
NoRow == "none"

\* At most one row of a scope is there at the start.  (The seed inserts the
\* platform-wide default of one currency; other currencies have no row.)
ASSUME SeededRowsFit ==
  /\ Seeded \cap Changes = {}
  /\ NoRow \notin RowIds
  /\ SeededScope \in [Seeded -> Scopes]
  /\ \A r, s \in Seeded : SeededScope[r] = SeededScope[s] => r = s

VARIABLES
  limits,    \* [RowIds -> Rows], the transfer_limits table
  change,    \* [Changes -> ChangeStates]
  clock,     \* committed changes so far
  contested  \* history: scopes two overlapping requests have both set

limitVars == <<limits, change, clock, contested>>

-----------------------------------------------------------------------------
\* effectiveFrom and effectiveTo in committed changes; until = 0 is null.
Rows == [scope : Scopes \cup {NoRow}, from : Nat, until : Nat]
Absent == [scope |-> NoRow, from |-> 0, until |-> 0]

Unsent == [at |-> "unsent"]
Answered == [at |-> "answered"]
ChangeStates ==
  {Unsent, Answered}
  \cup [at : {"replace"}, scope : Scopes, old : SUBSET RowIds]
  \cup [at : {"retire"}, row : RowIds]

Active(table, scope) ==
  {r \in RowIds : table[r].scope = scope /\ table[r].until = 0}

\* findFirst ... orderBy effectiveFrom desc; NoRow stands for null.
Newest(table, scope) ==
  IF Active(table, scope) = {} THEN NoRow
  ELSE CHOOSE r \in Active(table, scope) :
         \A s \in Active(table, scope) : table[s].from <= table[r].from

\* What the four reads would find if nothing changed between them.
InEffect(table) ==
  LET set == {k \in DOMAIN Precedence : Active(table, Precedence[k]) # {}}
  IN  IF set = {} THEN NoRow
      ELSE Newest(table, Precedence[CHOOSE k \in set : \A n \in set : k <= n])

\* The rows a currency starts with: it may be all of them or none.
LimitsInit ==
  /\ \E present \in SUBSET Seeded :
       limits = [r \in RowIds |->
                   IF r \in present THEN [Absent EXCEPT !.scope = SeededScope[r]] ELSE Absent]
  /\ change = [c \in Changes |-> Unsent]
  /\ clock = 0
  /\ contested = {}

-----------------------------------------------------------------------------
\* create, inside its transaction: updateMany finds the active rows of the
\* scope.  It may have to wait for another request that holds them, and then
\* sees them ended, but not the row that request inserted.
BeginReplace(c) ==
  /\ change[c] = Unsent
  /\ \E s \in Scopes :
       /\ change' = [change EXCEPT ![c] =
                       [at |-> "replace", scope |-> s, old |-> Active(limits, s)]]
       /\ contested' = IF \E d \in Changes : change[d].at = "replace" /\ change[d].scope = s
                         THEN contested \cup {s} ELSE contested
  /\ UNCHANGED <<limits, clock>>

\* Faulty variant: the new row is inserted, the old ones stay.
InsertBeside(c) ==
  /\ change[c].at = "replace"
  /\ limits' = [limits EXCEPT ![c] = [scope |-> change[c].scope, from |-> clock + 1, until |-> 0]]
  /\ clock' = clock + 1
  /\ change' = [change EXCEPT ![c] = Answered]
  /\ UNCHANGED contested

\* The commit: the old rows end and the new one begins.
CommitReplace(c) ==
  /\ change[c].at = "replace"
  /\ limits' = [r \in RowIds |->
       IF r = c THEN [scope |-> change[c].scope, from |-> clock + 1, until |-> 0]
       ELSE IF r \in change[c].old /\ limits[r].until = 0
              THEN [limits[r] EXCEPT !.until = clock + 1]
       ELSE limits[r]]
  /\ clock' = clock + 1
  /\ change' = [change EXCEPT ![c] = Answered]
  /\ UNCHANGED contested

\* Faulty variant: the default may be retired like any override.
BeginRetireAny(c) ==
  /\ change[c] = Unsent
  /\ \E r \in RowIds :
       /\ limits[r].scope # NoRow /\ limits[r].until = 0
       /\ change' = [change EXCEPT ![c] = [at |-> "retire", row |-> r]]
  /\ UNCHANGED <<limits, clock, contested>>

\* retire reads the row and refuses one that has ended or is the default ...
BeginRetire(c) ==
  /\ change[c] = Unsent
  /\ \E r \in RowIds :
       /\ limits[r].scope \notin {NoRow, "GLOBAL"} /\ limits[r].until = 0
       /\ change' = [change EXCEPT ![c] = [at |-> "retire", row |-> r]]
  /\ UNCHANGED <<limits, clock, contested>>

\* ... and ends it by its id, whatever has happened to it meanwhile.
FinishRetire(c) ==
  /\ change[c].at = "retire"
  /\ limits' = [limits EXCEPT ![change[c].row].until = clock + 1]
  /\ clock' = clock + 1
  /\ change' = [change EXCEPT ![c] = Answered]
  /\ UNCHANGED contested

\* Bad values, an unknown customer, a lost connection: nothing is changed.
AbortChange(c) ==
  /\ change[c].at \in {"replace", "retire"}
  /\ change' = [change EXCEPT ![c] = Answered]
  /\ UNCHANGED <<limits, clock, contested>>

BeginChange(c) == BeginReplace(c) \/ BeginRetire(c) \/ AbortChange(c)
CommitChange(c) == CommitReplace(c) \/ FinishRetire(c)

-----------------------------------------------------------------------------
LimitsTypeOK ==
  /\ limits \in [RowIds -> Rows]
  /\ change \in [Changes -> ChangeStates]
  /\ clock \in Nat
  /\ contested \subseteq Scopes

\* Setting a limit retires the previous one of its scope: two rows of a scope
\* are active together only if two requests for that scope overlapped (the
\* code has no constraint or lock against that).
OneLimitPerScope ==
  \A s \in Scopes \ contested : Cardinality(Active(limits, s)) <= 1
=============================================================================
