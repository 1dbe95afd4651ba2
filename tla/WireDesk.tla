------------------------------ MODULE WireDesk ------------------------------
(***************************************************************************)
(* What an international wire looks up before it is posted: the recipient  *)
(* (BeneficiariesService.findOrCreateForWire) and the limit that applies   *)
(* (TransferLimitsService.resolveLimit), both while the customer edits the *)
(* list of beneficiaries and staff change the limits.  A wire is called    *)
(* at least twice, first without and then with its confirmation code, and  *)
(* each call looks everything up again.  Money, codes and held transfers   *)
(* are modelled in MoneyMovement and OneTimeCodes.                         *)
(***************************************************************************)
EXTENDS TransferLimits

CONSTANTS
  Wires,       \* wires one customer sends
  Recipients,  \* account numbers of recipients
  Addressee,   \* [Wires -> Recipients]
  MaxCalls,    \* bound: calls of one wire
  MaxEntries,  \* bound: beneficiary rows
  MaxEdits     \* bound: edits of the beneficiary list

ASSUME WiresFit ==
  /\ Addressee \in [Wires -> Recipients]
  /\ {MaxCalls, MaxEdits} \subseteq Nat /\ MaxEntries \in Nat \ {0}

VARIABLES
  book,     \* Seq of entries, the beneficiaries table of the customer
  wire,     \* [Wires -> WireStates]
  edit,     \* the customer's request on the Beneficiaries page
  edits,    \* edits so far
  doubled   \* history: recipients inserted while another insertion was under way

bookVars == <<book, edit, edits, doubled>>
vars == <<limitVars, bookVars, wire>>

-----------------------------------------------------------------------------
Entry == [recipient : Recipients,
          status : {"PENDING_VERIFICATION", "ACTIVE", "BLOCKED"}, deleted : BOOLEAN]
NoEdit == [at |-> "idle", place |-> 0]

Stages == {"idle", "find", "update", "create", "limits", "confirm", "done"}
\* place: the beneficiary found, 0 for none; level: the scope read next;
\* limit: the row that decides.  rival, covered, seen and moves are history: a
\* rival insertion since the look-up; whether the currency had a default when
\* the first limit was read; the rows in effect and the changes since then.
WireStates ==
  [at : Stages, calls : 0..MaxCalls, place : 0..MaxEntries, level : 0..4,
   limit : RowIds \cup {NoRow}, rival : BOOLEAN, covered : BOOLEAN,
   seen : SUBSET (RowIds \cup {NoRow}), moves : Nat]

Fresh(n) ==
  [at |-> "idle", calls |-> n, place |-> 0, level |-> 0, limit |-> NoRow,
   rival |-> FALSE, covered |-> FALSE, seen |-> {}, moves |-> 0]

Kept(recipient) ==
  {p \in DOMAIN book : book[p].recipient = recipient /\ ~book[p].deleted}

\* Faulty variant: only verified beneficiaries are looked for.
KeptActive(recipient) ==
  {p \in DOMAIN book : /\ book[p].recipient = recipient /\ ~book[p].deleted
                       /\ book[p].status = "ACTIVE"}

Candidates(recipient) == Kept(recipient)

Inserting(recipient) ==
  {w \in Wires : wire[w].at = "create" /\ Addressee[w] = recipient}

\* No code blocks a beneficiary, but the code expects to meet one.
BlockedEntry(recipient) ==
  [recipient |-> recipient, status |-> "BLOCKED", deleted |-> FALSE]

HasDefault == Active(limits, "GLOBAL") # {}

Init ==
  /\ LimitsInit
  /\ book \in {<< >>} \cup {<<BlockedEntry(r)>> : r \in Recipients}
  /\ wire = [w \in Wires |-> Fresh(0)]
  /\ edit = NoEdit
  /\ edits = 0
  /\ doubled = {}

-----------------------------------------------------------------------------
(* The wire.                                                               *)

Goto(w, stage) == wire' = [wire EXCEPT ![w].at = stage]

Call(w) ==
  /\ wire[w].at = "idle" /\ wire[w].calls < MaxCalls
  /\ wire' = [wire EXCEPT ![w] = [Fresh(@.calls + 1) EXCEPT !.at = "find"]]
  /\ UNCHANGED <<limitVars, bookVars>>

\* findFirst takes any entry of the recipient; a blocked one refuses the wire.
FindBeneficiary(w) ==
  /\ wire[w].at = "find"
  /\ LET found == Candidates(Addressee[w])
     IN  \/ \E p \in found :
              /\ book[p].status # "BLOCKED"
              /\ wire' = [wire EXCEPT ![w] = [@ EXCEPT !.at = "update", !.place = p]]
         \/ /\ \E p \in found : book[p].status = "BLOCKED"
            /\ wire' = [wire EXCEPT ![w] = Fresh(@.calls)]
         \/ found = {} /\ Goto(w, "create")
  /\ UNCHANGED <<limitVars, bookVars>>

\* By id: it also writes to an entry deleted since it was found.
UpdateBeneficiary(w) ==
  /\ wire[w].at = "update"
  /\ book' = [book EXCEPT ![wire[w].place].status = "ACTIVE"]
  /\ wire' = [wire EXCEPT ![w] =
       [@ EXCEPT !.at = "limits", !.level = 1, !.covered = HasDefault,
                 !.seen = {InEffect(limits)}]]
  /\ UNCHANGED <<limitVars, edit, edits, doubled>>

\* Everyone else who is about to insert this recipient now has a rival.
CreateBeneficiary(w) ==
  /\ wire[w].at = "create" /\ Len(book) < MaxEntries
  /\ book' = Append(book, [recipient |-> Addressee[w], status |-> "ACTIVE", deleted |-> FALSE])
  /\ doubled' = IF wire[w].rival THEN doubled \cup {Addressee[w]} ELSE doubled
  /\ wire' = [v \in Wires |->
       IF v = w
         THEN [wire[w] EXCEPT !.place = Len(book) + 1, !.at = "limits", !.level = 1,
                              !.covered = HasDefault, !.seen = {InEffect(limits)}]
         ELSE [wire[v] EXCEPT !.rival = @ \/ v \in Inserting(Addressee[w])]]
  /\ UNCHANGED <<limitVars, edit, edits>>

\* Faulty variant: the broadest scope is asked first.
ReadBackwards(w) ==
  /\ wire[w].at = "limits"
  /\ LET row == Newest(limits, Precedence[5 - wire[w].level])
     IN  IF row # NoRow \/ wire[w].level = 4
           THEN wire' = [wire EXCEPT ![w] = [@ EXCEPT !.at = "confirm", !.limit = row]]
           ELSE wire' = [wire EXCEPT ![w].level = @ + 1]
  /\ UNCHANGED <<limitVars, bookVars>>

\* resolveLimit: one scope per await, up to the first that has a row.
ReadLimit(w) ==
  /\ wire[w].at = "limits"
  /\ LET row == Newest(limits, Precedence[wire[w].level])
     IN  IF row # NoRow \/ wire[w].level = 4
           THEN wire' = [wire EXCEPT ![w] = [@ EXCEPT !.at = "confirm", !.limit = row]]
           ELSE wire' = [wire EXCEPT ![w].level = @ + 1]
  /\ UNCHANGED <<limitVars, bookVars>>

\* The first call sends the code and ends; a later one verifies it and posts
\* the wire.  The amount, the balance or the code may be refused at any call.
Confirm(w) ==
  /\ wire[w].at = "confirm"
  /\ \/ wire[w].calls > 1 /\ wire' = [wire EXCEPT ![w] = [Fresh(@.calls) EXCEPT !.at = "done"]]
     \/ wire' = [wire EXCEPT ![w] = Fresh(@.calls)]
  /\ UNCHANGED <<limitVars, bookVars>>

-----------------------------------------------------------------------------
(* The Beneficiaries page.                                                 *)

\* create inserts without looking for an entry of the same recipient.
SaveBeneficiary ==
  /\ edit = NoEdit /\ edits < MaxEdits /\ Len(book) < MaxEntries
  /\ \E r \in Recipients :
       /\ book' = Append(book, [recipient |-> r, status |-> "PENDING_VERIFICATION",
                                deleted |-> FALSE])
       /\ doubled' = IF Kept(r) # {} THEN doubled \cup {r} ELSE doubled
       /\ wire' = [w \in Wires |-> [wire[w] EXCEPT !.rival = @ \/ w \in Inserting(r)]]
  /\ edits' = edits + 1
  /\ UNCHANGED <<limitVars, edit>>

\* verify and delete load a kept entry, verify refuses a blocked one ...
BeginEdit ==
  /\ edit = NoEdit /\ edits < MaxEdits
  /\ \E p \in DOMAIN book, at \in {"verify", "delete"} :
       /\ ~book[p].deleted /\ (at = "verify" => book[p].status # "BLOCKED")
       /\ edit' = [at |-> at, place |-> p]
  /\ edits' = edits + 1
  /\ UNCHANGED <<limitVars, book, doubled, wire>>

\* ... and update it by its id.
FinishEdit ==
  /\ edit # NoEdit
  /\ book' = IF edit.at = "verify" THEN [book EXCEPT ![edit.place].status = "ACTIVE"]
                                   ELSE [book EXCEPT ![edit.place].deleted = TRUE]
  /\ edit' = NoEdit
  /\ UNCHANGED <<limitVars, edits, doubled, wire>>

-----------------------------------------------------------------------------
\* A committed change of the limits, and what the reading wires can know.
StaffCommits ==
  /\ \E c \in Changes : CommitChange(c)
  /\ wire' = [w \in Wires |->
       IF wire[w].at = "limits"
         THEN [wire[w] EXCEPT !.seen = @ \cup {InEffect(limits')}, !.moves = @ + 1]
         ELSE wire[w]]
  /\ UNCHANGED bookVars

StaffBegins == (\E c \in Changes : BeginChange(c)) /\ UNCHANGED <<bookVars, wire>>

WireStep(w) ==
  \/ Call(w) \/ FindBeneficiary(w) \/ UpdateBeneficiary(w) \/ CreateBeneficiary(w)
  \/ ReadLimit(w) \/ Confirm(w)

Next ==
  \/ \E w \in Wires : WireStep(w)
  \/ SaveBeneficiary \/ BeginEdit \/ FinishEdit
  \/ StaffBegins \/ StaffCommits

Spec == Init /\ [][Next]_vars

-----------------------------------------------------------------------------
TypeOK ==
  /\ LimitsTypeOK
  /\ book \in Seq(Entry) /\ Len(book) <= MaxEntries
  /\ wire \in [Wires -> WireStates]
  /\ edit \in [at : {"idle", "verify", "delete"}, place : 0..MaxEntries]
  /\ edits \in 0..MaxEdits
  /\ doubled \subseteq Recipients

\* resolveLimit reads four scopes in four awaits while staff replace and retire
\* limits: in a currency that had a default when the reading began, it finds a
\* limit, whatever they do.  (Without a default nothing is enforced.)
NeverUnlimited ==
  \A w \in Wires : wire[w].at = "confirm" /\ wire[w].covered => wire[w].limit # NoRow

\* The limit a wire is held to was the one in effect at some moment of the
\* reading, if at most one change was committed meanwhile.  (With two the
\* reads may combine two tables into a limit that was never in effect.)
LimitWasInEffect ==
  \A w \in Wires :
    wire[w].at = "confirm" /\ wire[w].moves <= 1 =>
      wire[w].limit \in wire[w].seen

\* Wiring to one recipient again reuses the entry: a recipient is listed twice
\* only if two insertions overlapped or the customer added a listed recipient.
RecipientIsListedOnce ==
  \A r \in Recipients \ doubled : Cardinality(Kept(r)) <= 1
=============================================================================
