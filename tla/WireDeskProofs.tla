--------------------------- MODULE WireDeskProofs ---------------------------
(***************************************************************************)
(* For any number of wires, recipients, limit rows and staff requests: in  *)
(* a currency with a default a wire finds a limit, what it finds was in    *)
(* effect while it looked, and limits and recipients are not doubled       *)
(* without an overlap.                                                     *)
(***************************************************************************)
EXTENDS WireDesk, SequenceTheorems, WellFoundedInduction, FiniteSetTheorems, TLAPS

-----------------------------------------------------------------------------
(* The newest row of a scope.                                              *)

LEMMA LargestExists ==
  ASSUME NEW S \in SUBSET Nat, S # {}, NEW n \in Nat, \A x \in S : x <= n
  PROVE  \E x \in S : \A y \in S : y <= x
<1> DEFINE Below == {n - x : x \in S}
           R == {ss \in Nat \X Nat : ss[1] < ss[2]}
<1>1. Below \subseteq Nat /\ Below # {}
  <2>1. \A x \in S : x \in Nat /\ x <= n
    OBVIOUS
  <2>2. \A x \in S : n - x \in Nat
    BY <2>1
  <2> QED
    BY <2>2, Zenon
<1>2. PICK b \in Below : \A c \in Below : <<c, b>> \notin R
  <2>1. IsWellFoundedOn(R, Nat)
    BY NatLessThanWellFounded DEF OpToRel
  <2> HIDE DEF Below, R
  <2> QED
    BY <1>1, <2>1, WFMin
<1>3. ASSUME NEW c \in Below PROVE b <= c
  <2>1. b \in Nat /\ c \in Nat
    BY <1>1
  <2>2. ~ (c < b)
    BY <1>2, <2>1
  <2> QED
    BY <2>1, <2>2
<1>4. PICK x \in S : b = n - x
  OBVIOUS
<1>5. ASSUME NEW y \in S PROVE y <= x
  <2>1. b <= n - y
    BY <1>3
  <2> QED
    BY <1>4, <2>1
<1> QED
  BY <1>5

\* No row begins after the last committed change, and no two rows of a scope
\* begin with the same one.
Numbered ==
  /\ \A r \in RowIds : limits[r].from <= clock
  /\ \A r, s \in RowIds :
       limits[r].scope = limits[s].scope /\ limits[r].scope # NoRow
         /\ limits[r].from = limits[s].from => r = s

LEMMA NewestIs ==
  ASSUME LimitsTypeOK, Numbered, NEW scope \in Scopes, Active(limits, scope) # {}
  PROVE  /\ Newest(limits, scope) \in Active(limits, scope)
         /\ \A s \in Active(limits, scope) : limits[s].from <= limits[Newest(limits, scope)].from
<1> DEFINE A == Active(limits, scope)
           From == {limits[r].from : r \in A}
<1>1. From \in SUBSET Nat /\ From # {} /\ clock \in Nat /\ \A x \in From : x <= clock
  BY DEF LimitsTypeOK, Rows, Active, Numbered
<1>2. \E x \in From : \A y \in From : y <= x
  <2> HIDE DEF From
  <2> QED
    BY <1>1, LargestExists
<1>3. \E r \in A : \A s \in A : limits[s].from <= limits[r].from
  BY <1>2
<1> QED
  BY <1>3, Zenon DEF Newest

LEMMA NewestOfNone ==
  ASSUME NEW scope, Active(limits, scope) = {}
  PROVE  Newest(limits, scope) = NoRow
BY DEF Newest

-----------------------------------------------------------------------------
(* The table of limits under the staff requests.                           *)

\* A request that has not committed has inserted no row; one that replaces
\* holds rows of its scope; one that retires holds an override.
RequestsFit ==
  \A c \in Changes :
    /\ change[c] # Answered => limits[c].scope = NoRow
    /\ change[c].at = "replace" =>
         \A r \in change[c].old : limits[r].scope = change[c].scope
    /\ change[c].at = "retire" => limits[change[c].row].scope \notin {NoRow, "GLOBAL"}

TableFits == LimitsTypeOK /\ Numbered /\ RequestsFit

LEMMA ScopesAre ==
  /\ Scopes = {"ACCOUNT", "CUSTOMER", "TIER", "GLOBAL"}
  /\ Precedence[1] = "ACCOUNT" /\ Precedence[2] = "CUSTOMER"
  /\ Precedence[3] = "TIER" /\ Precedence[4] = "GLOBAL"
  /\ DOMAIN Precedence = 1..4
  /\ NoRow \notin Scopes
<1>1. DOMAIN Precedence = 1..4
  BY DEF Precedence
<1>2. 1..4 = {1, 2, 3, 4}
  OBVIOUS
<1>3. /\ Precedence[1] = "ACCOUNT" /\ Precedence[2] = "CUSTOMER"
      /\ Precedence[3] = "TIER" /\ Precedence[4] = "GLOBAL"
  BY DEF Precedence
<1>4. Scopes = {"ACCOUNT", "CUSTOMER", "TIER", "GLOBAL"}
  BY <1>1, <1>2, <1>3 DEF Scopes
<1> QED
  BY <1>1, <1>3, <1>4 DEF NoRow

LEMMA ChangeShape ==
  ASSUME NEW x \in ChangeStates
  PROVE  /\ x.at = "replace" => /\ x.scope \in Scopes /\ x.old \subseteq RowIds
                                /\ x # Answered /\ x # Unsent
         /\ x.at = "retire" => x.row \in RowIds /\ x # Answered /\ x # Unsent
         /\ Unsent # Answered /\ Unsent.at = "unsent" /\ Answered.at = "answered"
BY DEF ChangeStates, Unsent, Answered

LEMMA ReplaceTyped ==
  ASSUME NEW s \in Scopes, NEW old \in SUBSET RowIds
  PROVE  [at |-> "replace", scope |-> s, old |-> old] \in ChangeStates
BY DEF ChangeStates

LEMMA RetireTyped ==
  ASSUME NEW r \in RowIds
  PROVE  [at |-> "retire", row |-> r] \in ChangeStates
BY DEF ChangeStates

LEMMA AnsweredTyped == Answered \in ChangeStates
BY DEF ChangeStates

LEMMA TableInit == LimitsInit => TableFits
<1> SUFFICES ASSUME LimitsInit PROVE TableFits
  OBVIOUS
<1> USE SeededRowsFit, ScopesAre DEF LimitsInit
<1>0. PICK present \in SUBSET Seeded :
        limits = [r \in RowIds |->
                    IF r \in present THEN [Absent EXCEPT !.scope = SeededScope[r]] ELSE Absent]
  OBVIOUS
<1>1. LimitsTypeOK
  <2>1. \A r \in Seeded : SeededScope[r] \in Scopes
    OBVIOUS
  <2>2. limits \in [RowIds -> Rows]
    BY <1>0, <2>1 DEF Rows, Absent
  <2>3. change \in [Changes -> ChangeStates]
    BY DEF ChangeStates
  <2> QED
    BY <2>2, <2>3 DEF LimitsTypeOK
<1>2. \A r \in RowIds : /\ limits[r].from = 0 /\ limits[r].until = 0
                        /\ limits[r].scope = IF r \in present THEN SeededScope[r] ELSE NoRow
  BY <1>0 DEF Absent
<1>3. Numbered
  BY <1>2, <1>1 DEF Numbered, LimitsTypeOK
<1>4. RequestsFit
  BY <1>2 DEF RequestsFit, Unsent, Answered, RowIds
<1> QED
  BY <1>1, <1>3, <1>4 DEF TableFits

LEMMA TableBegins ==
  ASSUME TableFits, NEW c \in Changes, BeginChange(c)
  PROVE  TableFits'
<1> USE DEF TableFits
<1>0. c \in RowIds /\ limits' = limits /\ clock' = clock /\ change[c] \in ChangeStates
  BY DEF BeginChange, BeginReplace, BeginRetire, AbortChange, RowIds, LimitsTypeOK
<1>1. Numbered'
  BY <1>0 DEF Numbered
<1>2. CASE BeginReplace(c)
  <2>1. PICK s \in Scopes :
          /\ change' = [change EXCEPT ![c] =
               [at |-> "replace", scope |-> s, old |-> Active(limits, s)]]
          /\ contested' = IF \E d \in Changes : change[d].at = "replace" /\ change[d].scope = s
                            THEN contested \cup {s} ELSE contested
    BY <1>2 DEF BeginReplace
  <2>2. Active(limits, s) \in SUBSET RowIds
    BY DEF Active
  <2>3. LimitsTypeOK'
    BY <2>1, <2>2, <1>0, ReplaceTyped DEF LimitsTypeOK
  <2>4. RequestsFit'
    BY <2>1, <1>0, <1>2, ChangeShape DEF RequestsFit, LimitsTypeOK, Active, BeginReplace
  <2> QED
    BY <1>1, <2>3, <2>4
<1>3. CASE BeginRetire(c)
  <2>1. PICK r \in RowIds :
          /\ limits[r].scope \notin {NoRow, "GLOBAL"} /\ limits[r].until = 0
          /\ change' = [change EXCEPT ![c] = [at |-> "retire", row |-> r]]
    BY <1>3 DEF BeginRetire
  <2>2. LimitsTypeOK'
    BY <2>1, <1>0, <1>3, RetireTyped DEF LimitsTypeOK, BeginRetire
  <2>3. RequestsFit'
    BY <2>1, <1>0, <1>3, ChangeShape DEF RequestsFit, LimitsTypeOK, BeginRetire
  <2> QED
    BY <1>1, <2>2, <2>3
<1>4. CASE AbortChange(c)
  <2>1. LimitsTypeOK'
    BY <1>0, <1>4, AnsweredTyped DEF LimitsTypeOK, AbortChange
  <2>2. RequestsFit'
    BY <1>0, <1>4, ChangeShape DEF RequestsFit, LimitsTypeOK, AbortChange, Answered
  <2> QED
    BY <1>1, <2>1, <2>2
<1> QED
  BY <1>2, <1>3, <1>4 DEF BeginChange

LEMMA TableReplaced ==
  ASSUME TableFits, NEW c \in Changes, CommitReplace(c)
  PROVE  TableFits'
<1> USE DEF TableFits, CommitReplace
<1> DEFINE s == change[c].scope
<1>0. /\ c \in RowIds /\ change[c] \in ChangeStates /\ s \in Scopes
      /\ limits[c].scope = NoRow /\ clock \in Nat
      /\ \A r \in RowIds : limits[r] \in Rows
  BY ChangeShape DEF LimitsTypeOK, RowIds, RequestsFit
<1>1. \A r \in RowIds :
        IF r = c THEN limits'[r] = [scope |-> s, from |-> clock + 1, until |-> 0]
        ELSE IF r \in change[c].old /\ limits[r].until = 0
        THEN limits'[r] = [limits[r] EXCEPT !.until = clock + 1]
        ELSE limits'[r] = limits[r]
  OBVIOUS
<1>2. \A r \in RowIds \ {c} :
        /\ limits'[r].scope = limits[r].scope /\ limits'[r].from = limits[r].from
        /\ limits'[r].until = IF r \in change[c].old /\ limits[r].until = 0
                                THEN clock + 1 ELSE limits[r].until
  BY <1>0, <1>1 DEF Rows
<1>3. limits'[c].scope = s /\ limits'[c].from = clock + 1 /\ limits'[c].until = 0
  BY <1>0, <1>1
<1>4. LimitsTypeOK'
  <2>1. \A r \in RowIds : limits'[r] \in Rows
    BY <1>0, <1>1 DEF Rows
  <2>2. limits' \in [RowIds -> Rows]
    BY <2>1
  <2>3. change' \in [Changes -> ChangeStates] /\ clock' \in Nat /\ contested' \subseteq Scopes
    <3>1. \A d \in Changes : change'[d] \in ChangeStates
      BY AnsweredTyped DEF LimitsTypeOK
    <3> QED
      BY <1>0, <3>1 DEF LimitsTypeOK
  <2> QED
    BY <2>2, <2>3 DEF LimitsTypeOK
<1>5. Numbered'
  BY <1>0, <1>2, <1>3 DEF Numbered, Rows
<1>6. RequestsFit'
  <2>1. change'[c] = Answered /\ \A d \in Changes \ {c} : change'[d] = change[d]
    BY DEF LimitsTypeOK
  <2>2. \A d \in Changes \ {c} : d \in RowIds \ {c} /\ change[d] \in ChangeStates
    BY DEF LimitsTypeOK, RowIds
  <2>3. \A d \in Changes \ {c} : limits[d].scope = NoRow => limits'[d].scope = NoRow
    BY <1>2, <2>2
  <2>4. ASSUME NEW d \in Changes \ {c}, change[d].at = "replace", NEW r \in change[d].old
        PROVE  limits'[r].scope = change[d].scope
    <3>1. r \in RowIds /\ change[d].scope \in Scopes /\ limits[r].scope = change[d].scope
      BY <2>2, <2>4, ChangeShape DEF RequestsFit
    <3>2. r # c
      BY <3>1, <1>0, ScopesAre
    <3> QED
      BY <3>1, <3>2, <1>2
  <2>5. ASSUME NEW d \in Changes \ {c}, change[d].at = "retire"
        PROVE  limits'[change[d].row].scope \notin {NoRow, "GLOBAL"}
    <3>1. change[d].row \in RowIds /\ limits[change[d].row].scope \notin {NoRow, "GLOBAL"}
      BY <2>2, <2>5, ChangeShape DEF RequestsFit
    <3>2. change[d].row # c
      BY <3>1, <1>0
    <3> QED
      BY <3>1, <3>2, <1>2
  <2> QED
    BY <2>1, <2>3, <2>4, <2>5 DEF RequestsFit, Answered
<1> QED
  BY <1>4, <1>5, <1>6

LEMMA TableRetired ==
  ASSUME TableFits, NEW c \in Changes, FinishRetire(c)
  PROVE  TableFits'
<1> USE DEF TableFits, FinishRetire
<1> DEFINE row == change[c].row
<1>0. /\ c \in RowIds /\ change[c] \in ChangeStates /\ row \in RowIds /\ clock \in Nat
      /\ limits[row].scope \notin {NoRow, "GLOBAL"}
      /\ \A r \in RowIds : limits[r] \in Rows
  BY ChangeShape DEF LimitsTypeOK, RowIds, RequestsFit
<1>1. \A r \in RowIds :
        limits'[r] = IF r = row THEN [limits[r] EXCEPT !.until = clock + 1] ELSE limits[r]
  BY DEF LimitsTypeOK
<1>2. \A r \in RowIds :
        /\ limits'[r].scope = limits[r].scope /\ limits'[r].from = limits[r].from
        /\ r # row => limits'[r].until = limits[r].until
  BY <1>0, <1>1 DEF Rows
<1>3. LimitsTypeOK'
  <2>1. \A r \in RowIds : limits'[r] \in Rows
    BY <1>0, <1>1 DEF Rows
  <2>2. limits' \in [RowIds -> Rows]
    BY <2>1 DEF LimitsTypeOK
  <2>3. change' \in [Changes -> ChangeStates] /\ clock' \in Nat /\ contested' \subseteq Scopes
    <3>1. \A d \in Changes : change'[d] \in ChangeStates
      BY AnsweredTyped DEF LimitsTypeOK
    <3> QED
      BY <1>0, <3>1 DEF LimitsTypeOK
  <2> QED
    BY <2>2, <2>3 DEF LimitsTypeOK
<1>4. Numbered'
  BY <1>0, <1>2 DEF Numbered, Rows
<1>5. RequestsFit'
  <2>1. change'[c] = Answered /\ \A d \in Changes \ {c} : change'[d] = change[d]
    BY DEF LimitsTypeOK
  <2>2. \A d \in Changes : d \in RowIds /\ change[d] \in ChangeStates
    BY DEF LimitsTypeOK, RowIds
  <2>3. \A d \in Changes \ {c} :
          /\ change[d] # Answered => limits'[d].scope = NoRow
          /\ change[d].at = "replace" =>
               \A r \in change[d].old : limits'[r].scope = change[d].scope
          /\ change[d].at = "retire" => limits'[change[d].row].scope \notin {NoRow, "GLOBAL"}
    BY <2>2, <1>2, ChangeShape DEF RequestsFit
  <2> QED
    BY <2>1, <2>3 DEF RequestsFit, Answered
<1> QED
  BY <1>3, <1>4, <1>5

LEMMA StaffOrNot ==
  ASSUME [Next]_vars
  PROVE  \/ UNCHANGED limitVars
         \/ \E c \in Changes : BeginChange(c) \/ CommitChange(c)
BY DEF Next, vars, WireStep, Call, FindBeneficiary, UpdateBeneficiary, CreateBeneficiary,
       ReadLimit, Confirm, SaveBeneficiary, BeginEdit, FinishEdit, StaffBegins, StaffCommits,
       limitVars

LEMMA TableStep ==
  ASSUME TableFits, [Next]_vars
  PROVE  TableFits'
<1>1. CASE limitVars' = limitVars
  BY <1>1 DEF TableFits, LimitsTypeOK, Numbered, RequestsFit, Active, limitVars
<1>2. ASSUME NEW c \in Changes, BeginChange(c) \/ CommitChange(c) PROVE TableFits'
  BY <1>2, TableBegins, TableReplaced, TableRetired DEF CommitChange
<1> QED
  BY <1>1, <1>2, StaffOrNot

\* No commit leaves a currency without the default it has.
LEMMA DefaultStays ==
  ASSUME TableFits, HasDefault, NEW c \in Changes, CommitChange(c)
  PROVE  HasDefault'
<1> USE DEF TableFits
<1>0. /\ c \in RowIds /\ change[c] \in ChangeStates /\ clock \in Nat
      /\ limits \in [RowIds -> Rows]
  BY DEF LimitsTypeOK, RowIds
<1>1. PICK g \in RowIds : limits[g].scope = "GLOBAL" /\ limits[g].until = 0
  BY DEF HasDefault, Active
<1>2. CASE CommitReplace(c)
  <2>1. limits[c].scope = NoRow /\ g # c
    BY <1>0, <1>1, <1>2, ChangeShape, ScopesAre DEF RequestsFit, CommitReplace, NoRow
  <2>2. CASE change[c].scope = "GLOBAL"
    <3>1. limits'[c].scope = "GLOBAL" /\ limits'[c].until = 0
      BY <1>0, <1>2, <2>2 DEF CommitReplace
    <3> QED
      BY <1>0, <3>1 DEF HasDefault, Active
  <2>3. CASE change[c].scope # "GLOBAL"
    <3>1. g \notin change[c].old
      BY <1>1, <1>2, <2>3 DEF RequestsFit, CommitReplace
    <3>2. limits'[g] = limits[g]
      BY <1>1, <1>2, <2>1, <3>1 DEF CommitReplace
    <3> QED
      BY <1>1, <3>2 DEF HasDefault, Active
  <2> QED
    BY <2>2, <2>3
<1>3. CASE FinishRetire(c)
  <2>1. change[c].row # g
    BY <1>1, <1>3 DEF RequestsFit, FinishRetire
  <2>2. limits'[g] = limits[g]
    BY <1>0, <1>1, <1>3, <2>1 DEF FinishRetire
  <2> QED
    BY <1>1, <2>2 DEF HasDefault, Active
<1> QED
  BY <1>2, <1>3 DEF CommitChange

-----------------------------------------------------------------------------
(* The limit in effect.                                                    *)

LEMMA FirstIs ==
  ASSUME NEW S \in SUBSET (1..4), S # {}
  PROVE  \E k \in S : \A n \in S : k <= n
<1>1. 1..4 = {1, 2, 3, 4}
  OBVIOUS
<1>2. CASE 1 \in S
  BY <1>2
<1>3. CASE 1 \notin S /\ 2 \in S
  BY <1>3
<1>4. CASE 1 \notin S /\ 2 \notin S /\ 3 \in S
  BY <1>4
<1>5. CASE 1 \notin S /\ 2 \notin S /\ 3 \notin S
  <2>1. \A n \in S : n = 4
    BY <1>1, <1>5
  <2>2. 4 \in S
    BY <2>1
  <2>3. \A n \in S : 4 <= n
    BY <2>1
  <2> QED
    BY <2>2, <2>3
<1> QED
  BY <1>2, <1>3, <1>4, <1>5

\* The first scope with an active row decides.
LEMMA EffectIs ==
  ASSUME TableFits
  PROVE  /\ InEffect(limits) \in RowIds \cup {NoRow}
         /\ \A k \in 1..4 :
              Active(limits, Precedence[k]) # {}
                /\ (\A n \in 1..4 : n < k => Active(limits, Precedence[n]) = {})
              => InEffect(limits) = Newest(limits, Precedence[k])
         /\ (\A k \in 1..4 : Active(limits, Precedence[k]) = {}) => InEffect(limits) = NoRow
<1> DEFINE set == {k \in DOMAIN Precedence : Active(limits, Precedence[k]) # {}}
           first == CHOOSE k \in set : \A n \in set : k <= n
<1>1. set \in SUBSET (1..4)
  BY ScopesAre
<1>2. CASE set = {}
  <2>1. InEffect(limits) = NoRow
    BY <1>2 DEF InEffect
  <2>2. \A k \in 1..4 : Active(limits, Precedence[k]) = {}
    BY <1>2, ScopesAre
  <2> QED
    BY <2>1, <2>2
<1>3. CASE set # {}
  <2>1. \E k \in set : \A n \in set : k <= n
    <3> HIDE DEF set
    <3> QED
      BY <1>1, <1>3, FirstIs
  <2>2. first \in set /\ \A n \in set : first <= n
    <3> HIDE DEF set
    <3> QED
      BY <2>1
  <2>3. InEffect(limits) = Newest(limits, Precedence[first])
    BY <1>3 DEF InEffect
  <2>4. Precedence[first] \in Scopes /\ Active(limits, Precedence[first]) # {}
    BY <2>2 DEF Scopes
  <2>5. Newest(limits, Precedence[first]) \in RowIds
    BY <2>4, NewestIs DEF TableFits, Active
  <2>6. ASSUME NEW k \in 1..4, Active(limits, Precedence[k]) # {},
               \A n \in 1..4 : n < k => Active(limits, Precedence[n]) = {}
        PROVE  k = first
    <3>1. k \in set /\ first \in 1..4
      BY <2>2, <2>6, <1>1, ScopesAre
    <3>2. first <= k
      BY <2>2, <3>1
    <3>3. ~ (first < k)
      BY <2>2, <2>6, <3>1
    <3> HIDE DEF first, set
    <3> QED
      BY <3>1, <3>2, <3>3
  <2>7. ~ \A k \in 1..4 : Active(limits, Precedence[k]) = {}
    BY <1>1, <2>2
  <2> QED
    BY <2>3, <2>5, <2>6, <2>7
<1> QED
  BY <1>2, <1>3

EffectIsFirst ==
  \A k \in 1..4 :
    Active(limits, Precedence[k]) # {}
      /\ (\A n \in 1..4 : n < k => Active(limits, Precedence[n]) = {})
    => InEffect(limits) = Newest(limits, Precedence[k])

EffectIsNone ==
  (\A k \in 1..4 : Active(limits, Precedence[k]) = {}) => InEffect(limits) = NoRow

LEMMA EffectIsTheFirst == TableFits => EffectIsFirst /\ EffectIsNone
BY EffectIs DEF EffectIsFirst, EffectIsNone

LEMMA Distinct ==
  ASSUME NEW j \in 1..4, NEW n \in 1..4, n < j
  PROVE  Precedence[j] \in Scopes /\ Precedence[j] # Precedence[n]
<1>1. 1..4 = {1, 2, 3, 4}
  OBVIOUS
<1> QED
  BY <1>1, ScopesAre

LEMMA EffectIsRow == TableFits => InEffect(limits) \in RowIds \cup {NoRow}
BY EffectIs

-----------------------------------------------------------------------------
(* The desk.                                                               *)

DeskFits ==
  /\ book \in Seq(Entry) /\ Len(book) <= MaxEntries
  /\ wire \in [Wires -> WireStates]
  /\ edit \in [at : {"idle", "verify", "delete"}, place : 0..MaxEntries]
  /\ edits \in 0..MaxEdits
  /\ doubled \subseteq Recipients
  /\ edit # NoEdit => edit.place \in DOMAIN book
  /\ \A w \in Wires : /\ wire[w].at = "limits" => wire[w].level \in 1..4
                      /\ wire[w].at = "update" => wire[w].place \in DOMAIN book

Stays(w) == \A v \in Wires \ {w} : wire'[v] = wire[v]

LEMMA BookEdited ==
  ASSUME book \in Seq(Entry), NEW p \in DOMAIN book, NEW e \in Entry,
         book' = [book EXCEPT ![p] = e]
  PROVE  /\ book' \in Seq(Entry) /\ Len(book') = Len(book) /\ DOMAIN book' = DOMAIN book
         /\ book'[p] = e
         /\ \A q \in DOMAIN book : q # p => book'[q] = book[q]
<1>1. DOMAIN book = 1..Len(book)
  BY LenProperties
<1>2. /\ [book EXCEPT ![p] = e] \in Seq(Entry)
      /\ Len([book EXCEPT ![p] = e]) = Len(book)
  BY <1>1, ExceptSeq
<1>3. DOMAIN book' = 1..Len(book')
  BY <1>2, LenProperties
<1> QED
  BY <1>1, <1>2, <1>3

LEMMA BookGrows ==
  ASSUME book \in Seq(Entry), NEW e \in Entry, book' = Append(book, e)
  PROVE  /\ book' \in Seq(Entry) /\ Len(book') = Len(book) + 1
         /\ DOMAIN book = 1..Len(book) /\ DOMAIN book' = 1..(Len(book) + 1)
         /\ Len(book) \in Nat
         /\ book'[Len(book) + 1] = e
         /\ \A q \in DOMAIN book : book'[q] = book[q]
<1>1. DOMAIN book = 1..Len(book) /\ Len(book) \in Nat
  BY LenProperties
<1>2. Append(book, e) \in Seq(Entry) /\ Len(Append(book, e)) = Len(book) + 1
  BY AppendProperties
<1>3. DOMAIN book' = 1..Len(book')
  BY <1>2, LenProperties
<1>4. book'[Len(book) + 1] = e /\ \A q \in 1..Len(book) : book'[q] = book[q]
  BY AppendProperties
<1> QED
  BY <1>1, <1>2, <1>3, <1>4

LEMMA BookEntries ==
  ASSUME book \in Seq(Entry), NEW p \in DOMAIN book
  PROVE  book[p] \in Entry /\ p \in Nat \ {0} /\ p <= Len(book) /\ Len(book) \in Nat
<1>1. DOMAIN book = 1..Len(book) /\ Len(book) \in Nat
  BY LenProperties
<1> QED
  BY <1>1, ElementOfSeq

LEMMA DeskInit == Init => DeskFits
<1> SUFFICES ASSUME Init PROVE DeskFits
  OBVIOUS
<1>1. book \in Seq(Entry) /\ Len(book) <= MaxEntries
  <2>1. \A r \in Recipients : BlockedEntry(r) \in Entry
    BY DEF BlockedEntry, Entry
  <2>2. \A r \in Recipients :
          <<BlockedEntry(r)>> \in Seq(Entry) /\ Len(<<BlockedEntry(r)>>) = 1
    BY <2>1
  <2>3. << >> \in Seq(Entry) /\ Len(<< >>) = 0
    BY EmptySeq
  <2>4. 0 <= MaxEntries /\ 1 <= MaxEntries
    BY WiresFit
  <2>5. book = << >> \/ \E r \in Recipients : book = <<BlockedEntry(r)>>
    BY DEF Init
  <2>6. CASE book = << >>
    BY <2>3, <2>4, <2>6
  <2>7. ASSUME NEW r \in Recipients, book = <<BlockedEntry(r)>>
        PROVE  book \in Seq(Entry) /\ Len(book) <= MaxEntries
    <3>1. <<BlockedEntry(r)>> \in Seq(Entry) /\ Len(<<BlockedEntry(r)>>) = 1
      BY <2>2
    <3> HIDE DEF BlockedEntry
    <3>2. book \in Seq(Entry) /\ Len(book) = 1
      BY <2>7, <3>1
    <3> QED
      BY <2>4, <3>2
  <2> QED
    BY <2>5, <2>6, <2>7
<1>2. \A w \in Wires : wire[w] = Fresh(0)
  BY DEF Init
<1>3. Fresh(0) \in WireStates /\ Fresh(0).at = "idle"
  BY WiresFit DEF Fresh, WireStates, Stages
<1> QED
  BY <1>1, <1>2, <1>3, WiresFit DEF Init, DeskFits, NoEdit

\* A step of one wire that leaves the list of beneficiaries alone.
LEMMA OneWireMoves ==
  ASSUME DeskFits, NEW w \in Wires, NEW x \in WireStates,
         wire' = [wire EXCEPT ![w] = x], UNCHANGED bookVars,
         x.at = "limits" => x.level \in 1..4,
         x.at = "update" => x.place \in DOMAIN book
  PROVE  DeskFits' /\ wire'[w] = x /\ Stays(w)
BY DEF DeskFits, bookVars, Stays

LEMMA CallFits ==
  ASSUME DeskFits, NEW w \in Wires, Call(w) \/ Confirm(w)
  PROVE  DeskFits'
<1>1. wire[w] \in WireStates /\ wire[w].calls \in 0..MaxCalls /\ MaxCalls \in Nat
  BY WiresFit DEF DeskFits, WireStates
<1>2. \A n \in 0..MaxCalls : Fresh(n) \in WireStates /\ Fresh(n).at = "idle"
  BY WiresFit DEF Fresh, WireStates, Stages
<1>3. CASE Call(w)
  <2>1. wire[w].calls + 1 \in 0..MaxCalls
    BY <1>1, <1>3 DEF Call
  <2>2. [Fresh(wire[w].calls + 1) EXCEPT !.at = "find"] \in WireStates
    BY <2>1, <1>2 DEF WireStates, Stages
  <2> QED
    BY <1>3, <2>2, OneWireMoves DEF Call, Fresh
<1>4. CASE Confirm(w)
  <2>1. [Fresh(wire[w].calls) EXCEPT !.at = "done"] \in WireStates
    BY <1>1, <1>2 DEF WireStates, Stages
  <2>2. CASE wire' = [wire EXCEPT ![w] = [Fresh(@.calls) EXCEPT !.at = "done"]]
    BY <1>4, <2>1, <2>2, OneWireMoves DEF Confirm, Fresh
  <2>3. CASE wire' = [wire EXCEPT ![w] = Fresh(@.calls)]
    BY <1>1, <1>2, <1>4, <2>3, OneWireMoves DEF Confirm
  <2> QED
    BY <1>4, <2>2, <2>3 DEF Confirm
<1> QED
  BY <1>3, <1>4

LEMMA FindFits ==
  ASSUME DeskFits, NEW w \in Wires, FindBeneficiary(w)
  PROVE  DeskFits'
<1>1. wire[w] \in WireStates
  BY DEF DeskFits
<1>2. ASSUME NEW p \in Candidates(Addressee[w]),
             wire' = [wire EXCEPT ![w] = [@ EXCEPT !.at = "update", !.place = p]]
      PROVE  DeskFits'
  <2>1. p \in DOMAIN book /\ p \in 0..MaxEntries
    BY BookEntries, WiresFit DEF Candidates, Kept, DeskFits
  <2>2. [wire[w] EXCEPT !.at = "update", !.place = p] \in WireStates
    BY <1>1, <2>1 DEF WireStates, Stages
  <2> QED
    BY <1>1, <1>2, <2>1, <2>2, OneWireMoves DEF FindBeneficiary, WireStates
<1>3. CASE Goto(w, "create")
  <2>1. [wire[w] EXCEPT !.at = "create"] \in WireStates
    BY <1>1 DEF WireStates, Stages
  <2>2. wire' = [wire EXCEPT ![w] = [wire[w] EXCEPT !.at = "create"]]
    BY <1>3 DEF Goto
  <2> QED
    BY <1>1, <2>1, <2>2, OneWireMoves DEF FindBeneficiary, WireStates
<1>4. CASE wire' = [wire EXCEPT ![w] = Fresh(@.calls)]
  <2>1. Fresh(wire[w].calls) \in WireStates /\ Fresh(wire[w].calls).at = "idle"
    BY <1>1, WiresFit DEF Fresh, WireStates, Stages
  <2> QED
    BY <1>4, <2>1, OneWireMoves DEF FindBeneficiary
<1> QED
  BY <1>2, <1>3, <1>4 DEF FindBeneficiary

LEMMA ReadingTyped ==
  ASSUME NEW x \in WireStates, NEW b \in BOOLEAN, NEW set \in SUBSET (RowIds \cup {NoRow})
  PROVE  LET y == [x EXCEPT !.at = "limits", !.level = 1, !.covered = b, !.seen = set]
         IN  y \in WireStates /\ y.at = "limits" /\ y.level = 1
<1> DEFINE y == [x EXCEPT !.at = "limits", !.level = 1, !.covered = b, !.seen = set]
<1>1. y.at = "limits" /\ y.level = 1
  BY DEF WireStates
<1>2. [x EXCEPT !.at = "limits"] \in WireStates
  BY DEF WireStates, Stages
<1>3. \A z \in WireStates : [z EXCEPT !.level = 1] \in WireStates
  BY DEF WireStates
<1>4. \A z \in WireStates : [z EXCEPT !.covered = b] \in WireStates
  BY DEF WireStates
<1>5. \A z \in WireStates : [z EXCEPT !.seen = set] \in WireStates
  BY DEF WireStates
<1>6. [[[[x EXCEPT !.at = "limits"] EXCEPT !.level = 1] EXCEPT !.covered = b]
         EXCEPT !.seen = set] \in WireStates
  BY <1>2, <1>3, <1>4, <1>5, Zenon
<1>7. y = [[[[x EXCEPT !.at = "limits"] EXCEPT !.level = 1] EXCEPT !.covered = b]
             EXCEPT !.seen = set]
  OBVIOUS
<1> QED
  BY <1>1, <1>6, <1>7

LEMMA UpdateFits ==
  ASSUME TableFits, DeskFits, NEW w \in Wires, UpdateBeneficiary(w)
  PROVE  DeskFits' /\ \A r : Kept(r)' = Kept(r)
<1> DEFINE p == wire[w].place
           x == [wire[w] EXCEPT !.at = "limits", !.level = 1, !.covered = HasDefault,
                                !.seen = {InEffect(limits)}]
<1>1. wire[w] \in WireStates /\ p \in DOMAIN book
  BY DEF DeskFits, UpdateBeneficiary
<1>2. x \in WireStates /\ x.at = "limits" /\ x.level = 1
  <2>1. {InEffect(limits)} \in SUBSET (RowIds \cup {NoRow})
    BY EffectIs
  <2>2. HasDefault \in BOOLEAN
    BY DEF HasDefault
  <2> QED
    BY <1>1, <2>1, <2>2, ReadingTyped
<1>3. [book[p] EXCEPT !.status = "ACTIVE"] \in Entry
  BY <1>1, BookEntries DEF DeskFits, Entry
<1>4. book' = [book EXCEPT ![p] = [book[p] EXCEPT !.status = "ACTIVE"]]
  BY DEF UpdateBeneficiary
<1>5. /\ book' \in Seq(Entry) /\ Len(book') = Len(book) /\ DOMAIN book' = DOMAIN book
      /\ book'[p] = [book[p] EXCEPT !.status = "ACTIVE"]
      /\ \A q \in DOMAIN book : q # p => book'[q] = book[q]
  BY <1>1, <1>3, <1>4, BookEdited DEF DeskFits
<1>6. wire' = [wire EXCEPT ![w] = x]
  BY DEF UpdateBeneficiary
<1>7. \A q \in DOMAIN book : /\ book'[q].recipient = book[q].recipient
                             /\ book'[q].deleted = book[q].deleted
  BY <1>1, <1>5, BookEntries DEF DeskFits, Entry
<1>8. DeskFits'
  <2> HIDE DEF x
  <2> QED
    BY <1>2, <1>5, <1>6 DEF DeskFits, UpdateBeneficiary
<1> QED
  BY <1>5, <1>7, <1>8 DEF Kept

\* A wire learns of a rival; nothing else about it changes.
LEMMA RivalTyped ==
  ASSUME NEW x \in WireStates, NEW b \in BOOLEAN
  PROVE  LET y == [x EXCEPT !.rival = b]
         IN  /\ y \in WireStates /\ y.at = x.at /\ y.place = x.place /\ y.level = x.level
             /\ y.limit = x.limit /\ y.covered = x.covered
             /\ y.seen = x.seen /\ y.moves = x.moves /\ y.rival = b
BY DEF WireStates

\* An inserted entry: the list grows by it, and every wire about to insert the
\* same recipient has a rival.
LEMMA EntryAdded ==
  ASSUME DeskFits, NEW e \in Entry, Len(book) < MaxEntries, book' = Append(book, e)
  PROVE  /\ book' \in Seq(Entry) /\ Len(book') <= MaxEntries
         /\ DOMAIN book \subseteq DOMAIN book'
         /\ Len(book) + 1 \in DOMAIN book' /\ Len(book) + 1 \in 0..MaxEntries
         /\ Kept(e.recipient)' = Kept(e.recipient)
              \cup (IF e.deleted THEN {} ELSE {Len(book) + 1})
         /\ \A r : r # e.recipient => Kept(r)' = Kept(r)
<1>1. /\ book' \in Seq(Entry) /\ Len(book') = Len(book) + 1
      /\ DOMAIN book = 1..Len(book) /\ DOMAIN book' = 1..(Len(book) + 1)
      /\ Len(book) \in Nat
      /\ book'[Len(book) + 1] = e
      /\ \A q \in DOMAIN book : book'[q] = book[q]
  BY BookGrows DEF DeskFits
<1>2. DOMAIN book' = DOMAIN book \cup {Len(book) + 1}
  BY <1>1
<1>3. MaxEntries \in Nat
  BY WiresFit
<1>4. \A r : Kept(r)' = {q \in DOMAIN book' : book'[q].recipient = r /\ ~book'[q].deleted}
  BY DEF Kept
<1>5. Kept(e.recipient)' = Kept(e.recipient) \cup (IF e.deleted THEN {} ELSE {Len(book) + 1})
  BY <1>1, <1>2, <1>4 DEF Kept
<1>6. \A r : r # e.recipient => Kept(r)' = Kept(r)
  BY <1>1, <1>2, <1>4 DEF Kept
<1> QED
  BY <1>1, <1>2, <1>3, <1>5, <1>6

LEMMA CreateFits ==
  ASSUME TableFits, DeskFits, NEW w \in Wires, CreateBeneficiary(w)
  PROVE  DeskFits'
<1> DEFINE e == [recipient |-> Addressee[w], status |-> "ACTIVE", deleted |-> FALSE]
           n == Len(book) + 1
           x == [wire[w] EXCEPT !.place = n, !.at = "limits", !.level = 1,
                                !.covered = HasDefault, !.seen = {InEffect(limits)}]
           y(v) == [wire[v] EXCEPT !.rival = @ \/ v \in Inserting(Addressee[w])]
<1>1. e \in Entry /\ Addressee[w] \in Recipients
  BY WiresFit DEF Entry
<1>2. /\ book' \in Seq(Entry) /\ Len(book') <= MaxEntries
      /\ DOMAIN book \subseteq DOMAIN book'
      /\ n \in DOMAIN book' /\ n \in 0..MaxEntries
  BY <1>1, EntryAdded DEF CreateBeneficiary
<1>3. \A v \in Wires : wire[v] \in WireStates
  BY DEF DeskFits
<1>4. x \in WireStates /\ x.at = "limits" /\ x.level = 1
  <2>1. [wire[w] EXCEPT !.place = n] \in WireStates
    BY <1>2, <1>3 DEF WireStates
  <2>2. {InEffect(limits)} \in SUBSET (RowIds \cup {NoRow})
    BY EffectIs
  <2>3. x = [[wire[w] EXCEPT !.place = n] EXCEPT !.at = "limits", !.level = 1,
                                                 !.covered = HasDefault,
                                                 !.seen = {InEffect(limits)}]
    OBVIOUS
  <2>4. HasDefault \in BOOLEAN
    BY DEF HasDefault
  <2> QED
    BY <2>1, <2>2, <2>3, <2>4, ReadingTyped
<1>5. ASSUME NEW v \in Wires
      PROVE  /\ y(v) \in WireStates /\ y(v).at = wire[v].at
             /\ y(v).place = wire[v].place /\ y(v).level = wire[v].level
             /\ y(v).limit = wire[v].limit
  <2>1. (wire[v].rival \/ v \in Inserting(Addressee[w])) \in BOOLEAN
    OBVIOUS
  <2> QED
    BY <1>3, <2>1, RivalTyped
<1>6. wire' = [v \in Wires |-> IF v = w THEN x ELSE y(v)]
  BY DEF CreateBeneficiary
<1>7. doubled' \subseteq Recipients
  BY <1>1 DEF CreateBeneficiary, DeskFits
<1>8. wire' \in [Wires -> WireStates]
  <2> HIDE DEF x, y
  <2> QED
    BY <1>4, <1>5, <1>6
<1>9. \A v \in Wires : /\ wire'[v].at = "limits" => wire'[v].level \in 1..4
                       /\ wire'[v].at = "update" => wire'[v].place \in DOMAIN book'
  <2> HIDE DEF x, y
  <2>1. wire'[w].at = "limits" /\ wire'[w].level = 1
    BY <1>4, <1>6
  <2>2. \A v \in Wires \ {w} : wire'[v] = y(v)
    BY <1>6
  <2> QED
    BY <2>1, <2>2, <1>2, <1>5 DEF DeskFits
<1>10. UNCHANGED <<edit, edits>>
  BY DEF CreateBeneficiary
<1> QED
  BY <1>2, <1>7, <1>8, <1>9, <1>10 DEF DeskFits

LEMMA SaveFits ==
  ASSUME DeskFits, SaveBeneficiary
  PROVE  DeskFits'
<1>1. PICK r \in Recipients :
        /\ book' = Append(book, [recipient |-> r, status |-> "PENDING_VERIFICATION",
                                 deleted |-> FALSE])
        /\ doubled' = IF Kept(r) # {} THEN doubled \cup {r} ELSE doubled
        /\ wire' = [w \in Wires |-> [wire[w] EXCEPT !.rival = @ \/ w \in Inserting(r)]]
  BY DEF SaveBeneficiary
<1> DEFINE y(v) == [wire[v] EXCEPT !.rival = @ \/ v \in Inserting(r)]
<1>2. [recipient |-> r, status |-> "PENDING_VERIFICATION", deleted |-> FALSE] \in Entry
  BY DEF Entry
<1>3. /\ book' \in Seq(Entry) /\ Len(book') <= MaxEntries /\ DOMAIN book \subseteq DOMAIN book'
  BY <1>1, <1>2, EntryAdded DEF SaveBeneficiary
<1>4. ASSUME NEW v \in Wires
      PROVE  /\ y(v) \in WireStates /\ y(v).at = wire[v].at
             /\ y(v).place = wire[v].place /\ y(v).level = wire[v].level
             /\ y(v).limit = wire[v].limit
  <2>1. (wire[v].rival \/ v \in Inserting(r)) \in BOOLEAN
    OBVIOUS
  <2>2. wire[v] \in WireStates
    BY DEF DeskFits
  <2> QED
    BY <2>1, <2>2, RivalTyped
<1>5. wire' = [v \in Wires |-> y(v)]
  BY <1>1
<1>6. wire' \in [Wires -> WireStates]
  <2> HIDE DEF y
  <2> QED
    BY <1>4, <1>5
<1>7. \A v \in Wires : /\ wire'[v].at = "limits" => wire'[v].level \in 1..4
                       /\ wire'[v].at = "update" => wire'[v].place \in DOMAIN book'
  <2> HIDE DEF y
  <2> QED
    BY <1>3, <1>4, <1>5 DEF DeskFits
<1>8. edits' \in 0..MaxEdits /\ edit' = edit /\ edit = NoEdit /\ doubled' \subseteq Recipients
  BY <1>1, WiresFit DEF SaveBeneficiary, DeskFits
<1> QED
  BY <1>3, <1>6, <1>7, <1>8 DEF DeskFits

LEMMA ReadFits ==
  ASSUME TableFits, DeskFits, NEW w \in Wires, ReadLimit(w)
  PROVE  DeskFits'
<1> DEFINE k == wire[w].level
           row == Newest(limits, Precedence[k])
<1>1. wire[w] \in WireStates /\ k \in 1..4
  BY DEF DeskFits, ReadLimit
<1>2. Precedence[k] \in Scopes
  BY <1>1, ScopesAre DEF Scopes
<1>3. row = NoRow \/ row \in RowIds
  BY <1>2, NewestIs, NewestOfNone DEF TableFits, Active
<1>5. CASE row # NoRow \/ k = 4
  <2>1. wire' = [wire EXCEPT ![w] = [wire[w] EXCEPT !.at = "confirm", !.limit = row]]
    BY <1>5 DEF ReadLimit
  <2> HIDE DEF row
  <2>2. /\ [wire[w] EXCEPT !.at = "confirm", !.limit = row] \in WireStates
        /\ [wire[w] EXCEPT !.at = "confirm", !.limit = row].at = "confirm"
    BY <1>1, <1>3 DEF WireStates, Stages
  <2> QED
    BY <2>1, <2>2, OneWireMoves DEF ReadLimit
<1>6. CASE row = NoRow /\ k # 4
  <2>1. wire' = [wire EXCEPT ![w] = [wire[w] EXCEPT !.level = k + 1]]
    BY <1>6 DEF ReadLimit
  <2>2. k + 1 \in 1..4
    BY <1>1, <1>6
  <2>3. /\ [wire[w] EXCEPT !.level = k + 1] \in WireStates
        /\ [wire[w] EXCEPT !.level = k + 1].at = "limits"
        /\ [wire[w] EXCEPT !.level = k + 1].level = k + 1
    BY <1>1, <2>2 DEF WireStates, ReadLimit
  <2> QED
    BY <2>1, <2>2, <2>3, OneWireMoves DEF ReadLimit
<1> QED
  BY <1>5, <1>6

LEMMA EditFits ==
  ASSUME DeskFits, BeginEdit \/ FinishEdit
  PROVE  DeskFits' /\ \A r : Kept(r)' \subseteq Kept(r)
<1>1. CASE BeginEdit
  <2>1. PICK p \in DOMAIN book, at \in {"verify", "delete"} :
          edit' = [at |-> at, place |-> p]
    BY <1>1 DEF BeginEdit
  <2>2. p \in 0..MaxEntries
    BY BookEntries, WiresFit DEF DeskFits
  <2>3. edits' \in 0..MaxEdits
    BY <1>1, WiresFit DEF BeginEdit, DeskFits
  <2>4. edit' \in [at : {"idle", "verify", "delete"}, place : 0..MaxEntries]
        /\ edit'.place = p
    BY <2>1, <2>2
  <2>5. UNCHANGED <<book, doubled, wire>>
    BY <1>1 DEF BeginEdit
  <2> QED
    BY <2>3, <2>4, <2>5 DEF DeskFits, Kept
<1>2. CASE FinishEdit
  <2> DEFINE p == edit.place
             e == IF edit.at = "verify" THEN [book[p] EXCEPT !.status = "ACTIVE"]
                                        ELSE [book[p] EXCEPT !.deleted = TRUE]
  <2>1. p \in DOMAIN book /\ book[p] \in Entry
    BY <1>2, BookEntries DEF DeskFits, FinishEdit
  <2>2. e \in Entry /\ e.recipient = book[p].recipient /\ (book[p].deleted => e.deleted)
    BY <2>1 DEF Entry
  <2>3. book' = [book EXCEPT ![p] = e]
    BY <1>2 DEF FinishEdit
  <2>4. /\ book' \in Seq(Entry) /\ Len(book') = Len(book) /\ DOMAIN book' = DOMAIN book
        /\ book'[p] = e /\ \A q \in DOMAIN book : q # p => book'[q] = book[q]
    <3> HIDE DEF e
    <3> QED
      BY <2>1, <2>2, <2>3, BookEdited DEF DeskFits
  <2>5. edit' = NoEdit /\ UNCHANGED <<edits, doubled, wire>>
    BY <1>2 DEF FinishEdit
  <2>6. edit' \in [at : {"idle", "verify", "delete"}, place : 0..MaxEntries]
    BY <2>5, WiresFit DEF NoEdit
  <2>7. \A r : Kept(r)' \subseteq Kept(r)
    <3> HIDE DEF e
    <3>1. \A r : Kept(r)' = {q \in DOMAIN book : book'[q].recipient = r /\ ~book'[q].deleted}
      BY <2>4 DEF Kept
    <3>2. \A q \in DOMAIN book : /\ book'[q].recipient = book[q].recipient
                                 /\ book[q].deleted => book'[q].deleted
      BY <2>2, <2>4
    <3> QED
      BY <3>1, <3>2 DEF Kept
  <2>8. DeskFits'
    <3> HIDE DEF e
    <3> QED
      BY <2>4, <2>5, <2>6 DEF DeskFits
  <2> QED
    BY <2>7, <2>8
<1> QED
  BY <1>1, <1>2

\* A wire that is reading takes note of a change.
LEMMA SeenTyped ==
  ASSUME NEW x \in WireStates, NEW row \in RowIds \cup {NoRow}
  PROVE  LET y == [x EXCEPT !.seen = @ \cup {row}, !.moves = @ + 1]
         IN  /\ y \in WireStates /\ y.at = x.at /\ y.place = x.place /\ y.level = x.level
             /\ y.limit = x.limit /\ y.covered = x.covered
      /\ y.seen = x.seen \cup {row} /\ y.moves = x.moves + 1
<1> DEFINE y == [x EXCEPT !.seen = @ \cup {row}, !.moves = @ + 1]
<1>1. /\ y.at = x.at /\ y.place = x.place /\ y.level = x.level
      /\ y.limit = x.limit /\ y.covered = x.covered
      /\ y.seen = x.seen \cup {row} /\ y.moves = x.moves + 1
  BY DEF WireStates
<1>2. [x EXCEPT !.seen = @ \cup {row}] \in WireStates
  BY DEF WireStates
<1>3. \A z \in WireStates : [z EXCEPT !.moves = x.moves + 1] \in WireStates
  BY DEF WireStates
<1>4. y = [[x EXCEPT !.seen = @ \cup {row}] EXCEPT !.moves = x.moves + 1]
  OBVIOUS
<1>5. y \in WireStates
  <2> HIDE DEF y
  <2> QED
    BY <1>2, <1>3, <1>4, Zenon
<1> QED
  BY <1>1, <1>5

LEMMA StaffFits ==
  ASSUME TableFits, TableFits', DeskFits, StaffCommits \/ StaffBegins
  PROVE  DeskFits'
<1>1. CASE StaffBegins
  BY <1>1 DEF StaffBegins, bookVars, DeskFits
<1>2. CASE StaffCommits
  <2> DEFINE x(w) == IF wire[w].at = "limits"
                       THEN [wire[w] EXCEPT !.seen = @ \cup {InEffect(limits')},
                                            !.moves = @ + 1]
                       ELSE wire[w]
  <2>1. wire' = [w \in Wires |-> x(w)] /\ UNCHANGED bookVars
    BY <1>2 DEF StaffCommits
  <2>2. InEffect(limits') \in RowIds \cup {NoRow}
    <3>1. (InEffect(limits) \in RowIds \cup {NoRow})'
      BY EffectIsRow, PTL
    <3> QED
      BY <3>1
  <2>3. \A w \in Wires : wire[w] \in WireStates
    BY DEF DeskFits
  <2>4. \A w \in Wires : /\ x(w) \in WireStates /\ x(w).at = wire[w].at
                         /\ x(w).place = wire[w].place /\ x(w).level = wire[w].level
                         /\ x(w).limit = wire[w].limit
    BY <2>2, <2>3, SeenTyped
  <2> HIDE DEF x
  <2> QED
    BY <2>1, <2>4 DEF DeskFits, bookVars
<1> QED
  BY <1>1, <1>2

LEMMA DeskStep ==
  ASSUME TableFits, TableFits', DeskFits, [Next]_vars
  PROVE  DeskFits'
<1>1. CASE UNCHANGED vars
  BY <1>1 DEF DeskFits, vars, bookVars
<1>2. ASSUME NEW w \in Wires, WireStep(w) PROVE DeskFits'
  BY <1>2, CallFits, FindFits, UpdateFits, CreateFits, ReadFits DEF WireStep
<1> QED
  BY <1>1, <1>2, SaveFits, EditFits, StaffFits DEF Next

THEOREM DeskInv == Spec => [](TableFits /\ DeskFits)
<1>1. Init => TableFits /\ DeskFits
  BY TableInit, DeskInit DEF Init
<1>2. TableFits /\ DeskFits /\ [Next]_vars => TableFits' /\ DeskFits'
  BY TableStep, DeskStep
<1> QED
  BY <1>1, <1>2, PTL DEF Spec

\* Every variable keeps the shape of the rows it models.
THEOREM DeskTypeCorrect == Spec => []TypeOK
<1>1. TableFits /\ DeskFits => TypeOK
  BY DEF TableFits, DeskFits, TypeOK
<1> QED
  BY <1>1, DeskInv, PTL

-----------------------------------------------------------------------------
(* One active limit per scope.                                             *)

\* Until two requests for a scope overlap, it has at most one active row, at
\* most one request that replaces it, and that request holds the row.
ScopeFits(s) ==
  /\ \A r, q \in Active(limits, s) : r = q
  /\ \A c, d \in Changes :
       /\ change[c].at = "replace" /\ change[c].scope = s
       /\ change[d].at = "replace" /\ change[d].scope = s
       => c = d
  /\ \A c \in Changes :
       change[c].at = "replace" /\ change[c].scope = s => Active(limits, s) \subseteq change[c].old

ScopesFit == \A s \in Scopes \ contested : ScopeFits(s)

LEMMA ScopesInit == Init => ScopesFit
<1> SUFFICES ASSUME Init, NEW s \in Scopes PROVE ScopeFits(s)
  BY DEF ScopesFit
<1>0. PICK present \in SUBSET Seeded :
        limits = [r \in RowIds |->
                    IF r \in present THEN [Absent EXCEPT !.scope = SeededScope[r]] ELSE Absent]
  BY DEF Init, LimitsInit
<1>1. \A r \in RowIds : limits[r].scope = IF r \in present THEN SeededScope[r] ELSE NoRow
  BY <1>0 DEF Absent
<1>2. Active(limits, s) \subseteq {r \in Seeded : SeededScope[r] = s}
  BY <1>1, ScopesAre DEF Active
<1>3. \A r, q \in Active(limits, s) : r = q
  BY <1>2, SeededRowsFit
<1>4. \A c \in Changes : change[c].at = "unsent"
  BY DEF Init, LimitsInit, Unsent
<1> QED
  BY <1>3, <1>4 DEF ScopeFits

LEMMA ScopesBegin ==
  ASSUME TableFits, ScopesFit, NEW c \in Changes, BeginChange(c)
  PROVE  ScopesFit'
<1>0. /\ limits' = limits /\ change \in [Changes -> ChangeStates]
      /\ \A s : Active(limits, s)' = Active(limits, s)
  BY DEF BeginChange, BeginReplace, BeginRetire, AbortChange, TableFits, LimitsTypeOK, Active
<1>1. ASSUME BeginReplace(c), NEW s \in Scopes \ contested' PROVE ScopeFits(s)'
  <2>1. PICK t \in Scopes :
          /\ change' = [change EXCEPT ![c] =
               [at |-> "replace", scope |-> t, old |-> Active(limits, t)]]
          /\ contested' = IF \E d \in Changes : change[d].at = "replace" /\ change[d].scope = t
                            THEN contested \cup {t} ELSE contested
    BY <1>1 DEF BeginReplace
  <2>2. s \notin contested /\ ScopeFits(s)
    BY <1>1, <2>1 DEF ScopesFit
  <2>3. \A d \in Changes : d # c => change'[d] = change[d]
    BY <1>0, <2>1
  <2>4. /\ change'[c].at = "replace" /\ change'[c].scope = t
        /\ change'[c].old = Active(limits, t)
    BY <1>0, <2>1
  <2>5. CASE s # t
    BY <1>0, <2>2, <2>3, <2>4, <2>5 DEF ScopeFits
  <2>6. CASE s = t
    <3>1. \A d \in Changes : ~ (change[d].at = "replace" /\ change[d].scope = s)
      BY <1>1, <2>1, <2>6
    <3> QED
      BY <1>0, <2>2, <2>3, <2>4, <2>6, <3>1 DEF ScopeFits
  <2> QED
    BY <2>5, <2>6
<1>2. ASSUME BeginRetire(c) \/ AbortChange(c), NEW s \in Scopes \ contested'
      PROVE  ScopeFits(s)'
  <2>1. s \notin contested /\ ScopeFits(s)
    BY <1>2 DEF ScopesFit, BeginRetire, AbortChange
  <2>2. \A d \in Changes : d # c => change'[d] = change[d]
    BY <1>0, <1>2 DEF BeginRetire, AbortChange
  <2>3. change'[c].at # "replace"
    BY <1>0, <1>2 DEF BeginRetire, AbortChange, Answered
  <2> QED
    BY <1>0, <2>1, <2>2, <2>3 DEF ScopeFits
<1> QED
  BY <1>1, <1>2 DEF ScopesFit, BeginChange

LEMMA ScopesCommit ==
  ASSUME TableFits, ScopesFit, NEW c \in Changes, CommitChange(c)
  PROVE  ScopesFit'
<1>0. /\ change \in [Changes -> ChangeStates] /\ limits \in [RowIds -> Rows]
      /\ clock \in Nat /\ c \in RowIds /\ change[c] \in ChangeStates
  BY DEF TableFits, LimitsTypeOK, RowIds
<1>1. /\ contested' = contested /\ change'[c].at # "replace"
      /\ \A d \in Changes : d # c => change'[d] = change[d]
  BY <1>0 DEF CommitChange, CommitReplace, FinishRetire, Answered
<1> SUFFICES ASSUME NEW s \in Scopes \ contested PROVE ScopeFits(s)'
  BY <1>1 DEF ScopesFit
<1>2. ScopeFits(s)
  BY DEF ScopesFit
<1>3. CASE Active(limits', s) \subseteq Active(limits, s)
  <2>1. Active(limits, s)' \subseteq Active(limits, s)
    BY <1>3 DEF Active
  <2> QED
    BY <1>1, <1>2, <2>1 DEF ScopeFits
<1>4. CASE CommitReplace(c) /\ change[c].scope = s
  <2>1. Active(limits, s) \subseteq change[c].old
    BY <1>2, <1>4 DEF ScopeFits, CommitReplace
  <2>2. \A r \in RowIds \ {c} : limits'[r].scope = s => limits'[r].until # 0
    BY <1>0, <1>4, <2>1 DEF CommitReplace, Rows, Active
  <2>3. Active(limits, s)' \subseteq {c}
    BY <2>2 DEF Active
  <2>4. \A d \in Changes : ~ (change'[d].at = "replace" /\ change'[d].scope = s)
    BY <1>1, <1>2, <1>4 DEF ScopeFits, CommitReplace
  <2> QED
    BY <2>3, <2>4 DEF ScopeFits
<1>5. CASE CommitReplace(c) /\ change[c].scope # s
  <2>1. \A r \in RowIds : /\ limits'[r].scope = s => r # c
                          /\ r # c => /\ limits'[r].scope = limits[r].scope
                                      /\ limits'[r].until = 0 => limits[r].until = 0
    BY <1>0, <1>5 DEF CommitReplace, Rows
  <2> QED
    BY <1>3, <2>1 DEF Active
<1>6. CASE FinishRetire(c)
  <2>1. \A r \in RowIds : /\ limits'[r].scope = limits[r].scope
                          /\ limits'[r].until = 0 => limits[r].until = 0
    BY <1>0, <1>6 DEF FinishRetire, Rows
  <2> QED
    BY <1>3, <2>1 DEF Active
<1> QED
  BY <1>4, <1>5, <1>6 DEF CommitChange

\* Replacing a limit leaves its scope with the new one alone, unless two
\* requests for that scope overlapped.
THEOREM DeskOneLimitPerScope == Spec => []OneLimitPerScope
<1>1. Init => ScopesFit
  BY ScopesInit
<1>2. TableFits /\ ScopesFit /\ [Next]_vars => ScopesFit'
  <2> SUFFICES ASSUME TableFits, ScopesFit, [Next]_vars PROVE ScopesFit'
    OBVIOUS
  <2>1. CASE UNCHANGED limitVars
    BY <2>1 DEF ScopesFit, ScopeFits, limitVars, Active
  <2> QED
    BY <2>1, StaffOrNot, ScopesBegin, ScopesCommit
<1>3. ScopesFit => OneLimitPerScope
  <2> SUFFICES ASSUME ScopesFit, NEW s \in Scopes \ contested
               PROVE  Cardinality(Active(limits, s)) <= 1
    BY DEF OneLimitPerScope
  <2>1. \A r, q \in Active(limits, s) : r = q
    BY DEF ScopesFit, ScopeFits
  <2> HIDE DEF Active
  <2>2. CASE Active(limits, s) = {}
    BY <2>2, FS_EmptySet
  <2>3. CASE Active(limits, s) # {}
    <3>1. \E r : Active(limits, s) = {r}
      BY <2>1, <2>3
    <3> QED
      BY <3>1, FS_Singleton
  <2> QED
    BY <2>2, <2>3
<1> QED
  BY <1>1, <1>2, <1>3, DeskInv, PTL DEF Spec

-----------------------------------------------------------------------------
(* One entry per recipient.                                                *)

\* Until two insertions of a recipient overlap, at most one kept entry is its,
\* and a wire about to insert it without a rival finds none.
ListedOnce(r) ==
  /\ \A p, q \in Kept(r) : p = q
  /\ \A w \in Inserting(r) : ~wire[w].rival => Kept(r) = {}

ListFits == \A r \in Recipients \ doubled : ListedOnce(r)

LEMMA ListInit == Init => ListFits
<1> SUFFICES ASSUME Init, NEW r \in Recipients PROVE ListedOnce(r)
  BY DEF ListFits
<1>1. DOMAIN book \subseteq {1}
  BY DEF Init
<1>2. \A w \in Wires : wire[w].at = "idle"
  BY DEF Init, Fresh
<1> QED
  BY <1>1, <1>2 DEF ListedOnce, Kept, Inserting

LEMMA ListCreate ==
  ASSUME TableFits, DeskFits, ListFits, NEW w \in Wires, CreateBeneficiary(w)
  PROVE  ListFits'
<1> DEFINE e == [recipient |-> Addressee[w], status |-> "ACTIVE", deleted |-> FALSE]
           a == Addressee[w]
<1>1. e \in Entry /\ a \in Recipients /\ e.recipient = a /\ e.deleted = FALSE
  BY WiresFit DEF Entry
<1>2. /\ Kept(a)' = Kept(a) \cup {Len(book) + 1}
      /\ \A r : r # a => Kept(r)' = Kept(r)
  BY <1>1, EntryAdded DEF CreateBeneficiary
<1>3. \A v \in Wires : wire[v] \in WireStates
  BY DEF DeskFits
<1>4. wire'[w].at = "limits"
  BY <1>3 DEF CreateBeneficiary, WireStates
<1>5. \A v \in Wires \ {w} : wire'[v] = [wire[v] EXCEPT !.rival = @ \/ v \in Inserting(a)]
  BY DEF CreateBeneficiary
<1>6. \A v \in Wires \ {w} :
        /\ wire'[v].at = wire[v].at
        /\ ~wire'[v].rival => ~wire[v].rival /\ v \notin Inserting(a)
  BY <1>3, <1>5 DEF WireStates
<1>7. \A r : Inserting(r)' \subseteq Inserting(r) \ {w}
  BY <1>4, <1>6 DEF Inserting
<1>8. doubled \subseteq doubled' /\ (wire[w].rival => a \in doubled')
  BY DEF CreateBeneficiary
<1>9. ASSUME NEW r \in Recipients \ doubled' PROVE ListedOnce(r)'
  <2>1. ListedOnce(r)
    BY <1>8, <1>9 DEF ListFits
  <2>2. CASE r # a
    BY <2>1, <2>2, <1>2, <1>6, <1>7 DEF ListedOnce, Inserting
  <2>3. CASE r = a
    <3>1. ~wire[w].rival /\ w \in Inserting(r)
      BY <1>8, <1>9, <2>3 DEF CreateBeneficiary, Inserting
    <3>2. Kept(r) = {}
      BY <2>1, <3>1 DEF ListedOnce
    <3>3. Kept(r)' = {Len(book) + 1}
      BY <1>2, <2>3, <3>2
    <3>4. \A v \in Inserting(r)' : wire'[v].rival
      BY <1>6, <1>7, <2>3 DEF Inserting
    <3> QED
      BY <3>3, <3>4 DEF ListedOnce
  <2> QED
    BY <2>2, <2>3
<1> QED
  BY <1>9 DEF ListFits

LEMMA ListSave ==
  ASSUME DeskFits, ListFits, SaveBeneficiary
  PROVE  ListFits'
<1>1. PICK a \in Recipients :
        /\ book' = Append(book, [recipient |-> a, status |-> "PENDING_VERIFICATION",
                                 deleted |-> FALSE])
        /\ doubled' = IF Kept(a) # {} THEN doubled \cup {a} ELSE doubled
        /\ wire' = [w \in Wires |-> [wire[w] EXCEPT !.rival = @ \/ w \in Inserting(a)]]
  BY DEF SaveBeneficiary
<1> DEFINE e == [recipient |-> a, status |-> "PENDING_VERIFICATION", deleted |-> FALSE]
<1>2. e \in Entry /\ e.recipient = a /\ e.deleted = FALSE
  BY DEF Entry
<1>3. /\ Kept(a)' = Kept(a) \cup {Len(book) + 1}
      /\ \A r : r # a => Kept(r)' = Kept(r)
  BY <1>1, <1>2, EntryAdded DEF SaveBeneficiary
<1>4. \A v \in Wires : wire[v] \in WireStates
  BY DEF DeskFits
<1>5. \A v \in Wires : /\ wire'[v].at = wire[v].at
                       /\ ~wire'[v].rival => ~wire[v].rival /\ v \notin Inserting(a)
  BY <1>1, <1>4 DEF WireStates
<1>6. \A r : Inserting(r)' \subseteq Inserting(r)
  BY <1>5 DEF Inserting
<1>7. ASSUME NEW r \in Recipients \ doubled' PROVE ListedOnce(r)'
  <2>1. ListedOnce(r)
    BY <1>1, <1>7 DEF ListFits
  <2>2. CASE r # a
    BY <2>1, <2>2, <1>3, <1>5, <1>6 DEF ListedOnce, Inserting
  <2>3. CASE r = a
    <3>1. Kept(r)' = {Len(book) + 1}
      BY <1>1, <1>3, <1>7, <2>3
    <3>2. \A v \in Inserting(r)' : wire'[v].rival
      BY <1>5, <1>6, <2>3 DEF Inserting
    <3> QED
      BY <3>1, <3>2 DEF ListedOnce
  <2> QED
    BY <2>2, <2>3
<1> QED
  BY <1>7 DEF ListFits

LEMMA WhereFound ==
  ASSUME DeskFits, NEW w \in Wires, FindBeneficiary(w)
  PROVE  \/ wire'[w].at \in {"update", "idle"}
         \/ wire'[w].at = "create" /\ Kept(Addressee[w]) = {}
<1>0. wire \in [Wires -> WireStates] /\ wire[w] \in WireStates
  BY DEF DeskFits
<1>1. ASSUME NEW p, wire' = [wire EXCEPT ![w] = [@ EXCEPT !.at = "update", !.place = p]]
      PROVE  wire'[w].at = "update"
  BY <1>0, <1>1 DEF WireStates
<1>2. ASSUME wire' = [wire EXCEPT ![w] = Fresh(@.calls)] PROVE wire'[w].at = "idle"
  BY <1>0, <1>2 DEF Fresh
<1>3. ASSUME Goto(w, "create") PROVE wire'[w].at = "create"
  BY <1>0, <1>3 DEF Goto, WireStates
<1> QED
  BY <1>1, <1>2, <1>3, Zenon DEF FindBeneficiary, Candidates

LEMMA ListFound ==
  ASSUME DeskFits, ListFits, NEW w \in Wires, FindBeneficiary(w)
  PROVE  ListFits'
<1>1. UNCHANGED bookVars /\ \A r : Kept(r)' = Kept(r)
  BY DEF FindBeneficiary, bookVars, Kept
<1>2. \A v \in Wires \ {w} : wire'[v] = wire[v]
  BY DEF FindBeneficiary, Goto, DeskFits
<1>3. wire'[w].at = "create" => Kept(Addressee[w]) = {}
  BY WhereFound
<1> QED
  BY <1>1, <1>2, <1>3 DEF ListFits, ListedOnce, Inserting, bookVars

\* Any other step inserts nothing and sends no wire to insert.
LEMMA ListOther ==
  ASSUME ListFits, UNCHANGED doubled, \A r : Kept(r)' \subseteq Kept(r),
         \A w \in Wires : wire'[w].at = "create" => wire'[w] = wire[w]
  PROVE  ListFits'
BY DEF ListFits, ListedOnce, Inserting

LEMMA ListStep ==
  ASSUME TableFits, DeskFits, ListFits, [Next]_vars
  PROVE  ListFits'
<1>0. \A w \in Wires : wire[w] \in WireStates
  BY DEF DeskFits
<1>1. CASE UNCHANGED vars
  BY <1>1, ListOther DEF vars, bookVars, Kept
<1>2. ASSUME NEW w \in Wires, Call(w) PROVE ListFits'
  BY <1>0, <1>2, ListOther DEF Call, bookVars, Kept, DeskFits, Fresh
<1>3. ASSUME NEW w \in Wires, UpdateBeneficiary(w) PROVE ListFits'
  <2>1. \A v \in Wires : wire'[v].at = "create" => wire'[v] = wire[v]
    BY <1>0, <1>3 DEF UpdateBeneficiary, DeskFits, WireStates
  <2> QED
    BY <2>1, <1>3, UpdateFits, ListOther DEF UpdateBeneficiary
<1>4. ASSUME NEW w \in Wires, ReadLimit(w) PROVE ListFits'
  <2>1. \A v \in Wires : wire'[v].at = "create" => wire'[v] = wire[v]
    <3> DEFINE row == Newest(limits, Precedence[wire[w].level])
    <3>1. \/ wire' = [wire EXCEPT ![w] = [@ EXCEPT !.at = "confirm", !.limit = row]]
          \/ wire' = [wire EXCEPT ![w].level = @ + 1]
      BY <1>4 DEF ReadLimit
    <3> HIDE DEF row
    <3>2. wire[w].at = "limits" /\ wire \in [Wires -> WireStates]
      BY <1>4 DEF ReadLimit, DeskFits
    <3>3. \A v \in Wires \ {w} : wire'[v] = wire[v]
      BY <3>1, <3>2
    <3>4. /\ [wire[w] EXCEPT !.at = "confirm", !.limit = row].at = "confirm"
          /\ [wire[w] EXCEPT !.level = @ + 1].at = "limits"
      BY <1>0, <3>2 DEF WireStates
    <3>5. wire'[w].at \in {"confirm", "limits"}
      BY <3>1, <3>2, <3>4
    <3> QED
      BY <3>3, <3>5
  <2> QED
    BY <2>1, <1>4, ListOther DEF ReadLimit, bookVars, Kept
<1>5. ASSUME NEW w \in Wires, Confirm(w) PROVE ListFits'
  BY <1>0, <1>5, ListOther DEF Confirm, bookVars, Kept, DeskFits, Fresh
<1>6. CASE BeginEdit \/ FinishEdit
  BY <1>6, EditFits, ListOther DEF BeginEdit, FinishEdit
<1>7. CASE StaffBegins
  BY <1>7, ListOther DEF StaffBegins, bookVars, Kept
<1>8. CASE StaffCommits
  <2>1. \A v \in Wires : wire'[v].at = "create" => wire'[v] = wire[v]
    BY <1>0, <1>8 DEF StaffCommits, WireStates
  <2> QED
    BY <2>1, <1>8, ListOther DEF StaffCommits, bookVars, Kept
<1> QED
  BY <1>1, <1>2, <1>3, <1>4, <1>5, <1>6, <1>7, <1>8, ListFound, ListCreate, ListSave
     DEF Next, WireStep

\* findOrCreateForWire adds a second entry of a recipient only if it overlaps
\* another insertion of it; the Beneficiaries page may add one at any time.
THEOREM DeskRecipientIsListedOnce == Spec => []RecipientIsListedOnce
<1>1. ListFits => RecipientIsListedOnce
  <2> SUFFICES ASSUME ListFits, NEW r \in Recipients \ doubled
               PROVE  Cardinality(Kept(r)) <= 1
    BY DEF RecipientIsListedOnce
  <2>1. \A p, q \in Kept(r) : p = q
    BY DEF ListFits, ListedOnce
  <2> HIDE DEF Kept
  <2>2. CASE Kept(r) = {}
    BY <2>2, FS_EmptySet
  <2>3. CASE Kept(r) # {}
    <3>1. \E p : Kept(r) = {p}
      BY <2>1, <2>3
    <3> QED
      BY <3>1, FS_Singleton
  <2> QED
    BY <2>2, <2>3
<1>2. TableFits /\ DeskFits /\ ListFits /\ [Next]_vars => ListFits'
  BY ListStep
<1> QED
  BY <1>1, <1>2, ListInit, DeskInv, PTL DEF Spec

-----------------------------------------------------------------------------
(* The limit a wire is held to.                                            *)

\* Until a change commits, the scopes already read are empty and the row in
\* effect has been seen; after one, what is still to be found has been.  A
\* default the currency had when the reading began is still there.
ReadingFits(w) ==
  /\ wire[w].at = "limits" /\ wire[w].moves = 0 =>
       /\ \A n \in 1..4 : n < wire[w].level => Active(limits, Precedence[n]) = {}
       /\ InEffect(limits) \in wire[w].seen
  /\ wire[w].at = "limits" /\ wire[w].moves <= 1 =>
       \A k \in 1..4 :
         /\ wire[w].level <= k /\ Active(limits, Precedence[k]) # {}
         /\ \A n \in 1..4 : wire[w].level <= n /\ n < k => Active(limits, Precedence[n]) = {}
         => Newest(limits, Precedence[k]) \in wire[w].seen
  /\ wire[w].at = "limits" /\ wire[w].moves <= 1
       /\ (\A n \in 1..4 : wire[w].level <= n => Active(limits, Precedence[n]) = {})
     => NoRow \in wire[w].seen
  /\ wire[w].at = "confirm" /\ wire[w].moves <= 1 => wire[w].limit \in wire[w].seen
  /\ wire[w].at = "limits" /\ wire[w].covered => HasDefault
  /\ wire[w].at = "confirm" /\ wire[w].covered => wire[w].limit # NoRow

ReadingsFit == \A w \in Wires : ReadingFits(w)

NewestAreNewest ==
  \A t \in Scopes : Active(limits, t) # {} =>
    /\ Newest(limits, t) \in Active(limits, t)
    /\ \A s \in Active(limits, t) : limits[s].from <= limits[Newest(limits, t)].from

LEMMA NewestOfScope == TableFits => NewestAreNewest
BY NewestIs DEF TableFits, NewestAreNewest

\* The newest row of a scope stays the newest while its scope is not changed.
LEMMA NewestStays ==
  ASSUME TableFits, TableFits', NEW scope \in Scopes,
         Active(limits, scope) # {}, Active(limits', scope) = Active(limits, scope),
         \A r \in Active(limits, scope) : limits'[r].from = limits[r].from
  PROVE  Newest(limits', scope) = Newest(limits, scope)
<1> DEFINE A == Active(limits, scope)
           a == Newest(limits, scope)
           b == Newest(limits', scope)
<1>1. a \in A /\ \A s \in A : limits[s].from <= limits[a].from
  BY NewestOfScope DEF NewestAreNewest
<1>2. b \in A /\ \A s \in A : limits'[s].from <= limits'[b].from
  <2>1. NewestAreNewest'
    BY NewestOfScope, PTL
  <2> QED
    BY <2>1 DEF NewestAreNewest
<1> HIDE DEF a, b
<1>3. a \in RowIds /\ b \in RowIds /\ limits[a].scope = scope /\ limits[b].scope = scope
  BY <1>1, <1>2 DEF Active
<1>4. limits[a].from \in Nat /\ limits[b].from \in Nat
  BY <1>3 DEF TableFits, LimitsTypeOK, Rows
<1>5. limits[a].from = limits[b].from
  BY <1>1, <1>2, <1>4
<1>6. a = b
  BY <1>3, <1>5, ScopesAre DEF TableFits, Numbered
<1> QED
  BY <1>6 DEF a, b

\* A commit changes the rows of one scope.
LEMMA OneScopeChanges ==
  ASSUME TableFits, NEW c \in Changes, CommitChange(c)
  PROVE  \E s \in Scopes : \A t \in Scopes \ {s} :
           /\ Active(limits', t) = Active(limits, t)
           /\ \A r \in Active(limits, t) : limits'[r].from = limits[r].from
<1>0. /\ c \in RowIds /\ change[c] \in ChangeStates /\ limits \in [RowIds -> Rows]
      /\ clock \in Nat /\ (limits[c].scope = NoRow \/ FinishRetire(c))
  BY DEF TableFits, LimitsTypeOK, RowIds, RequestsFit, CommitChange, CommitReplace, Answered
<1>1. CASE CommitReplace(c)
  <2>1. change[c].scope \in Scopes /\ limits[c].scope = NoRow
    BY <1>0, <1>1, ChangeShape DEF CommitReplace, TableFits, RequestsFit
  <2>2. \A r \in RowIds \ {c} :
          /\ limits'[r].scope = limits[r].scope /\ limits'[r].from = limits[r].from
          /\ limits[r].scope # change[c].scope => limits'[r].until = limits[r].until
    BY <1>0, <1>1 DEF CommitReplace, Rows, TableFits, RequestsFit
  <2>3. limits'[c].scope = change[c].scope
    BY <1>0, <1>1 DEF CommitReplace
  <2>4. ASSUME NEW t \in Scopes \ {change[c].scope}
        PROVE  /\ Active(limits', t) = Active(limits, t)
               /\ \A r \in Active(limits, t) : limits'[r].from = limits[r].from
    BY <2>1, <2>2, <2>3, ScopesAre DEF Active
  <2> QED
    BY <2>1, <2>4
<1>2. CASE FinishRetire(c)
  <2> DEFINE row == change[c].row
  <2>1. row \in RowIds /\ limits[row].scope # NoRow
    BY <1>0, <1>2, ChangeShape DEF FinishRetire, TableFits, RequestsFit
  <2>2. limits[row].scope \in Scopes
    BY <1>0, <2>1 DEF Rows
  <2>3. \A r \in RowIds : /\ limits'[r].scope = limits[r].scope
                          /\ limits'[r].from = limits[r].from
                          /\ r # row => limits'[r].until = limits[r].until
    BY <1>0, <1>2, <2>1 DEF FinishRetire, Rows
  <2>4. ASSUME NEW t \in Scopes \ {limits[row].scope}
        PROVE  /\ Active(limits', t) = Active(limits, t)
               /\ \A r \in Active(limits, t) : limits'[r].from = limits[r].from
    BY <2>3 DEF Active
  <2> QED
    BY <2>2, <2>4
<1> QED
  BY <1>1, <1>2 DEF CommitChange

\* A reading begins with the row in effect.
LEMMA ReadingBegins ==
  ASSUME TableFits, NEW w \in Wires,
         limits' = limits, wire'[w].at = "limits", wire'[w].level = 1,
         wire'[w].covered = HasDefault, wire'[w].seen = {InEffect(limits)}
  PROVE  ReadingFits(w)'
<1>1. /\ \A t : Active(limits, t)' = Active(limits, t)
      /\ \A t : Newest(limits, t)' = Newest(limits, t)
      /\ InEffect(limits)' = InEffect(limits) /\ HasDefault' = HasDefault
  BY DEF Active, Newest, InEffect, HasDefault
<1>2. ~ \E n \in 1..4 : n < 1
  OBVIOUS
<1>3. ASSUME NEW k \in 1..4, Active(limits, Precedence[k]) # {},
             \A n \in 1..4 : 1 <= n /\ n < k => Active(limits, Precedence[n]) = {}
      PROVE  Newest(limits, Precedence[k]) \in wire'[w].seen
  <2>1. \A n \in 1..4 : n < k => Active(limits, Precedence[n]) = {}
    BY <1>3
  <2>2. InEffect(limits) = Newest(limits, Precedence[k])
    BY <1>3, <2>1, EffectIs
  <2> QED
    BY <2>2
<1>4. ASSUME \A n \in 1..4 : 1 <= n => Active(limits, Precedence[n]) = {}
      PROVE  NoRow \in wire'[w].seen
  <2>1. \A n \in 1..4 : Active(limits, Precedence[n]) = {}
    BY <1>4
  <2> QED
    BY <2>1, EffectIs
<1> QED
  BY <1>1, <1>2, <1>3, <1>4 DEF ReadingFits

\* A wire no step touches, or that is not reading.
LEMMA ReadingKept ==
  ASSUME NEW w \in Wires, limits' = limits, ReadingFits(w),
         wire'[w].at \in {"limits", "confirm"} =>
           /\ wire'[w].at = wire[w].at /\ wire'[w].level = wire[w].level
           /\ wire'[w].seen = wire[w].seen /\ wire'[w].moves = wire[w].moves
           /\ wire'[w].limit = wire[w].limit /\ wire'[w].covered = wire[w].covered
  PROVE  ReadingFits(w)'
<1>1. /\ \A t : Active(limits, t)' = Active(limits, t)
      /\ \A t : Newest(limits, t)' = Newest(limits, t)
      /\ InEffect(limits)' = InEffect(limits) /\ HasDefault' = HasDefault
  BY DEF Active, Newest, InEffect, HasDefault
<1>2. CASE wire'[w].at \notin {"limits", "confirm"}
  BY <1>2 DEF ReadingFits
<1>3. CASE wire'[w].at \in {"limits", "confirm"}
  BY <1>1, <1>3 DEF ReadingFits
<1> QED
  BY <1>2, <1>3

LEMMA ReadingRead ==
  ASSUME TableFits, DeskFits, NEW w \in Wires, ReadLimit(w), ReadingFits(w)
  PROVE  ReadingFits(w)'
<1> DEFINE k == wire[w].level
           row == Newest(limits, Precedence[k])
<1>0. /\ wire[w] \in WireStates /\ wire \in [Wires -> WireStates] /\ k \in 1..4
      /\ wire[w].at = "limits" /\ limits' = limits
  BY DEF DeskFits, ReadLimit, limitVars
<1>1. /\ \A t : Active(limits, t)' = Active(limits, t)
      /\ \A t : Newest(limits, t)' = Newest(limits, t)
      /\ InEffect(limits)' = InEffect(limits) /\ HasDefault' = HasDefault
  BY <1>0 DEF Active, Newest, InEffect, HasDefault
<1>9. Active(limits, Precedence[k]) # {} => row \in RowIds
  <2>1. Precedence[k] \in Scopes
    BY <1>0, ScopesAre DEF Scopes
  <2> QED
    BY <2>1, NewestOfScope DEF NewestAreNewest, Active
<1>2. CASE row # NoRow \/ k = 4
  <2>1. \A n \in 1..4 : k <= n /\ Active(limits, Precedence[k]) = {} => n = k
    BY <1>0, <1>2, NewestOfNone
  <2>2. ASSUME Active(limits, Precedence[k]) # {}, wire[w].moves <= 1
        PROVE  row \in wire[w].seen
    <3>1. \A n \in 1..4 : ~ (k <= n /\ n < k)
      BY <1>0
    <3> QED
      BY <1>0, <2>2, <3>1 DEF ReadingFits
  <2>3. ASSUME Active(limits, Precedence[k]) = {}, wire[w].moves <= 1
        PROVE  row \in wire[w].seen
    <3>1. row = NoRow
      BY <2>3, NewestOfNone
    <3>2. \A n \in 1..4 : k <= n => Active(limits, Precedence[n]) = {}
      BY <2>1, <2>3
    <3> QED
      BY <1>0, <2>3, <3>1, <3>2 DEF ReadingFits
  <2>4. /\ wire[w].moves <= 1 => row \in wire[w].seen
        /\ wire[w].covered => row # NoRow
    <3>1. wire[w].moves <= 1 => row \in wire[w].seen
      BY <2>2, <2>3
    <3>2. Active(limits, Precedence[k]) # {} => row # NoRow
      BY <1>9, SeededRowsFit
    <3>3. Active(limits, Precedence[k]) = {} => ~HasDefault
      <4>1. Active(limits, Precedence[k]) = {} => k = 4
        BY <1>2, NewestOfNone
      <4> QED
        BY <4>1, ScopesAre DEF HasDefault
    <3>4. wire[w].covered => HasDefault
      BY <1>0 DEF ReadingFits
    <3> QED
      BY <3>1, <3>2, <3>3, <3>4
  <2> HIDE DEF row
  <2>5. wire'[w] = [wire[w] EXCEPT !.at = "confirm", !.limit = row]
    BY <1>0, <1>2 DEF ReadLimit, row
  <2>6. /\ wire'[w].at = "confirm" /\ wire'[w].limit = row
        /\ wire'[w].covered = wire[w].covered
        /\ wire'[w].seen = wire[w].seen /\ wire'[w].moves = wire[w].moves
    BY <1>0, <2>5 DEF WireStates
  <2> QED
    BY <2>4, <2>6 DEF ReadingFits
<1>3. CASE row = NoRow /\ k # 4
  <2>1. Active(limits, Precedence[k]) = {}
    BY <1>3, <1>9, SeededRowsFit
  <2>2. wire'[w] = [wire[w] EXCEPT !.level = k + 1]
    BY <1>0, <1>3 DEF ReadLimit
  <2>3. /\ wire'[w].at = "limits" /\ wire'[w].level = k + 1
        /\ wire'[w].covered = wire[w].covered
        /\ wire'[w].seen = wire[w].seen /\ wire'[w].moves = wire[w].moves
    BY <1>0, <2>2 DEF WireStates
  <2>4. \A n \in 1..4 : n < k + 1 => n < k \/ n = k
    BY <1>0
  <2>5. \A n \in 1..4 : k <= n => n = k \/ k + 1 <= n
    BY <1>0
  <2>6. wire[w].moves = 0 =>
          /\ \A n \in 1..4 : n < k + 1 => Active(limits, Precedence[n]) = {}
          /\ InEffect(limits) \in wire[w].seen
    BY <1>0, <2>1, <2>4 DEF ReadingFits
  <2>7. ASSUME wire[w].moves <= 1, NEW m \in 1..4, k + 1 <= m,
               Active(limits, Precedence[m]) # {},
               \A n \in 1..4 : k + 1 <= n /\ n < m => Active(limits, Precedence[n]) = {}
        PROVE  Newest(limits, Precedence[m]) \in wire[w].seen
    <3>1. k <= m
      BY <1>0, <2>7
    <3>2. \A n \in 1..4 : k <= n /\ n < m => Active(limits, Precedence[n]) = {}
      BY <2>1, <2>5, <2>7
    <3> QED
      BY <1>0, <2>7, <3>1, <3>2 DEF ReadingFits
  <2>8. ASSUME wire[w].moves <= 1,
               \A n \in 1..4 : k + 1 <= n => Active(limits, Precedence[n]) = {}
        PROVE  NoRow \in wire[w].seen
    <3>1. \A n \in 1..4 : k <= n => Active(limits, Precedence[n]) = {}
      BY <2>1, <2>5, <2>8
    <3> QED
      BY <1>0, <2>8, <3>1 DEF ReadingFits
  <2>9. wire[w].covered => HasDefault
    BY <1>0 DEF ReadingFits
  <2> HIDE DEF k
  <2> QED
    BY <1>1, <2>3, <2>6, <2>7, <2>8, <2>9 DEF ReadingFits
<1> QED
  BY <1>2, <1>3

\* One change while a wire reads: either it is in a scope already read, and what
\* is still to be found is unchanged, or the wire will find what is now in effect.
LEMMA ReadingChanged ==
  ASSUME TableFits, TableFits', DeskFits, StaffCommits, NEW w \in Wires, ReadingFits(w)
  PROVE  ReadingFits(w)'
<1>0. wire[w] \in WireStates /\ wire[w].moves \in Nat
  BY DEF DeskFits, WireStates
<1>1. PICK s \in Scopes : \A t \in Scopes \ {s} :
           /\ Active(limits', t) = Active(limits, t)
           /\ \A r \in Active(limits, t) : limits'[r].from = limits[r].from
  BY OneScopeChanges DEF StaffCommits
<1>2. CASE wire[w].at # "limits"
  <2>1. wire'[w] = wire[w]
    BY <1>2 DEF StaffCommits
  <2> QED
    BY <1>2, <2>1 DEF ReadingFits
<1>3. CASE wire[w].at = "limits"
  <2> DEFINE k == wire[w].level
             now == InEffect(limits')
  <2>0. k \in 1..4
    BY <1>3 DEF DeskFits
  <2>1. wire'[w] = [wire[w] EXCEPT !.seen = @ \cup {now}, !.moves = @ + 1]
    BY <1>3 DEF StaffCommits
  <2>2. now \in RowIds \cup {NoRow}
    <3>1. (InEffect(limits) \in RowIds \cup {NoRow})'
      BY EffectIsRow, PTL
    <3> QED
      BY <3>1
  <2> HIDE DEF now
  <2>3. /\ wire'[w].at = "limits" /\ wire'[w].level = k
        /\ wire'[w].seen = wire[w].seen \cup {now}
        /\ wire'[w].moves = wire[w].moves + 1 /\ wire'[w].covered = wire[w].covered
    BY <1>0, <1>3, <2>1 DEF WireStates
  <2>4. wire'[w].moves # 0 /\ (wire'[w].moves <= 1 => wire[w].moves = 0)
    BY <1>0, <2>3
  <2>5. ASSUME wire[w].moves = 0, NEW m \in 1..4, k <= m,
               Active(limits', Precedence[m]) # {},
               \A n \in 1..4 : k <= n /\ n < m => Active(limits', Precedence[n]) = {}
        PROVE  Newest(limits', Precedence[m]) \in wire'[w].seen
    <3>1. CASE \A n \in 1..4 : n < k => Active(limits', Precedence[n]) = {}
      <4>1. \A n \in 1..4 : n < m => n < k \/ k <= n
        BY <2>0
      <4>2. \A n \in 1..4 : n < m => Active(limits', Precedence[n]) = {}
        BY <2>5, <3>1, <4>1
      <4>3. now = Newest(limits', Precedence[m])
        <5>1. EffectIsFirst'
          BY EffectIsTheFirst, PTL
        <5> QED
          BY <2>5, <4>2, <5>1 DEF EffectIsFirst, now
      <4> QED
        BY <2>3, <4>3
    <3>2. CASE \E n \in 1..4 : n < k /\ Active(limits', Precedence[n]) # {}
      <4>1. PICK n \in 1..4 : n < k /\ Active(limits', Precedence[n]) # {}
        BY <3>2
      <4>2. Active(limits, Precedence[n]) = {}
        BY <1>3, <2>5, <4>1 DEF ReadingFits
      <4>3. Precedence[n] = s
        <5>1. Precedence[n] \in Scopes
          BY ScopesAre DEF Scopes
        <5> QED
          BY <1>1, <4>1, <4>2, <5>1
      <4>4. \A j \in 1..4 : k <= j => Precedence[j] \in Scopes \ {s}
        BY <2>0, <4>1, <4>3, Distinct
      <4>5. \A j \in 1..4 : k <= j =>
              Active(limits', Precedence[j]) = Active(limits, Precedence[j])
        BY <1>1, <4>4
      <4>6. Newest(limits, Precedence[m]) \in wire[w].seen
        BY <1>3, <2>5, <4>5 DEF ReadingFits
      <4>7. Newest(limits', Precedence[m]) = Newest(limits, Precedence[m])
        BY <1>1, <2>5, <4>4, <4>5, NewestStays
      <4> QED
        BY <2>3, <4>6, <4>7
    <3> QED
      BY <3>1, <3>2
  <2>6. ASSUME wire[w].moves = 0,
               \A n \in 1..4 : k <= n => Active(limits', Precedence[n]) = {}
        PROVE  NoRow \in wire'[w].seen
    <3>1. CASE \A n \in 1..4 : n < k => Active(limits', Precedence[n]) = {}
      <4>1. \A n \in 1..4 : n < k \/ k <= n
        BY <2>0
      <4>2. \A n \in 1..4 : Active(limits', Precedence[n]) = {}
        BY <2>6, <3>1, <4>1
      <4>3. now = NoRow
        <5>1. EffectIsNone'
          BY EffectIsTheFirst, PTL
        <5> QED
          BY <4>2, <5>1 DEF EffectIsNone, now
      <4> QED
        BY <2>3, <4>3
    <3>2. CASE \E n \in 1..4 : n < k /\ Active(limits', Precedence[n]) # {}
      <4>1. PICK n \in 1..4 : n < k /\ Active(limits', Precedence[n]) # {}
        BY <3>2
      <4>2. Active(limits, Precedence[n]) = {}
        BY <1>3, <2>6, <4>1 DEF ReadingFits
      <4>3. Precedence[n] = s
        <5>1. Precedence[n] \in Scopes
          BY ScopesAre DEF Scopes
        <5> QED
          BY <1>1, <4>1, <4>2, <5>1
      <4>4. \A j \in 1..4 : k <= j => Precedence[j] \in Scopes \ {s}
        BY <2>0, <4>1, <4>3, Distinct
      <4>5. \A j \in 1..4 : k <= j => Active(limits, Precedence[j]) = {}
        BY <1>1, <2>6, <4>4
      <4> QED
        BY <1>0, <1>3, <2>3, <2>6, <4>5 DEF ReadingFits
    <3> QED
      BY <3>1, <3>2
  <2>7. wire[w].covered => HasDefault'
    <3>1. wire[w].covered => HasDefault
      BY <1>3 DEF ReadingFits
    <3> QED
      BY <3>1, DefaultStays DEF StaffCommits
  <2> HIDE DEF k
  <2>8. ReadingFits(w)'
    BY <2>3, <2>4, <2>5, <2>6, <2>7 DEF ReadingFits
  <2> QED
    BY <2>8
<1> QED
  BY <1>2, <1>3

LEMMA ReadingStep ==
  ASSUME TableFits, TableFits', DeskFits, ReadingsFit, [Next]_vars
  PROVE  ReadingsFit'
<1> SUFFICES ASSUME NEW v \in Wires PROVE ReadingFits(v)'
  BY DEF ReadingsFit
<1>0. ReadingFits(v) /\ wire \in [Wires -> WireStates] /\ wire[v] \in WireStates
  BY DEF ReadingsFit, DeskFits
<1>1. CASE UNCHANGED vars
  BY <1>0, <1>1, ReadingKept DEF vars, limitVars
<1>2. ASSUME NEW w \in Wires, Call(w) \/ Confirm(w) \/ FindBeneficiary(w) PROVE ReadingFits(v)'
  <2>1. wire'[v].at \in {"limits", "confirm"} => wire'[v] = wire[v]
    <3>1. v # w => wire'[v] = wire[v]
      BY <1>0, <1>2 DEF Call, Confirm, FindBeneficiary, Goto
    <3>2. Call(w) => wire'[w].at = "find"
      BY <1>0 DEF Call, Fresh
    <3>3. Confirm(w) => wire'[w].at \in {"done", "idle"}
      BY <1>0 DEF Confirm, Fresh
    <3>4. FindBeneficiary(w) => wire'[w].at \in {"update", "create", "idle"}
      BY <1>0, WhereFound
    <3> QED
      BY <1>2, <3>1, <3>2, <3>3, <3>4
  <2>2. limits' = limits
    BY <1>2 DEF Call, Confirm, FindBeneficiary, limitVars
  <2> QED
    BY <1>0, <2>1, <2>2, ReadingKept
<1>3. ASSUME NEW w \in Wires, UpdateBeneficiary(w) PROVE ReadingFits(v)'
  <2>1. limits' = limits
    BY <1>3 DEF UpdateBeneficiary, limitVars
  <2>2. CASE v = w
    BY <1>0, <1>3, <2>1, <2>2, ReadingBegins DEF UpdateBeneficiary, WireStates
  <2>3. CASE v # w
    BY <1>0, <1>3, <2>1, <2>3, ReadingKept DEF UpdateBeneficiary
  <2> QED
    BY <2>2, <2>3
<1>4. ASSUME NEW w \in Wires, CreateBeneficiary(w) PROVE ReadingFits(v)'
  <2>1. limits' = limits
    BY <1>4 DEF CreateBeneficiary, limitVars
  <2>2. CASE v = w
    <3>1. /\ wire'[v].at = "limits" /\ wire'[v].level = 1
          /\ wire'[v].covered = HasDefault /\ wire'[v].seen = {InEffect(limits)}
      BY <1>0, <1>4, <2>2 DEF CreateBeneficiary, WireStates
    <3> QED
      BY <2>1, <3>1, ReadingBegins
  <2>3. CASE v # w
    <3>1. wire'[v] = [wire[v] EXCEPT !.rival = @ \/ v \in Inserting(Addressee[w])]
      BY <1>4, <2>3 DEF CreateBeneficiary
    <3>2. /\ wire'[v].at = wire[v].at /\ wire'[v].level = wire[v].level
          /\ wire'[v].seen = wire[v].seen /\ wire'[v].moves = wire[v].moves
          /\ wire'[v].limit = wire[v].limit /\ wire'[v].covered = wire[v].covered
      BY <1>0, <3>1 DEF WireStates
    <3> QED
      BY <1>0, <2>1, <3>2, ReadingKept
  <2> QED
    BY <2>2, <2>3
<1>5. ASSUME NEW w \in Wires, ReadLimit(w) PROVE ReadingFits(v)'
  <2>1. CASE v = w
    BY <1>0, <1>5, <2>1, ReadingRead
  <2>2. CASE v # w
    <3>1. wire'[v] = wire[v] /\ limits' = limits
      BY <1>0, <1>5, <2>2 DEF ReadLimit, limitVars
    <3> QED
      BY <1>0, <3>1, ReadingKept
  <2> QED
    BY <2>1, <2>2
<1>6. CASE SaveBeneficiary
  <2>1. \E r \in Recipients : wire'[v] = [wire[v] EXCEPT !.rival = @ \/ v \in Inserting(r)]
    BY <1>6 DEF SaveBeneficiary
  <2>2. /\ wire'[v].at = wire[v].at /\ wire'[v].level = wire[v].level
        /\ wire'[v].seen = wire[v].seen /\ wire'[v].moves = wire[v].moves
        /\ wire'[v].limit = wire[v].limit /\ wire'[v].covered = wire[v].covered
    BY <1>0, <2>1 DEF WireStates
  <2> QED
    BY <1>0, <1>6, <2>2, ReadingKept DEF SaveBeneficiary, limitVars
<1>7. CASE BeginEdit \/ FinishEdit
  BY <1>0, <1>7, ReadingKept DEF BeginEdit, FinishEdit, limitVars
<1>8. CASE StaffBegins
  BY <1>0, <1>8, ReadingKept DEF StaffBegins, BeginChange, BeginReplace, BeginRetire, AbortChange
<1>9. CASE StaffCommits
  BY <1>0, <1>9, ReadingChanged
<1> QED
  BY <1>1, <1>2, <1>3, <1>4, <1>5, <1>6, <1>7, <1>8, <1>9 DEF Next, WireStep

THEOREM DeskReadings == Spec => []ReadingsFit
<1>1. Init => ReadingsFit
  BY DEF Init, Fresh, ReadingsFit, ReadingFits
<1>2. TableFits /\ TableFits' /\ DeskFits /\ ReadingsFit /\ [Next]_vars => ReadingsFit'
  BY ReadingStep
<1> QED
  BY <1>1, <1>2, DeskInv, PTL DEF Spec

\* In a currency that had a default when the reading began, resolveLimit comes
\* back with a limit whatever staff replace and retire meanwhile: a default is
\* replaced in one commit and cannot be retired.
THEOREM DeskNeverUnlimited == Spec => []NeverUnlimited
<1>1. ReadingsFit => NeverUnlimited
  BY DEF ReadingsFit, ReadingFits, NeverUnlimited
<1> QED
  BY <1>1, DeskReadings, PTL

\* With at most one change committed while it reads, the four reads of
\* resolveLimit return what was in effect at some moment of the reading.
THEOREM DeskLimitWasInEffect == Spec => []LimitWasInEffect
<1>1. ReadingsFit => LimitWasInEffect
  BY DEF ReadingsFit, ReadingFits, LimitWasInEffect
<1> QED
  BY <1>1, DeskReadings, PTL
=============================================================================
