------------------------- MODULE OneTimeCodesProofs -------------------------
(***************************************************************************)
(* For any requests that overlap, any limit and any size of a set: a code, *)
(* a link and a backup code are accepted once, and wrong codes counted, up *)
(* to the requests that overlap; replaced backup codes are dead; and TOTP  *)
(* is enabled only with a secret its owner has proved, the stored one but  *)
(* for the enrolments that came between.                                   *)
(***************************************************************************)
EXTENDS OneTimeCodes, SequenceTheorems, FiniteSetTheorems, TLAPS

-----------------------------------------------------------------------------
(* Requests.                                                               *)

LEMMA OpParts ==
  ASSUME NEW o \in Ops
  PROVE  /\ o[1] \in Kinds
         /\ o[1] \in {"send", "verify"} => o[2] \in Sent
         /\ o[1] \in {"enroll", "confirm", "disable"} => o[2] \in Factors
         /\ o[1] \in {"regenerate", "recover"} => o[2] = "totp"
BY DEF Ops, Kinds, Sent, Factors

Checking == {"find", "overdue", "exhausted", "mismatch", "consume"}

\* Which request is at which await, and what it has read.
StageFits(c) ==
  /\ stage[c] = "idle" => op[c] = Idle
  /\ stage[c] # "idle" => op[c] \in Ops
  /\ stage[c] \in {"expire", "insert"} =>
       op[c][1] = "send" \/ (op[c][1] = "enroll" /\ op[c][2] \in Contacts)
  /\ stage[c] \in Checking =>
       op[c][1] = "verify" \/ (op[c][1] = "confirm" /\ op[c][2] \in Contacts)
  /\ stage[c] \in Checking \ {"find"} => found[c] \in 1..Len(challenges)
  /\ stage[c] \in {"enroll", "upsert"} => op[c][1] = "enroll"
  /\ stage[c] \in {"pending", "enable"} => op[c][1] = "confirm"
  /\ stage[c] = "gate" => op[c][1] \in {"disable", "regenerate"}
  /\ stage[c] = "disable" => op[c][1] = "disable"
  /\ stage[c] \in {"seek", "mark"} => op[c][1] = "recover" /\ typed[c] \in 0..Len(backups)
  /\ stage[c] = "mark" => typed[c] # 0
  /\ before[c] <= Len(backups)

Shape == \A c \in Clients : StageFits(c)

Step(c) == Work(c) \/ Breaks(c) \/ \E o \in Ops : \E t \in Codes(o) : Submit(c, o, t)

\* A request changes nothing of the others'.
Others(c) == \A d \in Clients \ {c} :
  /\ stage'[d] = stage[d] /\ op'[d] = op[d] /\ typed'[d] = typed[d]
  /\ found'[d] = found[d] /\ before'[d] = before[d]

LEMMA GoesOn ==
  ASSUME TypeOK, NEW c \in Clients, NEW s \in Stages, Goto(c, s)
  PROVE  /\ stage' \in [Clients -> Stages] /\ stage'[c] = s
         /\ op' = op /\ typed' = typed /\ before' = before /\ requests' = requests /\ crowd' = crowd
         /\ \A d \in Clients \ {c} : stage'[d] = stage[d]
BY DEF Goto, TypeOK

LEMMA Ends ==
  ASSUME TypeOK, NEW c \in Clients, Finish(c)
  PROVE  /\ stage' \in [Clients -> Stages] /\ op' \in [Clients -> Ops \cup {Idle}]
         /\ typed' \in [Clients -> Nat] /\ found' \in [Clients -> Nat]
         /\ before' \in [Clients -> Nat] /\ requests' = requests /\ crowd' = crowd
         /\ stage'[c] = "idle" /\ op'[c] = Idle /\ before'[c] = 0
         /\ Others(c)
BY DEF Finish, TypeOK, Stages, Others

LEMMA OthersStay ==
  ASSUME TypeOK, NEW c \in Clients, Step(c)
  PROVE  Others(c)
<1>1. ASSUME NEW s, Goto(c, s), found' = found PROVE Others(c)
  BY <1>1 DEF Goto, Others, TypeOK
<1>2. ASSUME NEW s, NEW k, Goto(c, s), found' = [found EXCEPT ![c] = k] PROVE Others(c)
  BY <1>2 DEF Goto, Others, TypeOK
<1>3. ASSUME Finish(c) PROVE Others(c)
  BY <1>3, Ends
<1>4. CASE Expire(c) \/ Insert(c) \/ Refuse(c) \/ Breaks(c)
  BY <1>1, <1>3, <1>4 DEF Expire, Insert, Refuse, Breaks
<1>5. CASE Find(c)
  BY <1>2, <1>3, <1>5 DEF Find
<1>6. CASE Consume(c)
  <2>1. CASE Finish(c)
    BY <1>3, <2>1
  <2>2. CASE Goto(c, "enable") /\ \E k : found' = [found EXCEPT ![c] = k]
    BY <1>2, <2>2
  <2>3. QED
    BY <1>6, <2>1, <2>2, Zenon DEF Consume
<1>7. CASE Enroll(c) \/ Upsert(c) \/ Gate(c) \/ Disable(c)
  BY <1>1, <1>3, <1>7 DEF Enroll, Upsert, Gate, Disable
<1>8. CASE ReadPending(c)
  BY <1>2, <1>3, <1>8 DEF ReadPending
<1>9. CASE Enable(c) \/ Wipe(c) \/ Generate(c) \/ Seek(c) \/ Mark(c)
  BY <1>1, <1>3, <1>9 DEF Enable, Wipe, Generate, Seek, Mark
<1>10. ASSUME NEW o \in Ops, NEW t \in Codes(o), Submit(c, o, t) PROVE Others(c)
  BY <1>10 DEF Submit, Others, TypeOK
<1>11. QED
  BY <1>3, <1>4, <1>5, <1>6, <1>7, <1>8, <1>9, <1>10 DEF Step, Work

-----------------------------------------------------------------------------
(* The two tables.                                                         *)

LEMMA ElementInRange ==
  \A R : \A q \in Seq(R) : \A k \in 1..Len(q) : q[k] \in R
OBVIOUS

\* One row of a table replaced.
LEMMA RowReplaced ==
  ASSUME NEW R, NEW q \in Seq(R), NEW n \in 1..Len(q), NEW r \in R, NEW q1,
         q1 = [q EXCEPT ![n] = r]
  PROVE  /\ q1 \in Seq(R) /\ Len(q1) = Len(q) /\ q1[n] = r
         /\ \A m \in 1..Len(q) : m # n => q1[m] = q[m]
OBVIOUS

\* A row for each row.
LEMMA RowsMapped ==
  ASSUME NEW R, NEW q \in Seq(R), NEW f \in [1..Len(q) -> R]
  PROVE  f \in Seq(R) /\ Len(f) = Len(q)
OBVIOUS

\* Rows never go, and one that is no longer PENDING stays so.
ChallengesLast ==
  /\ challenges' \in Seq(Challenge) /\ Len(challenges) <= Len(challenges')
  /\ \A n \in 1..Len(challenges) :
       challenges'[n].status = "PENDING" => challenges[n].status = "PENDING"
BackupsLast ==
  /\ backups' \in Seq(Backup) /\ Len(backups) <= Len(backups')
  /\ \A b \in 1..Len(backups) : backups'[b].status = "unused" => backups[b].status = "unused"

\* The counts of row n are as before.
Uncounted(n) ==
  /\ challenges'[n].uses = challenges[n].uses
  /\ challenges'[n].wrong = challenges[n].wrong
  /\ challenges'[n].attempts = challenges[n].attempts
  /\ challenges'[n].status = "PENDING" => challenges[n].status = "PENDING"

LEMMA Expired ==
  ASSUME TypeOK, NEW c \in Clients, Expire(c)
  PROVE  /\ challenges' \in Seq(Challenge) /\ Len(challenges') = Len(challenges)
         /\ \A n \in 1..Len(challenges) : Uncounted(n)
<1>1. challenges \in Seq(Challenge)
  BY DEF TypeOK
<1>2. ASSUME NEW n \in 1..Len(challenges)
      PROVE  /\ challenges[n] \in Challenge
             /\ [challenges[n] EXCEPT !.status = "EXPIRED"] \in Challenge
  <2>1. challenges[n] \in Challenge
    BY <1>1, ElementInRange
  <2>2. QED
    BY <2>1 DEF Challenge
<1>3. challenges' = [n \in 1..Len(challenges) |->
        IF n \in Pending(PurposeOf(op[c])) THEN [challenges[n] EXCEPT !.status = "EXPIRED"]
                                           ELSE challenges[n]]
  BY DEF Expire
<1>4. challenges' \in [1..Len(challenges) -> Challenge]
  BY <1>2, <1>3
<1>5. challenges' \in Seq(Challenge) /\ Len(challenges') = Len(challenges)
  BY <1>1, <1>4, RowsMapped
<1>6. ASSUME NEW n \in 1..Len(challenges) PROVE Uncounted(n)
  <2>1. \/ challenges'[n] = challenges[n]
        \/ challenges'[n] = [challenges[n] EXCEPT !.status = "EXPIRED"]
    BY <1>3
  <2>2. QED
    BY <1>2, <2>1 DEF Uncounted, Challenge
<1>7. QED
  BY <1>5, <1>6

LEMMA Inserted ==
  ASSUME TypeOK, Shape, NEW c \in Clients, Insert(c)
  PROVE  /\ challenges' \in Seq(Challenge) /\ Len(challenges') = Len(challenges) + 1
         /\ \A n \in 1..Len(challenges) : Uncounted(n)
         /\ \A n \in 1..Len(challenges') : n \notin 1..Len(challenges) =>
              challenges'[n].uses = 0 /\ challenges'[n].wrong = 0 /\ challenges'[n].attempts = 0
<1> DEFINE row == [purpose |-> PurposeOf(op[c]), status |-> "PENDING", attempts |-> 0,
                   late |-> FALSE, to |-> op[c][2], uses |-> 0, wrong |-> 0]
<1>1. challenges \in Seq(Challenge) /\ challenges' = Append(challenges, row)
  BY DEF TypeOK, Insert
<1>2. op[c] \in Ops /\ op[c][2] \in Sent \cup Contacts
  BY OpParts DEF Insert, Shape, StageFits
<1>3. PurposeOf(op[c]) \in Purposes
  BY <1>2 DEF PurposeOf, Purposes
<1>4. row \in Challenge
  BY <1>2, <1>3 DEF Challenge
<1>5. row.uses = 0 /\ row.wrong = 0 /\ row.attempts = 0
  OBVIOUS
<1> HIDE DEF row
<1>6. /\ challenges' \in Seq(Challenge) /\ Len(challenges') = Len(challenges) + 1
      /\ \A n \in 1..Len(challenges) : challenges'[n] = challenges[n]
      /\ challenges'[Len(challenges) + 1] = row
  BY <1>1, <1>4
<1>7. \A n \in 1..Len(challenges') : n \notin 1..Len(challenges) => n = Len(challenges) + 1
  BY <1>1, <1>6
<1>8. QED
  BY <1>5, <1>6, <1>7 DEF Uncounted

LEMMA Refused ==
  ASSUME TypeOK, Shape, NEW c \in Clients, Refuse(c)
  PROVE  /\ found[c] \in 1..Len(challenges)
         /\ challenges' \in Seq(Challenge) /\ Len(challenges') = Len(challenges)
         /\ \A n \in 1..Len(challenges) : n # found[c] => Uncounted(n)
         /\ stage[c] # "mismatch" => Uncounted(found[c])
         /\ stage[c] = "mismatch" =>
              /\ challenges'[found[c]].wrong = challenges[found[c]].wrong + 1
              /\ challenges'[found[c]].attempts = challenges[found[c]].attempts + 1
              /\ challenges'[found[c]].uses = challenges[found[c]].uses
              /\ challenges'[found[c]].status = challenges[found[c]].status
<1>1. /\ challenges \in Seq(Challenge) /\ found[c] \in 1..Len(challenges)
      /\ stage[c] \in {"overdue", "exhausted", "mismatch"}
  BY DEF TypeOK, Refuse, Shape, StageFits, Checking
<1>2. PICK row \in Challenge : row = challenges[found[c]]
  BY <1>1, ElementInRange
<1>3. PICK new \in Challenge :
        /\ challenges' = [challenges EXCEPT ![found[c]] = new]
        /\ stage[c] = "mismatch" =>
             new = [row EXCEPT !.attempts = row.attempts + 1, !.wrong = row.wrong + 1]
        /\ stage[c] # "mismatch" =>
             new = [row EXCEPT !.status = "EXPIRED"] \/ new = [row EXCEPT !.status = "FAILED"]
  <2>1. /\ [row EXCEPT !.status = "EXPIRED"] \in Challenge
        /\ [row EXCEPT !.status = "FAILED"] \in Challenge
    BY DEF Challenge
  <2>6. [row EXCEPT !.attempts = row.attempts + 1, !.wrong = row.wrong + 1] \in Challenge
    <3>1. row.attempts + 1 \in Nat /\ row.wrong + 1 \in Nat
      BY DEF Challenge
    <3>2. QED
      BY <3>1 DEF Challenge
  <2>2. CASE stage[c] = "overdue"
    <3>1. challenges' = [challenges EXCEPT ![found[c]] = [row EXCEPT !.status = "EXPIRED"]]
      BY <1>2, <2>2, Zenon DEF Refuse
    <3>2. QED
      BY <2>1, <2>2, <3>1
  <2>3. CASE stage[c] = "exhausted"
    <3>1. challenges' = [challenges EXCEPT ![found[c]] = [row EXCEPT !.status = "FAILED"]]
      BY <1>2, <2>3 DEF Refuse
    <3>2. QED
      BY <2>1, <2>3, <3>1
  <2>4. CASE stage[c] = "mismatch"
    <3>1. challenges' = [challenges EXCEPT ![found[c]] =
            [row EXCEPT !.attempts = row.attempts + 1, !.wrong = row.wrong + 1]]
      BY <1>2, <2>4, Zenon DEF Refuse
    <3>2. QED
      BY <2>4, <2>6, <3>1
  <2>5. QED
    BY <1>1, <2>2, <2>3, <2>4
<1>4. /\ challenges' \in Seq(Challenge) /\ Len(challenges') = Len(challenges)
      /\ challenges'[found[c]] = new
      /\ \A n \in 1..Len(challenges) : n # found[c] => challenges'[n] = challenges[n]
  BY <1>1, <1>3, RowReplaced
<1>5. stage[c] # "mismatch" => Uncounted(found[c])
  <2> SUFFICES ASSUME stage[c] # "mismatch" PROVE Uncounted(found[c])
    OBVIOUS
  <2>1. /\ new.uses = row.uses /\ new.wrong = row.wrong /\ new.attempts = row.attempts
        /\ new.status # "PENDING"
    BY <1>3 DEF Challenge
  <2>2. QED
    BY <1>2, <1>4, <2>1 DEF Uncounted
<1>6. stage[c] = "mismatch" =>
        /\ new.wrong = row.wrong + 1 /\ new.attempts = row.attempts + 1
        /\ new.uses = row.uses /\ new.status = row.status
  BY <1>3 DEF Challenge
<1>7. QED
  BY <1>1, <1>2, <1>4, <1>5, <1>6 DEF Uncounted

LEMMA Consumed ==
  ASSUME TypeOK, Shape, NEW c \in Clients, Consume(c)
  PROVE  /\ found[c] \in 1..Len(challenges)
         /\ challenges' \in Seq(Challenge) /\ Len(challenges') = Len(challenges)
         /\ \A n \in 1..Len(challenges) : n # found[c] => Uncounted(n)
         /\ challenges'[found[c]].uses = challenges[found[c]].uses + 1
         /\ challenges'[found[c]].status = "VERIFIED"
         /\ challenges'[found[c]].wrong = challenges[found[c]].wrong
         /\ challenges'[found[c]].attempts = challenges[found[c]].attempts
<1>1. challenges \in Seq(Challenge) /\ found[c] \in 1..Len(challenges)
  BY DEF TypeOK, Consume, Shape, StageFits, Checking
<1>2. PICK row \in Challenge : row = challenges[found[c]]
  BY <1>1, ElementInRange
<1>3. PICK new : new = [row EXCEPT !.status = "VERIFIED", !.uses = row.uses + 1]
  BY Zenon
<1>4. /\ new \in Challenge /\ new.uses = row.uses + 1 /\ new.status = "VERIFIED"
      /\ new.wrong = row.wrong /\ new.attempts = row.attempts
  <2>1. row.uses + 1 \in Nat
    BY DEF Challenge
  <2>2. new \in Challenge
    BY <1>3, <2>1 DEF Challenge
  <2>3. /\ new.uses = row.uses + 1 /\ new.status = "VERIFIED"
        /\ new.wrong = row.wrong /\ new.attempts = row.attempts
    BY <1>2, <1>3, <2>1 DEF Challenge
  <2>4. QED
    BY <2>2, <2>3
<1>5. challenges' = [challenges EXCEPT ![found[c]] = new]
  BY <1>2, <1>3, Zenon DEF Consume
<1>6. /\ challenges' \in Seq(Challenge) /\ Len(challenges') = Len(challenges)
      /\ challenges'[found[c]] = new
      /\ \A n \in 1..Len(challenges) : n # found[c] => challenges'[n] = challenges[n]
  BY <1>1, <1>4, <1>5, RowReplaced
<1>7. QED
  BY <1>1, <1>2, <1>4, <1>6 DEF Uncounted

LEMMA RanOut ==
  ASSUME TypeOK, NEW k \in 1..Len(challenges), RunsOut(k)
  PROVE  /\ challenges' \in Seq(Challenge) /\ Len(challenges') = Len(challenges)
         /\ \A n \in 1..Len(challenges) : Uncounted(n)
<1>1. challenges \in Seq(Challenge)
  BY DEF TypeOK
<1>2. PICK row \in Challenge : row = challenges[k]
  BY <1>1, ElementInRange
<1>3. PICK new : new = [row EXCEPT !.late = TRUE]
  OBVIOUS
<1>4. /\ new \in Challenge /\ new.uses = row.uses /\ new.status = row.status
      /\ new.wrong = row.wrong /\ new.attempts = row.attempts
  BY <1>3 DEF Challenge
<1>5. challenges' = [challenges EXCEPT ![k] = new]
  BY <1>2, <1>3, Zenon DEF RunsOut
<1>6. /\ challenges' \in Seq(Challenge) /\ Len(challenges') = Len(challenges)
      /\ challenges'[k] = new
      /\ \A n \in 1..Len(challenges) : n # k => challenges'[n] = challenges[n]
  BY <1>1, <1>4, <1>5, RowReplaced
<1>7. QED
  BY <1>2, <1>4, <1>6 DEF Uncounted

\* The recovery codes.
Unmarked(b) ==
  /\ backups'[b].uses = backups[b].uses
  /\ backups'[b].status = "unused" => backups[b].status = "unused"

LEMMA Wiped ==
  ASSUME TypeOK, NEW c \in Clients, Wipe(c)
  PROVE  /\ backups' \in Seq(Backup) /\ Len(backups') = Len(backups)
         /\ \A b \in 1..Len(backups) : Unmarked(b) /\ backups'[b].status # "unused"
<1>1. backups \in Seq(Backup)
  BY DEF TypeOK
<1>2. ASSUME NEW b \in 1..Len(backups)
      PROVE  /\ backups[b] \in Backup /\ [backups[b] EXCEPT !.status = "deleted"] \in Backup
             /\ [backups[b] EXCEPT !.status = "deleted"].status = "deleted"
             /\ [backups[b] EXCEPT !.status = "deleted"].uses = backups[b].uses
  <2>1. backups[b] \in Backup
    BY <1>1, ElementInRange
  <2>2. QED
    BY <2>1 DEF Backup
<1>3. backups' = [b \in 1..Len(backups) |->
        IF backups[b].status = "unused" THEN [backups[b] EXCEPT !.status = "deleted"]
                                        ELSE backups[b]]
  BY DEF Wipe, Wipeable
<1>4. backups' \in [1..Len(backups) -> Backup]
  BY <1>2, <1>3
<1>5. backups' \in Seq(Backup) /\ Len(backups') = Len(backups)
  BY <1>1, <1>4, RowsMapped
<1>6. ASSUME NEW b \in 1..Len(backups) PROVE Unmarked(b) /\ backups'[b].status # "unused"
  <2>1. backups'[b] = IF backups[b].status = "unused"
                      THEN [backups[b] EXCEPT !.status = "deleted"] ELSE backups[b]
    BY <1>3
  <2>2. QED
    BY <1>2, <2>1 DEF Unmarked
<1>7. QED
  BY <1>5, <1>6

LEMMA Generated ==
  ASSUME TypeOK, NEW c \in Clients, Generate(c)
  PROVE  /\ backups' \in Seq(Backup) /\ Len(backups) <= Len(backups')
         /\ \A b \in 1..Len(backups) : backups'[b] = backups[b]
         /\ \A b \in 1..Len(backups') : b \notin 1..Len(backups) => backups'[b].uses = 0
<1> DEFINE new == [b \in 1..SetSize |-> [status |-> "unused", uses |-> 0]]
<1>1. backups \in Seq(Backup) /\ SetSize \in Nat /\ backups' = backups \o new
  BY CodesFit DEF TypeOK, Generate
<1>2. new \in [1..SetSize -> Backup] /\ \A b \in 1..SetSize : new[b].uses = 0
  BY DEF Backup
<1>3. new \in Seq(Backup) /\ Len(new) = SetSize
  <2> HIDE DEF new
  <2>1. QED
    BY <1>1, <1>2
<1> HIDE DEF new
<1>4. /\ backups' \in Seq(Backup) /\ Len(backups') = Len(backups) + Len(new)
      /\ \A b \in 1..Len(backups') :
           backups'[b] = IF b <= Len(backups) THEN backups[b] ELSE new[b - Len(backups)]
  BY <1>1, <1>3, ConcatProperties
<1>5. Len(backups) \in Nat
  BY <1>1
<1>6. ASSUME NEW b \in 1..Len(backups'), b \notin 1..Len(backups) PROVE backups'[b].uses = 0
  <2>1. b - Len(backups) \in 1..SetSize /\ ~(b <= Len(backups))
    BY <1>1, <1>3, <1>4, <1>5, <1>6
  <2>2. QED
    BY <1>2, <1>4, <2>1
<1>7. QED
  BY <1>1, <1>3, <1>4, <1>5, <1>6

LEMMA Marked ==
  ASSUME TypeOK, Shape, NEW c \in Clients, Mark(c)
  PROVE  /\ typed[c] \in 1..Len(backups)
         /\ backups' \in Seq(Backup) /\ Len(backups') = Len(backups)
         /\ \A b \in 1..Len(backups) : b # typed[c] => backups'[b] = backups[b]
         /\ \/ backups' = backups
            \/ /\ backups'[typed[c]].uses = backups[typed[c]].uses + 1
               /\ backups'[typed[c]].status = "used"
<1>1. backups \in Seq(Backup) /\ typed[c] \in 1..Len(backups)
  BY DEF TypeOK, Mark, Shape, StageFits
<1>2. PICK row \in Backup : row = backups[typed[c]]
  BY <1>1, ElementInRange
<1>3. PICK new : new = [status |-> "used", uses |-> row.uses + 1]
  OBVIOUS
<1>4. new \in Backup /\ new.status = "used" /\ new.uses = row.uses + 1
  BY <1>3 DEF Backup
<1>5. backups' = backups \/ backups' = [backups EXCEPT ![typed[c]] = new]
  BY <1>2, <1>3, Zenon DEF Mark
<1>6. CASE backups' = backups
  BY <1>1, <1>6
<1>7. CASE backups' = [backups EXCEPT ![typed[c]] = new]
  <2>1. /\ backups' \in Seq(Backup) /\ Len(backups') = Len(backups)
        /\ backups'[typed[c]] = new
        /\ \A b \in 1..Len(backups) : b # typed[c] => backups'[b] = backups[b]
    BY <1>1, <1>4, <1>7, RowReplaced
  <2>2. QED
    BY <1>1, <1>2, <1>4, <2>1
<1>8. QED
  BY <1>5, <1>6, <1>7

-----------------------------------------------------------------------------
(* Types, and which requests are at which await.                           *)

LEMMA FoundPending ==
  ASSUME TypeOK, NEW c \in Clients, NEW n \in Candidates(c)
  PROVE  n \in 1..Len(challenges) /\ n \in Nat /\ challenges[n].status = "PENDING"
BY DEF Candidates, Pending, TypeOK

LEMMA Verdicts ==
  ASSUME NEW row \in Challenge, NEW right \in BOOLEAN
  PROVE  /\ Verdict(row, right) \in {"overdue", "exhausted", "mismatch", "consume"}
         /\ Verdict(row, right) = "mismatch" => ~(row.attempts >= MaxAttempts)
BY DEF Verdict

LEMMA FactorRow ==
  ASSUME TypeOK, NEW f \in Factors
  PROVE  factors[f] \in Factor /\ factors[f].made \in Nat
BY DEF TypeOK, Factor

\* A request about a factor writes that factor's row.
LEMMA FactorSteps ==
  ASSUME TypeOK, Shape, NEW c \in Clients, Step(c)
  PROVE  \/ factors' = factors
         \/ /\ Upsert(c) \/ Enable(c) \/ Disable(c)
            /\ op[c][2] \in Factors
            /\ factors' \in [Factors -> Factor]
            /\ \A f \in Factors : f # op[c][2] => factors'[f] = factors[f]
            /\ Upsert(c) => LET f == op[c][2]
                            IN  /\ ~factors'[f].enabled
                                /\ factors'[f].made = factors[f].made + 1
                                /\ factors'[f].slips = factors[f].slips
                                     + (IF Enabling(f) = {} THEN 0 ELSE 1)
            /\ Disable(c) => ~factors'[op[c][2]].enabled
            /\ Enable(c) => /\ factors'[op[c][2]].proved = found[c]
                            /\ factors'[op[c][2]].made = factors[op[c][2]].made
                            /\ factors'[op[c][2]].slips = factors[op[c][2]].slips
            /\ Disable(c) => /\ factors'[op[c][2]].made = factors[op[c][2]].made
                             /\ factors'[op[c][2]].slips = factors[op[c][2]].slips
<1>1. factors \in [Factors -> Factor] /\ found[c] \in Nat
  BY DEF TypeOK
<1>2. ASSUME NEW f \in Factors, NEW new \in Factor, factors' = [factors EXCEPT ![f] = new]
      PROVE  /\ factors' \in [Factors -> Factor] /\ factors'[f] = new
             /\ \A g \in Factors : g # f => factors'[g] = factors[g]
  BY <1>1, <1>2
<1>3. CASE Upsert(c)
  <2>1. op[c][2] \in Factors
    BY <1>3, OpParts DEF Upsert, Shape, StageFits
  <2>2. PICK row \in Factor : row = factors[op[c][2]]
    BY <1>1, <2>1
  <2> DEFINE n == IF Enabling(op[c][2]) = {} THEN 0 ELSE 1
  <2>9. n \in Nat
    OBVIOUS
  <2> HIDE DEF n
  <2>3. PICK new : new = [row EXCEPT !.enabled = FALSE, !.made = row.made + 1,
                                     !.slips = row.slips + n]
    BY Zenon
  <2>4. row.made + 1 \in Nat /\ row.slips + n \in Nat
    BY <2>9 DEF Factor
  <2>5. /\ new \in Factor /\ ~new.enabled
        /\ new.made = row.made + 1 /\ new.slips = row.slips + n
    BY <2>3, <2>4 DEF Factor
  <2>6. factors' = [factors EXCEPT ![op[c][2]] = new]
    BY <1>3, <2>2, <2>3, Zenon DEF Upsert, n
  <2>7. stage[c] = "upsert"
    BY <1>3 DEF Upsert
  <2>8. QED
    <3>1. ~Enable(c) /\ ~Disable(c)
      BY <2>7 DEF Enable, Disable
    <3>2. /\ factors' \in [Factors -> Factor] /\ factors'[op[c][2]] = new
          /\ \A g \in Factors : g # op[c][2] => factors'[g] = factors[g]
      BY <1>2, <2>1, <2>5, <2>6
    <3>3. QED
      BY <1>3, <2>1, <2>2, <2>5, <3>1, <3>2 DEF n
<1>4. CASE Enable(c)
  <2>1. op[c][2] \in Factors
    BY <1>4, OpParts DEF Enable, Shape, StageFits
  <2>2. PICK row \in Factor : row = factors[op[c][2]]
    BY <1>1, <2>1
  <2>3. PICK new : new = [row EXCEPT !.enabled = TRUE, !.proved = found[c]]
    BY Zenon
  <2>5. /\ new \in Factor /\ new.proved = found[c] /\ new.made = row.made
        /\ new.slips = row.slips
    BY <1>1, <2>3 DEF Factor
  <2>6. factors' = [factors EXCEPT ![op[c][2]] = new]
    BY <1>4, <2>2, <2>3, Zenon DEF Enable
  <2>7. stage[c] = "enable"
    BY <1>4 DEF Enable
  <2>8. QED
    BY <1>2, <1>4, <2>1, <2>2, <2>5, <2>6, <2>7 DEF Upsert, Disable
<1>5. CASE Disable(c)
  <2>1. op[c][2] \in Factors
    BY <1>5, OpParts DEF Disable, Shape, StageFits
  <2>2. PICK row \in Factor : row = factors[op[c][2]]
    BY <1>1, <2>1
  <2>3. PICK new : new = [row EXCEPT !.enabled = FALSE]
    BY Zenon
  <2>5. new \in Factor /\ ~new.enabled /\ new.made = row.made /\ new.slips = row.slips
    BY <2>3 DEF Factor
  <2>6. factors' = [factors EXCEPT ![op[c][2]] = new]
    BY <1>5, <2>2, <2>3, Zenon DEF Disable
  <2>7. stage[c] = "disable"
    BY <1>5 DEF Disable
  <2>8. QED
    <3>1. ~Enable(c) /\ ~Upsert(c)
      BY <2>7 DEF Enable, Upsert
    <3>2. /\ factors' \in [Factors -> Factor] /\ factors'[op[c][2]] = new
          /\ \A g \in Factors : g # op[c][2] => factors'[g] = factors[g]
      BY <1>2, <2>1, <2>5, <2>6
    <3>3. QED
      BY <1>5, <2>1, <2>2, <2>5, <3>1, <3>2
<1>6. CASE \/ Expire(c) \/ Insert(c) \/ Find(c) \/ Refuse(c) \/ Consume(c) \/ Enroll(c)
           \/ ReadPending(c) \/ Gate(c) \/ Wipe(c) \/ Generate(c) \/ Seek(c) \/ Mark(c) \/ Breaks(c)
           \/ \E o \in Ops : \E t \in Codes(o) : Submit(c, o, t)
  BY <1>6 DEF Expire, Insert, Find, Refuse, Consume, Enroll, ReadPending, Gate, Wipe, Generate,
     Seek, Mark, Breaks, Submit, data
<1>7. QED
  BY <1>3, <1>4, <1>5, <1>6 DEF Step, Work

\* Each request changes one of the three tables at a time.
LEMMA ChallengeSteps ==
  ASSUME TypeOK, Shape, NEW c \in Clients, Step(c)
  PROVE  /\ ChallengesLast
         /\ challenges' = challenges \/ Expire(c) \/ Insert(c) \/ Refuse(c) \/ Consume(c)
<1>1. CASE Expire(c)
  BY <1>1, Expired DEF ChallengesLast, Uncounted
<1>2. CASE Insert(c)
  BY <1>2, Inserted DEF ChallengesLast, Uncounted, TypeOK
<1>3. CASE Refuse(c)
  BY <1>3, Refused DEF ChallengesLast, Uncounted
<1>4. CASE Consume(c)
  BY <1>4, Consumed DEF ChallengesLast, Uncounted
<1>5. CASE challenges' = challenges
  BY <1>5 DEF ChallengesLast, TypeOK
<1>6. ASSUME \/ Find(c) \/ Enroll(c) \/ Upsert(c) \/ ReadPending(c) \/ Enable(c) \/ Gate(c)
             \/ Disable(c) \/ Wipe(c) \/ Generate(c) \/ Seek(c) \/ Mark(c) \/ Breaks(c)
             \/ \E o \in Ops : \E t \in Codes(o) : Submit(c, o, t)
      PROVE  challenges' = challenges
  BY <1>6 DEF Find, Enroll, Upsert, ReadPending, Enable, Gate, Disable, Wipe, Generate, Seek, Mark,
     Breaks, Submit, data
<1>7. QED
  BY <1>1, <1>2, <1>3, <1>4, <1>5, <1>6 DEF Step, Work

LEMMA BackupSteps ==
  ASSUME TypeOK, Shape, NEW c \in Clients, Step(c)
  PROVE  /\ BackupsLast
         /\ backups' = backups \/ Wipe(c) \/ Generate(c) \/ Mark(c)
<1>1. CASE Wipe(c)
  BY <1>1, Wiped DEF BackupsLast, Unmarked, TypeOK
<1>2. CASE Generate(c)
  BY <1>2, Generated DEF BackupsLast
<1>3. CASE Mark(c)
  <2>1. /\ typed[c] \in 1..Len(backups) /\ backups' \in Seq(Backup) /\ Len(backups') = Len(backups)
        /\ \A b \in 1..Len(backups) : b # typed[c] => backups'[b] = backups[b]
        /\ backups' = backups \/ backups'[typed[c]].status = "used"
    BY <1>3, Marked
  <2>2. Len(backups) \in Nat
    BY DEF TypeOK
  <2>3. QED
    BY <1>3, <2>1, <2>2 DEF BackupsLast
<1>4. CASE backups' = backups
  BY <1>4 DEF BackupsLast, TypeOK
<1>5. ASSUME \/ Expire(c) \/ Insert(c) \/ Find(c) \/ Refuse(c) \/ Consume(c) \/ Enroll(c)
             \/ Upsert(c) \/ ReadPending(c) \/ Enable(c) \/ Gate(c) \/ Disable(c) \/ Seek(c)
             \/ Breaks(c) \/ \E o \in Ops : \E t \in Codes(o) : Submit(c, o, t)
      PROVE  backups' = backups
  BY <1>5 DEF Expire, Insert, Find, Refuse, Consume, Enroll, Upsert, ReadPending, Enable, Gate,
     Disable, Seek, Breaks, Submit, data
<1>6. QED
  BY <1>1, <1>2, <1>3, <1>4, <1>5 DEF Step, Work

\* What a request can be doing after each of its own steps.
LEMMA OwnStage ==
  ASSUME TypeOK, Shape, NEW c \in Clients, Step(c)
  PROVE  StageFits(c)' /\ stage' \in [Clients -> Stages] /\ op' \in [Clients -> Ops \cup {Idle}]
         /\ typed' \in [Clients -> Nat] /\ found' \in [Clients -> Nat]
         /\ before' \in [Clients -> Nat] /\ requests' \in Nat /\ crowd' \in [Groups -> Nat]
<1>1. /\ stage \in [Clients -> Stages] /\ op \in [Clients -> Ops \cup {Idle}]
      /\ typed \in [Clients -> Nat] /\ found \in [Clients -> Nat]
      /\ before \in [Clients -> Nat] /\ requests \in Nat /\ crowd \in [Groups -> Nat]
      /\ Len(backups) \in Nat /\ Len(challenges) \in Nat /\ StageFits(c)
      /\ Len(backups') \in Nat /\ Len(challenges') \in Nat
      /\ Len(backups) <= Len(backups') /\ Len(challenges) <= Len(challenges')
  <2>1. ChallengesLast /\ BackupsLast
    BY ChallengeSteps, BackupSteps
  <2>2. challenges \in Seq(Challenge) /\ backups \in Seq(Backup)
    BY DEF TypeOK
  <2>3. /\ Len(backups) \in Nat /\ Len(challenges) \in Nat
        /\ Len(backups') \in Nat /\ Len(challenges') \in Nat
    BY <2>1, <2>2 DEF ChallengesLast, BackupsLast
  <2>4. StageFits(c)
    BY DEF Shape
  <2>5. Len(backups) <= Len(backups') /\ Len(challenges) <= Len(challenges')
    BY <2>1 DEF ChallengesLast, BackupsLast
  <2>6. QED
    BY <2>3, <2>4, <2>5 DEF TypeOK
<1>2. CASE Finish(c)
  BY <1>1, <1>2, Ends DEF StageFits, Checking
<1>3. before[c] <= Len(backups) /\ before[c] <= Len(backups') /\ 0..Len(backups) \subseteq 0..Len(backups')
      /\ 1..Len(challenges) \subseteq 1..Len(challenges')
  BY <1>1 DEF StageFits
<1>4. ASSUME NEW s \in Stages, Goto(c, s), found' = found,
             \/ s \in {"expire", "insert"} /\ \/ op[c][1] = "send"
                                              \/ op[c][1] = "enroll" /\ op[c][2] \in Contacts
             \/ s = "upsert" /\ op[c][1] = "enroll"
             \/ s = "disable" /\ op[c][1] = "disable"
             \/ s \in {"wipe", "generate"}
             \/ s = "mark" /\ stage[c] = "seek" /\ typed[c] # 0,
             stage[c] # "idle"
      PROVE  StageFits(c)' /\ stage' \in [Clients -> Stages]
  BY <1>1, <1>3, <1>4, GoesOn DEF StageFits, Checking
<1>5. CASE Expire(c) /\ ~Finish(c)
  <2>1. Goto(c, "insert") /\ found' = found /\ stage[c] = "expire" /\ "insert" \in Stages
    BY <1>5 DEF Expire, Stages
  <2>2. op[c][1] = "send" \/ (op[c][1] = "enroll" /\ op[c][2] \in Contacts)
    BY <1>1, <2>1 DEF StageFits
  <2>3. QED
    BY <1>1, <1>4, <2>1, <2>2, GoesOn
<1>6. CASE Find(c) /\ ~Finish(c)
  <2>1. PICK n \in Candidates(c) :
          found' = [found EXCEPT ![c] = n] /\ Goto(c, Verdict(challenges[n], n = typed[c]))
    BY <1>6 DEF Find
  <2>2. n \in 1..Len(challenges) /\ n \in Nat /\ challenges[n] \in Challenge /\ stage[c] = "find"
    BY <1>6, <2>1, FoundPending, ElementInRange DEF TypeOK, Find
  <2>3. PICK v \in {"overdue", "exhausted", "mismatch", "consume"} :
          v = Verdict(challenges[n], n = typed[c])
    <3>1. (n = typed[c]) \in BOOLEAN
      OBVIOUS
    <3>2. QED
      BY <2>2, <3>1, Verdicts
  <2>4. v \in Stages /\ Goto(c, v)
    BY <2>1, <2>3 DEF Stages
  <2>5. found' \in [Clients -> Nat] /\ found'[c] = n /\ n \in 1..Len(challenges')
    BY <1>1, <1>3, <2>1, <2>2
  <2>6. op[c] \in Ops /\ (op[c][1] = "verify" \/ (op[c][1] = "confirm" /\ op[c][2] \in Contacts))
    BY <1>1, <2>2 DEF StageFits, Checking
  <2>7. StageFits(c)'
    BY <1>3, <2>3, <2>4, <2>5, <2>6, GoesOn DEF StageFits, Checking
  <2>8. QED
    BY <1>1, <2>4, <2>5, <2>7, GoesOn
<1>7. CASE Consume(c) /\ ~Finish(c)
  <2>1. Goto(c, "enable") /\ op[c][1] = "confirm" /\ stage[c] = "consume"
        /\ \E k : found' = [found EXCEPT ![c] = k] /\ k \in {factors[op[c][2]].made, 0}
    BY <1>7, Zenon DEF Consume
  <2>2. op[c] \in Ops /\ op[c][2] \in Factors
    BY <1>1, <2>1, OpParts DEF StageFits
  <2>3. factors[op[c][2]].made \in Nat
    BY <2>2, FactorRow
  <2>4. found' \in [Clients -> Nat] /\ "enable" \in Stages
    BY <1>1, <2>1, <2>3 DEF Stages
  <2>5. StageFits(c)'
    BY <1>3, <2>1, <2>2, <2>4, GoesOn DEF StageFits, Checking
  <2>6. QED
    BY <1>1, <2>1, <2>4, <2>5, GoesOn
<1>8. CASE Enroll(c) /\ ~Finish(c)
  <2>1. Goto(c, "upsert") /\ found' = found /\ stage[c] = "enroll" /\ "upsert" \in Stages
    BY <1>8 DEF Enroll, Stages
  <2>2. op[c][1] = "enroll"
    BY <1>1, <2>1 DEF StageFits
  <2>3. QED
    BY <1>1, <1>4, <2>1, <2>2, GoesOn
<1>9. CASE Upsert(c) /\ ~Finish(c)
  <2>1. /\ Goto(c, "expire") /\ found' = found /\ stage[c] = "upsert" /\ "expire" \in Stages
        /\ op[c][2] # "totp"
    BY <1>9 DEF Upsert, Stages
  <2>2. op[c][1] = "enroll" /\ op[c] \in Ops
    BY <1>1, <2>1 DEF StageFits
  <2>3. op[c][2] \in Contacts
    BY <2>1, <2>2, OpParts DEF Factors
  <2>4. QED
    BY <1>1, <1>4, <2>1, <2>2, <2>3, GoesOn
<1>10. CASE ReadPending(c) /\ ~Finish(c)
  <2>1. PICK s \in {"enable", "find"} :
          /\ Goto(c, s) /\ stage[c] = "pending" /\ (s = "find" => op[c][2] # "totp")
          /\ found' = [found EXCEPT ![c] = factors[op[c][2]].made]
    BY <1>10 DEF ReadPending
  <2>2. op[c][1] = "confirm" /\ op[c] \in Ops /\ op[c][2] \in Factors
    BY <1>1, <2>1, OpParts DEF StageFits
  <2>3. found' \in [Clients -> Nat] /\ s \in Stages
    BY <1>1, <2>1, <2>2, FactorRow DEF Stages
  <2>4. s = "find" => op[c][2] \in Contacts
    BY <2>1, <2>2 DEF Factors
  <2>5. StageFits(c)'
    BY <1>3, <2>1, <2>2, <2>3, <2>4, GoesOn DEF StageFits, Checking
  <2>6. QED
    BY <1>1, <2>1, <2>3, <2>5, GoesOn
<1>11. CASE (Enable(c) \/ Disable(c)) /\ ~Finish(c)
  <2>1. Goto(c, "wipe") /\ found' = found /\ stage[c] # "idle" /\ "wipe" \in Stages
    BY <1>11 DEF Enable, Disable, Stages
  <2>2. QED
    BY <1>1, <1>4, <2>1, GoesOn
<1>12. CASE Gate(c) /\ ~Finish(c)
  <2>1. PICK s \in {"wipe", "disable"} :
          /\ Goto(c, s) /\ found' = found /\ stage[c] # "idle"
          /\ s = "disable" => op[c][1] = "disable"
    BY <1>12 DEF Gate
  <2>2. s \in Stages
    BY DEF Stages
  <2>3. QED
    BY <1>1, <1>4, <2>1, <2>2, GoesOn
<1>13. CASE Wipe(c) /\ ~Finish(c)
  <2>1. Goto(c, "generate") /\ found' = found /\ stage[c] # "idle" /\ "generate" \in Stages
    BY <1>13 DEF Wipe, Stages
  <2>2. QED
    BY <1>1, <1>4, <2>1, GoesOn
<1>14. CASE Seek(c) /\ ~Finish(c)
  <2>1. Goto(c, "mark") /\ found' = found /\ stage[c] = "seek" /\ typed[c] # 0 /\ "mark" \in Stages
    BY <1>14 DEF Seek, Stages
  <2>2. QED
    BY <1>1, <1>4, <2>1, GoesOn
<1>15. CASE Insert(c) \/ Refuse(c) \/ Generate(c) \/ Mark(c) \/ Breaks(c)
  BY <1>2, <1>15 DEF Insert, Refuse, Generate, Mark, Breaks
<1>16. ASSUME NEW o \in Ops, NEW t \in Codes(o), Submit(c, o, t)
       PROVE  StageFits(c)' /\ stage' \in [Clients -> Stages] /\ op' \in [Clients -> Ops \cup {Idle}]
              /\ typed' \in [Clients -> Nat] /\ found' \in [Clients -> Nat]
              /\ before' \in [Clients -> Nat] /\ requests' \in Nat /\ crowd' \in [Groups -> Nat]
  <2>1. /\ stage' = [stage EXCEPT ![c] = FirstStage(o[1])] /\ op' = [op EXCEPT ![c] = o]
        /\ typed' = [typed EXCEPT ![c] = t] /\ requests' = requests + 1
        /\ before' = [before EXCEPT ![c] = Len(backups)] /\ found' = found
        /\ backups' = backups /\ challenges' = challenges
    BY <1>16 DEF Submit, data
  <2>2. t \in Nat /\ (o[1] = "recover" => t \in 0..Len(backups))
    BY <1>1, <1>16 DEF Codes
  <2>3. /\ o[1] \in Kinds /\ FirstStage(o[1]) \in Stages
        /\ FirstStage(o[1]) \in {"expire", "find", "enroll", "pending", "seek", "gate"}
        /\ FirstStage(o[1]) = "expire" => o[1] = "send"
        /\ FirstStage(o[1]) = "find" => o[1] = "verify"
        /\ FirstStage(o[1]) = "enroll" => o[1] = "enroll"
        /\ FirstStage(o[1]) = "pending" => o[1] = "confirm"
        /\ FirstStage(o[1]) = "seek" => o[1] = "recover"
        /\ FirstStage(o[1]) = "gate" => o[1] \in {"disable", "regenerate"}
    BY OpParts DEF FirstStage, Stages, Kinds
  <2>4. /\ stage'[c] = FirstStage(o[1]) /\ op'[c] = o /\ typed'[c] = t /\ before'[c] = Len(backups)
        /\ stage' \in [Clients -> Stages] /\ op' \in [Clients -> Ops \cup {Idle}]
        /\ typed' \in [Clients -> Nat] /\ found' \in [Clients -> Nat]
        /\ before' \in [Clients -> Nat] /\ requests' \in Nat
    BY <1>1, <2>1, <2>2, <2>3
  <2>5. StageFits(c)'
    BY <1>1, <2>1, <2>2, <2>3, <2>4 DEF StageFits, Checking
  <2>6. crowd' \in [Groups -> Nat]
    <3>1. ASSUME NEW g \in Groups
          PROVE  Cardinality({d \in Clients :
                   g \in GroupOf(IF d = c THEN o ELSE op[d]) /\ (d = c \/ Busy(d))}) \in Nat
      <4>1. {d \in Clients : g \in GroupOf(IF d = c THEN o ELSE op[d]) /\ (d = c \/ Busy(d))}
              \in SUBSET Clients
        OBVIOUS
      <4>2. QED
        BY <4>1, CodesFit, FS_Subset, FS_CardinalityType
    <3>2. QED
      BY <1>1, <1>16, <3>1 DEF Submit
  <2>7. QED
    BY <2>4, <2>5, <2>6
<1>17. QED
  BY <1>1, <1>2, <1>5, <1>6, <1>7, <1>8, <1>9, <1>10, <1>11, <1>12, <1>13, <1>14, <1>15, <1>16
     DEF Step, Work

\* Only a request about the set puts an end to codes: those it found.
LEMMA ReplacedSteps ==
  ASSUME NEW c \in Clients, Step(c)
  PROVE  \/ replaced' = replaced
         \/ (Wipe(c) \/ Generate(c)) /\ replaced' = replaced \cup 1..before[c]
<1>1. CASE Wipe(c) \/ Generate(c)
  BY <1>1 DEF Wipe, Generate
<1>2. ASSUME \/ Expire(c) \/ Insert(c) \/ Find(c) \/ Refuse(c) \/ Consume(c) \/ Enroll(c)
             \/ Upsert(c) \/ ReadPending(c) \/ Enable(c) \/ Gate(c) \/ Disable(c) \/ Seek(c)
             \/ Mark(c) \/ Breaks(c) \/ \E o \in Ops : \E t \in Codes(o) : Submit(c, o, t)
      PROVE  replaced' = replaced
  BY <1>2 DEF Expire, Insert, Find, Refuse, Consume, Enroll, Upsert, ReadPending, Enable,
     Gate, Disable, Seek, Mark, Breaks, Submit
<1>3. QED
  BY <1>1, <1>2 DEF Step, Work

LEMMA ShapeStep ==
  ASSUME TypeOK, Shape, NEW c \in Clients, Step(c)
  PROVE  TypeOK' /\ Shape'
<1>1. /\ Others(c) /\ ChallengesLast /\ BackupsLast /\ StageFits(c)'
      /\ stage' \in [Clients -> Stages] /\ op' \in [Clients -> Ops \cup {Idle}]
      /\ typed' \in [Clients -> Nat] /\ found' \in [Clients -> Nat]
      /\ before' \in [Clients -> Nat] /\ requests' \in Nat /\ crowd' \in [Groups -> Nat]
  BY OthersStay, ChallengeSteps, BackupSteps, OwnStage
<1>2. factors' \in [Factors -> Factor]
  BY FactorSteps DEF TypeOK
<1>3. replaced' \subseteq Nat
  <2>1. replaced' = replaced \/ replaced' = replaced \cup 1..before[c]
    BY ReplacedSteps
  <2>2. before[c] \in Nat /\ 1..before[c] \subseteq Nat
    BY DEF TypeOK
  <2>3. QED
    BY <2>1, <2>2 DEF TypeOK
<1>4. TypeOK'
  BY <1>1, <1>2, <1>3 DEF TypeOK, ChallengesLast, BackupsLast
<1>5. ASSUME NEW d \in Clients \ {c} PROVE StageFits(d)'
  <2>1. /\ StageFits(d) /\ before[d] \in Nat /\ Len(backups) \in Nat /\ Len(backups') \in Nat
        /\ Len(challenges) \in Nat /\ Len(challenges') \in Nat
        /\ Len(backups) <= Len(backups') /\ Len(challenges) <= Len(challenges')
    BY <1>1 DEF TypeOK, Shape, ChallengesLast, BackupsLast
  <2>2. /\ before[d] <= Len(backups') /\ 0..Len(backups) \subseteq 0..Len(backups')
        /\ 1..Len(challenges) \subseteq 1..Len(challenges')
    BY <2>1 DEF StageFits
  <2>3. QED
    BY <1>1, <2>1, <2>2 DEF Others, StageFits
<1>6. QED
  BY <1>1, <1>4, <1>5 DEF Shape

LEMMA NextCases ==
  [Next]_vars <=> \/ UNCHANGED vars
                  \/ \E c \in Clients : Step(c)
                  \/ \E n \in 1..Len(challenges) : RunsOut(n)
BY DEF Next, Step

\* Time and stuttering touch no request.
Still == UNCHANGED <<factors, backups, stage, op, typed, found, requests, crowd, before, replaced>>

LEMMA QuietSteps ==
  ASSUME TypeOK, UNCHANGED vars \/ \E n \in 1..Len(challenges) : RunsOut(n)
  PROVE  /\ Still /\ ChallengesLast /\ Len(challenges') = Len(challenges)
         /\ \A n \in 1..Len(challenges) : Uncounted(n)
<1>1. CASE UNCHANGED vars
  BY <1>1 DEF vars, data, Still, ChallengesLast, Uncounted, TypeOK
<1>2. ASSUME NEW n \in 1..Len(challenges), RunsOut(n)
      PROVE  /\ Still /\ ChallengesLast /\ Len(challenges') = Len(challenges)
             /\ \A m \in 1..Len(challenges) : Uncounted(m)
  <2>1. Still
    BY <1>2 DEF RunsOut, Still
  <2>2. QED
    BY <1>2, <2>1, RanOut DEF ChallengesLast, Uncounted, TypeOK
<1>3. QED
  BY <1>1, <1>2

LEMMA InitTypes == Init => TypeOK /\ Shape
<1> SUFFICES ASSUME Init PROVE TypeOK /\ Shape
  OBVIOUS
<1>1. challenges \in Seq(Challenge) /\ backups \in Seq(Backup) /\ Len(backups) = 0
  BY DEF Init
<1>2. factors \in [Factors -> Factor]
  BY DEF Init, Factor
<1>3. /\ stage \in [Clients -> Stages] /\ op \in [Clients -> Ops \cup {Idle}]
      /\ typed \in [Clients -> Nat] /\ found \in [Clients -> Nat]
      /\ requests \in Nat /\ crowd \in [Groups -> Nat] /\ before \in [Clients -> Nat]
      /\ replaced \subseteq Nat
  BY DEF Init, Stages
<1>4. TypeOK
  BY <1>1, <1>2, <1>3 DEF TypeOK
<1>5. ASSUME NEW c \in Clients PROVE StageFits(c)
  <2>1. stage[c] = "idle" /\ op[c] = Idle /\ before[c] = 0
    BY DEF Init
  <2>2. QED
    BY <1>1, <2>1 DEF StageFits, Checking
<1>6. QED
  BY <1>4, <1>5 DEF Shape

LEMMA TypeInductive == TypeOK /\ Shape /\ [Next]_vars => (TypeOK /\ Shape)'
<1> SUFFICES ASSUME TypeOK, Shape, [Next]_vars PROVE TypeOK' /\ Shape'
  OBVIOUS
<1>1. CASE UNCHANGED vars \/ \E n \in 1..Len(challenges) : RunsOut(n)
  <2>1. Still /\ ChallengesLast /\ Len(challenges') = Len(challenges)
    BY <1>1, QuietSteps
  <2>2. TypeOK'
    BY <2>1 DEF Still, ChallengesLast, TypeOK
  <2>3. Shape'
    BY <2>1 DEF Still, Shape, StageFits
  <2>4. QED
    BY <2>2, <2>3
<1>2. QED
  BY <1>1, ShapeStep, NextCases

\* TypeOK: the tables keep their form and every request works on rows that exist.
THEOREM CodesTypeCorrect == Spec => [](TypeOK /\ Shape)
<1>1. QED
  BY InitTypes, TypeInductive, PTL DEF Spec

-----------------------------------------------------------------------------
(* Requests that overlap.                                                  *)

InGroup(g) == {c \in Clients : g \in GroupOf(op[c])}

\* crowd has seen every overlap.
Crowded == \A g \in Groups : Cardinality(InGroup(g)) <= crowd[g]

LEMMA FiniteParts ==
  ASSUME NEW S \in SUBSET Clients
  PROVE  IsFiniteSet(S) /\ Cardinality(S) \in Nat
BY CodesFit, FS_Subset, FS_CardinalityType

LEMMA NoGroup == GroupOf(Idle) = {}
BY DEF GroupOf, Groups, Idle

LEMMA CrowdStep ==
  ASSUME TypeOK, Shape, Crowded, NEW c \in Clients, Step(c)
  PROVE  Crowded' /\ \A g \in Groups : crowd[g] \in Nat /\ crowd'[g] \in Nat /\ crowd[g] <= crowd'[g]
<1>1. Others(c) /\ \A g \in Groups : crowd[g] \in Nat /\ crowd'[g] \in Nat
  BY OthersStay, OwnStage DEF TypeOK
<1>2. \A g : InGroup(g) \in SUBSET Clients /\ InGroup(g)' \in SUBSET Clients
  BY DEF InGroup
<1>3. CASE Work(c) \/ Breaks(c)
  <2>1. crowd' = crowd /\ (op'[c] = op[c] \/ op'[c] = Idle)
    <3>1. ASSUME NEW s, Goto(c, s) PROVE crowd' = crowd /\ op'[c] = op[c]
      BY <3>1 DEF Goto
    <3>2. ASSUME Finish(c) PROVE crowd' = crowd /\ op'[c] = Idle
      BY <3>2, Ends
    <3>3. QED
      BY <1>3, <3>1, <3>2
         DEF Work, Expire, Insert, Find, Refuse, Consume, Enroll, Upsert, ReadPending, Enable, Gate,
             Disable, Wipe, Generate, Seek, Mark, Breaks
  <2>2. ASSUME NEW g \in Groups PROVE Cardinality(InGroup(g)') <= crowd'[g] /\ crowd[g] <= crowd'[g]
    <3>1. InGroup(g)' \in SUBSET InGroup(g)
      BY <1>1, <2>1, NoGroup DEF InGroup, Others
    <3>2. PICK x \in Nat, y \in Nat :
            x = Cardinality(InGroup(g)') /\ y = Cardinality(InGroup(g)) /\ x <= y
      BY <1>2, <3>1, FiniteParts, FS_Subset
    <3>3. y <= crowd[g]
      BY <3>2 DEF Crowded
    <3>4. QED
      BY <1>1, <2>1, <3>2, <3>3
  <2>3. QED
    BY <1>1, <2>2 DEF Crowded
<1>4. ASSUME NEW o \in Ops, NEW t \in Codes(o), Submit(c, o, t)
      PROVE  Crowded' /\ \A g \in Groups : crowd[g] <= crowd'[g]
  <2>1. op' = [op EXCEPT ![c] = o] /\ op'[c] = o /\ ~Busy(c)
    BY <1>4 DEF Submit, TypeOK
  <2>2. ASSUME NEW g \in Groups PROVE Cardinality(InGroup(g)') <= crowd'[g] /\ crowd[g] <= crowd'[g]
    <3>1. InGroup(g)' = {d \in Clients :
            g \in GroupOf(IF d = c THEN o ELSE op[d]) /\ (d = c \/ Busy(d))}
      BY <1>1, <2>1, NoGroup DEF InGroup, Others, Busy, Shape, StageFits
    <3>2. PICK x \in Nat : x = Cardinality(InGroup(g)')
      BY <1>2, FiniteParts
    <3>3. crowd'[g] = IF x > crowd[g] THEN x ELSE crowd[g]
      BY <1>4, <3>1, <3>2 DEF Submit
    <3>4. QED
      BY <1>1, <3>2, <3>3
  <2>3. QED
    BY <2>2 DEF Crowded
<1>5. QED
  BY <1>1, <1>3, <1>4 DEF Step

LEMMA GroupMembers ==
  ASSUME NEW o
  PROVE  /\ "checks" \in GroupOf(o) <=> o[1] = "verify" \/ (o[1] = "confirm" /\ o[2] \in Contacts)
         /\ "recoveries" \in GroupOf(o) <=> o[1] = "recover"
BY DEF GroupOf, Groups

LEMMA TogetherGrows ==
  ASSUME NEW g \in Groups, crowd[g] \in Nat, crowd'[g] \in Nat, crowd[g] <= crowd'[g]
  PROVE  /\ Together(g) \in Nat /\ Together(g)' \in Nat /\ Together(g) <= Together(g)'
         /\ 1 <= Together(g)' /\ crowd'[g] <= Together(g)'
BY DEF Together

\* Two sets of clients that differ in one at most.
LEMMA OneChange ==
  ASSUME NEW S \in SUBSET Clients, NEW T \in SUBSET Clients, NEW c \in Clients,
         \A d \in Clients \ {c} : d \in T <=> d \in S
  PROVE  /\ Cardinality(S) \in Nat /\ Cardinality(T) \in Nat
         /\ (c \in T => c \in S) => Cardinality(T) <= Cardinality(S)
         /\ c \in S /\ c \notin T => Cardinality(T) = Cardinality(S) - 1
<1>1. IsFiniteSet(S) /\ Cardinality(S) \in Nat /\ Cardinality(T) \in Nat
  BY FiniteParts
<1>2. ASSUME c \in T => c \in S PROVE Cardinality(T) <= Cardinality(S)
  <2>1. T \in SUBSET S
    BY <1>2
  <2>2. QED
    BY <1>1, <2>1, FS_Subset
<1>3. ASSUME c \in S, c \notin T PROVE Cardinality(T) = Cardinality(S) - 1
  <2>1. T = S \ {c}
    BY <1>3
  <2>2. QED
    BY <1>1, <1>3, <2>1, FS_RemoveElement
<1>4. QED
  BY <1>1, <1>2, <1>3

\* The requests at one await that have read row n.
AtRow(s, n) == {c \in Clients : stage[c] = s /\ found[c] = n}

\* A request comes to a row by reading it: PENDING, and below the limit if the
\* code is wrong.
LEMMA Joins ==
  ASSUME TypeOK, Shape, NEW c \in Clients, Step(c), NEW s \in {"consume", "mismatch"},
         stage'[c] = s
  PROVE  /\ stage[c] = "find" /\ challenges' = challenges
         /\ found'[c] \in 1..Len(challenges)
         /\ challenges[found'[c]].status = "PENDING"
         /\ s = "mismatch" => ~(challenges[found'[c]].attempts >= MaxAttempts)
<1>1. ~Finish(c)
  BY Ends
<1>2. ASSUME NEW x, x \notin {"consume", "mismatch"}, Goto(c, x) PROVE FALSE
  BY <1>2 DEF Goto, TypeOK
<1>3. ASSUME NEW o \in Ops, NEW t \in Codes(o), Submit(c, o, t) PROVE FALSE
  <2>1. stage'[c] = FirstStage(o[1])
    BY <1>3 DEF Submit, TypeOK
  <2>2. QED
    BY <2>1 DEF FirstStage
<1>4. ~Expire(c) /\ ~Insert(c) /\ ~Refuse(c)
  BY <1>1, <1>2 DEF Expire, Insert, Refuse
<1>5. ~Consume(c) /\ ~Enroll(c) /\ ~Upsert(c)
  BY <1>1, <1>2 DEF Consume, Enroll, Upsert
<1>6. ~ReadPending(c)
  BY <1>1, <1>2 DEF ReadPending
<1>7. ~Enable(c) /\ ~Gate(c) /\ ~Disable(c)
  BY <1>1, <1>2 DEF Enable, Gate, Disable
<1>8. ~Wipe(c) /\ ~Generate(c) /\ ~Seek(c) /\ ~Mark(c) /\ ~Breaks(c)
  BY <1>1, <1>2 DEF Wipe, Generate, Seek, Mark, Breaks
<1>9. Find(c)
  BY <1>3, <1>4, <1>5, <1>6, <1>7, <1>8 DEF Step, Work
<1>10. PICK n \in Candidates(c) :
         found' = [found EXCEPT ![c] = n] /\ Goto(c, Verdict(challenges[n], n = typed[c]))
  BY <1>1, <1>9 DEF Find
<1>11. n \in 1..Len(challenges) /\ challenges[n].status = "PENDING" /\ challenges[n] \in Challenge
  BY FoundPending, ElementInRange DEF TypeOK
<1>12. found'[c] = n /\ s = Verdict(challenges[n], n = typed[c])
  BY <1>10 DEF TypeOK, Goto
<1>13. s = "mismatch" => ~(challenges[n].attempts >= MaxAttempts)
  <2>1. (n = typed[c]) \in BOOLEAN
    OBVIOUS
  <2>2. QED
    BY <1>11, <1>12, <2>1, Verdicts
<1>14. QED
  BY <1>9, <1>11, <1>12, <1>13 DEF Find, data

\* How the requests at a row change.
LEMMA RowCounts ==
  ASSUME TypeOK, Shape, Crowded, NEW c \in Clients, Step(c), NEW s \in {"consume", "mismatch"}, NEW n
  PROVE  /\ Cardinality(AtRow(s, n)) \in Nat /\ Cardinality(AtRow(s, n)') \in Nat
         /\ ~(stage'[c] = s /\ found'[c] = n) => Cardinality(AtRow(s, n)') <= Cardinality(AtRow(s, n))
         /\ stage[c] = s /\ found[c] = n =>
              Cardinality(AtRow(s, n)') = Cardinality(AtRow(s, n)) - 1
         /\ Cardinality(AtRow(s, n)') <= crowd'["checks"]
         /\ Cardinality(AtRow(s, n)) <= crowd["checks"]
<1>1. Others(c) /\ TypeOK' /\ Shape' /\ Crowded'
  BY OthersStay, ShapeStep, CrowdStep
<1>2. AtRow(s, n) \in SUBSET Clients /\ AtRow(s, n)' \in SUBSET Clients
  BY DEF AtRow
<1>3. \A d \in Clients \ {c} : d \in AtRow(s, n)' <=> d \in AtRow(s, n)
  BY <1>1 DEF AtRow, Others
<1>4. ~(stage'[c] = s /\ found'[c] = n) => c \notin AtRow(s, n)'
  BY DEF AtRow
<1>5. stage[c] = s /\ found[c] = n => c \in AtRow(s, n) /\ c \notin AtRow(s, n)'
  BY Joins DEF AtRow
<1>6. Cardinality(AtRow(s, n)) <= crowd["checks"]
  <2>1. AtRow(s, n) \in SUBSET InGroup("checks") /\ InGroup("checks") \in SUBSET Clients
    BY GroupMembers DEF AtRow, InGroup, Shape, StageFits, Checking
  <2>2. PICK x \in Nat, y \in Nat :
          x = Cardinality(AtRow(s, n)) /\ y = Cardinality(InGroup("checks")) /\ x <= y
    BY <1>2, <2>1, FiniteParts, FS_Subset
  <2>3. y <= crowd["checks"] /\ crowd["checks"] \in Nat
    BY <2>2 DEF Crowded, Groups, TypeOK
  <2>4. QED
    BY <2>2, <2>3
<1>7. Cardinality(AtRow(s, n)') <= crowd'["checks"]
  <2>1. AtRow(s, n)' \in SUBSET (InGroup("checks")') /\ InGroup("checks")' \in SUBSET Clients
    BY <1>1, GroupMembers DEF AtRow, InGroup, Shape, StageFits, Checking
  <2>2. PICK x \in Nat, y \in Nat :
          x = Cardinality(AtRow(s, n)') /\ y = Cardinality(InGroup("checks")') /\ x <= y
    BY <1>2, <2>1, FiniteParts, FS_Subset
  <2>3. y <= crowd'["checks"] /\ crowd'["checks"] \in Nat
    BY <1>1, <2>2 DEF Crowded, Groups, TypeOK
  <2>4. QED
    BY <2>2, <2>3
<1>8. QED
  BY <1>2, <1>3, <1>4, <1>5, <1>6, <1>7, OneChange

-----------------------------------------------------------------------------
(* Codes and links.  Once a code is used its row is no longer PENDING, so   *)
(* only those checks can use it again that had read the row before.        *)

UseFits(n) ==
  challenges[n].uses > 0 =>
    /\ challenges[n].status # "PENDING"
    /\ challenges[n].uses + Cardinality(AtRow("consume", n)) <= Together("checks")

\* Wrong codes are counted, and a check that reads the full count counts no more.
MissFits(n) ==
  /\ challenges[n].wrong = challenges[n].attempts
  /\ challenges[n].wrong >= MaxAttempts =>
       challenges[n].wrong + Cardinality(AtRow("mismatch", n))
         <= MaxAttempts - 1 + Together("checks")

CheckInv == \A n \in 1..Len(challenges) : UseFits(n) /\ MissFits(n)

LEMMA ChallengeRow ==
  ASSUME TypeOK, NEW n \in 1..Len(challenges)
  PROVE  /\ challenges[n].uses \in Nat /\ challenges[n].wrong \in Nat
         /\ challenges[n].attempts \in Nat
<1>1. challenges[n] \in Challenge
  BY ElementInRange DEF TypeOK
<1>2. QED
  BY <1>1 DEF Challenge

LEMMA UseStep ==
  ASSUME TypeOK, Shape, Crowded, CheckInv, NEW c \in Clients, Step(c), NEW n \in 1..Len(challenges)
  PROVE  UseFits(n)'
<1>1. PICK uses \in Nat, p \in Nat, q \in Nat, k \in Nat, k1 \in Nat, x1 \in Nat :
        /\ uses = challenges[n].uses
        /\ p = Cardinality(AtRow("consume", n)) /\ q = Cardinality(AtRow("consume", n)')
        /\ k = Together("checks") /\ k1 = Together("checks")' /\ k <= k1 /\ 1 <= k1
        /\ x1 = crowd["checks"] /\ x1 <= k1
  <2>1. "checks" \in Groups
    BY DEF Groups
  <2>2. crowd["checks"] \in Nat /\ crowd'["checks"] \in Nat /\ crowd["checks"] <= crowd'["checks"]
    BY <2>1, CrowdStep
  <2>3. /\ Together("checks") \in Nat /\ Together("checks")' \in Nat
        /\ Together("checks") <= Together("checks")'
        /\ 1 <= Together("checks")' /\ crowd'["checks"] <= Together("checks")'
    BY <2>1, <2>2, TogetherGrows
  <2>4. crowd["checks"] <= Together("checks")'
    BY <2>2, <2>3
  <2>5. challenges[n].uses \in Nat
    BY ChallengeRow
  <2>6. Cardinality(AtRow("consume", n)) \in Nat /\ Cardinality(AtRow("consume", n)') \in Nat
    BY RowCounts
  <2>7. QED
    BY <2>2, <2>3, <2>4, <2>5, <2>6
<1>2. uses > 0 => challenges[n].status # "PENDING" /\ uses + p <= k
  BY <1>1 DEF CheckInv, UseFits
<1>3. p <= x1
  BY <1>1, RowCounts
<1>4. CASE Consume(c) /\ found[c] = n
  <2>1. /\ challenges'[n].uses = uses + 1 /\ challenges'[n].status = "VERIFIED"
    BY <1>1, <1>4, Consumed
  <2>2. stage[c] = "consume"
    BY <1>4 DEF Consume
  <2>3. q = p - 1
    BY <1>1, <1>4, <2>2, RowCounts
  <2>4. uses + 1 + q <= k1
    BY <1>1, <1>2, <1>3, <2>3
  <2>5. QED
    BY <1>1, <2>1, <2>4 DEF UseFits
<1>5. CASE ~(Consume(c) /\ found[c] = n)
  <2>1. /\ challenges'[n].uses = challenges[n].uses
        /\ challenges'[n].status = "PENDING" => challenges[n].status = "PENDING"
    <3>1. CASE challenges' = challenges
      BY <3>1
    <3>2. CASE Expire(c)
      BY <3>2, Expired DEF Uncounted
    <3>3. CASE Insert(c)
      BY <3>3, Inserted DEF Uncounted
    <3>4. CASE Refuse(c)
      BY <3>4, Refused DEF Uncounted
    <3>5. CASE Consume(c)
      BY <1>5, <3>5, Consumed DEF Uncounted
    <3>6. QED
      BY <3>1, <3>2, <3>3, <3>4, <3>5, ChallengeSteps
  <2>2. ASSUME uses > 0 PROVE challenges'[n].status # "PENDING" /\ uses + q <= k1
    <3>1. challenges[n].status # "PENDING"
      BY <1>2, <2>2
    <3>2. ~(stage'[c] = "consume" /\ found'[c] = n)
      BY <3>1, Joins
    <3>3. q <= p
      BY <1>1, <3>2, RowCounts
    <3>4. QED
      BY <1>1, <1>2, <2>1, <2>2, <3>1, <3>3
  <2>3. QED
    BY <1>1, <2>1, <2>2 DEF UseFits
<1>6. QED
  BY <1>4, <1>5

LEMMA MissStep ==
  ASSUME TypeOK, Shape, Crowded, CheckInv, NEW c \in Clients, Step(c), NEW n \in 1..Len(challenges)
  PROVE  MissFits(n)'
<1>1. PICK wrong \in Nat, p \in Nat, q \in Nat, k \in Nat, k1 \in Nat, x1 \in Nat :
        /\ wrong = challenges[n].wrong
        /\ p = Cardinality(AtRow("mismatch", n)) /\ q = Cardinality(AtRow("mismatch", n)')
        /\ k = Together("checks") /\ k1 = Together("checks")' /\ k <= k1 /\ 1 <= k1
        /\ x1 = crowd["checks"] /\ x1 <= k1
  <2>1. "checks" \in Groups
    BY DEF Groups
  <2>2. crowd["checks"] \in Nat /\ crowd'["checks"] \in Nat /\ crowd["checks"] <= crowd'["checks"]
    BY <2>1, CrowdStep
  <2>3. /\ Together("checks") \in Nat /\ Together("checks")' \in Nat
        /\ Together("checks") <= Together("checks")'
        /\ 1 <= Together("checks")' /\ crowd'["checks"] <= Together("checks")'
    BY <2>1, <2>2, TogetherGrows
  <2>4. crowd["checks"] <= Together("checks")'
    BY <2>2, <2>3
  <2>5. challenges[n].wrong \in Nat
    BY ChallengeRow
  <2>6. Cardinality(AtRow("mismatch", n)) \in Nat /\ Cardinality(AtRow("mismatch", n)') \in Nat
    BY RowCounts
  <2>7. QED
    BY <2>2, <2>3, <2>4, <2>5, <2>6
<1>2. /\ challenges[n].attempts = wrong /\ MaxAttempts \in Nat
      /\ wrong >= MaxAttempts => wrong + p <= MaxAttempts - 1 + k
  BY <1>1, CodesFit DEF CheckInv, MissFits
<1>3. p <= x1
  BY <1>1, RowCounts
<1>4. CASE Refuse(c) /\ stage[c] = "mismatch" /\ found[c] = n
  <2>1. challenges'[n].wrong = wrong + 1 /\ challenges'[n].attempts = wrong + 1
    BY <1>1, <1>2, <1>4, Refused
  <2>2. q = p - 1
    BY <1>1, <1>4, RowCounts
  <2>3. wrong + 1 >= MaxAttempts => wrong + 1 + q <= MaxAttempts - 1 + k1
    <3>1. CASE wrong >= MaxAttempts
      BY <1>1, <1>2, <2>2, <3>1
    <3>2. CASE wrong < MaxAttempts
      <4>1. q = p - 1 /\ p <= k1
        BY <1>1, <1>3, <2>2
      <4>2. MaxAttempts \in Nat /\ wrong < MaxAttempts
        BY <1>2, <3>2
      <4>3. QED
        BY <4>1, <4>2
    <3>3. QED
      BY <1>2, <3>1, <3>2
  <2>4. QED
    BY <1>1, <2>1, <2>3 DEF MissFits
<1>5. CASE ~(Refuse(c) /\ stage[c] = "mismatch" /\ found[c] = n)
  <2>1. challenges'[n].wrong = wrong /\ challenges'[n].attempts = wrong
    <3>1. CASE challenges' = challenges
      BY <1>1, <1>2, <3>1
    <3>2. CASE Expire(c)
      BY <1>1, <1>2, <3>2, Expired DEF Uncounted
    <3>3. CASE Insert(c)
      BY <1>1, <1>2, <3>3, Inserted DEF Uncounted
    <3>4. CASE Refuse(c)
      BY <1>1, <1>2, <1>5, <3>4, Refused DEF Uncounted
    <3>5. CASE Consume(c)
      BY <1>1, <1>2, <3>5, Consumed DEF Uncounted
    <3>6. QED
      BY <3>1, <3>2, <3>3, <3>4, <3>5, ChallengeSteps
  <2>2. ASSUME wrong >= MaxAttempts PROVE wrong + q <= MaxAttempts - 1 + k1
    <3>1. ~(stage'[c] = "mismatch" /\ found'[c] = n)
      BY <1>2, <2>2, Joins
    <3>2. q <= p
      BY <1>1, <3>1, RowCounts
    <3>3. QED
      BY <1>1, <1>2, <2>2, <3>2
  <2>3. QED
    BY <1>1, <2>1, <2>2 DEF MissFits
<1>6. QED
  BY <1>4, <1>5

LEMMA CheckInductive ==
  TypeOK /\ Shape /\ Crowded /\ CheckInv /\ [Next]_vars => (Crowded /\ CheckInv)'
<1> SUFFICES ASSUME TypeOK, Shape, Crowded, CheckInv, [Next]_vars PROVE Crowded' /\ CheckInv'
  OBVIOUS
<1>1. CASE UNCHANGED vars \/ \E n \in 1..Len(challenges) : RunsOut(n)
  <2>1. /\ Still /\ Len(challenges') = Len(challenges)
        /\ \A n \in 1..Len(challenges) : Uncounted(n)
    BY <1>1, QuietSteps
  <2>2. \A s, n : AtRow(s, n)' = AtRow(s, n)
    BY <2>1 DEF Still, AtRow
  <2>3. Together("checks")' = Together("checks") /\ Crowded'
    BY <2>1 DEF Still, Together, Crowded, InGroup
  <2>4. ASSUME NEW n \in 1..Len(challenges) PROVE UseFits(n)' /\ MissFits(n)'
    BY <2>1, <2>2, <2>3 DEF UseFits, MissFits, CheckInv, Uncounted
  <2>5. QED
    BY <2>1, <2>3, <2>4 DEF CheckInv
<1>2. ASSUME NEW c \in Clients, Step(c) PROVE Crowded' /\ CheckInv'
  <2>1. Crowded'
    BY <1>2, CrowdStep
  <2>2. \A n \in 1..Len(challenges) : UseFits(n)' /\ MissFits(n)'
    BY <1>2, UseStep, MissStep
  <2>3. ASSUME NEW n \in 1..Len(challenges'), n \notin 1..Len(challenges)
        PROVE  UseFits(n)' /\ MissFits(n)'
    <3>1. challenges'[n].uses = 0 /\ challenges'[n].wrong = 0 /\ challenges'[n].attempts = 0
      BY <1>2, <2>3, ChallengeSteps, Expired, Inserted, Refused, Consumed
    <3>2. ~(0 >= MaxAttempts)
      BY CodesFit
    <3>3. QED
      BY <3>1, <3>2 DEF UseFits, MissFits
  <2>4. QED
    BY <2>1, <2>2, <2>3 DEF CheckInv
<1>3. QED
  BY <1>1, <1>2, NextCases

LEMMA InitChecks == Init => Crowded /\ CheckInv
<1> SUFFICES ASSUME Init PROVE Crowded /\ CheckInv
  OBVIOUS
<1>1. ASSUME NEW g \in Groups PROVE Cardinality(InGroup(g)) <= crowd[g]
  <2>1. InGroup(g) = {} /\ crowd[g] = 0
    BY NoGroup DEF Init, InGroup
  <2>2. QED
    BY <2>1, FS_EmptySet
<1>2. Len(challenges) = 0
  BY DEF Init
<1>3. QED
  BY <1>1, <1>2 DEF Crowded, CheckInv

\* WrongCodesAreLimited (checkAndConsume, verifyCode): otp.max_attempts holds up
\* to the checks that overlap.
THEOREM WrongCodesEnd == Spec => []WrongCodesAreLimited
<1>1. TypeOK /\ CheckInv => WrongCodesAreLimited
  <2> SUFFICES ASSUME TypeOK, CheckInv, NEW n \in 1..Len(challenges)
               PROVE  challenges[n].wrong <= MaxAttempts + Together("checks") - 1
    BY DEF WrongCodesAreLimited
  <2>1. crowd["checks"] \in Nat
    BY DEF TypeOK, Groups
  <2>2. PICK wrong \in Nat, k \in Nat : wrong = challenges[n].wrong /\ k = Together("checks") /\ k >= 1
    BY <2>1, ChallengeRow DEF Together
  <2>3. AtRow("mismatch", n) \in SUBSET Clients
    BY DEF AtRow
  <2>4. PICK p \in Nat : p = Cardinality(AtRow("mismatch", n))
    BY <2>3, FiniteParts
  <2>5. wrong >= MaxAttempts => wrong + p <= MaxAttempts - 1 + k
    BY <2>2, <2>4 DEF CheckInv, MissFits
  <2>6. MaxAttempts \in Nat
    BY CodesFit
  <2>7. wrong <= MaxAttempts + k - 1
    BY <2>2, <2>4, <2>5, <2>6
  <2>8. QED
    BY <2>2, <2>7
<1>2. QED
  BY <1>1, CodesTypeCorrect, InitChecks, CheckInductive, PTL DEF Spec

-----------------------------------------------------------------------------
(* Backup codes.  A used one is not unused again, and only those recoveries *)
(* can use it again that had read it before.                               *)

Marking(b) == {c \in Clients : stage[c] = "mark" /\ typed[c] = b}

MarkFits(b) ==
  backups[b].uses > 0 =>
    /\ backups[b].status # "unused"
    /\ backups[b].uses + Cardinality(Marking(b)) <= Together("recoveries")

MarkInv == \A b \in 1..Len(backups) : MarkFits(b)

\* A recovery comes to a code by finding it unused.
LEMMA MarkJoins ==
  ASSUME TypeOK, Shape, NEW c \in Clients, Step(c), stage'[c] = "mark"
  PROVE  stage[c] = "seek" /\ backups[typed'[c]].status = "unused"
<1>1. ~Finish(c)
  BY Ends
<1>2. ASSUME NEW x, x # "mark", Goto(c, x) PROVE FALSE
  BY <1>2 DEF Goto, TypeOK
<1>3. ASSUME NEW o \in Ops, NEW t \in Codes(o), Submit(c, o, t) PROVE FALSE
  <2>1. stage'[c] = FirstStage(o[1])
    BY <1>3 DEF Submit, TypeOK
  <2>2. QED
    BY <2>1 DEF FirstStage
<1>4. ~Expire(c) /\ ~Insert(c) /\ ~Refuse(c) /\ ~Consume(c) /\ ~Enroll(c) /\ ~Upsert(c)
  BY <1>1, <1>2 DEF Expire, Insert, Refuse, Consume, Enroll, Upsert
<1>5. ~ReadPending(c)
  BY <1>1, <1>2 DEF ReadPending
<1>6. ~Find(c)
  <2> SUFFICES ASSUME Find(c) PROVE FALSE
    OBVIOUS
  <2>1. PICK n \in Candidates(c) : Goto(c, Verdict(challenges[n], n = typed[c]))
    BY <1>1 DEF Find
  <2>2. challenges[n] \in Challenge /\ (n = typed[c]) \in BOOLEAN
    BY FoundPending, ElementInRange DEF TypeOK
  <2>3. Verdict(challenges[n], n = typed[c]) # "mark"
    BY <2>2, Verdicts
  <2>4. QED
    BY <1>2, <2>1, <2>3
<1>7. ~Enable(c) /\ ~Gate(c) /\ ~Disable(c) /\ ~Wipe(c) /\ ~Generate(c) /\ ~Mark(c) /\ ~Breaks(c)
  BY <1>1, <1>2 DEF Enable, Gate, Disable, Wipe, Generate, Mark, Breaks
<1>8. Seek(c)
  BY <1>3, <1>4, <1>5, <1>6, <1>7 DEF Step, Work
<1>9. QED
  BY <1>1, <1>8 DEF Seek, Goto

LEMMA MarkStep ==
  ASSUME TypeOK, Shape, Crowded, MarkInv, NEW c \in Clients, Step(c), NEW b \in 1..Len(backups)
  PROVE  MarkFits(b)'
<1>1. Others(c) /\ backups \in Seq(Backup)
  BY OthersStay DEF TypeOK
<1>2. /\ Marking(b) \in SUBSET Clients /\ Marking(b)' \in SUBSET Clients
      /\ \A d \in Clients \ {c} : d \in Marking(b)' <=> d \in Marking(b)
  BY <1>1 DEF Marking, Others
<1>3. PICK uses \in Nat, p \in Nat, q \in Nat, k \in Nat, k1 \in Nat :
        /\ uses = backups[b].uses
        /\ p = Cardinality(Marking(b)) /\ q = Cardinality(Marking(b)')
        /\ k = Together("recoveries") /\ k1 = Together("recoveries")' /\ k <= k1 /\ 1 <= k1
        /\ p <= k1
  <2>1. "recoveries" \in Groups
    BY DEF Groups
  <2>2. /\ crowd["recoveries"] \in Nat /\ crowd'["recoveries"] \in Nat
        /\ crowd["recoveries"] <= crowd'["recoveries"]
    BY <2>1, CrowdStep
  <2>3. /\ Together("recoveries") \in Nat /\ Together("recoveries")' \in Nat
        /\ Together("recoveries") <= Together("recoveries")'
        /\ 1 <= Together("recoveries")' /\ crowd'["recoveries"] <= Together("recoveries")'
    BY <2>1, <2>2, TogetherGrows
  <2>4. backups[b] \in Backup
    BY <1>1, ElementInRange
  <2>5. backups[b].uses \in Nat
    BY <2>4 DEF Backup
  <2>6. Marking(b) \in SUBSET InGroup("recoveries") /\ InGroup("recoveries") \in SUBSET Clients
    BY GroupMembers DEF Marking, InGroup, Shape, StageFits
  <2>7. PICK x \in Nat, y \in Nat :
          x = Cardinality(Marking(b)) /\ y = Cardinality(InGroup("recoveries")) /\ x <= y
    BY <1>2, <2>6, FiniteParts, FS_Subset
  <2>8. y <= crowd["recoveries"]
    BY <2>1, <2>7 DEF Crowded
  <2>9. x <= Together("recoveries")'
    BY <2>2, <2>3, <2>7, <2>8
  <2>10. Cardinality(Marking(b)') \in Nat
    BY <1>2, FiniteParts
  <2>11. QED
    BY <2>3, <2>5, <2>7, <2>9, <2>10
<1>4. uses > 0 => backups[b].status # "unused" /\ uses + p <= k
  BY <1>3 DEF MarkInv, MarkFits
<1>5. CASE Mark(c) /\ typed[c] = b /\ backups' # backups
  <2>1. backups'[b].uses = uses + 1 /\ backups'[b].status = "used"
    BY <1>3, <1>5, Marked
  <2>2. c \in Marking(b)
    BY <1>5 DEF Mark, Marking
  <2>3. c \notin Marking(b)'
    BY <1>5, Ends DEF Mark, Marking
  <2>4. q = p - 1
    BY <1>2, <1>3, <2>2, <2>3, OneChange
  <2>5. uses + 1 + q <= k1
    <3>1. uses + p <= k1
      BY <1>3, <1>4
    <3>2. QED
      BY <2>4, <3>1
  <2>6. QED
    BY <1>3, <2>1, <2>5 DEF MarkFits
<1>6. CASE ~(Mark(c) /\ typed[c] = b /\ backups' # backups)
  <2>1. Unmarked(b)
    <3>1. CASE backups' = backups
      BY <3>1 DEF Unmarked
    <3>2. CASE Wipe(c)
      BY <3>2, Wiped
    <3>3. CASE Generate(c)
      BY <3>3, Generated DEF Unmarked
    <3>4. CASE Mark(c) /\ typed[c] # b
      BY <3>4, Marked DEF Unmarked
    <3>5. QED
      BY <1>6, <3>1, <3>2, <3>3, <3>4, BackupSteps
  <2>2. ASSUME uses > 0 PROVE backups'[b].status # "unused" /\ uses + q <= k1
    <3>1. backups[b].status # "unused"
      BY <1>4, <2>2
    <3>2. c \notin Marking(b)'
      BY <3>1, MarkJoins DEF Marking
    <3>3. q <= p
      BY <1>2, <1>3, <3>2, OneChange
    <3>4. QED
      BY <1>3, <1>4, <2>1, <2>2, <3>1, <3>3 DEF Unmarked
  <2>3. QED
    BY <1>3, <2>1, <2>2 DEF MarkFits, Unmarked
<1>7. QED
  BY <1>5, <1>6

LEMMA MarkInductive ==
  TypeOK /\ Shape /\ Crowded /\ MarkInv /\ [Next]_vars => MarkInv'
<1> SUFFICES ASSUME TypeOK, Shape, Crowded, MarkInv, [Next]_vars PROVE MarkInv'
  OBVIOUS
<1>1. CASE UNCHANGED vars \/ \E n \in 1..Len(challenges) : RunsOut(n)
  <2>1. Still
    BY <1>1, QuietSteps
  <2>2. \A b : Marking(b)' = Marking(b)
    BY <2>1 DEF Still, Marking
  <2>3. Together("recoveries")' = Together("recoveries") /\ backups' = backups
    BY <2>1 DEF Still, Together
  <2>4. QED
    BY <2>2, <2>3 DEF MarkInv, MarkFits
<1>2. ASSUME NEW c \in Clients, Step(c) PROVE MarkInv'
  <2>1. \A b \in 1..Len(backups) : MarkFits(b)'
    BY <1>2, MarkStep
  <2>2. ASSUME NEW b \in 1..Len(backups'), b \notin 1..Len(backups) PROVE MarkFits(b)'
    <3>1. backups'[b].uses = 0
      BY <1>2, <2>2, BackupSteps, Wiped, Generated, Marked
    <3>2. QED
      BY <3>1 DEF MarkFits
  <2>3. QED
    BY <2>1, <2>2 DEF MarkInv
<1>3. QED
  BY <1>1, <1>2, NextCases

LEMMA InitMarks == Init => MarkInv
BY DEF Init, MarkInv

\* CodeIsUsedOnce (checkAndConsume, verifyCode, BackupCodeService.consume): a code,
\* a link and a backup code are accepted once, or by no more requests than overlap.
THEOREM CodesWorkOnce == Spec => []CodeIsUsedOnce
<1>1. TypeOK /\ CheckInv /\ MarkInv => CodeIsUsedOnce
  <2> SUFFICES ASSUME TypeOK, CheckInv, MarkInv PROVE CodeIsUsedOnce
    OBVIOUS
  <2>1. ASSUME NEW g \in Groups PROVE Together(g) \in Nat /\ Together(g) >= 0
    <3>1. crowd[g] \in Nat
      BY DEF TypeOK
    <3>2. QED
      BY <3>1 DEF Together
  <2>2. ASSUME NEW n \in 1..Len(challenges) PROVE challenges[n].uses <= Together("checks")
    <3>1. AtRow("consume", n) \in SUBSET Clients /\ "checks" \in Groups
      BY DEF AtRow, Groups
    <3>2. PICK uses \in Nat, p \in Nat, k \in Nat :
            /\ uses = challenges[n].uses /\ p = Cardinality(AtRow("consume", n))
            /\ k = Together("checks")
      BY <2>1, <3>1, ChallengeRow, FiniteParts
    <3>3. uses > 0 => uses + p <= k
      BY <3>2 DEF CheckInv, UseFits
    <3>4. uses <= k
      BY <3>3
    <3>5. QED
      BY <3>2, <3>4
  <2>3. ASSUME NEW b \in 1..Len(backups) PROVE backups[b].uses <= Together("recoveries")
    <3>1. Marking(b) \in SUBSET Clients /\ "recoveries" \in Groups /\ backups[b] \in Backup
      BY ElementInRange DEF Marking, Groups, TypeOK
    <3>2. backups[b].uses \in Nat
      BY <3>1 DEF Backup
    <3>3. PICK uses \in Nat, p \in Nat, k \in Nat :
            /\ uses = backups[b].uses /\ p = Cardinality(Marking(b))
            /\ k = Together("recoveries")
      BY <2>1, <3>1, <3>2, FiniteParts
    <3>4. uses > 0 => uses + p <= k
      BY <3>3 DEF MarkInv, MarkFits
    <3>5. uses <= k
      BY <3>4
    <3>6. QED
      BY <3>3, <3>5
  <2>4. QED
    BY <2>2, <2>3 DEF CodeIsUsedOnce
<1>2. QED
  BY <1>1, CodesTypeCorrect, InitChecks, CheckInductive, InitMarks, MarkInductive, PTL DEF Spec

-----------------------------------------------------------------------------
(* Replaced backup codes.  A code that is used or deleted stays so, and a   *)
(* request that is about to make a new set has deleted the old one.         *)

Dead(b) == b \in 1..Len(backups) /\ backups[b].status # "unused"

DeadInv ==
  /\ \A b \in replaced : Dead(b)
  /\ \A c \in Clients : stage[c] = "generate" => \A b \in 1..before[c] : Dead(b)

LEMMA DeadStays ==
  ASSUME TypeOK, Shape, NEW c \in Clients, Step(c), NEW b, Dead(b)
  PROVE  Dead(b)'
<1>1. /\ Len(backups) \in Nat /\ Len(backups') \in Nat /\ Len(backups) <= Len(backups')
      /\ \A k \in 1..Len(backups) : backups'[k].status = "unused" => backups[k].status = "unused"
  BY BackupSteps DEF BackupsLast, TypeOK
<1>2. QED
  BY <1>1 DEF Dead

\* A new set is made by a request that has just deleted the old one.
LEMMA GenerateJoins ==
  ASSUME TypeOK, Shape, NEW c \in Clients, Step(c), stage'[c] = "generate"
  PROVE  Wipe(c) /\ before'[c] = before[c]
<1>1. ~Finish(c)
  BY Ends
<1>2. ASSUME NEW x, x # "generate", Goto(c, x) PROVE FALSE
  BY <1>2 DEF Goto, TypeOK
<1>3. ASSUME NEW o \in Ops, NEW t \in Codes(o), Submit(c, o, t) PROVE FALSE
  <2>1. stage'[c] = FirstStage(o[1])
    BY <1>3 DEF Submit, TypeOK
  <2>2. QED
    BY <2>1 DEF FirstStage
<1>4. ~Expire(c) /\ ~Insert(c) /\ ~Refuse(c) /\ ~Consume(c) /\ ~Enroll(c) /\ ~Upsert(c)
  BY <1>1, <1>2 DEF Expire, Insert, Refuse, Consume, Enroll, Upsert
<1>5. ~ReadPending(c)
  BY <1>1, <1>2 DEF ReadPending
<1>6. ~Find(c)
  <2> SUFFICES ASSUME Find(c) PROVE FALSE
    OBVIOUS
  <2>1. PICK n \in Candidates(c) : Goto(c, Verdict(challenges[n], n = typed[c]))
    BY <1>1 DEF Find
  <2>2. challenges[n] \in Challenge /\ (n = typed[c]) \in BOOLEAN
    BY FoundPending, ElementInRange DEF TypeOK
  <2>3. Verdict(challenges[n], n = typed[c]) # "generate"
    BY <2>2, Verdicts
  <2>4. QED
    BY <1>2, <2>1, <2>3
<1>7. ~Enable(c) /\ ~Gate(c) /\ ~Disable(c) /\ ~Generate(c) /\ ~Seek(c) /\ ~Mark(c) /\ ~Breaks(c)
  BY <1>1, <1>2 DEF Enable, Gate, Disable, Generate, Seek, Mark, Breaks
<1>8. Wipe(c)
  BY <1>3, <1>4, <1>5, <1>6, <1>7 DEF Step, Work
<1>9. QED
  BY <1>1, <1>8 DEF Wipe, Goto

LEMMA DeadStep ==
  ASSUME TypeOK, Shape, DeadInv, NEW c \in Clients, Step(c)
  PROVE  DeadInv'
<1>1. \A b : Dead(b) => Dead(b)'
  BY DeadStays
<1>2. ASSUME Wipe(c), NEW b \in 1..before[c] PROVE Dead(b)'
  <2>1. before[c] \in Nat /\ Len(backups) \in Nat /\ before[c] <= Len(backups)
    BY DEF TypeOK, Shape, StageFits
  <2>2. b \in 1..Len(backups)
    BY <2>1
  <2>3. Len(backups') = Len(backups) /\ backups'[b].status # "unused"
    BY <1>2, <2>2, Wiped
  <2>4. QED
    BY <2>2, <2>3 DEF Dead
<1>3. ASSUME Generate(c), NEW b \in 1..before[c] PROVE Dead(b)'
  <2>1. stage[c] = "generate"
    BY <1>3 DEF Generate
  <2>2. QED
    BY <1>1, <2>1 DEF DeadInv
<1>4. ASSUME NEW b \in replaced' PROVE Dead(b)'
  <2>1. CASE b \in replaced
    BY <1>1, <2>1 DEF DeadInv
  <2>2. CASE b \in 1..before[c] /\ (Wipe(c) \/ Generate(c))
    BY <1>2, <1>3, <2>2
  <2>3. QED
    BY <1>4, <2>1, <2>2, ReplacedSteps
<1>5. ASSUME NEW d \in Clients, stage'[d] = "generate", NEW b \in 1..before'[d] PROVE Dead(b)'
  <2>1. CASE d = c
    BY <1>2, <1>5, <2>1, GenerateJoins
  <2>2. CASE d # c
    <3>1. stage[d] = "generate" /\ before'[d] = before[d]
      BY <1>5, <2>2, OthersStay DEF Others
    <3>2. Dead(b)
      BY <1>5, <3>1 DEF DeadInv
    <3>3. QED
      BY <1>1, <3>2
  <2>3. QED
    BY <2>1, <2>2
<1>6. QED
  BY <1>4, <1>5, Zenon DEF DeadInv

\* ReplacedCodesAreDead (invalidateAll, generateAndStore): a finished regeneration,
\* confirmation or disabling leaves none of the codes usable that it found.
THEOREM ReplacedCodesStayDead == Spec => []ReplacedCodesAreDead
<1>1. Init => DeadInv
  BY DEF Init, DeadInv
<1>2. TypeOK /\ Shape /\ DeadInv /\ [Next]_vars => DeadInv'
  <2> SUFFICES ASSUME TypeOK, Shape, DeadInv, [Next]_vars PROVE DeadInv'
    OBVIOUS
  <2>1. CASE UNCHANGED vars \/ \E n \in 1..Len(challenges) : RunsOut(n)
    <3>1. Still
      BY <2>1, QuietSteps
    <3>2. QED
      BY <3>1 DEF Still, DeadInv, Dead
  <2>2. QED
    BY <2>1, DeadStep, NextCases
<1>3. DeadInv => ReplacedCodesAreDead
  BY DEF DeadInv, Dead, ReplacedCodesAreDead
<1>4. QED
  BY <1>1, <1>2, <1>3, CodesTypeCorrect, PTL DEF Spec

-----------------------------------------------------------------------------
(* The TOTP secret.                                                         *)

\* Number n is a secret of the row, and lags behind the stored one by no more
\* enrolments than slipped in between.
Known(n) ==
  /\ n >= 1
  /\ factors["totp"].made - n \in 0..factors["totp"].slips

\* What is enabled has been proved, and so has what is about to be.
SecretInv ==
  /\ factors["totp"].enabled => Known(factors["totp"].proved)
  /\ \A c \in Enabling("totp") : Known(found[c])

\* A TOTP confirmation goes on to enable with the secret it has just read.
LEMMA EnableJoins ==
  ASSUME TypeOK, Shape, NEW c \in Clients, Step(c), stage'[c] = "enable", op'[c][2] = "totp"
  PROVE  /\ stage[c] = "pending" /\ factors' = factors
         /\ found'[c] = factors["totp"].made /\ factors["totp"].made > 0
<1>1. ~Finish(c)
  BY Ends
<1>2. ASSUME NEW x, x # "enable", Goto(c, x) PROVE FALSE
  BY <1>2 DEF Goto, TypeOK
<1>3. ASSUME NEW o \in Ops, NEW t \in Codes(o), Submit(c, o, t) PROVE FALSE
  <2>1. stage'[c] = FirstStage(o[1])
    BY <1>3 DEF Submit, TypeOK
  <2>2. QED
    BY <2>1 DEF FirstStage
<1>4. ~Expire(c) /\ ~Insert(c) /\ ~Refuse(c) /\ ~Enroll(c) /\ ~Upsert(c)
  BY <1>1, <1>2 DEF Expire, Insert, Refuse, Enroll, Upsert
<1>5. ~Consume(c)
  <2> SUFFICES ASSUME Consume(c) PROVE FALSE
    OBVIOUS
  <2>1. stage[c] = "consume" /\ op[c][1] = "confirm" /\ op' = op
    BY <1>1 DEF Consume, Goto
  <2>2. op[c][2] \in Contacts
    BY <2>1 DEF Shape, StageFits, Checking
  <2>3. QED
    BY <2>1, <2>2 DEF Contacts
<1>6. ~Find(c)
  <2> SUFFICES ASSUME Find(c) PROVE FALSE
    OBVIOUS
  <2>1. PICK n \in Candidates(c) : Goto(c, Verdict(challenges[n], n = typed[c]))
    BY <1>1 DEF Find
  <2>2. challenges[n] \in Challenge /\ (n = typed[c]) \in BOOLEAN
    BY FoundPending, ElementInRange DEF TypeOK
  <2>3. Verdict(challenges[n], n = typed[c]) # "enable"
    BY <2>2, Verdicts
  <2>4. QED
    BY <1>2, <2>1, <2>3
<1>7. ~Enable(c) /\ ~Gate(c) /\ ~Disable(c) /\ ~Wipe(c) /\ ~Generate(c) /\ ~Seek(c) /\ ~Mark(c)
      /\ ~Breaks(c)
  BY <1>1, <1>2 DEF Enable, Gate, Disable, Wipe, Generate, Seek, Mark, Breaks
<1>8. ReadPending(c)
  BY <1>3, <1>4, <1>5, <1>6, <1>7 DEF Step, Work
<1>9. op' = op /\ found' = [found EXCEPT ![c] = factors[op[c][2]].made]
  BY <1>1, <1>8 DEF ReadPending, Goto
<1>10. op[c][2] = "totp" /\ "totp" \in Factors
  BY <1>9 DEF Factors
<1>11. stage[c] = "pending" /\ factors' = factors /\ factors["totp"].made > 0
  BY <1>1, <1>8, <1>10 DEF ReadPending, data
<1>12. QED
  BY <1>9, <1>10, <1>11 DEF TypeOK

LEMMA SecretStep ==
  ASSUME TypeOK, Shape, SecretInv, NEW c \in Clients, Step(c)
  PROVE  SecretInv'
<1>0. /\ "totp" \in Factors /\ factors["totp"] \in Factor
      /\ factors["totp"].made \in Nat /\ factors["totp"].slips \in Nat
  BY DEF Factors, Factor, TypeOK
<1>1. ASSUME NEW d \in Clients, d # c, d \in Enabling("totp")'
      PROVE  d \in Enabling("totp") /\ found'[d] = found[d]
  BY <1>1, OthersStay DEF Others, Enabling
<1>2. CASE factors'["totp"] = factors["totp"]
  <2>1. ASSUME NEW d \in Enabling("totp")' PROVE Known(found[d])'
    <3>1. CASE d = c
      <4>1. found'[c] = factors["totp"].made /\ factors["totp"].made > 0
        BY <2>1, <3>1, EnableJoins DEF Enabling
      <4>2. QED
        BY <1>0, <1>2, <3>1, <4>1 DEF Known
    <3>2. CASE d # c
      <4>1. d \in Clients
        BY <2>1 DEF Enabling
      <4>2. Known(found[d]) /\ found'[d] = found[d]
        BY <1>1, <2>1, <3>2, <4>1 DEF SecretInv
      <4>3. QED
        BY <1>2, <4>2 DEF Known
    <3>3. QED
      BY <3>1, <3>2
  <2>2. factors'["totp"].enabled => Known(factors["totp"].proved)'
    BY <1>2 DEF SecretInv, Known
  <2>3. QED
    BY <2>1, <2>2 DEF SecretInv
<1>3. CASE /\ Upsert(c) \/ Enable(c) \/ Disable(c)
           /\ op[c][2] = "totp" /\ factors' # factors
  <2>1. c \notin Enabling("totp")'
    <3>1. stage[c] # "pending"
      BY <1>3 DEF Upsert, Enable, Disable
    <3>2. QED
      BY <3>1, EnableJoins DEF Enabling
  <2>2. ASSUME NEW d \in Enabling("totp")'
        PROVE  d \in Enabling("totp") /\ Known(found[d]) /\ found'[d] = found[d]
    <3>1. d \in Clients /\ d # c
      BY <2>1, <2>2 DEF Enabling
    <3>2. QED
      BY <1>1, <2>2, <3>1 DEF SecretInv
  <2>3. CASE Upsert(c)
    <3>1. /\ ~factors'["totp"].enabled
          /\ factors'["totp"].made = factors["totp"].made + 1
          /\ factors'["totp"].slips = factors["totp"].slips
               + (IF Enabling("totp") = {} THEN 0 ELSE 1)
      BY <1>3, <2>3, FactorSteps
    <3>2. ASSUME NEW d \in Enabling("totp")' PROVE Known(found[d])'
      <4>1. d \in Enabling("totp") /\ Known(found[d]) /\ found'[d] = found[d]
        BY <2>2, <3>2
      <4>2. factors'["totp"].slips = factors["totp"].slips + 1
        BY <3>1, <4>1
      <4>3. found[d] \in Nat
        BY <4>1 DEF Enabling, TypeOK
      <4>4. QED
        BY <1>0, <3>1, <4>1, <4>2, <4>3 DEF Known
    <3>3. QED
      BY <3>1, <3>2 DEF SecretInv
  <2>4. CASE Enable(c) \/ Disable(c)
    <3>1. /\ factors'["totp"].made = factors["totp"].made
          /\ factors'["totp"].slips = factors["totp"].slips
      BY <1>3, <2>4, FactorSteps
    <3>2. factors'["totp"].enabled => Known(factors["totp"].proved)'
      <4>1. CASE Enable(c)
        <5>1. factors'["totp"].proved = found[c]
          BY <1>3, <4>1, FactorSteps
        <5>2. c \in Enabling("totp")
          BY <1>3, <4>1 DEF Enable, Enabling
        <5>3. Known(found[c])
          BY <5>2 DEF SecretInv
        <5>4. QED
          BY <3>1, <5>1, <5>3 DEF Known
      <4>2. CASE Disable(c)
        BY <1>3, <4>2, FactorSteps
      <4>3. QED
        BY <2>4, <4>1, <4>2
    <3>3. ASSUME NEW d \in Enabling("totp")' PROVE Known(found[d])'
      BY <2>2, <3>1, <3>3 DEF Known
    <3>4. QED
      BY <3>2, <3>3 DEF SecretInv
  <2>5. QED
    BY <1>3, <2>3, <2>4
<1>4. QED
  BY <1>0, <1>2, <1>3, FactorSteps

\* SecretIsProved (enrollTotp, confirmTotp): however the requests overlap, TOTP is
\* enabled only after a code of one of its secrets was typed, and with the secret
\* stored now unless an enrolment came between the reading of that secret and the
\* enabling; the secret proved lags behind by no more than those enrolments.
THEOREM EnabledSecretIsProved == Spec => []SecretIsProved
<1>1. Init => SecretInv
  BY DEF Init, SecretInv, Enabling, Factors
<1>2. TypeOK /\ Shape /\ SecretInv /\ [Next]_vars => SecretInv'
  <2> SUFFICES ASSUME TypeOK, Shape, SecretInv, [Next]_vars PROVE SecretInv'
    OBVIOUS
  <2>1. CASE UNCHANGED vars \/ \E n \in 1..Len(challenges) : RunsOut(n)
    <3>1. Still
      BY <2>1, QuietSteps
    <3>2. QED
      BY <3>1 DEF Still, SecretInv, Known, Enabling
  <2>2. ASSUME NEW c \in Clients, Step(c) PROVE SecretInv'
    BY <2>2, SecretStep
  <2>3. QED
    BY <2>1, <2>2, NextCases
<1>3. SecretInv => SecretIsProved
  BY DEF SecretInv, Known, SecretIsProved
<1>4. QED
  BY <1>1, <1>2, <1>3, CodesTypeCorrect, PTL DEF Spec
=============================================================================
