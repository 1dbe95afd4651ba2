---------------------------- MODULE OneTimeCodes ----------------------------
(***************************************************************************)
(* What one customer may use once:                                         *)
(*   OtpService, TransferOtpService   mailed codes and links               *)
(*   BackupCodeService                recovery codes                       *)
(*   MfaService                       enrolment of the factors they secure *)
(* Every request is a chain of awaits that reads a row, decides, and then  *)
(* updates the row by its id; `stage` is the await a request has reached.  *)
(* A code is the number of its row, and a wrong code is 0.                 *)
(***************************************************************************)
EXTENDS Integers, Sequences, FiniteSets

CONSTANTS
  Clients,      \* requests under way at once, all of one customer
  MaxRequests,  \* bound: requests sent in all
  MaxAttempts,  \* otp.max_attempts
  SetSize       \* backupCodeCount

Links == {"reset"}                         \* found by the token itself
Sent == {"wire"} \cup Links                \* sent and checked as such
Contacts == {"sms", "email"}               \* factors confirmed with a code ...
Purposes == Sent \cup {"contact"}          \* ... of the one purpose they share
Factors == {"totp"} \cup Contacts          \* two_factor_credentials.method
Kinds == {"send", "verify", "enroll", "confirm", "disable", "regenerate", "recover"}
\* What a request is about: a purpose, a factor, or the TOTP factor's codes.
Ops == ({"send", "verify"} \X Sent) \cup ({"enroll", "confirm", "disable"} \X Factors)
         \cup ({"regenerate", "recover"} \X {"totp"})

ASSUME CodesFit ==
  /\ IsFiniteSet(Clients)
  /\ MaxRequests \in Nat
  /\ MaxAttempts \in Nat \ {0}
  /\ SetSize \in Nat \ {0}

VARIABLES
  challenges,  \* Seq of otp_challenges rows in the order of createdAt
  factors,     \* [Factors -> Factor], two_factor_credentials rows
  backups,     \* Seq of backup_codes rows; a deleted one keeps its place
  stage,       \* [Clients -> Stages]
  op,          \* [Clients -> Ops \cup {Idle}]
  typed,       \* [Clients -> Nat], the code the customer typed
  found,       \* [Clients -> Nat], the row or secret the request has read
  requests,    \* Nat, requests sent
  \* History, for the properties only.
  crowd,       \* [Groups -> Nat], the most requests of a group ever under way
  before,      \* [Clients -> Nat], backup codes that existed when its request was sent
  replaced     \* backup codes a finished request has put an end to

data == <<challenges, factors, backups>>
vars == <<data, stage, op, typed, found, requests, crowd, before, replaced>>

Idle == <<"none", "none">>
Challenge ==
  [purpose : Purposes, status : {"PENDING", "EXPIRED", "FAILED", "VERIFIED"},
   attempts : Nat, late : BOOLEAN, to : Sent \cup Contacts,
   uses : Nat, wrong : Nat]     \* history
\* made numbers the enrolments (0: no row); proved is the last one confirmed, 0 if
\* that was with a code sent to another factor; slips is history: enrolments that
\* hit a confirmation between its reading of the secret and its enabling.
Factor == [enabled : BOOLEAN, made : Nat, proved : Nat, slips : Nat]
Backup == [status : {"unused", "used", "deleted"}, uses : Nat]
Stages ==
  {"idle", "expire", "insert", "find", "overdue", "exhausted", "mismatch",
   "consume", "enroll", "upsert", "pending", "enable", "gate", "disable",
   "wipe", "generate", "seek", "mark"}

\* Requests whose overlap matters to each other.
Groups == {"checks", "recoveries"}
GroupOf(o) ==
  {g \in Groups :
     CASE g = "checks"     -> o[1] = "verify" \/ (o[1] = "confirm" /\ o[2] \in Contacts)
       [] g = "recoveries" -> o[1] = "recover"}
Together(g) == IF crowd[g] > 1 THEN crowd[g] ELSE 1

Busy(c) == stage[c] # "idle"
PurposeOf(o) == IF o[2] \in Contacts THEN "contact" ELSE o[2]
Pending(p) ==
  {n \in 1..Len(challenges) : challenges[n].purpose = p /\ challenges[n].status = "PENDING"}

Init ==
  /\ challenges = << >>
  /\ factors = [f \in Factors |-> [enabled |-> FALSE, made |-> 0, proved |-> 0, slips |-> 0]]
  /\ backups = << >>
  /\ stage = [c \in Clients |-> "idle"]
  /\ op = [c \in Clients |-> Idle]
  /\ typed = [c \in Clients |-> 0]
  /\ found = [c \in Clients |-> 0]
  /\ requests = 0
  /\ crowd = [g \in Groups |-> 0]
  /\ before = [c \in Clients |-> 0]
  /\ replaced = {}

-----------------------------------------------------------------------------
Goto(c, s) ==
  /\ stage' = [stage EXCEPT ![c] = s]
  /\ UNCHANGED <<op, typed, requests, crowd, before>>

Finish(c) ==
  /\ stage' = [stage EXCEPT ![c] = "idle"]
  /\ op' = [op EXCEPT ![c] = Idle]
  /\ typed' = [typed EXCEPT ![c] = 0]
  /\ found' = [found EXCEPT ![c] = 0]
  /\ before' = [before EXCEPT ![c] = 0]
  /\ UNCHANGED <<requests, crowd>>

FirstStage(kind) ==
  CASE kind = "send"    -> "expire"
    [] kind = "verify"  -> "find"
    [] kind = "enroll"  -> "enroll"
    [] kind = "confirm" -> "pending"
    [] kind = "recover" -> "seek"
    [] OTHER            -> "gate"

\* What a customer can type: a code that was sent or shown, or a wrong one.
Codes(o) ==
  CASE o[1] = "recover" -> 0..Len(backups)
    [] o[1] = "verify" \/ o[1] = "confirm" ->
         {0} \cup {n \in 1..Len(challenges) : challenges[n].purpose = PurposeOf(o)}
    [] OTHER -> {0}

Submit(c, o, t) ==
  /\ ~Busy(c)
  /\ requests < MaxRequests
  /\ t \in Codes(o)
  /\ stage' = [stage EXCEPT ![c] = FirstStage(o[1])]
  /\ op' = [op EXCEPT ![c] = o]
  /\ typed' = [typed EXCEPT ![c] = t]
  /\ requests' = requests + 1
  /\ before' = [before EXCEPT ![c] = Len(backups)]
  /\ crowd' = [g \in Groups |->
       LET n == Cardinality({d \in Clients :
                  g \in GroupOf(IF d = c THEN o ELSE op[d]) /\ (d = c \/ Busy(d))})
       IN  IF n > crowd[g] THEN n ELSE crowd[g]]
  /\ UNCHANGED <<data, found, replaced>>

-----------------------------------------------------------------------------
(* Sending a code or a link.                                               *)

\* persistChallenge / sendCode: every PENDING row of the purpose is EXPIRED ...
Expire(c) ==
  /\ stage[c] = "expire"
  /\ challenges' = [n \in 1..Len(challenges) |->
       IF n \in Pending(PurposeOf(op[c])) THEN [challenges[n] EXCEPT !.status = "EXPIRED"]
                                      ELSE challenges[n]]
  /\ Goto(c, "insert")
  /\ UNCHANGED <<factors, backups, found, replaced>>

\* ... and a new row inserted.  Its code is then sent.
Insert(c) ==
  /\ stage[c] = "insert"
  /\ challenges' = Append(challenges,
       [purpose |-> PurposeOf(op[c]), status |-> "PENDING", attempts |-> 0, late |-> FALSE,
        to |-> op[c][2], uses |-> 0, wrong |-> 0])
  /\ Finish(c)
  /\ UNCHANGED <<factors, backups, replaced>>

-----------------------------------------------------------------------------
(* Checking a code or a link.                                              *)

\* Faulty variant: any row of the purpose is good enough.
CandidatesAnyStatus(c) ==
  {n \in 1..Len(challenges) : challenges[n].purpose = PurposeOf(op[c]) /\ n = typed[c]}

\* The row a request checks: a link finds its own PENDING row, a code is
\* compared with the newest PENDING one.
Candidates(c) ==
  LET P == Pending(PurposeOf(op[c]))
  IN  IF PurposeOf(op[c]) \in Links THEN P \cap {typed[c]}
                                ELSE {n \in P : \A m \in P : m <= n}

\* Faulty variant: the attempts are counted but not looked at.
VerdictNoLimit(row, right) ==
  IF row.late THEN "overdue" ELSE IF right THEN "consume" ELSE "mismatch"

\* The order of the checks in checkAndConsume / verifyCode.
Verdict(row, right) ==
  IF row.late THEN "overdue"
  ELSE IF row.attempts >= MaxAttempts THEN "exhausted"
  ELSE IF right THEN "consume" ELSE "mismatch"

Find(c) ==
  /\ stage[c] = "find"
  /\ \/ Candidates(c) = {} /\ Finish(c)
     \/ \E n \in Candidates(c) :
          /\ found' = [found EXCEPT ![c] = n]
          /\ Goto(c, Verdict(challenges[n], n = typed[c]))
  /\ UNCHANGED <<data, replaced>>

\* The refusals, each an update of the row that was read, by its id.
Refuse(c) ==
  /\ stage[c] \in {"overdue", "exhausted", "mismatch"}
  /\ LET row == challenges[found[c]]
     IN  challenges' = [challenges EXCEPT ![found[c]] =
           CASE stage[c] = "overdue"   -> [row EXCEPT !.status = "EXPIRED"]
             [] stage[c] = "exhausted" -> [row EXCEPT !.status = "FAILED"]
             [] OTHER -> [row EXCEPT !.attempts = row.attempts + 1, !.wrong = row.wrong + 1]]
  /\ Finish(c)
  /\ UNCHANGED <<factors, backups, replaced>>

\* The right code: VERIFIED, by id.  A contact factor goes on to be enabled.
Consume(c) ==
  /\ stage[c] = "consume"
  /\ LET row == challenges[found[c]]
     IN  challenges' = [challenges EXCEPT ![found[c]] =
           [row EXCEPT !.status = "VERIFIED", !.uses = row.uses + 1]]
  /\ IF op[c][1] = "confirm"
     THEN /\ Goto(c, "enable")
          /\ found' = [found EXCEPT ![c] =
               IF challenges[@].to = op[c][2] THEN factors[op[c][2]].made ELSE 0]
     ELSE Finish(c)
  /\ UNCHANGED <<factors, backups, replaced>>

\* expiresAt passes; only of a PENDING row is it ever read.
RunsOut(n) ==
  /\ challenges[n].status = "PENDING"
  /\ ~challenges[n].late
  /\ challenges' = [challenges EXCEPT ![n].late = TRUE]
  /\ UNCHANGED <<factors, backups, stage, op, typed, found, requests, crowd, before, replaced>>

-----------------------------------------------------------------------------
(* Enrolling and disabling a factor.                                       *)

\* enrollTotp refuses a factor that is enabled; enrollContactFactor does not.
Enroll(c) ==
  /\ stage[c] = "enroll"
  /\ IF op[c][2] = "totp" /\ factors["totp"].enabled
     THEN Finish(c)
     ELSE Goto(c, "upsert") /\ UNCHANGED found
  /\ UNCHANGED <<data, replaced>>

Enabling(f) == {c \in Clients : stage[c] = "enable" /\ op[c][2] = f}

\* A new secret, not enabled, whatever the row holds by now; a contact is sent
\* a code next.
Upsert(c) ==
  /\ stage[c] = "upsert"
  /\ LET row == factors[op[c][2]]
     IN  factors' = [factors EXCEPT ![op[c][2]] =
           [row EXCEPT !.enabled = FALSE, !.made = row.made + 1,
                       !.slips = row.slips + (IF Enabling(op[c][2]) = {} THEN 0 ELSE 1)]]
  /\ IF op[c][2] = "totp" THEN Finish(c) ELSE Goto(c, "expire") /\ UNCHANGED found
  /\ UNCHANGED <<challenges, backups, replaced>>

\* Faulty variant: the code is not checked, so that it proves no secret.
ReadPendingUnchecked(c) ==
  /\ stage[c] = "pending"
  /\ IF factors[op[c][2]].made > 0 /\ ~factors[op[c][2]].enabled
     THEN Goto(c, "enable") /\ found' = [found EXCEPT ![c] = 0]
     ELSE Finish(c)
  /\ UNCHANGED <<data, replaced>>

\* getPendingCredential: a row that is not enabled; a TOTP code is then verified
\* with the secret of that row, and may be wrong.
ReadPending(c) ==
  /\ stage[c] = "pending"
  /\ LET row == factors[op[c][2]]
         open == row.made > 0 /\ ~row.enabled
     IN  \/ (~open \/ op[c][2] = "totp") /\ Finish(c)
         \/ /\ open
            /\ found' = [found EXCEPT ![c] = row.made]
            /\ Goto(c, IF op[c][2] = "totp" THEN "enable" ELSE "find")
  /\ UNCHANGED <<data, replaced>>

\* By id, whatever secret the row holds by now.
Enable(c) ==
  /\ stage[c] = "enable"
  /\ factors' = [factors EXCEPT ![op[c][2]] = [@ EXCEPT !.enabled = TRUE, !.proved = found[c]]]
  /\ IF op[c][2] = "totp" THEN Goto(c, "wipe") /\ UNCHANGED found ELSE Finish(c)
  /\ UNCHANGED <<challenges, backups, replaced>>

\* disableFactor and regenerateBackupCodes: the factor must be enabled.
Gate(c) ==
  /\ stage[c] = "gate"
  /\ IF factors[op[c][2]].enabled
     THEN Goto(c, IF op[c][1] = "disable" THEN "disable" ELSE "wipe") /\ UNCHANGED found
     ELSE Finish(c)
  /\ UNCHANGED <<data, replaced>>

Disable(c) ==
  /\ stage[c] = "disable"
  /\ factors' = [factors EXCEPT ![op[c][2]].enabled = FALSE]
  /\ IF op[c][2] = "totp" THEN Goto(c, "wipe") /\ UNCHANGED found ELSE Finish(c)
  /\ UNCHANGED <<challenges, backups, replaced>>

-----------------------------------------------------------------------------
(* Backup codes.                                                           *)

\* Faulty variant: the wrong half is deleted.
Deletable(b) == b.status = "used"

Wipeable(b) == b.status = "unused"

\* invalidateAll: every unused code of the factor is deleted.
Wipe(c) ==
  /\ stage[c] = "wipe"
  /\ backups' = [b \in 1..Len(backups) |->
                   IF Wipeable(backups[b]) THEN [backups[b] EXCEPT !.status = "deleted"]
                                           ELSE backups[b]]
  /\ IF op[c][1] = "disable"
     THEN Finish(c) /\ replaced' = replaced \cup 1..before[c]
     ELSE Goto(c, "generate") /\ UNCHANGED <<found, replaced>>
  /\ UNCHANGED <<challenges, factors>>

\* createMany of a new set, which the customer is shown.
Generate(c) ==
  /\ stage[c] = "generate"
  /\ backups' = backups \o [b \in 1..SetSize |-> [status |-> "unused", uses |-> 0]]
  /\ Finish(c)
  /\ replaced' = replaced \cup 1..before[c]
  /\ UNCHANGED <<challenges, factors>>

\* attemptVerify and consume: an unused code of an enabled factor ...
Seek(c) ==
  /\ stage[c] = "seek"
  /\ IF factors["totp"].enabled /\ typed[c] # 0 /\ backups[typed[c]].status = "unused"
     THEN Goto(c, "mark") /\ UNCHANGED found
     ELSE Finish(c)
  /\ UNCHANGED <<data, replaced>>

\* ... is marked used, by id.  A row deleted meanwhile makes the update throw.
Mark(c) ==
  /\ stage[c] = "mark"
  /\ backups' = IF backups[typed[c]].status = "deleted" THEN backups
                ELSE [backups EXCEPT ![typed[c]] = [status |-> "used", uses |-> @.uses + 1]]
  /\ Finish(c)
  /\ UNCHANGED <<challenges, factors, replaced>>

-----------------------------------------------------------------------------
\* A query or a mail fails or the process dies: what is written stays.
Breaks(c) ==
  /\ Busy(c)
  /\ Finish(c)
  /\ UNCHANGED <<data, replaced>>

Work(c) ==
  \/ Expire(c) \/ Insert(c) \/ Find(c) \/ Refuse(c) \/ Consume(c)
  \/ Enroll(c) \/ Upsert(c) \/ ReadPending(c) \/ Enable(c) \/ Gate(c) \/ Disable(c)
  \/ Wipe(c) \/ Generate(c) \/ Seek(c) \/ Mark(c)

Next ==
  \/ \E c \in Clients : \/ Work(c) \/ Breaks(c)
                        \/ \E o \in Ops : \E t \in Codes(o) : Submit(c, o, t)
  \/ \E n \in 1..Len(challenges) : RunsOut(n)

Spec == Init /\ [][Next]_vars

-----------------------------------------------------------------------------
TypeOK ==
  /\ challenges \in Seq(Challenge)
  /\ factors \in [Factors -> Factor]
  /\ backups \in Seq(Backup)
  /\ stage \in [Clients -> Stages]
  /\ op \in [Clients -> Ops \cup {Idle}]
  /\ typed \in [Clients -> Nat]
  /\ found \in [Clients -> Nat]
  /\ requests \in Nat
  /\ crowd \in [Groups -> Nat]
  /\ before \in [Clients -> Nat]
  /\ replaced \subseteq Nat

\* A code or link is accepted once, and more often only by checks that overlap;
\* the same of a backup code ("exactly one login's worth of recovery, never
\* reusable") and of recoveries that overlap.
CodeIsUsedOnce ==
  /\ \A n \in 1..Len(challenges) : challenges[n].uses <= Together("checks")
  /\ \A b \in 1..Len(backups) : backups[b].uses <= Together("recoveries")

\* Wrong codes are counted against otp.max_attempts; beyond it only those checks
\* are evaluated that had read the row before.
WrongCodesAreLimited ==
  \A n \in 1..Len(challenges) :
    challenges[n].wrong <= MaxAttempts + Together("checks") - 1

\* A finished regeneration, confirmation or disabling leaves none of the codes
\* usable that existed when it began, whatever it overlaps with.
ReplacedCodesAreDead ==
  \A b \in replaced \cap 1..Len(backups) : backups[b].status # "unused"

\* TOTP is enabled only after its owner typed a code of a secret of his, and of
\* the one that is stored, unless an enrolment replaced it between the reading of
\* that secret and the enabling: it then lags by no more enrolments than those.
SecretIsProved ==
  LET row == factors["totp"]
  IN  row.enabled => row.proved >= 1 /\ row.made - row.proved \in 0..row.slips
=============================================================================
