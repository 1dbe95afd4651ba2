----------------------------- MODULE AuditChain -----------------------------
(***************************************************************************)
(* The hash chain of audit_logs: how AuditService.record (of account- and  *)
(* auth-service alike) links an entry to the newest one it finds, and how  *)
(* verifyChain walks those links.  createdAt is unique here, so an entry's *)
(* integrityHash is stood for by its createdAt, which is above zero.       *)
(***************************************************************************)
EXTENDS Integers

\* JavaScript's two absences: nothing was found, and a column that was not set,
\* which reads back as null.
Undefined == 0
Null == -1

Entries == [createdAt : Nat, previousHash : Nat \cup {Null}]

Newest(log) == {e \in log : \A f \in log : f.createdAt <= e.createdAt}

\* Faulty variant: the order is the wrong way round.
OldestHash(log) ==
  IF log = {} THEN Undefined
  ELSE (CHOOSE e \in log : \A f \in log : e.createdAt <= f.createdAt).createdAt

\* findFirst by createdAt, newest first: the integrityHash to link to.
LatestHash(log) ==
  IF log = {} THEN Undefined ELSE (CHOOSE e \in Newest(log) : TRUE).createdAt

\* The entry that is inserted, given the hash that was found.
Entry(found, now) ==
  [createdAt |-> now, previousHash |-> IF found = Undefined THEN Null ELSE found]

\* verifyChain walks the log by createdAt and wants each entry to name the one
\* just before it: these are the entries in between, which e passes over.
Skipped(log, e) ==
  {f \in log : e.previousHash < f.createdAt /\ f.createdAt < e.createdAt}

\* The entries that name the same predecessor as e.
Siblings(log, e) == {f \in log : f.previousHash = e.previousHash}
=============================================================================
