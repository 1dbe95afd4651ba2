------------------------------ MODULE Sessions ------------------------------
(***************************************************************************)
(* Sign-in and sessions of one customer of auth-service:                   *)
(*   AuthService     login with its lockout, refresh, logout, reset and    *)
(*                   change of the password, deactivation, e-mail link     *)
(*   SessionService  createSession with session.max_concurrent, revoke,    *)
(*                   revokeAllForUser                                      *)
(*   JwtStrategy     the check every signed-in request passes              *)
(* A client is a tab or a device; the tabs of one browser share the cookie *)
(* that holds the refresh token.  `stage` is the await a request has       *)
(* reached.  The second factor, when one is enrolled, only lengthens the   *)
(* way from the password to the session.                                   *)
(***************************************************************************)
EXTENDS Integers, Sequences, FiniteSets

CONSTANTS
  Clients,        \* tabs and devices that send requests
  Browsers,       \* cookie jars
  Browser,        \* [Clients -> Browsers]
  May,            \* [Clients -> SUBSET Ops], what each client does
  MaxRequests,    \* bound: [Clients -> Nat], requests each client sends
  MaxAttempts,    \* account.max_failed_login_attempts
  MaxConcurrent   \* session.max_concurrent

\* Requests that carry an access token.
SignedIn == {"logout", "others", "change", "deactivate"}
Ops == {"login", "refresh", "reset", "verify"} \cup SignedIn

ASSUME SessionsFit ==
  /\ IsFiniteSet(Clients)
  /\ Browser \in [Clients -> Browsers]
  /\ May \in [Clients -> SUBSET Ops]
  /\ MaxRequests \in [Clients -> Nat]
  /\ {MaxAttempts, MaxConcurrent} \subseteq Nat \ {0}

VARIABLES
  user,      \* users row: status, failedLoginAttempts, lockedUntil
  link,      \* TRUE while an e-mail verification link is PENDING
  sessions,  \* Seq of sessions rows in the order of issuedAt
  jar,       \* [Browsers -> Held], the refresh cookie
  stage,     \* [Clients -> Stages]
  op,        \* [Clients -> Ops \cup {"none"}], the request in hand
  held,      \* [Clients -> Held], the session and token it works with
  todo,      \* [Clients -> sets of sessions], those still to revoke
  requests,  \* [Clients -> Nat], requests sent
  \* History, for the properties only.
  guesses,   \* wrong passwords since a lock ran out or the counter was cleared
  crowd,     \* the most sign-ins that were ever under way at once
  stale,     \* [Clients -> BOOLEAN], its token was replaced before it was sent
  torn,      \* sessions with overlapping refreshes or a lost refresh answer
  replayed   \* sessions of refused requests whose token had been replaced

record == <<user, link, sessions>>
request == <<stage, op, held, todo, requests, stale>>
history == <<guesses, crowd, torn, replayed>>
vars == <<record, jar, request, history>>

\* lockedUntil is null, in the future, or past.
Users ==
  [status : {"PENDING_VERIFICATION", "ACTIVE", "LOCKED", "DEACTIVATED"},
   attempts : Nat, lock : {"none", "running", "over"}]
\* A session's refresh tokens are numbered; refreshTokenHash is null at 0.
Session == [status : {"ACTIVE", "REVOKED"}, token : Nat]
Held == [session : Nat, token : Nat]
Nothing == [session |-> 0, token |-> 0]
Stages ==
  {"idle", "read", "unlock", "check", "fail", "lock", "clear", "list", "evict",
   "lookup", "punish", "token", "answer", "authorize", "deactivate", "sweep",
   "revoke", "activate"}

Busy(c) == stage[c] # "idle"
Active == {s \in 1..Len(sessions) : sessions[s].status = "ACTIVE"}

Init ==
  /\ link \in BOOLEAN
  /\ user = [status |-> IF link THEN "PENDING_VERIFICATION" ELSE "ACTIVE",
             attempts |-> 0, lock |-> "none"]
  /\ sessions = << >>
  /\ jar = [b \in Browsers |-> Nothing]
  /\ stage = [c \in Clients |-> "idle"]
  /\ op = [c \in Clients |-> "none"]
  /\ held = [c \in Clients |-> Nothing]
  /\ todo = [c \in Clients |-> {}]
  /\ requests = [c \in Clients |-> 0]
  /\ guesses = 0
  /\ crowd = 0
  /\ stale = [c \in Clients |-> FALSE]
  /\ torn = {}
  /\ replayed = {}

-----------------------------------------------------------------------------
Goto(c, s) ==
  /\ stage' = [stage EXCEPT ![c] = s]
  /\ UNCHANGED <<op, requests, stale>>

\* The answer, whatever it says: the request is over.
Finish(c) ==
  /\ stage' = [stage EXCEPT ![c] = "idle"]
  /\ op' = [op EXCEPT ![c] = "none"]
  /\ held' = [held EXCEPT ![c] = Nothing]
  /\ todo' = [todo EXCEPT ![c] = {}]
  /\ stale' = [stale EXCEPT ![c] = FALSE]
  /\ UNCHANGED requests

FirstStage(o) ==
  CASE o = "login"   -> "read"
    [] o = "refresh" -> "lookup"
    [] o = "reset"   -> "sweep"      \* verifyLinkToken and the new password are done
    [] o = "verify"  -> "activate"   \* verifyLinkToken has consumed the link
    [] OTHER         -> "authorize"

\* Sign-ins under way once c has sent request o.
SignIns(c, o) ==
  {d \in Clients : IF d = c THEN o = "login" ELSE Busy(d) /\ op[d] = "login"}

\* A request arrives, with the cookie its browser holds by then.
Submit(c, o) ==
  LET cookie == jar[Browser[c]]
  IN  /\ ~Busy(c)
      /\ requests[c] < MaxRequests[c]
      /\ o \in May[c]
      /\ o \in SignedIn \cup {"refresh"} => cookie # Nothing
      /\ IF o = "verify" THEN link /\ link' = FALSE ELSE link' = link
      /\ stage' = [stage EXCEPT ![c] = FirstStage(o)]
      /\ op' = [op EXCEPT ![c] = o]
      /\ held' = [held EXCEPT ![c] =
                    IF o \in SignedIn \cup {"refresh"} THEN cookie ELSE Nothing]
      /\ requests' = [requests EXCEPT ![c] = @ + 1]
      /\ stale' = [stale EXCEPT ![c] =
                     o = "refresh" /\ sessions[cookie.session].token # cookie.token]
      /\ torn' = IF /\ o = "refresh"
                    /\ \E d \in Clients : /\ Busy(d) /\ op[d] = "refresh"
                                          /\ held[d].session = cookie.session
                 THEN torn \cup {cookie.session} ELSE torn
      /\ crowd' = IF Cardinality(SignIns(c, o)) > crowd
                  THEN Cardinality(SignIns(c, o)) ELSE crowd
      /\ UNCHANGED <<user, sessions, jar, todo, guesses, replayed>>

-----------------------------------------------------------------------------
(* login.                                                                  *)

\* The first read of the user; autoUnlockIfExpired looks at its lockedUntil.
ReadUser(c) ==
  /\ stage[c] = "read"
  /\ Goto(c, IF user.lock = "over" THEN "unlock" ELSE "check")
  /\ UNCHANGED <<record, jar, held, todo, history>>

\* Whatever the row has become since it was read.
Unlock(c) ==
  /\ stage[c] = "unlock"
  /\ user' = [status |-> "ACTIVE", attempts |-> 0, lock |-> "none"]
  /\ guesses' = 0
  /\ Goto(c, "check")
  /\ UNCHANGED <<link, sessions, jar, held, todo, crowd, torn, replayed>>

\* Faulty variant: a lock does not keep anyone from trying.
MaySignInLocked == user.status \notin {"DEACTIVATED", "PENDING_VERIFICATION"}

\* Faulty variant: a deactivated customer may try passwords.
MaySignInAnyway ==
  /\ ~(user.status = "LOCKED" /\ user.lock = "running")
  /\ user.status # "PENDING_VERIFICATION"

MaySignIn ==
  /\ ~(user.status = "LOCKED" /\ user.lock = "running")
  /\ user.status \notin {"DEACTIVATED", "PENDING_VERIFICATION"}

\* The second read: the status checks and the password are of one snapshot.
CheckUser(c) ==
  /\ stage[c] = "check"
  /\ \/ ~MaySignIn /\ Finish(c)
     \/ MaySignIn /\ Goto(c, "fail") /\ UNCHANGED <<held, todo>>
     \/ /\ MaySignIn
        /\ Goto(c, IF user.attempts > 0 \/ user.lock # "none" THEN "clear" ELSE "list")
        /\ UNCHANGED <<held, todo>>
  /\ UNCHANGED <<record, jar, history>>

\* registerFailedAttempt: an atomic increment that returns the new count ...
CountFailure(c) ==
  /\ stage[c] = "fail"
  /\ user' = [user EXCEPT !.attempts = @ + 1]
  /\ guesses' = guesses + 1
  /\ IF user.attempts + 1 >= MaxAttempts
     THEN Goto(c, "lock") /\ UNCHANGED <<held, todo>>
     ELSE Finish(c)
  /\ UNCHANGED <<link, sessions, jar, crowd, torn, replayed>>

\* ... and the lock, in an update of its own.
Lock(c) ==
  /\ stage[c] = "lock"
  /\ user' = [user EXCEPT !.status = "LOCKED", !.lock = "running"]
  /\ Finish(c)
  /\ UNCHANGED <<link, sessions, jar, history>>

\* The right password clears what the snapshot showed.  The status stays.
ClearFailures(c) ==
  /\ stage[c] = "clear"
  /\ user' = [user EXCEPT !.attempts = 0, !.lock = "none"]
  /\ guesses' = 0
  /\ Goto(c, "list")
  /\ UNCHANGED <<link, sessions, jar, held, todo, crowd, torn, replayed>>

Oldest(n, S) == {s \in S : Cardinality({r \in S : r < s}) < n}

\* Faulty variant: room is made only when the limit is exceeded.
ExcessLate == Oldest(Cardinality(Active) - MaxConcurrent, Active)

\* The active sessions that must go to make room for one more.
Excess == Oldest(Cardinality(Active) - MaxConcurrent + 1, Active)

\* enforceConcurrentLimit reads the active sessions ...
ListActive(c) ==
  /\ stage[c] = "list"
  /\ todo' = [todo EXCEPT ![c] = Excess]
  /\ Goto(c, "evict")
  /\ UNCHANGED <<record, jar, held, history>>

\* ... and, those revoked, createSession inserts a row without tokens.
CreateSession(c) ==
  /\ stage[c] = "evict"
  /\ todo[c] = {}
  /\ sessions' = Append(sessions, [status |-> "ACTIVE", token |-> 0])
  /\ held' = [held EXCEPT ![c] = [session |-> Len(sessions) + 1, token |-> 0]]
  /\ Goto(c, "token")
  /\ UNCHANGED <<user, link, jar, todo, history>>

\* setTokenHashes of login and refresh: by id, whatever the row holds by now.
StoreToken(c) ==
  /\ stage[c] = "token"
  /\ LET s == held[c].session
     IN  /\ sessions' = [sessions EXCEPT ![s].token = @ + 1]
         /\ held' = [held EXCEPT ![c].token = sessions[s].token + 1]
  /\ Goto(c, "answer")
  /\ UNCHANGED <<user, link, jar, todo, history>>

\* Faulty variant: only a login sets the cookie.
DeliverLogin(c) ==
  /\ stage[c] = "answer"
  /\ jar' = IF op[c] = "login" THEN [jar EXCEPT ![Browser[c]] = held[c]] ELSE jar
  /\ Finish(c)
  /\ UNCHANGED <<record, history>>

\* The browser stores the new refresh token.
Deliver(c) ==
  /\ stage[c] = "answer"
  /\ jar' = [jar EXCEPT ![Browser[c]] = held[c]]
  /\ Finish(c)
  /\ UNCHANGED <<record, history>>

-----------------------------------------------------------------------------
(* refresh.                                                                *)

Refuse(c) ==
  /\ replayed' = IF stale[c] THEN replayed \cup {held[c].session} ELSE replayed
  /\ Finish(c)

\* findActiveById, the comparison of the hashes, and the user's status.
Lookup(c) ==
  /\ stage[c] = "lookup"
  /\ LET row == sessions[held[c].session]
     IN  IF row.status # "ACTIVE"
         THEN Refuse(c)
         ELSE /\ Goto(c, IF row.token = held[c].token /\ user.status # "DEACTIVATED"
                         THEN "token" ELSE "punish")
              /\ UNCHANGED <<held, todo, replayed>>
  /\ UNCHANGED <<record, jar, guesses, crowd, torn>>

\* Faulty variant: the request is refused and the session goes on.
OnlyRefuse(c) ==
  /\ stage[c] = "punish"
  /\ Refuse(c)
  /\ UNCHANGED <<record, jar, guesses, crowd, torn>>

\* A mismatch is taken for a replay: the whole session is revoked.
Punish(c) ==
  /\ stage[c] = "punish"
  /\ sessions' = [sessions EXCEPT ![held[c].session].status = "REVOKED"]
  /\ Refuse(c)
  /\ UNCHANGED <<user, link, jar, guesses, crowd, torn>>

-----------------------------------------------------------------------------
(* Requests that end sessions.                                             *)

\* JwtStrategy.validate; changePassword also verifies the current password and
\* the policy, and may refuse.
Authorize(c) ==
  /\ stage[c] = "authorize"
  /\ LET in == /\ sessions[held[c].session].status = "ACTIVE"
               /\ user.status # "DEACTIVATED"
     IN  \/ (~in \/ op[c] = "change") /\ Finish(c)
         \/ /\ in
            /\ Goto(c, IF op[c] = "deactivate" THEN "deactivate" ELSE "sweep")
            /\ UNCHANGED <<held, todo>>
  /\ UNCHANGED <<record, jar, history>>

Deactivate(c) ==
  /\ stage[c] = "deactivate"
  /\ user' = [user EXCEPT !.status = "DEACTIVATED"]
  /\ Goto(c, "sweep")
  /\ UNCHANGED <<link, sessions, jar, held, todo, history>>

\* The active sessions a request ends: logout its own, "others" and a change of
\* the password all but its own, reset and deactivation all.
EndedBy(c) ==
  CASE op[c] = "logout"               -> Active \cap {held[c].session}
    [] op[c] \in {"others", "change"} -> Active \ {held[c].session}
    [] OTHER                          -> Active

\* findActiveById / the list of revokeAllForUser.
Sweep(c) ==
  /\ stage[c] = "sweep"
  /\ todo' = [todo EXCEPT ![c] = EndedBy(c)]
  /\ Goto(c, "revoke")
  /\ UNCHANGED <<record, jar, held, history>>

\* SessionService.revoke inside a loop: a session that is over stays over.
Revoke(c) ==
  /\ stage[c] \in {"evict", "revoke"}
  /\ \E s \in todo[c] :
       /\ sessions' = [sessions EXCEPT ![s].status = "REVOKED"]
       /\ todo' = [todo EXCEPT ![c] = @ \ {s}]
  /\ UNCHANGED <<user, link, jar, stage, op, held, requests, stale, history>>

\* The answer; logout also clears the cookie.
Conclude(c) ==
  /\ stage[c] = "revoke"
  /\ todo[c] = {}
  /\ jar' = IF op[c] = "logout" THEN [jar EXCEPT ![Browser[c]] = Nothing] ELSE jar
  /\ Finish(c)
  /\ UNCHANGED <<record, history>>

\* verifyEmail.
Activate(c) ==
  /\ stage[c] = "activate"
  /\ user' = [user EXCEPT !.status = "ACTIVE"]
  /\ Finish(c)
  /\ UNCHANGED <<link, sessions, jar, history>>

-----------------------------------------------------------------------------
\* A query or an event fails or the process dies: what is written stays.  A
\* guess whose lock could not be written is not counted.
Breaks(c) ==
  /\ Busy(c)
  /\ Finish(c)
  /\ torn' = IF stage[c] = "answer" THEN torn \cup {held[c].session} ELSE torn
  /\ guesses' = IF stage[c] = "lock" THEN guesses - 1 ELSE guesses
  /\ UNCHANGED <<record, jar, crowd, replayed>>

\* lockedUntil passes.
LockRunsOut ==
  /\ user.lock = "running"
  /\ user' = [user EXCEPT !.lock = "over"]
  /\ guesses' = 0
  /\ UNCHANGED <<link, sessions, jar, request, crowd, torn, replayed>>

Work(c) ==
  \/ ReadUser(c) \/ Unlock(c) \/ CheckUser(c) \/ CountFailure(c) \/ Lock(c)
  \/ ClearFailures(c) \/ ListActive(c) \/ CreateSession(c) \/ StoreToken(c)
  \/ Deliver(c) \/ Lookup(c) \/ Punish(c) \/ Authorize(c) \/ Deactivate(c)
  \/ Sweep(c) \/ Revoke(c) \/ Conclude(c) \/ Activate(c)

Next ==
  \/ LockRunsOut
  \/ \E c \in Clients : Work(c) \/ Breaks(c) \/ \E o \in Ops : Submit(c, o)

Spec == Init /\ [][Next]_vars

-----------------------------------------------------------------------------
TypeOK ==
  /\ user \in Users
  /\ link \in BOOLEAN
  /\ sessions \in Seq(Session)
  /\ jar \in [Browsers -> Held]
  /\ stage \in [Clients -> Stages]
  /\ op \in [Clients -> Ops \cup {"none"}]
  /\ held \in [Clients -> Held]
  /\ todo \in [Clients -> SUBSET Nat]
  /\ requests \in [Clients -> Nat]
  /\ guesses \in Int
  /\ crowd \in Nat
  /\ stale \in [Clients -> BOOLEAN]
  /\ torn \subseteq Nat
  /\ replayed \subseteq Nat

\* session.max_concurrent holds exactly when customers sign in one at a time;
\* sign-ins that overlap exceed it by no more than the others of them.
SessionsAreLimited ==
  Cardinality(Active) <= MaxConcurrent + (IF crowd > 1 THEN crowd - 1 ELSE 0)

\* The lockout stops password guessing after max_failed_login_attempts, and
\* later only by those sign-ins that were already past the check.
GuessesAreLimited ==
  guesses <= MaxAttempts + (IF crowd > 1 THEN crowd - 1 ELSE 0)

\* A refresh token that was replaced before it was sent never yields a new pair,
\* and its use ends the session (REFRESH_TOKEN_REUSE_DETECTED).
ReplayEndsSession ==
  /\ \A c \in Clients : stale[c] => stage[c] \notin {"token", "answer"}
  /\ \A s \in replayed : sessions[s].status = "REVOKED"

\* A browser whose refreshes never overlap and are all answered is not taken for
\* a thief: the token in its cookie is the one its active session accepts.
CookieIsAccepted ==
  \A b \in Browsers :
    LET s == jar[b].session
    IN  (/\ s \notin torn \cup {0}
         /\ sessions[s].status = "ACTIVE"
         /\ \A c \in Clients : ~(stage[c] = "answer" /\ held[c].session = s))
          => jar[b].token = sessions[s].token

\* Deactivated, not locked, and no sign-in past its check.
Gone ==
  /\ user.status = "DEACTIVATED"
  /\ user.lock = "none"
  /\ \A c \in Clients : stage[c] \notin {"unlock", "fail", "lock", "clear", "activate"}

\* Once such a customer is gone, nothing reactivates the account.  A lock that
\* is running, or set by a sign-in under way, does: Unlock writes ACTIVE.
GoneForGood == [][Gone => Gone']_vars
=============================================================================
