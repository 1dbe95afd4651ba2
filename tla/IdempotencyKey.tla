--------------------------- MODULE IdempotencyKey ---------------------------
(***************************************************************************)
(* IdempotencyService.execute for one key, called by any number of callers *)
(* in any number of processes: a claim with a time to live in Redis, the   *)
(* function it protects, the stored result and the callers who wait.       *)
(***************************************************************************)
EXTENDS Integers, FiniteSets

CONSTANTS
  Callers,   \* requests that carry the key, each with its client's retries
  MaxCalls   \* bound: calls one caller makes

ASSUME CallersFit == IsFiniteSet(Callers) /\ MaxCalls \in Nat

VARIABLES
  store,     \* what Redis holds under the key
  at,        \* [Callers -> Stages], the await a call has reached
  own,       \* [Callers -> Nat], the run whose result the caller holds
  calls,     \* [Callers -> 0..MaxCalls], calls made
  answer,    \* [Callers -> Answers], what the last call ended with
  runs,      \* Nat, how often the function's effect has happened
  mishaps    \* Nat, how often something happened that can cost a second run

vars == <<store, at, own, calls, answer, runs, mishaps>>

\* Run n of the function has result n; the marker is not a result.
Absent == [is |-> "absent", run |-> 0]
Marker == [is |-> "marker", run |-> 0]
Result(n) == [is |-> "result", run |-> n]

Stores == [is : {"absent", "marker", "result"}, run : Nat]
Stages == {"out", "claim", "run", "save", "release", "wait"}
Answers == [is : {"none", "ok", "error", "conflict", "unreadable"}, run : Nat]

Init ==
  /\ store = Absent
  /\ at = [c \in Callers |-> "out"]
  /\ own = [c \in Callers |-> 0]
  /\ calls = [c \in Callers |-> 0]
  /\ answer = [c \in Callers |-> [is |-> "none", run |-> 0]]
  /\ runs = 0
  /\ mishaps = 0

-----------------------------------------------------------------------------
Goto(c, s) ==
  /\ at' = [at EXCEPT ![c] = s]
  /\ UNCHANGED <<calls, answer>>

Ends(c, is, n) ==
  /\ at' = [at EXCEPT ![c] = "out"]
  /\ answer' = [answer EXCEPT ![c] = [is |-> is, run |-> n]]
  /\ UNCHANGED calls

\* A request, or its client's retry, whatever the last answer was.
Call(c) ==
  /\ at[c] = "out"
  /\ calls[c] < MaxCalls
  /\ at' = [at EXCEPT ![c] = "claim"]
  /\ calls' = [calls EXCEPT ![c] = @ + 1]
  /\ UNCHANGED <<store, own, answer, runs, mishaps>>

\* Faulty variant: SET without NX.
ClaimAnyway(c) ==
  /\ at[c] = "claim"
  /\ store' = Marker
  /\ Goto(c, "run")
  /\ UNCHANGED <<own, runs, mishaps>>

\* SET key __IN_PROGRESS__ EX ttl NX.
Claim(c) ==
  /\ at[c] = "claim"
  /\ IF store = Absent
     THEN store' = Marker /\ Goto(c, "run")
     ELSE store' = store /\ Goto(c, "wait")
  /\ UNCHANGED <<own, runs, mishaps>>

\* fn returns.
Run(c) ==
  /\ at[c] = "run"
  /\ runs' = runs + 1
  /\ own' = [own EXCEPT ![c] = runs + 1]
  /\ Goto(c, "save")
  /\ UNCHANGED <<store, mishaps>>

\* fn throws, and has changed nothing or has already had its effect.
RunThrows(c) ==
  /\ at[c] = "run"
  /\ \/ UNCHANGED <<runs, mishaps>>
     \/ runs' = runs + 1 /\ mishaps' = mishaps + 1
  /\ Goto(c, "release")
  /\ UNCHANGED <<store, own>>

\* The result replaces whatever is stored, also another caller's marker.
Save(c) ==
  /\ at[c] = "save"
  /\ store' = Result(own[c])
  /\ Ends(c, "ok", own[c])
  /\ UNCHANGED <<own, runs, mishaps>>

\* cache.set fails, or its reply is lost.  It is inside the try: the catch block
\* deletes the key although the function has run.
SaveThrows(c) ==
  /\ at[c] = "save"
  /\ store' \in {store, Result(own[c])}
  /\ mishaps' = mishaps + 1
  /\ Goto(c, "release")
  /\ UNCHANGED <<own, runs>>

\* DEL key, whoever stored what it holds.
Release(c) ==
  /\ at[c] = "release"
  /\ store' = Absent
  /\ Ends(c, "error", 0)
  /\ UNCHANGED <<own, runs, mishaps>>

\* Faulty variant: the loop returns whatever it finds.
PollAnything(c) ==
  /\ at[c] = "wait"
  /\ store # Absent
  /\ Ends(c, "ok", store.run)
  /\ UNCHANGED <<store, own, runs, mishaps>>

\* waitForResult reads through CacheService.get, which parses JSON.  The marker
\* was written as it stands and is not JSON: the read throws.  Nothing stored
\* means another round.
Poll(c) ==
  /\ at[c] = "wait"
  /\ \/ store.is = "result" /\ Ends(c, "ok", store.run)
     \/ store.is = "marker" /\ Ends(c, "unreadable", 0)
  /\ UNCHANGED <<store, own, runs, mishaps>>

\* Faulty variant: the deadline only counts while the key is held.
GiveUpHeld(c) ==
  /\ at[c] = "wait"
  /\ store # Absent
  /\ Ends(c, "conflict", 0)
  /\ UNCHANGED <<store, own, runs, mishaps>>

\* waitForInFlightMs have passed.
GiveUp(c) ==
  /\ at[c] = "wait"
  /\ Ends(c, "conflict", 0)
  /\ UNCHANGED <<store, own, runs, mishaps>>

\* A Redis command throws where no catch block answers it, or the process dies:
\* the call is over and what Redis holds stays.
Breaks(c) ==
  /\ at[c] # "out"
  /\ Ends(c, "error", 0)
  /\ UNCHANGED <<store, own, runs, mishaps>>

\* Redis drops a marker (60 s, whether or not its caller still works) or a
\* result (24 h).
Expires ==
  /\ store # Absent
  /\ store' = Absent
  /\ mishaps' = mishaps + 1
  /\ UNCHANGED <<at, own, calls, answer, runs>>

Work(c) ==
  \/ Claim(c) \/ Run(c) \/ RunThrows(c) \/ Save(c) \/ SaveThrows(c)
  \/ Release(c) \/ Poll(c) \/ GiveUp(c)

Next == Expires \/ \E c \in Callers : Call(c) \/ Work(c) \/ Breaks(c)

Spec == Init /\ [][Next]_vars

\* A pending call goes on, its function returns or throws, and time passes.
FairSpec == Spec /\ WF_vars(Expires) /\ \A c \in Callers : WF_vars(Work(c))

-----------------------------------------------------------------------------
TypeOK ==
  /\ store \in Stores
  /\ at \in [Callers -> Stages]
  /\ own \in [Callers -> Nat]
  /\ calls \in [Callers -> 0..MaxCalls]
  /\ answer \in [Callers -> Answers]
  /\ runs \in Nat
  /\ mishaps \in Nat

\* However the calls overlap and fail, the function runs once, and once more at
\* most for every mishap: a claim or result that expired, an error after the
\* effect, a result that could not be saved.  A release that hits another
\* caller's claim or result costs nothing beyond the mishap that led to it.
EveryExtraRunHasACause == runs <= 1 + mishaps

\* A caller is told of a result only if a run that had its effect produced it.
OnlyRealResults ==
  \A c \in Callers : answer[c].is = "ok" => answer[c].run \in 1..runs

\* Every call comes to an end: nobody waits for a result that never comes.
EveryCallEnds == \A c \in Callers : at[c] # "out" ~> at[c] = "out"
=============================================================================
