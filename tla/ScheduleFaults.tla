--------------------------- MODULE ScheduleFaults ---------------------------
(***************************************************************************)
(* ScheduledTransfers with a history of what went wrong with each          *)
(* schedule: which were cut off between two writes, and how often BullMQ   *)
(* handed out a job again.                                                 *)
(***************************************************************************)
EXTENDS ScheduledTransfers, FiniteSets

CONSTANT MaxHit  \* bound: how many schedules are hit

ASSUME FaultsAreBounded == MaxHit \in Nat /\ IsFiniteSet(Workers)

VARIABLES
  hit,    \* SUBSET Schedules, cut off between two writes so far
  first,  \* [Schedules -> SUBSET Nat], the days whose job was handed out
  again   \* [Schedules -> Nat], how often a job was handed out that had been before

faultVars == <<vars, hit, first, again>>

\* This step cuts s off: a process dies, or a job is delivered while it runs.
Hits(s) ==
  \/ CreateStops(s)
  \/ \E w \in Workers : Busy(w) /\ Of(w) = s /\ (Stops(w) \/ LosesLock(w))

\* This step hands a job of s to w.
Handed(w, s) == ~Busy(w) /\ Busy(w)' /\ Of(w)' = s

FaultInit ==
  /\ Init
  /\ hit = {}
  /\ first = [s \in Schedules |-> {}]
  /\ again = [s \in Schedules |-> 0]

FaultNext ==
  /\ Next
  /\ hit' = hit \cup {s \in Schedules : Hits(s)}
  /\ Cardinality(hit') <= MaxHit
  /\ first' = [s \in Schedules |-> first[s] \cup
       {worker'[w].job.due : w \in {v \in Workers : Handed(v, s) /\ worker'[v].job.deliveries = 1}}]
  /\ again' = [s \in Schedules |-> again[s] +
       (IF \E w \in Workers : Handed(w, s) /\ worker'[w].job.deliveries > 1 THEN 1 ELSE 0)]

\* Time passes, the event loop runs what is pending, BullMQ delivers due jobs.
FaultSpec ==
  /\ FaultInit /\ [][FaultNext]_faultVars
  /\ WF_vars(Tick)
  /\ \A s \in Schedules : WF_vars(Serve(s))
  /\ \A w \in Workers : WF_vars(Work(w)) /\ WF_vars(Deliver(w))

Spared == Schedules \ hit

-----------------------------------------------------------------------------
\* The row and its delayed job exist together: a SCHEDULED row has a job for
\* its next occurrence in the queue, in delivery, or about to be added.
RowHasJob ==
  \A s \in Spared : row[s].status = "SCHEDULED" =>
    \/ creating[s] \in {"enqueue", "delete"}
    \/ \E j \in waiting : j.schedule = s /\ j.due = row[s].nextRunAt
    \/ \E w \in Workers : At(w, "claim") /\ Of(w) = s
    \/ \E w \in Workers : (At(w, "enqueue") \/ At(w, "fail")) /\ Of(w) = s

\* "A duplicate delivery of the same BullMQ job is a clean no-op rather than a
\* double-spend" (the worker's comment) as far as it is so: the occurrences handed to
\* the ledger are the first one, the next one and so on up to endDate, each once, but
\* each time a job is handed out again the schedule may be paid one period early.
OccurrencesInTurn ==
  \A s \in Schedules : \A k \in 1..Len(runs[s]) :
    /\ runs[s][k] = Start[s] + (k - 1) * Period[s]
    /\ k > 1 => Period[s] # 0
    /\ End[s] # 0 => runs[s][k] <= End[s]
    /\ runs[s][k] <= today + again[s] * Period[s]

\* A due occurrence is attempted: the schedule moves on or stops.
DueIsServed ==
  \A s \in Schedules, n \in 1..Horizon :
    (row[s].status = "SCHEDULED" /\ row[s].nextRunAt = n)
      ~> ~(row[s].status = "SCHEDULED" /\ row[s].nextRunAt = n) \/ s \in hit
=============================================================================
