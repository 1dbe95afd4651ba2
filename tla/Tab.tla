-------------------------------- MODULE Tab ---------------------------------
(***************************************************************************)
(* One tab of a web front end at work on the services: a control is        *)
(* pressed, its calls run, and the lists on the screen are brought up to   *)
(* date.  A tour says what there is to know of the control, of one query,  *)
(* and of the page that shows the query; Portal works the tours of the two *)
(* front ends out from their tables.  Of the facts behind the query only a *)
(* version is kept.                                                        *)
(*                                                                         *)
(* The cache is the React Query client of components/providers: one retry, *)
(* data is fresh for thirty seconds, no refetch on focus, and a mutation   *)
(* is sent once.  A mutation's own onSuccess runs even when the component  *)
(* is gone; what the component does after mutateAsync runs too, but what   *)
(* it puts into its state is shown to nobody.                              *)
(***************************************************************************)
EXTENDS Naturals, Sequences

CONSTANTS MaxPresses,   \* how often the control is pressed
          Tours         \* what a tab may be about to do

\* The call touches what the query shows; its hook covers the query, or is
\* excused from covering it, and may wait for the fetch; what the same call does
\* a second time; and whether the service lets the caller through.
StepRows == [touches : BOOLEAN, covers : BOOLEAN, excused : BOOLEAN, waits : BOOLEAN,
             again : {"again", "same", "refused"}, served : BOOLEAN]

\* What a second call would do again is not left to the user's patience: the
\* button stands still while a press of it runs, and a card for a code stands in
\* the way of a single call alone.
Repeatable(t, k) == t.steps[k].served /\ t.steps[k].again = "again"
KeepsOut(t) == \A k \in DOMAIN t.steps :
  Repeatable(t, k) => t.guard \in {"pending", "mount"} /\ (t.code => Len(t.steps) = 1)

\* Whatever a call touches its hook covers, or is excused.
CoversAll(t) == \A k \in DOMAIN t.steps :
  t.steps[k].touches /\ ~t.steps[k].excused => t.steps[k].covers

ASSUME ToursFit ==
  /\ MaxPresses \in Nat
  /\ \A t \in Tours :
       /\ t.steps \in Seq(StepRows) /\ t.steps # << >>
       /\ {t.code, t.refetches, t.retries, t.polls} \subseteq BOOLEAN

VARIABLES
  tour,     \* what this tab is about to do
  at,       \* the page mounted: the tour's page, its viewer, or "away"
  version,  \* of the facts behind the query, at the service
  entry,    \* the query in the tab's cache
  presses,  \* the presses of the control
  done,     \* step |-> how often it took effect
  owed,     \* the newest version of the own changes the tab has heard of
  muddled   \* the user cannot know what became of a press

tabVars == <<tour, at, version, entry, presses, done, owed, muddled>>

Presses == 1..MaxPresses
Steps == DOMAIN tour.steps
Watching == at = tour.viewer

\* seen = 0: no data.  read: the version the answer on its way holds.
\* overtaken: that answer is older than an invalidation; crossed: such an
\* answer has landed.
NoEntry == [seen |-> 0, stale |-> FALSE, fetch |-> "none", read |-> 0, failed |-> FALSE,
            overtaken |-> FALSE, crossed |-> FALSE]

\* here: the component that was pressed is still mounted; deaf: the tab it
\* was in is gone; mine: the version its last step made; awaits: its hook waits
\* for a fetch.
NoPress == [stage |-> "none", step |-> 1, here |-> FALSE, deaf |-> FALSE, coded |-> FALSE,
            mine |-> 0, awaits |-> FALSE, told |-> FALSE]

(***************************************************************************)
(* The cache.                                                              *)
(***************************************************************************)

\* fetch with cancelRefetch: what is under way is dropped, but a first fetch is
\* joined.
Refetch(e) ==
  IF e.fetch # "none" /\ e.seen = 0 THEN e
  ELSE [e EXCEPT !.fetch = "asked", !.read = 0, !.overtaken = FALSE]

\* Mounting a query fetches what is stale or missing, and joins a fetch.
Mount(e) == IF e.fetch = "none" /\ (e.stale \/ e.seen = 0) THEN Refetch(e) ELSE e

\* Faulty variant: what is on the screen is fetched, the rest is not marked.
InvalidateShown(e) == IF Watching THEN Refetch(e) ELSE e

\* invalidateQueries marks the entry and fetches it again where it is mounted.
\* An answer already on its way clears the mark when nothing replaces it.
Invalidate(e) ==
  LET marked == [e EXCEPT !.stale = TRUE, !.overtaken = e.fetch = "answered"]
  IN  IF Watching THEN Refetch(marked) ELSE marked

\* A fetch that ends, or is dropped for a new one, ends the wait for it.
Unwait(all) == [i \in Presses |-> [all[i] EXCEPT !.awaits = FALSE]]
Superseded(all) == IF entry.seen # 0 THEN Unwait(all) ELSE all

Ages ==
  /\ entry.seen # 0 /\ ~entry.stale
  /\ entry' = [entry EXCEPT !.stale = TRUE]
  /\ UNCHANGED <<tour, at, version, presses, done, owed, muddled>>

\* An entry nobody watches is dropped after five minutes.
Collected ==
  /\ ~Watching /\ entry.fetch = "none" /\ entry # NoEntry
  /\ entry' = NoEntry
  /\ UNCHANGED <<tour, at, version, presses, done, owed, muddled>>

\* refetchInterval, on the page.
Polls ==
  /\ tour.polls /\ Watching /\ entry.fetch = "none" /\ entry.seen # 0
  /\ entry' = Refetch(entry)
  /\ UNCHANGED <<tour, at, version, presses, done, owed, muddled>>

\* The retry button of a page whose query failed.
PressRetry ==
  /\ tour.retries /\ Watching /\ entry.failed /\ entry.fetch = "none"
  /\ entry' = Refetch(entry)
  /\ UNCHANGED <<tour, at, version, presses, done, owed, muddled>>

ServiceReads ==
  /\ entry.fetch = "asked"
  /\ entry' = [entry EXCEPT !.fetch = "answered", !.read = version]
  /\ UNCHANGED <<tour, at, version, presses, done, owed, muddled>>

Lands ==
  /\ entry.fetch = "answered"
  /\ entry' = [entry EXCEPT !.seen = entry.read, !.read = 0, !.stale = FALSE, !.fetch = "none",
                            !.failed = FALSE, !.crossed = entry.overtaken, !.overtaken = FALSE]
  /\ presses' = Unwait(presses)
  /\ UNCHANGED <<tour, at, version, done, owed, muddled>>

\* Both tries failed.
FetchFails ==
  /\ entry.fetch # "none"
  /\ entry' = [entry EXCEPT !.read = 0, !.fetch = "none", !.failed = TRUE,
                            !.overtaken = FALSE]
  /\ presses' = Unwait(presses)
  /\ UNCHANGED <<tour, at, version, done, owed, muddled>>

(***************************************************************************)
(* The tab: pages come and go.                                             *)
(***************************************************************************)

Unanswered(press) == press.stage \notin {"none", "over"}
Left(press) ==
  IF press.stage = "code" THEN [press EXCEPT !.stage = "over", !.here = FALSE]
  ELSE [press EXCEPT !.here = FALSE]

\* Who leaves before a press is answered does not learn what became of it
\* from the page.
Visit(page) ==
  /\ page \in {tour.page, tour.viewer, "away"} \ {at}
  /\ at' = page
  /\ entry' = IF page = tour.viewer THEN Mount(entry) ELSE entry
  /\ presses' = [i \in Presses |-> Left(presses[i])]
  /\ muddled' = (muddled \/ \E i \in Presses : presses[i].here /\ Unanswered(presses[i]))
  /\ UNCHANGED <<tour, version, done, owed>>

\* A new page load: the cache is empty, and nothing of the old page runs on.
Reload ==
  /\ at' = tour.page
  /\ entry' = IF tour.page = tour.viewer THEN Refetch(NoEntry) ELSE NoEntry
  /\ presses' = [i \in Presses |-> [Left(presses[i]) EXCEPT !.deaf = TRUE, !.awaits = FALSE]]
  /\ muddled' = (muddled \/ \E i \in Presses : Unanswered(presses[i]))
  /\ UNCHANGED <<tour, version, done, owed>>

(***************************************************************************)
(* A press.                                                                *)
(***************************************************************************)

Running(press) == press.stage \in {"asked", "done", "refused", "late", "wants code", "settling"}

\* Faulty variant: the form still stands beside the card that asks for a code.
BlockedBesideCard(press) ==
  /\ press.here
  /\ \/ tour.guard = "pending" /\ Running(press)
     \/ tour.guard = "first" /\ Running(press) /\ press.step = 1
     \/ tour.guard = "mount" /\ press.stage # "none"

\* The button is disabled while the mutation it looks at is pending; the card
\* that asks for a code stands where the form was.
Blocked(press) ==
  /\ press.here
  /\ \/ press.stage = "code"
     \/ tour.guard = "pending" /\ Running(press)
     \/ tour.guard = "first" /\ Running(press) /\ press.step = 1
     \/ tour.guard = "mount" /\ press.stage # "none"

Becomes(i, press) == presses' = [presses EXCEPT ![i] = press]

\* Nobody presses again what has been reported done.  Where the card still
\* stands after an error, the press is its button, and sends a code at once.
Press(i) ==
  /\ at = tour.page
  /\ presses[i].stage = "none" /\ \A j \in 1..(i - 1) : presses[j].stage # "none"
  /\ \A j \in Presses : ~presses[j].told /\ ~Blocked(presses[j])
  /\ \E coded \in {FALSE} \cup {presses[j].coded /\ presses[j].here : j \in 1..(i - 1)} :
       Becomes(i, [NoPress EXCEPT !.stage = "asked", !.here = TRUE, !.coded = coded])
  /\ UNCHANGED <<tour, at, version, entry, done, owed, muddled>>

Step(i) == tour.steps[presses[i].step]
Mark(i, stage) == Becomes(i, [presses[i] EXCEPT !.stage = stage])

\* The service carries the call out; a call it has carried out before is
\* carried out again, changes nothing, or is turned down.
Executes(i) ==
  /\ presses[i].stage = "asked" /\ Step(i).served
  /\ Step(i).again = "refused" => done[presses[i].step] = 0
  /\ LET acts == Step(i).again = "again" \/ done[presses[i].step] = 0
         newest == IF acts /\ Step(i).touches THEN version + 1 ELSE version
     IN  /\ version' = newest
         /\ done' = IF acts THEN [done EXCEPT ![presses[i].step] = @ + 1] ELSE done
         /\ Becomes(i, [presses[i] EXCEPT !.stage = "done",
                                          !.mine = IF newest # version THEN newest ELSE @])
  /\ UNCHANGED <<tour, at, entry, owed, muddled>>

\* Not permitted, turned down by a rule, or broken before anything was done.
Refuses(i) ==
  /\ presses[i].stage = "asked"
  /\ Mark(i, "refused")
  /\ UNCHANGED <<tour, at, version, entry, done, owed, muddled>>

\* The answer to a call that was carried out does not arrive.
BreaksAfter(i) ==
  /\ presses[i].stage = "done"
  /\ Mark(i, "late")
  /\ UNCHANGED <<tour, at, version, entry, done, owed, muddled>>

AsksForCode(i) ==
  /\ presses[i].stage = "asked" /\ tour.code /\ ~presses[i].coded
  /\ Mark(i, "wants code")
  /\ UNCHANGED <<tour, at, version, entry, done, owed, muddled>>

\* The form becomes the card, if it is still there.
ShowsCard(i) ==
  /\ presses[i].stage = "wants code" /\ ~presses[i].deaf
  /\ Mark(i, IF presses[i].here THEN "code" ELSE "over")
  /\ UNCHANGED <<tour, at, version, entry, done, owed, muddled>>

EntersCode(i) ==
  /\ presses[i].stage = "code"
  /\ Becomes(i, [presses[i] EXCEPT !.stage = "asked", !.coded = TRUE])
  /\ UNCHANGED <<tour, at, version, entry, done, owed, muddled>>

CancelsCode(i) ==
  /\ presses[i].stage = "code"
  /\ Mark(i, "over")
  /\ UNCHANGED <<tour, at, version, entry, done, owed, muddled>>

(***************************************************************************)
(* The answer.                                                             *)
(***************************************************************************)

\* A card on a page that is gone tells nobody.
Tells(i) == tour.says # "card" \/ presses[i].here
LastStep(i) == presses[i].step = Len(tour.steps)

\* The mutation is over: the next one of the press starts, or the component
\* says so and refetches.
Concludes(i, all, e) ==
  IF ~LastStep(i)
  THEN /\ presses' = [all EXCEPT ![i] = [all[i] EXCEPT !.stage = "asked", !.step = presses[i].step + 1]]
       /\ UNCHANGED <<muddled>>
       /\ entry' = e
  ELSE /\ presses' = [all EXCEPT ![i] = [all[i] EXCEPT !.stage = "over", !.told = Tells(i)]]
       /\ muddled' = (muddled \/ ~Tells(i))
       /\ entry' = IF tour.refetches THEN Refetch(e) ELSE e

\* onSuccess: what the hook covers is invalidated; a hook that returns the
\* promise keeps its mutation pending until the queries on the page are there.
Hears(i) ==
  /\ presses[i].stage = "done" /\ ~presses[i].deaf
  /\ owed' = IF Step(i).touches /\ ~Step(i).excused /\ presses[i].mine > owed THEN presses[i].mine
             ELSE owed
  /\ LET e == IF Step(i).covers THEN Invalidate(entry) ELSE entry
         all == IF Step(i).covers /\ Watching THEN Superseded(presses) ELSE presses
     IN  IF Step(i).waits
         THEN /\ presses' = [all EXCEPT ![i] = [all[i] EXCEPT
                                !.stage = "settling", !.awaits = Step(i).covers /\ Watching]]
              /\ entry' = e
              /\ UNCHANGED muddled
         ELSE Concludes(i, all, e)
  /\ UNCHANGED <<tour, at, version, done>>

\* Faulty variant: the promise is not returned to the mutation.
SettlesAtOnce(i) ==
  /\ presses[i].stage = "settling" /\ ~presses[i].deaf
  /\ Concludes(i, presses, entry)
  /\ UNCHANGED <<tour, at, version, done, owed>>

Settles(i) ==
  /\ presses[i].stage = "settling" /\ ~presses[i].awaits /\ ~presses[i].deaf
  /\ Concludes(i, presses, entry)
  /\ UNCHANGED <<tour, at, version, done, owed>>

\* An error invalidates nothing.
HearsError(i) ==
  /\ presses[i].stage \in {"refused", "late"} /\ ~presses[i].deaf
  /\ Becomes(i, [presses[i] EXCEPT !.stage = "over", !.told = tour.says = "always"])
  /\ muddled' = (muddled \/ presses[i].stage = "late" \/ presses[i].step > 1)
  /\ UNCHANGED <<tour, at, version, entry, done, owed>>

(***************************************************************************)
(* The system.                                                             *)
(***************************************************************************)

TabInit ==
  /\ tour \in Tours
  /\ at = tour.page
  /\ version = 1
  /\ entry = IF tour.page = tour.viewer THEN Refetch(NoEntry) ELSE NoEntry
  /\ presses = [i \in Presses |-> NoPress]
  /\ done = [k \in Steps |-> 0]
  /\ owed = 0
  /\ muddled = FALSE

TabNext ==
  \/ Ages \/ Collected \/ Polls \/ PressRetry \/ ServiceReads \/ Lands \/ FetchFails
  \/ Reload \/ \E page \in {tour.page, tour.viewer, "away"} : Visit(page)
  \/ \E i \in Presses :
       \/ Press(i) \/ Executes(i) \/ Refuses(i) \/ BreaksAfter(i) \/ AsksForCode(i)
       \/ ShowsCard(i) \/ EntersCode(i) \/ CancelsCode(i) \/ Hears(i) \/ Settles(i)
       \/ HearsError(i)

TabSpec == TabInit /\ [][TabNext]_tabVars

(***************************************************************************)
(* Properties.                                                             *)
(***************************************************************************)

PressRows == [stage : {"none", "asked", "done", "refused", "late", "wants code", "code",
                       "settling", "over"},
              step : Nat, here : BOOLEAN, deaf : BOOLEAN, coded : BOOLEAN, mine : Nat,
              awaits : BOOLEAN, told : BOOLEAN]

TabTypeOK ==
  /\ tour \in Tours
  /\ at \in {tour.page, tour.viewer, "away"}
  /\ version \in Nat \ {0}
  /\ entry \in [seen : 0..version, stale : BOOLEAN, fetch : {"none", "asked", "answered"},
                read : 0..version, failed : BOOLEAN, overtaken : BOOLEAN,
                crossed : BOOLEAN]
  /\ presses \in [Presses -> PressRows]
  /\ \A i \in Presses : presses[i].step \in Steps /\ presses[i].mine <= version
  /\ done \in [Steps -> Nat]
  /\ owed \in 0..version
  /\ muddled \in BOOLEAN

\* A list on the screen that is not being fetched, and whose last fetch
\* worked, shows every change this tab was told it had made: on the page of
\* the control or on the one visited next, whatever was in flight when the
\* answer came, except where a hook leaves the list behind (LeftBehind) or an
\* older answer landed after the invalidation (crossed).
OwnChangeShows ==
  Watching /\ entry.seen # 0 /\ entry.fetch = "none" /\ ~entry.failed /\ ~entry.crossed
    => entry.seen >= owed

\* Nothing is done twice by somebody who presses again without having been
\* told: either the control is disabled while the first press runs, or the
\* service takes the second call for what it is.  Who left before the answer,
\* or was told of an error that came too late, is not protected.
NotDoneTwice == ~muddled => \A k \in Steps : done[k] <= 1

\* Where the hook returns the promise of its invalidation and the button waits
\* for it, the page says "done" only when the list under it shows what was
\* done, or says it could not be fetched.
ToldThenShown ==
  [][\A i \in Presses :
       /\ presses[i].stage = "settling" /\ presses'[i].told /\ tour.guard = "pending"
       /\ Watching /\ Step(i).covers /\ ~entry.failed /\ ~entry.crossed /\ ~muddled
       => entry.seen >= presses[i].mine]_tabVars
=============================================================================
