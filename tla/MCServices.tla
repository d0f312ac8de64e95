------------------------------ MODULE MCServices ------------------------------
(***************************************************************************)
(* The comparison of version vectors, the semaphore, the watch aggregator,   *)
(* the event logger and the configuration wrapper side by side. One of them  *)
(* runs, chosen at first; a property of one says nothing while another runs. *)
(***************************************************************************)
EXTENDS VectorCompare, FiniteSets, TLC

CONSTANTS
  t1, t2, t3, root, dir, dirA, dirB, beside, s1, s2, m1, m2,
  Takers, Size, Capacities, MaxTakes, MaxSets,   \* of the semaphore
  Listeners,                                   \* subscribers of events and of configurations
  BufferSize, RingSize, MaxLogged,             \* of the events
  Modifiers, maxModifications, MaxVersions   \* of the configuration
ASSUME SemaphoreAssumption ==
  IsFiniteSet(Takers) /\ Size \in [Takers -> Nat] /\ Capacities \subseteq Nat /\ Capacities # {}
ASSUME EventsAssumption == BufferSize \in Nat /\ RingSize \in Nat \ {0}

VARIABLES
  which,
  max, available, take, size, cancelled, told, taken, takes, sets,
  tracked, removes, nonRemoves, timer, needsReset, batches, notifying, inProgress, unseen, count,
  logQueue, logSubs, nextIDs, sending, channel, open, ring, next, cur, since, found, dropped, logged, running,
  cfg, file, queue, serve, saveTimer, saveTimerRunning, subs, commits, modifier, leaving, applied

semaphoreVars == <<max, available, take, size, cancelled, told, taken, takes, sets>>
aggregatorVars == <<tracked, removes, nonRemoves, timer, needsReset, batches, notifying, inProgress, unseen, count>>
eventsVars == <<logQueue, logSubs, nextIDs, sending, channel, open, ring, next, cur, since, found, dropped, logged, running>>
configVars == <<cfg, file, queue, serve, saveTimer, saveTimerRunning, subs, commits, modifier, leaving, applied>>

MCIDs == 0..2

\* Three that take 1, 2 and 3, with a capacity that changes.
ThreeTakers == {t1, t2, t3}
OneTwoThree == t1 :> 1 @@ t2 :> 2 @@ t3 :> 3
S == INSTANCE Semaphore

\* A directory with two items, and an item beside it that the puller works on.
A == INSTANCE WatchAggregator WITH
  Root <- root, Paths <- {dir, dirA, dirB, beside}, Parent <- dir :> root @@ dirA :> dir @@ dirB :> dir @@ beside :> root,
  Pulled <- {beside}, maxFiles <- 2, maxFilesPerDir <- 1, MaxEvents <- 3

TwoListeners == {s1, s2}
L == INSTANCE Events WITH
  Subscribers <- Listeners, MaxEvents <- MaxLogged,
  queue <- logQueue, subs <- logSubs, result <- found

\* The queue of modifications is full with one.
TwoModifiers == {m1, m2}
C == INSTANCE ConfigWrapper WITH Subscribers <- Listeners, SaveFails <- FALSE

\* A component that does not run begins in one way.
InitOne ==
  /\ which \in {"compare", "semaphore", "aggregator", "events", "config"}
  /\ Init /\ S!Init /\ A!Init /\ L!Init /\ C!Init
  /\ which # "compare" => a = <<>> /\ b = <<>>
  /\ which # "semaphore" => max = CHOOSE capacity \in Capacities : TRUE

\* A step of the component that runs.
One(compare, semaphore, aggregator, events, config) ==
  /\ UNCHANGED which
  /\ \/ which = "compare" /\ compare
        /\ UNCHANGED <<semaphoreVars, aggregatorVars, eventsVars, configVars>>
     \/ which = "semaphore" /\ semaphore
        /\ UNCHANGED <<vars, aggregatorVars, eventsVars, configVars>>
     \/ which = "aggregator" /\ aggregator
        /\ UNCHANGED <<vars, semaphoreVars, eventsVars, configVars>>
     \/ which = "events" /\ events
        /\ UNCHANGED <<vars, semaphoreVars, aggregatorVars, configVars>>
     \/ which = "config" /\ config
        /\ UNCHANGED <<vars, semaphoreVars, aggregatorVars, eventsVars>>

NextOne == One(Next, S!Next, A!Next, L!Next, C!Next)

allVars == <<which, vars, semaphoreVars, aggregatorVars, eventsVars, configVars>>

SpecOne == InitOne /\ [][NextOne]_allVars

\* Only one of the components runs: fairness of its step is fairness of the disjunction.
FairOne ==
  /\ SpecOne
  /\ WF_allVars(One(Next, S!FairStep(t1), A!TimerExpires, L!SendEvent \/ L!Deliver \/ L!Drop, C!Continue))
  /\ WF_allVars(One(FALSE, S!FairStep(t2), A!ActOnTimer, FALSE, C!Commits))
  /\ WF_allVars(One(FALSE, S!FairStep(t3), A!HandOver, FALSE, C!Unsubscribed(s1)))
  /\ WF_allVars(One(FALSE, FALSE, A!NotifyDone, FALSE, C!Unsubscribed(s2)))
  /\ WF_allVars(One(FALSE, FALSE, A!TimePasses, FALSE, FALSE))
  /\ SF_allVars(One(FALSE, FALSE, FALSE, FALSE, C!ServeModification))
  /\ SF_allVars(One(FALSE, FALSE, FALSE, FALSE, C!ServeSave))

-----------------------------------------------------------------------------
(* Properties, as their modules state them *)

\* Semaphore: what is available and what is taken is the capacity, whatever it changes to,
\* and no more is taken than a capacity that there was.
SemaphoreRight == S!NothingLost /\ S!NotOversold

\* Events: Since returns every event of the subscription that was not dropped, and what it
\* returns has numbers that are consecutive.
EventsRight == L!SinceIsComplete /\ L!NumbersAreFresh

\* ConfigWrapper: a subscriber sees every version from its subscription on, and none after
\* Unsubscribe has returned.
ConfigRight == C!EveryVersionSeen /\ C!NoCommitAfterUnsubscribe

\* Nobody waits for ever. Semaphore: every take returns. WatchAggregator: every change is
\* handed over in the end. ConfigWrapper: what is in effect ends up on disk.
AllServed ==
  /\ which = "semaphore" => S!TakeReturns
  /\ which = "aggregator" => A!AllHandedOver
  /\ which = "config" => C!FileFollows
=============================================================================
