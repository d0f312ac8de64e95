------------------------------ MODULE Semaphore ------------------------------
(***************************************************************************)
(* The counting semaphore of lib/semaphore/semaphore.go: takes of different *)
(* sizes that can be given up, and a capacity that changes meanwhile.       *)
(***************************************************************************)
EXTENDS Integers, FiniteSetsExt

CONSTANTS
  Takers,      \* routines that take and give
  Size,        \* how much each of them asks for, each time
  Capacities,  \* the capacities the semaphore can be set to
  MaxTakes,    \* bound on the takes
  MaxSets      \* bound on the changes of the capacity

VARIABLES
  max, available,
  take,        \* where each taker is
  size,        \* what it asks for, cut down to the capacity
  cancelled,   \* the context of its take is done
  told,        \* TakeWithContext has seen that and has woken all who wait
  taken,       \* what it holds
  takes, sets

semaphore == <<max, available>>
vars == <<max, available, take, size, cancelled, told, taken, takes, sets>>

Smaller(a, b) == IF a < b THEN a ELSE b
Held == {t \in Takers : take[t] = "holding"}

Init ==
  /\ max \in Capacities
  /\ available = max
  /\ take = [t \in Takers |-> "idle"]
  /\ size = [t \in Takers |-> 0]
  /\ taken = [t \in Takers |-> 0]
  /\ cancelled = [t \in Takers |-> FALSE]
  /\ told = [t \in Takers |-> FALSE]
  /\ takes = 0
  /\ sets = 0

\* Broadcast: who waits looks again.
Woken == [t \in Takers |-> IF take[t] = "waiting" THEN "woken" ELSE take[t]]

\* takeInner begins and finds the context alive.
Begin(t) ==
  /\ take[t] = "idle"
  /\ takes < MaxTakes
  /\ takes' = takes + 1
  /\ take' = [take EXCEPT ![t] = "begun"]
  /\ size' = [size EXCEPT ![t] = Size[t]]
  /\ cancelled' = [cancelled EXCEPT ![t] = FALSE]
  /\ told' = [told EXCEPT ![t] = FALSE]
  /\ UNCHANGED <<semaphore, taken, sets>>

\* Mutant: whoever has waited does not compare again.
Fits_Once(t, wanted) == take[t] = "woken" \/ wanted <= available
Fits(t, wanted) == wanted <= available

\* takeInner with the lock, at first or woken up: it gives up if the context is done
\* (which it only looks at when woken), takes, or waits.
Try(t) ==
  /\ take[t] \in {"begun", "woken"}
  /\ LET wanted == Smaller(size[t], max)
     IN  IF take[t] = "woken" /\ cancelled[t]
         THEN /\ take' = [take EXCEPT ![t] = "idle"]
              /\ UNCHANGED <<size, taken, available>>
         ELSE /\ size' = [size EXCEPT ![t] = wanted]
              /\ \/ /\ Fits(t, wanted)
                    /\ take' = [take EXCEPT ![t] = "holding"]
                    /\ available' = available - wanted
                    /\ taken' = [taken EXCEPT ![t] = wanted]
                 \/ /\ ~Fits(t, wanted)
                    /\ take' = [take EXCEPT ![t] = "waiting"]
                    /\ UNCHANGED <<available, taken>>
  /\ UNCHANGED <<max, cancelled, told, takes, sets>>

Cancel(t) ==
  /\ take[t] \in {"begun", "waiting", "woken"}
  /\ ~cancelled[t]
  /\ cancelled' = [cancelled EXCEPT ![t] = TRUE]
  /\ UNCHANGED <<semaphore, take, size, told, taken, takes, sets>>

\* TakeWithContext wakes all, without the lock.
Tell(t) ==
  /\ cancelled[t] /\ ~told[t]
  /\ take[t] # "idle"
  /\ told' = [told EXCEPT ![t] = TRUE]
  /\ take' = Woken
  /\ UNCHANGED <<semaphore, size, cancelled, taken, takes, sets>>

\* Mutant: nobody is woken.
AfterGive_Silent(t) == [take EXCEPT ![t] = "idle"]
AfterGive(t) == [Woken EXCEPT ![t] = "idle"]
\* Give, by the size that was asked for.
Give(t) ==
  /\ take[t] = "holding"
  /\ available' = Smaller(available + Smaller(Size[t], max), max)
  /\ take' = AfterGive(t)
  /\ taken' = [taken EXCEPT ![t] = 0]
  /\ UNCHANGED <<max, size, cancelled, told, takes, sets>>

\* Mutant: what is available may become negative.
Available_NoFloor(a, capacity) == Smaller(a, capacity)
Available(a, capacity) == IF a < 0 THEN 0 ELSE Smaller(a, capacity)
SetCapacity(capacity) ==
  /\ sets < MaxSets
  /\ capacity # max
  /\ sets' = sets + 1
  /\ max' = capacity
  /\ available' = Available(available + capacity - max, capacity)
  /\ take' = Woken
  /\ UNCHANGED <<size, cancelled, told, taken, takes>>

Next ==
  \/ \E t \in Takers : Begin(t) \/ Try(t) \/ Cancel(t) \/ Tell(t) \/ Give(t)
  \/ \E capacity \in Capacities : SetCapacity(capacity)

Spec == Init /\ [][Next]_vars

\* Who holds something gives it back, and the rest is the routine running.
FairStep(t) == Try(t) \/ Tell(t) \/ Give(t)
FairSpec == Spec /\ \A t \in Takers : WF_vars(FairStep(t))

-----------------------------------------------------------------------------
(* Properties *)

TypeOK ==
  /\ max \in Capacities
  /\ available \in 0..max
  /\ take \in [Takers -> {"idle", "begun", "waiting", "woken", "holding"}]
  /\ \A t \in Takers : taken[t] \in 0..Size[t]

Total(f, S) == MapThenSumSet(LAMBDA t : f[t], S)

\* Whatever the capacity is changed to while others hold more than it: what is given back
\* is not lost, so with nobody holding anything all of the capacity is available.
NothingLost == available + Total(Size, Held) >= max

\* As long as the capacity stays, no more is held than it allows.
NotOversold == sets = 0 => Total(taken, Held) <= max

\* Every take returns: it gets its size, however large, or its context is done.
TakeReturns == \A t \in Takers : take[t] = "begun" ~> take[t] \in {"holding", "idle"}

\* A take whose context is done returns although nobody gives anything back.
CancelReturns == \A t \in Takers : cancelled[t] /\ take[t] # "holding" ~> take[t] \in {"holding", "idle"}
=============================================================================
