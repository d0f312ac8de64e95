-------------------------------- MODULE Events --------------------------------
(***************************************************************************)
(* The event logger of lib/events/events.go: events are numbered for each   *)
(* subscription and delivered over bounded channels by one routine, which   *)
(* drops what a subscriber does not take in time; buffered subscriptions    *)
(* keep the last events in a ring for readers that ask for those since one. *)
(***************************************************************************)
EXTENDS Naturals, Sequences, SequencesExt

CONSTANTS
  Subscribers,
  BufferSize,   \* of the channels
  RingSize,     \* of the buffered subscriptions
  MaxEvents     \* bound on the events

VARIABLES
  queue,               \* the number of events logged and not sent
  subs, nextIDs,       \* subs and nextSubscriptionIDs, in parallel
  sending,             \* the index in subs that sendEvent is at, or 0
  channel, open,       \* the channel of each subscription
  ring, next, cur,     \* bufferedSubscription: buf, next and cur
  since, result,       \* the last call of Since of each reader, and what it returned
  dropped,             \* the events of each subscription that have timed out
  logged, running

vars == <<queue, subs, nextIDs, sending, channel, open, ring, next, cur, since, result, dropped,
          logged, running>>
rings == <<ring, next, cur>>
readers == <<since, result>>

Init ==
  /\ queue = 0
  /\ subs = <<>> /\ nextIDs = <<>>
  /\ sending = 0
  /\ channel = [s \in Subscribers |-> <<>>]
  /\ open = [s \in Subscribers |-> "new"]
  /\ ring = [s \in Subscribers |-> [i \in 1..RingSize |-> 0]]
  /\ next = [s \in Subscribers |-> 1]
  /\ cur = [s \in Subscribers |-> 0]
  /\ since = [s \in Subscribers |-> 0]
  /\ result = [s \in Subscribers |-> <<>>]
  /\ dropped = [s \in Subscribers |-> {}]
  /\ logged = 0
  /\ running = TRUE

Log ==
  /\ logged < MaxEvents
  /\ queue < BufferSize
  /\ logged' = logged + 1
  /\ queue' = queue + 1
  /\ UNCHANGED <<subs, nextIDs, sending, channel, open, rings, readers, dropped, running>>

-----------------------------------------------------------------------------
(* The routine of the logger *)

AtSelect == running /\ sending = 0

Subscribe(s) ==
  /\ AtSelect
  /\ open[s] = "new"
  /\ open' = [open EXCEPT ![s] = "open"]
  /\ subs' = Append(subs, s)
  /\ nextIDs' = Append(nextIDs, 1)
  /\ UNCHANGED <<queue, sending, channel, rings, readers, dropped, logged, running>>

\* The last element takes the place of the one that goes.
TakeOut(seq, i) == [j \in 1..(Len(seq) - 1) |-> IF j = i THEN Last(seq) ELSE seq[j]]
\* Mutant: the numbers stay where they are.
NumbersWithout_Cut(i) == Front(nextIDs)
NumbersWithout(i) == TakeOut(nextIDs, i)

Unsubscribe(s) ==
  /\ AtSelect
  /\ \E i \in 1..Len(subs) :
       /\ subs[i] = s
       /\ subs' = TakeOut(subs, i)
       /\ nextIDs' = NumbersWithout(i)
  /\ open' = [open EXCEPT ![s] = "closed"]
  /\ UNCHANGED <<queue, sending, channel, rings, readers, dropped, logged, running>>

SendEvent ==
  /\ AtSelect
  /\ queue > 0
  /\ queue' = queue - 1
  /\ sending' = IF subs = <<>> THEN 0 ELSE 1
  /\ UNCHANGED <<subs, nextIDs, channel, open, rings, readers, dropped, logged, running>>

AfterSub == /\ sending' = IF sending = Len(subs) THEN 0 ELSE sending + 1
            /\ nextIDs' = [nextIDs EXCEPT ![sending] = @ + 1]

\* Mutant: the numbers are those of the events delivered, not of all.
AfterDrop_Renumbered == sending' = (IF sending = Len(subs) THEN 0 ELSE sending + 1) /\ UNCHANGED nextIDs
AfterDrop == AfterSub

Deliver ==
  /\ sending > 0
  /\ LET s == subs[sending]
     IN  /\ Len(channel[s]) < BufferSize
         /\ channel' = [channel EXCEPT ![s] = Append(@, nextIDs[sending])]
  /\ AfterSub
  /\ UNCHANGED <<queue, subs, open, rings, readers, dropped, logged, running>>

\* Mutant: an event that does not fit is waited with.
MayDrop_Never == FALSE
MayDrop == sending > 0 /\ Len(channel[subs[sending]]) = BufferSize
Drop ==
  /\ MayDrop
  /\ dropped' = [dropped EXCEPT ![subs[sending]] = @ \cup {nextIDs[sending]}]
  /\ AfterDrop
  /\ UNCHANGED <<queue, subs, channel, open, rings, readers, logged, running>>

Stop ==
  /\ AtSelect
  /\ running' = FALSE
  /\ open' = [s \in Subscribers |-> IF \E i \in 1..Len(subs) : subs[i] = s THEN "closed" ELSE open[s]]
  /\ UNCHANGED <<queue, subs, nextIDs, sending, channel, rings, readers, dropped, logged>>

-----------------------------------------------------------------------------
(* Buffered subscriptions *)

\* Mutant: the ring wraps one late.
Following_Late(i) == IF i > RingSize THEN 1 ELSE i + 1
Following(i) == IF i = RingSize THEN 1 ELSE i + 1

Poll(s) ==
  /\ channel[s] # <<>>
  /\ channel' = [channel EXCEPT ![s] = Tail(@)]
  /\ ring' = [ring EXCEPT ![s][next[s]] = Head(channel[s])]
  /\ next' = [next EXCEPT ![s] = Following(@)]
  /\ cur' = [cur EXCEPT ![s] = Head(channel[s])]
  /\ UNCHANGED <<queue, subs, nextIDs, sending, open, readers, dropped, logged, running>>

\* Mutant: the ring is read from its beginning.
InOrder_FromStart(s) == ring[s]
InOrder(s) == SubSeq(ring[s], next[s], RingSize) \o SubSeq(ring[s], 1, next[s] - 1)

\* The events after the one with the given number are appended to those to return.
Newer(events, id) == FoldLeft(LAMBDA into, e : IF e > id THEN Append(into, e) ELSE into, <<>>, events)

\* Since, once there is something newer; the reader goes on from what it has seen, or
\* starts again.
Since(s, id) ==
  /\ id < cur[s]
  /\ since' = [since EXCEPT ![s] = id]
  /\ result' = [result EXCEPT ![s] = Newer(InOrder(s), id)]
  /\ UNCHANGED <<queue, subs, nextIDs, sending, channel, open, rings, dropped, logged, running>>

Seen(s) == IF result[s] = <<>> THEN 0 ELSE Last(result[s])

Next ==
  \/ Log \/ SendEvent \/ Deliver \/ Drop \/ Stop
  \/ \E s \in Subscribers : Subscribe(s) \/ Unsubscribe(s) \/ Poll(s)
  \/ \E s \in Subscribers : \E id \in {0, Seen(s)} : Since(s, id)

Spec == Init /\ [][Next]_vars

\* The logger runs; subscribers need not.
FairSpec == Spec /\ WF_vars(SendEvent \/ Deliver \/ Drop)

-----------------------------------------------------------------------------
(* Properties *)

TypeOK ==
  /\ Len(subs) = Len(nextIDs)
  /\ sending \in 0..Len(subs)
  /\ \A s \in Subscribers : /\ Len(channel[s]) <= BufferSize
                            /\ next[s] \in 1..RingSize

\* A reader gets events in their order, each of them newer than what it asked for; one is
\* missing only if it was dropped, or has been pushed out of the ring by others since.
Readers(s) ==
  LET r == result[s]
  IN  /\ \A i \in 1..Len(r) : r[i] > since[s] /\ (i > 1 => r[i] > r[i - 1])
      /\ r # <<>> => \A e \in (since[s] + 1)..Last(r) :
           e \in {r[i] : i \in 1..Len(r)} \/ e \in dropped[s] \/ (Len(r) = RingSize /\ e < r[1])
SinceIsComplete == \A s \in Subscribers : Readers(s)

\* Numbers of a subscription only go up, however many others come and go: nothing in its
\* channel, in its ring or dropped has the number of another event.
NumbersAreFresh ==
  \A i \in 1..Len(subs) : LET s == subs[i] IN
     /\ \A e \in dropped[s] : e < nextIDs[i] /\ e \notin ToSet(channel[s]) \cup ToSet(ring[s])
     /\ \A j \in 1..Len(channel[s]) : channel[s][j] < nextIDs[i]
     /\ cur[s] < nextIDs[i]

\* A subscriber that does not read never blocks the logger and those that log.
NeverBlocked == []<>(queue = 0 \/ ~running)
=============================================================================
