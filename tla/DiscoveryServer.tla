---------------------------- MODULE DiscoveryServer ----------------------------
(***************************************************************************)
(* Discovery servers, and what they have on record of one device: it         *)
(* announces its addresses to one of them, which merges them with those it   *)
(* has, in the goroutine of its store, and passes them on to the others.     *)
(* Lookups count how often the device was not found and put that on record   *)
(* now and then; the statistics delete what nobody has announced or asked    *)
(* for in a long time.                                                       *)
(***************************************************************************)
EXTENDS Integers, Sequences, FiniteSets

CONSTANTS
  Servers, Addresses,
  Lifetime,      \* addressExpiryTime
  Retention,     \* how long records are kept without addresses
  Interval,      \* notFoundMissesWriteInterval
  OutboxSize,    \* replicationOutboxSize
  MaxClock, MaxAnnouncements, MaxLookups, MaxRestarts

VARIABLES
  db,          \* the records
  misses,      \* lookups without hits, in memory
  announce,    \* an announcement whose merge waits in the inbox of the store
  put,         \* a record that a lookup has changed and puts
  doomed,      \* the statistics have found the record useless
  outbox,      \* per pair of servers
  acked,       \* what the server has said it has: a time of expiry per address
  announced,   \* the last answer to an announcement, per server
  overtaken,   \* a record was put or deleted that had been looked at before a merge
  stale,       \* a merge has come since the record was looked at
  clock, announcements, lookups, restarts

vars == <<db, misses, announce, put, doomed, outbox, acked, announced, overtaken, stale, clock, announcements, lookups, restarts>>
ghosts == <<acked, announced, overtaken, stale>>
bounds == <<clock, announcements, lookups, restarts>>

Never == 0    \* no time
Nothing == [expires |-> [a \in Addresses |-> Never], misses |-> 0, seen |-> Never, missed |-> Never]
Pairs == {p \in Servers \X Servers : p[1] # p[2]}

Init ==
  /\ db = [s \in Servers |-> Nothing]
  /\ misses = [s \in Servers |-> 0]
  /\ announce = [s \in Servers |-> {}]
  /\ put = [s \in Servers |-> {}]
  /\ doomed = [s \in Servers |-> FALSE]
  /\ outbox = [p \in Pairs |-> <<>>]
  /\ acked = [s \in Servers |-> [a \in Addresses |-> Never]]
  /\ announced = [s \in Servers |-> Never]
  /\ overtaken = [s \in Servers |-> FALSE]
  /\ stale = [s \in Servers |-> FALSE]
  /\ clock = Retention + 1    \* a time before the retention is later than none
  /\ announcements = 0 /\ lookups = 0 /\ restarts = 0

Later(t, u) == IF t > u THEN t ELSE u
Expired(t) == t < clock

\* merge: the union of the addresses, with the newer time of expiry; of the record on disk the
\* expired ones are left out before, and its misses are not taken over.
Merge_New(new, old) == [new EXCEPT !.seen = Later(@, old.seen)]
Merge(new, old) ==
  [expires |-> [a \in Addresses |-> Later(new.expires[a], IF Expired(old.expires[a]) THEN Never ELSE old.expires[a])],
   misses |-> 0, seen |-> Later(new.seen, old.seen), missed |-> Never]
Found(s) == {a \in Addresses : ~Expired(db[s].expires[a])}

-----------------------------------------------------------------------------
(* Announcements *)

\* handleAnnounce: what is announced goes to the other servers, without the time it was seen at
\* and as far as there is room, and then to the own store.
Announce(s) ==
  /\ announcements < MaxAnnouncements
  /\ announce[s] = {}
  /\ \E as \in SUBSET Addresses \ {{}} :
       LET expires == [a \in Addresses |-> IF a \in as THEN clock + Lifetime ELSE Never]
       IN  /\ announce' = [announce EXCEPT ![s] = {[Nothing EXCEPT !.expires = expires, !.seen = clock]}]
           /\ outbox' = [p \in Pairs |-> IF p[1] = s /\ Len(outbox[p]) < OutboxSize
                                         THEN Append(outbox[p], [Nothing EXCEPT !.expires = expires])
                                         ELSE outbox[p]]
  /\ announcements' = announcements + 1
  /\ UNCHANGED <<db, misses, put, doomed, ghosts, clock, lookups, restarts>>

MergeInto(s, new) ==
  /\ db' = [db EXCEPT ![s] = Merge(new, @)]
  /\ stale' = [stale EXCEPT ![s] = put[s] # {} \/ doomed[s]]

\* The store runs the merge, and the device gets its answer.
Merged(s) ==
  /\ \E new \in announce[s] :
       /\ MergeInto(s, new)
       /\ acked' = [acked EXCEPT ![s] = [a \in Addresses |-> Later(@[a], new.expires[a])]]
       /\ announced' = [announced EXCEPT ![s] = new.seen]
  /\ announce' = [announce EXCEPT ![s] = {}]
  /\ UNCHANGED <<misses, put, doomed, outbox, overtaken, bounds>>

\* The other server has read it.
Replicate(p) ==
  /\ outbox[p] # <<>>
  /\ outbox' = [outbox EXCEPT ![p] = Tail(@)]
  /\ MergeInto(p[2], Head(outbox[p]))
  /\ UNCHANGED <<misses, announce, put, doomed, acked, announced, overtaken, bounds>>

\* The connection fails with the event under way.
LoseEvent(p) ==
  /\ outbox[p] # <<>>
  /\ outbox' = [outbox EXCEPT ![p] = Tail(@)]
  /\ UNCHANGED <<db, misses, announce, put, doomed, ghosts, bounds>>

-----------------------------------------------------------------------------
(* Lookups and statistics *)

LooksAt(s) == stale' = [stale EXCEPT ![s] = @ /\ (put[s] # {} \/ doomed[s])]

\* handleGET when nothing is found: one more miss, which is put on record once in a while. (When
\* something is found nothing changes.)
Misses(s) == IF misses[s] < db[s].misses THEN db[s].misses + 1 ELSE misses[s] + 1
Lookup(s) ==
  /\ lookups < MaxLookups
  /\ put[s] = {}
  /\ Found(s) = {}
  /\ misses' = [misses EXCEPT ![s] = Misses(s)]
  /\ put' = [put EXCEPT ![s] = IF Misses(s) % Interval = 0
                                  THEN {[Nothing EXCEPT !.misses = Misses(s), !.missed = clock, !.seen = db[s].seen]} ELSE {}]
  /\ lookups' = lookups + 1
  /\ LooksAt(s)
  /\ UNCHANGED <<db, announce, doomed, outbox, acked, announced, overtaken, clock, announcements, restarts>>

\* The store runs the put.
Put(s) ==
  /\ \E rec \in put[s] : db' = [db EXCEPT ![s] = rec]
  /\ put' = [put EXCEPT ![s] = {}]
  /\ overtaken' = [overtaken EXCEPT ![s] = @ \/ stale[s]]
  /\ UNCHANGED <<misses, announce, doomed, outbox, acked, announced, stale, bounds>>

\* statisticsServe, with the record its iterator has.
Useless_Unseen(rec) ==
  /\ \A a \in Addresses : Expired(rec.expires[a])
  /\ rec.missed < clock - Retention
Useless(rec) ==
  /\ \A a \in Addresses : Expired(rec.expires[a])
  /\ rec.seen <= clock - Retention
  /\ rec.missed < clock - Retention
CollectStatistics(s) ==
  /\ db[s] # Nothing /\ ~doomed[s]
  /\ Useless(db[s])
  /\ doomed' = [doomed EXCEPT ![s] = TRUE]
  /\ LooksAt(s)
  /\ UNCHANGED <<db, misses, announce, put, outbox, acked, announced, overtaken, bounds>>

\* Its deletion does not go through the goroutine of the store.
Delete(s) ==
  /\ doomed[s]
  /\ doomed' = [doomed EXCEPT ![s] = FALSE]
  /\ db' = [db EXCEPT ![s] = Nothing]
  /\ overtaken' = [overtaken EXCEPT ![s] = @ \/ stale[s]]
  /\ UNCHANGED <<misses, announce, put, outbox, acked, announced, stale, bounds>>

-----------------------------------------------------------------------------

\* What is in memory is gone.
Restart(s) ==
  /\ restarts < MaxRestarts
  /\ restarts' = restarts + 1
  /\ misses' = [misses EXCEPT ![s] = 0]
  /\ announce' = [announce EXCEPT ![s] = {}]
  /\ put' = [put EXCEPT ![s] = {}]
  /\ doomed' = [doomed EXCEPT ![s] = FALSE]
  /\ outbox' = [p \in Pairs |-> IF p[1] = s THEN <<>> ELSE outbox[p]]
  /\ UNCHANGED <<db, ghosts, clock, announcements, lookups>>

Tick ==
  /\ clock < MaxClock
  /\ clock' = clock + 1
  /\ UNCHANGED <<db, misses, announce, put, doomed, outbox, ghosts, announcements, lookups, restarts>>

Next ==
  \/ \E s \in Servers : \/ Announce(s) \/ Merged(s) \/ Lookup(s) \/ Put(s)
                        \/ CollectStatistics(s) \/ Delete(s) \/ Restart(s)
  \/ \E p \in Pairs : Replicate(p) \/ LoseEvent(p)
  \/ Tick

Spec == Init /\ [][Next]_vars

-----------------------------------------------------------------------------
(* Properties *)

\* What a server has said it has is found there until it expires.
FoundAt(s) == \A a \in Addresses : ~Expired(acked[s][a]) => db[s].expires[a] >= acked[s][a]
AcknowledgedIsFound == \A s \in Servers : FoundAt(s)

\* That is so unless a lookup or the statistics had looked at the record before.
FoundUnlessOvertaken == \A s \in Servers : ~overtaken[s] => FoundAt(s)

\* The time at which a device was seen is kept for as long as it matters.
SeenIsKept ==
  \A s \in Servers : announced[s] > clock - Retention /\ ~overtaken[s] => db[s].seen >= announced[s]

\* No address is found for longer than a device said.
NotForLonger == \A s \in Servers : \A a \in Addresses : db[s].expires[a] <= clock + Lifetime

DiscoveryServerRight == FoundUnlessOvertaken /\ SeenIsKept /\ NotForLonger
=============================================================================
