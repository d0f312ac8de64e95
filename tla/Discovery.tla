------------------------------- MODULE Discovery -------------------------------
(***************************************************************************)
(* How a device is found over a discovery server. It announces its address   *)
(* when that changes and again and again (globalClient.Serve); the server    *)
(* keeps what was announced for a while; another device looks it up, through *)
(* the manager of its finders, which caches what was found and what was not. *)
(* All times are what is left, or has gone by, in units in which a request   *)
(* takes no time.                                                            *)
(***************************************************************************)
EXTENDS Integers, FiniteSets

CONSTANTS
  Addresses,
  Lifetime,        \* of an address on the server
  Reannounce,      \* the server's Reannounce-After
  ErrorRetry,      \* announceErrorRetryInterval
  AnnounceRetry,   \* what a server may say in Retry-After to an announcement that fails
  LookupRetry,     \* and to a lookup that does not find anything
  CacheTime, NegCacheTime,
  MaxResets,       \* maxAddressChangesBetweenAnnouncements
  CopyApart        \* whether a configuration is committed between the copy of the manager and its use

VARIABLES
  addrs,           \* the addresses of the device: one or none
  events,          \* changes that are told to the announcer
  timer, fired,    \* the timer, and what it has put in its channel
  resets,          \* timerResetCount
  posting,         \* what is being announced
  records,         \* what the server has: the time that is left for each address
  enabled,         \* the other device is configured to use the server
  started, copy,   \* its manager has committed the configuration it began with, and that
  finder,          \* the manager has the finder
  cache,           \* its entries for the device: one or none
  asking,          \* a lookup waits for the server
  steady           \* how long nothing has changed or failed

vars == <<addrs, events, timer, fired, resets, posting, records, enabled, started, copy, finder, cache, asking, steady>>
announcer == <<addrs, events, timer, fired, resets, posting>>
manager == <<enabled, started, copy, finder, cache, asking>>

Later(t, u) == IF t > u THEN t ELSE u
Longest(S) == CHOOSE t \in S : \A u \in S : u <= t
Idle == -1    \* a timer that does not run

\* After so long without changes and failures the device has announced itself and the other has
\* asked again.
FoundAfter == Longest({Reannounce, ErrorRetry} \cup AnnounceRetry) + Longest({CacheTime, NegCacheTime} \cup LookupRetry) + 1
ForgottenAfter == FoundAfter + Lifetime + 1

Init ==
  /\ addrs \in {{}} \cup {{a} : a \in Addresses}
  /\ events = 0 /\ timer = 0 /\ fired = FALSE /\ resets = 0
  /\ posting = {}
  /\ records = [a \in Addresses |-> Idle]
  /\ enabled = TRUE /\ started = FALSE /\ copy = {} /\ finder = FALSE
  /\ cache = {} /\ asking = FALSE
  /\ steady = 0

-----------------------------------------------------------------------------
(* The announcer *)

ChangeAddress ==
  /\ events <= MaxResets
  /\ \E as \in {{}} \cup {{a} : a \in Addresses} : as # addrs /\ addrs' = as
  /\ events' = events + 1
  /\ steady' = 0
  /\ UNCHANGED <<timer, fired, resets, posting, records, manager>>

\* An event puts the announcement off for a moment, but one too many puts it off for longer, and
\* those after it do nothing. What the timer has sent already stays in its channel.
HandleEvent ==
  /\ events > 0 /\ posting = {}
  /\ events' = events - 1
  /\ timer' = IF resets < MaxResets THEN 0 ELSE IF resets = MaxResets THEN ErrorRetry ELSE timer
  /\ resets' = IF resets <= MaxResets THEN resets + 1 ELSE resets
  /\ UNCHANGED <<addrs, fired, posting, records, manager, steady>>

TimerFires ==
  /\ timer = 0
  /\ fired' = TRUE
  /\ timer' = Idle
  /\ UNCHANGED <<addrs, events, resets, posting, records, manager, steady>>

\* Without an address there is nothing to announce.
SendAnnouncement ==
  /\ fired /\ posting = {}
  /\ fired' = FALSE
  /\ resets' = 0
  /\ posting' = addrs
  /\ timer' = IF addrs = {} THEN ErrorRetry ELSE timer
  /\ UNCHANGED <<addrs, events, records, manager, steady>>

Posted(as) == records' = [a \in Addresses |-> IF a \in as THEN Lifetime ELSE records[a]]

Announced ==
  /\ posting # {}
  /\ Posted(posting)
  /\ posting' = {}
  /\ timer' = Reannounce
  /\ UNCHANGED <<addrs, events, fired, resets, manager, steady>>

\* The request fails before or after it has reached the server, or is refused with a time to wait.
AfterFailure == {ErrorRetry} \cup AnnounceRetry
AnnounceFails ==
  /\ posting # {}
  /\ Posted(posting) \/ UNCHANGED records
  /\ posting' = {}
  /\ timer' \in AfterFailure
  /\ steady' = 0
  /\ UNCHANGED <<addrs, events, fired, resets, manager>>

\* The server has lost its record.
LoseRecord ==
  /\ records' = [a \in Addresses |-> Idle]
  /\ steady' = 0
  /\ UNCHANGED <<announcer, manager>>

-----------------------------------------------------------------------------
(* The manager of the device that looks it up *)

\* What is removed goes with its cache.
UseFinder(use) ==
  /\ finder' = use
  /\ cache' = IF use /\ finder THEN cache ELSE {}

\* serve subscribes, takes a copy of the configuration, and commits it.
Copy ==
  /\ ~started /\ copy = {}
  /\ copy' = {enabled}
  /\ UNCHANGED <<announcer, records, enabled, started, finder, cache, asking, steady>>

Start ==
  /\ copy # {} /\ ~asking
  /\ started' = TRUE
  /\ copy' = {}
  /\ \E use \in copy : UseFinder(use)
  /\ steady' = 0
  /\ UNCHANGED <<announcer, records, enabled, asking>>

\* CommitConfiguration waits for lookups, which hold the lock.
CommitConfiguration ==
  /\ ~asking
  /\ CopyApart \/ copy = {}
  /\ enabled' = ~enabled
  /\ UseFinder(~enabled)
  /\ steady' = 0
  /\ UNCHANGED <<announcer, records, started, copy, asking>>

Positive == [found |-> TRUE, addrs |-> {}, age |-> 0, wait |-> 0]
Fresh(entry) == entry.found /\ entry.age < CacheTime
Valid(entry) == ~entry.found /\ (entry.wait > 0 \/ entry.age < NegCacheTime)
\* Whether the cache answers a lookup.
Cached_Ever == cache # {}
Cached == \E entry \in cache : Fresh(entry) \/ Valid(entry)

Lookup ==
  /\ finder /\ ~asking
  /\ ~Cached
  /\ asking' = TRUE
  /\ UNCHANGED <<announcer, records, enabled, started, copy, finder, cache, steady>>

OnServer == {a \in Addresses : records[a] # Idle}
NotFound(wait) == [found |-> FALSE, addrs |-> {}, age |-> 0, wait |-> wait]

Answered ==
  /\ asking
  /\ asking' = FALSE
  /\ IF OnServer # {} THEN cache' = {[Positive EXCEPT !.addrs = OnServer]}
                      ELSE \E wait \in LookupRetry : cache' = {NotFound(wait)}
  /\ UNCHANGED <<announcer, records, enabled, started, copy, finder, steady>>

LookupFails ==
  /\ asking
  /\ asking' = FALSE
  /\ \E wait \in {0} \cup LookupRetry : cache' = {NotFound(wait)}
  /\ steady' = 0
  /\ UNCHANGED <<announcer, records, enabled, started, copy, finder>>

-----------------------------------------------------------------------------

Oldest == Later(CacheTime, NegCacheTime)
Down(t) == IF t = 0 THEN 0 ELSE t - 1

\* Time passes when nothing is due; the other device asks whenever it may.
Tick ==
  /\ timer # 0 /\ ~fired /\ posting = {} /\ events = 0 /\ ~asking
  /\ started /\ (finder => Cached)
  /\ timer' = timer - 1
  /\ records' = [a \in Addresses |-> IF records[a] = Idle THEN Idle ELSE records[a] - 1]
  /\ cache' = {[entry EXCEPT !.age = IF @ < Oldest THEN @ + 1 ELSE @, !.wait = Down(@)] : entry \in cache}
  /\ steady' = IF steady < ForgottenAfter THEN steady + 1 ELSE steady
  /\ UNCHANGED <<addrs, events, fired, resets, posting, enabled, started, copy, finder, asking>>

Next ==
  \/ ChangeAddress \/ HandleEvent \/ TimerFires \/ SendAnnouncement \/ Announced \/ AnnounceFails \/ LoseRecord
  \/ Copy \/ Start \/ CommitConfiguration \/ Lookup \/ Answered \/ LookupFails
  \/ Tick

Spec == Init /\ [][Next]_vars

-----------------------------------------------------------------------------
(* Properties *)

Answer == UNION {entry.addrs : entry \in cache}

\* Once the manager has begun it has the finder if it is configured to.
FinderFollows == started => finder = enabled

\* A device whose address has not changed for long enough, with a server and a network that work,
\* is found there, and nowhere else.
FoundWhenSteady ==
  /\ steady >= FoundAfter /\ finder /\ Cached => addrs \subseteq Answer
  /\ steady >= ForgottenAfter /\ finder /\ Cached => Answer = addrs

\* The announcer always has a reason to announce again.
StaysAwake == timer # Idle \/ fired \/ posting # {}

DiscoveryRight == FinderFollows /\ FoundWhenSteady /\ StaysAwake
=============================================================================
