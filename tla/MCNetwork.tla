------------------------------ MODULE MCNetwork ------------------------------
(***************************************************************************)
(* What a device agrees on with others, how it finds them, and what it tells *)
(* them, side by side: the sharing of folders, a relay server, discovery     *)
(* servers, the discovery over one of them, the progress of downloads, and   *)
(* the patterns of what is ignored in a folder. Which of them runs is chosen *)
(* at first, the others stay as they begin.                                  *)
(***************************************************************************)
EXTENDS Sharing, Integers, TLC

CONSTANTS
  d1, d2, c1, c2, f1, k1, k2, a, b, None, s1, s2, x, y, Bad, p1, p2, theFile, theVersion,
  Clients, Peers, MaxSessions,  \* connections to the relay server, those who make them, and bound on the sessions
  Servers, Addresses, RecordLifetime, Retention, Interval, OutboxSize,    \* of discovery servers
  MaxClock, MaxAnnouncements, MaxLookups, MaxRestarts,
  Lifetime, Reannounce, ErrorRetry, AnnounceRetry, LookupRetry, CacheTime, NegCacheTime, MaxResets,   \* of the discovery
  LongestRetry,                 \* bound on what servers say in Retry-After
  Pullers, FileOf, VersionOf, Blocks, MaxReconnects,            \* of the progress of downloads
  Paths, AskedPaths,            \* in a folder, and those that are matched
  SomeFiles, AllFiles,          \* of patterns: those that come and go, and those that are there from the start
  MaxFileEdits

ASSUME RelayAssumption == None \notin Clients /\ MaxSessions \in Nat
ASSUME ServerAssumption == RecordLifetime \in Nat /\ Retention \in Nat
\* A server keeps addresses until they are announced again: in the code two hours, and about one.
ASSUME DiscoveryAssumption ==
  /\ Lifetime \in Nat /\ Reannounce \in Nat /\ Reannounce <= Lifetime
  /\ ErrorRetry \in Nat /\ CacheTime \in Nat /\ NegCacheTime \in Nat /\ MaxResets \in Nat
  /\ LongestRetry \in Nat /\ AnnounceRetry \subseteq 0..LongestRetry /\ LookupRetry \subseteq 0..LongestRetry
\* None is no entry of what has been sent.
ASSUME ProgressAssumption ==
  /\ IsFiniteSet(Pullers)
  /\ None \notin [version : {VersionOf[p] : p \in Pullers}, blocks : SUBSET Blocks, created : Nat, updated : Nat]
\* Paths have names, and lines of a file of patterns have parts.
ASSUME IgnoreAssumption ==
  /\ \A path \in Paths : path \in Seq(STRING) /\ path # <<>>
  /\ \A content \in (SomeFiles \cup AllFiles) \ {Bad} :
       /\ content \in Seq([include : BOOLEAN, rooted : BOOLEAN, segs : Seq(STRING), inside : BOOLEAN])
       /\ \A i \in DOMAIN content : content[i].segs # <<>>
  /\ MaxFileEdits \in Nat

VARIABLES
  which,
  id, at, open, read, joined, outboxes, asked, sessions, with, pending, invited, adding, serving, conns, closed, active,
  contested,
  db, misses, announce, put, doomed, outbox, acked, announced, overtaken, late, clock, announcements, lookups, restarts,
  addrs, events, timer, fired, resets, posting, records, enabled, started, copy, finder, cache, asking, steady,
  puller, pullTime, emitTimer, looked, lastUpdate, lastCount, sentState, channel, remoteState, up, reconnects,
  file, mtime, aside, patterns, remembered, matches, skipIgnoredDirs, loaded

relayVars == <<id, at, open, read, joined, outboxes, asked, sessions, with, pending, invited, adding, serving, conns, closed,
               active, contested>>
serverVars == <<db, misses, announce, put, doomed, outbox, acked, announced, overtaken, late, clock, announcements,
                lookups, restarts>>
discoveryVars == <<addrs, events, timer, fired, resets, posting, records, enabled, started, copy, finder, cache, asking,
                   steady>>
progressVars == <<puller, pullTime, emitTimer, looked, lastUpdate, lastCount, sentState, channel, remoteState, up,
                  reconnects>>
ignoreVars == <<file, mtime, aside, patterns, remembered, matches, skipIgnoredDirs, loaded>>

\* Two introducers, the first known, and with folders that are accepted.
TwoDevices == {d1, d2}
OneFolder == {f1}
TwoConns == {c1, c2}
OneEach == c1 :> d1 @@ c2 :> d2
KnownAtFirst == {d1}
NoDevices == {}

\* Two connections to the relay server, of two devices or of one that asks for itself.
TwoClients == {k1, k2}
TwoPeers == {a, b}
Relay == INSTANCE RelayServer WITH Conns <- Clients, Devices <- Peers, Sessions <- 1..MaxSessions

\* The devices are alike, so the first connection may as well be of the first. A second session is
\* made if both are of one device.
Alike == id'[k1] \in {None, a} /\ (sessions' = 2 => id'[k2] = a)

\* Two servers and two addresses, with restarts, and records that become useless.
TwoServers == {s1, s2}
TwoAddresses == {x, y}
Records == INSTANCE DiscoveryServer WITH Lifetime <- RecordLifetime, stale <- late

Found == INSTANCE Discovery WITH CopyApart <- FALSE

\* Two attempts at one version of one file.
TwoPullers == {p1, p2}
OneFile == [p \in TwoPullers |-> theFile]
OneVersion == [p \in TwoPullers |-> theVersion]
Progress == INSTANCE DownloadProgress WITH
  ReadApart <- TRUE, OthersRemain <- FALSE, clock <- pullTime, timer <- emitTimer, sent <- sentState, remote <- remoteState,
  connected <- up

Names == {"a", "b"}
ShortPaths == UNION {[1..n -> Names] : n \in 1..3}
ThreePaths == {<<"a">>, <<"b">>, <<"a", "b">>}
Segments == {<<m>> : m \in Names \cup {"*"}} \cup {<<m, n>> : m \in Names \cup {"*", "**"}, n \in Names \cup {"*"}}
              \cup {<<"a", "b", "*">>, <<"a", "**", "b">>}
Lines == [include : BOOLEAN, rooted : BOOLEAN, segs : Segments, inside : BOOLEAN]
Line(include, rooted, segs) == [include |-> include, rooted |-> rooted, segs |-> segs, inside |-> FALSE]
TwoFiles == {<<Line(TRUE, TRUE, <<"a">>)>>, <<Line(FALSE, TRUE, <<"b">>), Line(TRUE, FALSE, <<"*">>)>>, Bad}
TwoLines == {<<l>> : l \in Lines} \cup {<<l, m>> : l, m \in Lines}

\* Files that come and go, and paths that are asked for.
Ignores == INSTANCE Ignore WITH
  Asked <- AskedPaths, Contents <- SomeFiles, MovedBack <- FALSE, MaxEdits <- MaxFileEdits

\* All files of two lines.
Patterns == INSTANCE Ignore WITH
  Asked <- {}, Contents <- AllFiles, MovedBack <- FALSE, MaxEdits <- 0

InitOne ==
  /\ which \in {"sharing", "relay", "servers", "discovery", "progress", "ignores", "patterns"}
  /\ Init /\ Relay!Init /\ Records!Init /\ Found!Init /\ Progress!Init
  /\ IF which = "patterns" THEN Patterns!Init ELSE Ignores!Init
  /\ which \notin {"ignores", "patterns"} => file = {}
  /\ which # "discovery" => addrs = {}

NextOne ==
  \/ which = "sharing" /\ Next /\ UNCHANGED <<which, relayVars, serverVars, discoveryVars, progressVars, ignoreVars>>
  \/ which = "relay" /\ Relay!Next /\ Alike /\ UNCHANGED <<which, vars, serverVars, discoveryVars, progressVars, ignoreVars>>
  \/ which = "servers" /\ Records!Next /\ UNCHANGED <<which, vars, relayVars, discoveryVars, progressVars, ignoreVars>>
  \/ which = "discovery" /\ Found!Next /\ UNCHANGED <<which, vars, relayVars, serverVars, progressVars, ignoreVars>>
  \/ which = "progress" /\ Progress!Next /\ UNCHANGED <<which, vars, relayVars, serverVars, discoveryVars, ignoreVars>>
  \/ which = "ignores" /\ Ignores!Next /\ UNCHANGED <<which, vars, relayVars, serverVars, discoveryVars, progressVars>>
  \/ which = "patterns" /\ Patterns!Next /\ UNCHANGED <<which, vars, relayVars, serverVars, discoveryVars, progressVars>>

SpecOne == InitOne /\ [][NextOne]_<<which, vars, relayVars, serverVars, discoveryVars, progressVars, ignoreVars>>

-----------------------------------------------------------------------------
(* Properties, as their modules state them *)

\* RelayServer: a device that has joined is found, nothing of a session that is over remains, and
\* no connection is handed to a session that takes none any more.
RelayRight == Relay!RelayRight

\* DiscoveryServer: what a server says it has is found there as long as it lasts, unless a lookup
\* or the statistics write over it.
DiscoveryServerRight == Records!DiscoveryServerRight

\* Discovery: a device that has kept its address for long enough is found there and nowhere else.
DiscoveryRight == Found!DiscoveryRight

\* DownloadProgress: what the receiver believes is within what was said to it, and what was
\* said to be there is there, while the attempt lasts.
ProgressRight == Progress!BeliefWithinSent /\ Progress!SentIsThere

\* Ignore: the patterns and the cache follow the file, and directories are skipped only if all
\* that is in them is ignored.
IgnoreRight ==
  /\ which = "ignores" => Ignores!IgnoreRight
  /\ which = "patterns" => Patterns!PatternsFollow /\ Patterns!SkipRight
=============================================================================
