---------------------------- MODULE NetworkProofs ----------------------------
(*******************************************************************************)
(* Proofs about what runs side by side in MCNetwork: the relay server, for any *)
(* connections, devices and bound on the sessions; the discovery servers and   *)
(* the discovery, for any servers, addresses, times and limits; the progress   *)
(* of downloads, for any pullers, files and blocks; the ignore patterns, for   *)
(* any paths and files of patterns; and what waits for the user and what       *)
(* introducers may do (Sharing), for any devices, folders and connections.     *)
(*                                                                             *)
(* Relay server.  That a device is found is a fact about two connections of    *)
(* it, of which one takes the place of the other: an outbox belongs to the     *)
(* device of a connection that has joined (OutboxOf).  That no connection is   *)
(* handed to a session with both sides needs that each key is in one place at  *)
(* a time: not used, being added, or in the session (KeysOnce), and that a     *)
(* session that is yet to be made has none (NothingBefore).                    *)
(*                                                                             *)
(* Discovery servers.  A record that is about to be written over or deleted    *)
(* had been looked at when nothing was left of the addresses (NothingLost).    *)
(*                                                                             *)
(* Discovery.  How long a device has been steady bounds what can still be      *)
(* wrong elsewhere: what was not announced yet (Announcing), what a server     *)
(* still has (Forgetting), and what is cached (Asking).                        *)
(*                                                                             *)
(* Progress.  What the receiver will believe once it has heard all that is on  *)
(* its way (View) is within what is on record of it (Agreed), through a round  *)
(* of updates of any number of pullers in any order (SaysAll); and what is on  *)
(* record is in the temporary file of the attempt it was sent for (There),     *)
(* which its time of creation tells from others (Times).                       *)
(*                                                                             *)
(* Ignore patterns.  The patterns of a file cover what is below what they      *)
(* cover (Covered), as a line stands for both; and if none that excludes is in *)
(* the way of skipping, the first that fits what is in an ignored directory    *)
(* includes (SkipsRight).  A file that is remembered was parsed, and its time  *)
(* of modification is its own (FollowsFile).                                   *)
(*******************************************************************************)
EXTENDS MCNetwork, SequenceTheorems, FiniteSetTheorems, FunctionTheorems, WellFoundedInduction, TLAPS

AllSessions == 1..MaxSessions
Keys == AllSessions \X Relay!Sides

-----------------------------------------------------------------------------
(* The inductive invariant *)

Places == {"new", "loop", "joining", "inviting", "done"}

ProtocolTypes ==
  /\ id \in [Clients -> Peers \cup {None}]
  /\ at \in [Clients -> Places]
  /\ joined \subseteq Clients
  /\ outboxes \in [Peers -> Clients \cup {None}]
  /\ contested \subseteq Peers

SessionTypes ==
  /\ sessions \in Nat
  /\ serving \in [AllSessions -> {"new", "select", "added", "proxy", "active", "done"}]
  /\ conns \in [AllSessions -> SUBSET Relay!Sides]
  /\ pending \subseteq Keys /\ adding \subseteq Keys

\* A connection that is not new is of a device, and so is one that has joined.
Certified ==
  /\ \A c \in Clients : at[c] # "new" => id[c] \in Peers
  /\ \A c \in joined : at[c] # "new"

\* A device is found by a connection of its own that has joined.
OutboxOf == \A d \in Peers : outboxes[d] # None => outboxes[d] \in joined /\ id[outboxes[d]] = d

\* A key can be used, is being added or is in its session, and that once.
KeysOnce ==
  \A s \in AllSessions, side \in Relay!Sides :
    /\ <<s, side>> \in pending => <<s, side>> \notin adding /\ side \notin conns[s]
    /\ <<s, side>> \in adding => side \notin conns[s]

\* A session that is not made yet has no keys and no connections.
NothingBefore ==
  \A s \in AllSessions : s > sessions =>
    conns[s] = {} /\ \A side \in Relay!Sides : <<s, side>> \notin pending \cup adding

ProtocolInv == ProtocolTypes /\ Certified /\ OutboxOf /\ Relay!Found /\ Relay!OutboxIsTaken
SessionInv == SessionTypes /\ KeysOnce /\ NothingBefore /\ Relay!NothingRemains /\ Relay!NoneAfterBoth
RelayInv == ProtocolInv /\ SessionInv

-----------------------------------------------------------------------------
(* Steps that leave one of the two parts alone *)

\* What the protocol's part of the invariant is about.
LEMMA ProtocolStays ==
  ASSUME ProtocolInv, UNCHANGED <<id, at, joined, outboxes, contested>>
  PROVE  ProtocolInv'
BY DEF ProtocolInv, ProtocolTypes, Certified, OutboxOf, Relay!Found, Relay!OutboxIsTaken

\* The part of the sessions, which more connections that are closed do not disturb.
LEMMA SessionsStay ==
  ASSUME SessionInv, UNCHANGED <<sessions, pending, adding, serving, conns, active>>, closed \subseteq closed'
  PROVE  SessionInv'
BY DEF SessionInv, SessionTypes, KeysOnce, NothingBefore, Relay!NothingRemains, Relay!NoneAfterBoth

-----------------------------------------------------------------------------
(* The protocol's part *)

\* A connection that is accepted has not joined.
LEMMA AcceptKeeps == ASSUME ProtocolInv, NEW c \in Clients, Relay!Accept(c) PROVE ProtocolInv'
<1>1. PICK d \in Peers : id' = [id EXCEPT ![c] = d]
  BY DEF Relay!Accept
<1>2. /\ at[c] = "new" /\ at' = [at EXCEPT ![c] = "loop"]
      /\ UNCHANGED <<joined, outboxes, contested>>
  BY DEF Relay!Accept
<1>3. c \notin joined
  BY <1>2 DEF ProtocolInv, Certified
<1>4. ProtocolTypes'
  BY <1>1, <1>2 DEF ProtocolInv, ProtocolTypes, Places
<1>5. Certified'
  BY <1>1, <1>2 DEF ProtocolInv, ProtocolTypes, Certified
<1>6. \A k \in joined : id'[k] = id[k] /\ at'[k] = at[k]
  BY <1>1, <1>2, <1>3 DEF ProtocolInv, ProtocolTypes
<1>7. OutboxOf' /\ Relay!Found' /\ Relay!OutboxIsTaken'
  BY <1>2, <1>6 DEF ProtocolInv, OutboxOf, Relay!Found, Relay!OutboxIsTaken
<1> QED BY <1>4, <1>5, <1>7 DEF ProtocolInv

\* The handler of a connection goes on, and not to its end.
LEMMA GoesOn ==
  ASSUME ProtocolInv, NEW c \in Clients, at[c] \notin {"new", "done"},
         NEW where \in {"loop", "joining", "inviting"}, at' = [at EXCEPT ![c] = where],
         UNCHANGED <<id, joined, outboxes, contested>>
  PROVE  ProtocolInv'
<1>1. ProtocolTypes'
  BY DEF ProtocolInv, ProtocolTypes, Places
<1>2. \A k \in Clients : (at'[k] = "new" <=> at[k] = "new") /\ (at'[k] = "done" <=> at[k] = "done")
  BY DEF ProtocolInv, ProtocolTypes
<1>3. Certified' /\ OutboxOf'
  BY <1>2 DEF ProtocolInv, ProtocolTypes, Certified, OutboxOf
<1>4. Relay!Found'
  BY <1>2 DEF ProtocolInv, ProtocolTypes, Relay!Found
<1>5. Relay!OutboxIsTaken'
  BY <1>2 DEF ProtocolInv, ProtocolTypes, Relay!OutboxIsTaken, OutboxOf
<1> QED BY <1>1, <1>3, <1>4, <1>5 DEF ProtocolInv

\* A device is found by the connection that joins; one that was found before by another has joined twice.
LEMMA JoinedKeeps == ASSUME ProtocolInv, NEW c \in Clients, Relay!Joined(c) PROVE ProtocolInv'
<1>1. /\ at[c] = "joining" /\ at' = [at EXCEPT ![c] = "loop"]
      /\ outboxes' = [outboxes EXCEPT ![id[c]] = c]
      /\ contested' = IF outboxes[id[c]] = None THEN contested ELSE contested \cup {id[c]}
      /\ joined' = joined \cup {c} /\ id' = id
  BY DEF Relay!Joined
<1>2. id[c] \in Peers
  BY <1>1 DEF ProtocolInv, Certified
<1>3. ProtocolTypes'
  BY <1>1, <1>2 DEF ProtocolInv, ProtocolTypes, Places
<1>4. Certified'
  BY <1>1, <1>2 DEF ProtocolInv, ProtocolTypes, Certified
<1>5. \A d \in Peers : outboxes'[d] = IF d = id[c] THEN c ELSE outboxes[d]
  BY <1>1 DEF ProtocolInv, ProtocolTypes
<1>6. OutboxOf'
  BY <1>1, <1>2, <1>5 DEF ProtocolInv, OutboxOf
<1>7. Relay!Found'
  <2> SUFFICES ASSUME NEW k \in joined', at'[k] # "done", id'[k] \notin contested'
               PROVE  outboxes'[id'[k]] = k
    BY DEF Relay!Found
  <2>1. CASE k = c
    BY <2>1, <1>1, <1>2, <1>5
  <2>2. CASE k # c
    <3>1. k \in joined /\ at[k] # "done" /\ id[k] \notin contested
      BY <2>2, <1>1 DEF ProtocolInv, ProtocolTypes
    <3>2. outboxes[id[k]] = k
      BY <3>1 DEF ProtocolInv, Relay!Found
    <3>3. k # None /\ id[k] \in Peers
      BY <3>1, RelayAssumption DEF ProtocolInv, ProtocolTypes, Certified
    <3>4. id[k] # id[c]
      BY <3>2, <3>3, <1>1
    <3> QED BY <3>2, <3>3, <3>4, <1>1, <1>5
  <2> QED BY <2>1, <2>2
<1>8. Relay!OutboxIsTaken'
  BY <1>1, <1>5 DEF ProtocolInv, ProtocolTypes, Relay!OutboxIsTaken, OutboxOf
<1> QED BY <1>3, <1>4, <1>6, <1>7, <1>8 DEF ProtocolInv

\* A connection whose reader has failed takes its own outbox away, and no other.
LEMMA EndKeeps == ASSUME ProtocolInv, NEW c \in Clients, Relay!End(c) PROVE ProtocolInv'
<1>1. /\ at[c] = "loop" /\ at' = [at EXCEPT ![c] = "done"]
      /\ UNCHANGED <<id, joined, contested>>
      /\ c \in joined => outboxes' = [outboxes EXCEPT ![id[c]] = None]
      /\ c \notin joined => outboxes' = outboxes
  BY DEF Relay!End, Relay!Takes, Relay!Leaves
<1>2. id[c] \in Peers
  BY <1>1 DEF ProtocolInv, Certified
<1>3. ProtocolTypes'
  BY <1>1, <1>2 DEF ProtocolInv, ProtocolTypes, Places
<1>4. Certified'
  BY <1>1 DEF ProtocolInv, ProtocolTypes, Certified
<1>5. \A d \in Peers : outboxes'[d] = IF c \in joined /\ d = id[c] THEN None ELSE outboxes[d]
  BY <1>1 DEF ProtocolInv, ProtocolTypes
<1>6. OutboxOf'
  BY <1>1, <1>5 DEF ProtocolInv, OutboxOf
<1>7. Relay!Found'
  <2> SUFFICES ASSUME NEW k \in joined, at'[k] # "done", id[k] \notin contested
               PROVE  outboxes'[id[k]] = k
    BY <1>1 DEF Relay!Found
  <2>1. k # c /\ k \in Clients
    BY <1>1 DEF ProtocolInv, ProtocolTypes
  <2>2. at[k] # "done" /\ outboxes[id[k]] = k /\ id[k] \in Peers
    BY <2>1, <1>1 DEF ProtocolInv, ProtocolTypes, Certified, Relay!Found
  <2>3. c \in joined => id[k] # id[c]
    BY <2>1, <2>2, <1>1 DEF ProtocolInv, Relay!Found
  <2> QED BY <2>2, <2>3, <1>5
<1>8. Relay!OutboxIsTaken'
  <2> SUFFICES ASSUME NEW d \in Peers, outboxes'[d] # None PROVE at'[outboxes'[d]] # "done"
    BY DEF Relay!OutboxIsTaken
  <2>1. outboxes'[d] = outboxes[d] /\ outboxes[d] # None
    BY <1>5
  <2>2. outboxes[d] \in joined /\ id[outboxes[d]] = d /\ at[outboxes[d]] # "done"
    BY <2>1 DEF ProtocolInv, OutboxOf, Relay!OutboxIsTaken
  <2>3. outboxes[d] # c
    BY <2>1, <2>2, <1>5
  <2> QED BY <2>1, <2>2, <2>3, <1>1 DEF ProtocolInv, ProtocolTypes
<1> QED BY <1>3, <1>4, <1>6, <1>7, <1>8 DEF ProtocolInv

-----------------------------------------------------------------------------
(* The part of the sessions *)

\* A session that is asked for is a new one, with both its keys.
LEMMA AskForMakesOne == ASSUME SessionInv, NEW c \in Clients, Relay!AskFor(c) PROVE SessionInv'
<1> DEFINE n == sessions + 1
<1>1. /\ n \in AllSessions /\ sessions' = n
      /\ pending' = pending \cup {<<n, side>> : side \in Relay!Sides}
      /\ serving' = [serving EXCEPT ![n] = "select"]
      /\ UNCHANGED <<adding, conns, closed, active>>
  BY DEF Relay!AskFor, AllSessions
<1>2. n > sessions /\ sessions \in Nat
  BY DEF SessionInv, SessionTypes
<1>3. conns[n] = {} /\ \A side \in Relay!Sides : <<n, side>> \notin pending \cup adding
  BY <1>1, <1>2 DEF SessionInv, NothingBefore
<1> HIDE DEF n
<1>4. SessionTypes'
  BY <1>1, <1>2 DEF SessionInv, SessionTypes, Keys, AllSessions
<1>5. \A s \in AllSessions, side \in Relay!Sides : <<s, side>> \in pending' <=> s = n \/ <<s, side>> \in pending
  BY <1>1
<1>6. KeysOnce'
  BY <1>1, <1>3, <1>5 DEF SessionInv, KeysOnce
<1>7. NothingBefore'
  BY <1>1, <1>2, <1>5 DEF SessionInv, NothingBefore, AllSessions, n
<1>8. Relay!NothingRemains'
  BY <1>1, <1>5 DEF SessionInv, SessionTypes, Relay!NothingRemains, AllSessions
<1>9. Relay!NoneAfterBoth'
  BY <1>1 DEF SessionInv, Relay!NoneAfterBoth
<1> QED BY <1>4, <1>6, <1>7, <1>8, <1>9 DEF SessionInv

\* A key that is used is no longer there to be used.
LEMMA FindSessionKeeps ==
  ASSUME SessionInv, NEW s \in AllSessions, NEW side \in Relay!Sides, Relay!FindSession(s, side)
  PROVE  SessionInv'
<1>1. /\ <<s, side>> \in pending /\ pending' = pending \ {<<s, side>>}
      /\ adding' = adding \cup {<<s, side>>}
      /\ UNCHANGED <<sessions, serving, conns, closed, active>>
  BY DEF Relay!FindSession, Relay!Used
<1>2. side \notin conns[s] /\ ~(s > sessions)
  BY <1>1 DEF SessionInv, KeysOnce, NothingBefore
<1>3. SessionTypes' /\ KeysOnce' /\ NothingBefore'
  BY <1>1, <1>2 DEF SessionInv, SessionTypes, KeysOnce, NothingBefore
<1>4. Relay!NothingRemains'
  BY <1>1 DEF SessionInv, Relay!NothingRemains
<1>5. Relay!NoneAfterBoth'
  BY <1>1, <1>2 DEF SessionInv, Relay!NoneAfterBoth
<1> QED BY <1>3, <1>4, <1>5 DEF SessionInv

\* A side comes into its session with its key, and is not added any more.
LEMMA AddConnectionKeeps ==
  ASSUME SessionInv, NEW s \in AllSessions, NEW side \in Relay!Sides, Relay!AddConnection(s, side)
  PROVE  SessionInv'
<1>1. /\ <<s, side>> \in adding /\ adding' = adding \ {<<s, side>>}
      /\ UNCHANGED <<sessions, pending, active>>
  BY DEF Relay!AddConnection
<1>2. <<s, side>> \notin pending /\ side \notin conns[s] /\ ~(s > sessions)
  BY <1>1 DEF SessionInv, KeysOnce, NothingBefore
<1>3. CASE Relay!Waits(s)
  <2>1. /\ conns' = [conns EXCEPT ![s] = @ \cup {side}] /\ closed' = closed
        /\ serving[s] = "select" /\ serving' = [serving EXCEPT ![s] = "added"]
    BY <1>3 DEF Relay!AddConnection, Relay!Waits
  <2>2. \A t \in AllSessions : conns'[t] = IF t = s THEN conns[s] \cup {side} ELSE conns[t]
    BY <2>1 DEF SessionInv, SessionTypes
  <2>3. SessionTypes'
    BY <1>1, <2>1 DEF SessionInv, SessionTypes
  <2>4. KeysOnce'
    <3> SUFFICES ASSUME NEW t \in AllSessions, NEW k \in Relay!Sides
                 PROVE  /\ <<t, k>> \in pending => <<t, k>> \notin adding' /\ k \notin conns'[t]
                        /\ <<t, k>> \in adding' => k \notin conns'[t]
      BY <1>1 DEF KeysOnce
    <3>1. /\ <<t, k>> \in pending => <<t, k>> \notin adding /\ k \notin conns[t]
          /\ <<t, k>> \in adding => k \notin conns[t]
      BY DEF SessionInv, KeysOnce
    <3>2. CASE t = s /\ k = side
      BY <3>2, <1>1, <1>2
    <3>3. CASE ~(t = s /\ k = side)
      <4>1. <<t, k>> \in adding' <=> <<t, k>> \in adding
        BY <3>3, <1>1
      <4>2. k \in conns'[t] <=> k \in conns[t]
        BY <3>3, <2>2
      <4> QED BY <3>1, <4>1, <4>2
    <3> QED BY <3>2, <3>3
  <2>5. NothingBefore'
    BY <1>1, <1>2, <2>2 DEF SessionInv, NothingBefore
  <2>6. \A t \in AllSessions : serving'[t] = "done" => t # s /\ serving[t] = "done"
    BY <2>1 DEF SessionInv, SessionTypes
  <2>7. Relay!NothingRemains'
    BY <1>1, <2>1, <2>2, <2>6 DEF SessionInv, Relay!NothingRemains, AllSessions
  <2>8. Relay!NoneAfterBoth'
    BY <1>1, <2>2, <2>4 DEF SessionInv, KeysOnce, Relay!NoneAfterBoth, AllSessions
  <2> QED BY <2>3, <2>4, <2>5, <2>7, <2>8 DEF SessionInv
<1>4. CASE ~Relay!Waits(s)
  <2>1. UNCHANGED <<conns, serving>> /\ closed \subseteq closed'
    BY <1>4 DEF Relay!AddConnection
  <2> QED BY <1>1, <2>1 DEF SessionInv, SessionTypes, KeysOnce, NothingBefore, Relay!NothingRemains, Relay!NoneAfterBoth
<1> QED BY <1>3, <1>4

\* A session goes on, and not to its end.
LEMMA ServingGoesOn ==
  ASSUME SessionInv, NEW s \in AllSessions, serving[s] # "done",
         NEW where \in {"select", "proxy", "active"}, serving' = [serving EXCEPT ![s] = where],
         UNCHANGED <<sessions, pending, adding, conns, closed>>, active' \subseteq active \cup {s}
  PROVE  SessionInv'
<1>1. SessionTypes' /\ KeysOnce' /\ NothingBefore'
  BY DEF SessionInv, SessionTypes, KeysOnce, NothingBefore
<1>2. \A t \in AllSessions : serving'[t] = "done" => t # s /\ serving[t] = "done"
  BY DEF SessionInv, SessionTypes
<1>3. Relay!NothingRemains' /\ Relay!NoneAfterBoth'
  BY <1>2 DEF SessionInv, Relay!NothingRemains, Relay!NoneAfterBoth, AllSessions
<1> QED BY <1>1, <1>3 DEF SessionInv

\* A session that ends takes its keys along, and closes its connections.
LEMMA FinishLeavesNothing == ASSUME SessionInv, NEW s \in AllSessions, Relay!Finish(s) PROVE SessionInv'
<1>1. /\ serving' = [serving EXCEPT ![s] = "done"] /\ UNCHANGED <<sessions, adding, conns>>
      /\ pending' = {k \in pending : k[1] # s} /\ active' = active \ {s}
      /\ closed' = closed \cup {<<s, side>> : side \in conns[s]}
  BY DEF Relay!Finish, Relay!Over
<1>2. pending' \subseteq pending /\ \A side \in Relay!Sides : <<s, side>> \notin pending'
  BY <1>1
<1>3. SessionTypes' /\ KeysOnce' /\ NothingBefore'
  BY <1>1, <1>2 DEF SessionInv, SessionTypes, KeysOnce, NothingBefore
<1>4. \A t \in AllSessions : serving'[t] = "done" => t = s \/ serving[t] = "done"
  BY <1>1 DEF SessionInv, SessionTypes
<1>5. closed \subseteq closed' /\ \A side \in conns[s] : <<s, side>> \in closed'
  BY <1>1
<1>6. Relay!NothingRemains'
  BY <1>1, <1>2, <1>4, <1>5 DEF SessionInv, Relay!NothingRemains, AllSessions
<1>7. Relay!NoneAfterBoth'
  BY <1>1 DEF SessionInv, Relay!NoneAfterBoth
<1> QED BY <1>3, <1>6, <1>7 DEF SessionInv

-----------------------------------------------------------------------------
(* The theorem *)

\* Nothing is there at first.
LEMMA RelayAtFirst == Relay!Init => RelayInv
<1> SUFFICES ASSUME Relay!Init PROVE RelayInv
  OBVIOUS
<1>1. ProtocolInv
  BY DEF Relay!Init, ProtocolInv, ProtocolTypes, Places, Certified, OutboxOf, Relay!Found, Relay!OutboxIsTaken
<1>2. SessionInv
  BY DEF Relay!Init, SessionInv, SessionTypes, KeysOnce, NothingBefore, Relay!NothingRemains, Relay!NoneAfterBoth,
         AllSessions, Relay!Sides
<1> QED BY <1>1, <1>2 DEF RelayInv

\* What a connection does.
LEMMA ConnectionStep ==
  ASSUME RelayInv, NEW c \in Clients,
         \/ Relay!Accept(c) \/ Relay!Read(c) \/ Relay!RefuseJoin(c) \/ Relay!Join(c) \/ Relay!Joined(c)
         \/ Relay!NotFound(c) \/ Relay!AskFor(c) \/ Relay!Invite(c) \/ Relay!InviteTimesOut(c) \/ Relay!Lose(c)
         \/ Relay!End(c)
  PROVE  RelayInv'
<1> USE DEF RelayInv
<1>1. CASE Relay!Accept(c)
  BY <1>1, AcceptKeeps, SessionsStay DEF Relay!Accept, Relay!sessionVars
<1>2. CASE Relay!Read(c)
  BY <1>2, ProtocolStays, SessionsStay DEF Relay!Read, Relay!sessionVars
<1>3. CASE Relay!RefuseJoin(c)
  BY <1>3, ProtocolStays, SessionsStay DEF Relay!RefuseJoin, Relay!sessionVars
<1>4. CASE Relay!Join(c)
  BY <1>4, GoesOn, SessionsStay DEF Relay!Join, Relay!Takes, Relay!sessionVars
<1>5. CASE Relay!Joined(c)
  BY <1>5, JoinedKeeps, SessionsStay DEF Relay!Joined, Relay!sessionVars
<1>6. CASE Relay!NotFound(c)
  BY <1>6, ProtocolStays, SessionsStay DEF Relay!NotFound, Relay!sessionVars
<1>7. CASE Relay!AskFor(c)
  <2>1. /\ UNCHANGED <<id, joined, outboxes, contested>>
        /\ at[c] = "loop" /\ (at' = at \/ at' = [at EXCEPT ![c] = "inviting"])
    BY <1>7 DEF Relay!AskFor, Relay!Takes
  <2>2. ProtocolInv'
    BY <2>1, ProtocolStays, GoesOn
  <2> QED BY <2>2, <1>7, AskForMakesOne
<1>8. CASE Relay!Invite(c)
  BY <1>8, GoesOn, SessionsStay DEF Relay!Invite
<1>9. CASE Relay!InviteTimesOut(c)
  BY <1>9, GoesOn, SessionsStay DEF Relay!InviteTimesOut, Relay!sessionVars
<1>10. CASE Relay!Lose(c)
  BY <1>10, ProtocolStays, SessionsStay DEF Relay!Lose, Relay!sessionVars
<1>11. CASE Relay!End(c)
  <2>1. UNCHANGED <<sessions, pending, adding, serving, conns, active>> /\ closed \subseteq closed'
    BY <1>11 DEF Relay!End
  <2> QED BY <2>1, <1>11, EndKeeps, SessionsStay
<1> QED BY <1>1, <1>2, <1>3, <1>4, <1>5, <1>6, <1>7, <1>8, <1>9, <1>10, <1>11

\* What a session does.
LEMMA SessionStep ==
  ASSUME RelayInv, NEW s \in AllSessions,
         \/ \E side \in Relay!Sides : Relay!FindSession(s, side) \/ Relay!AddConnection(s, side)
         \/ Relay!Added(s) \/ Relay!Activate(s) \/ Relay!Finish(s)
  PROVE  RelayInv'
<1> USE DEF RelayInv
<1>1. ProtocolInv'
  BY ProtocolStays DEF Relay!FindSession, Relay!AddConnection, Relay!Added, Relay!Activate, Relay!Finish, Relay!protocolVars
<1>2. CASE \E side \in Relay!Sides : Relay!FindSession(s, side) \/ Relay!AddConnection(s, side)
  BY <1>1, <1>2, FindSessionKeeps, AddConnectionKeeps
<1>3. CASE Relay!Added(s)
  BY <1>1, <1>3, ServingGoesOn DEF Relay!Added
<1>4. CASE Relay!Activate(s)
  BY <1>1, <1>4, ServingGoesOn DEF Relay!Activate
<1>5. CASE Relay!Finish(s)
  BY <1>1, <1>5, FinishLeavesNothing
<1> QED BY <1>2, <1>3, <1>4, <1>5

\* Every step of the relay server.
LEMMA RelayStep == RelayInv /\ Relay!Next => RelayInv'
BY ConnectionStep, SessionStep DEF Relay!Next, AllSessions

\* The relay server (cmd/strelaysrv), for any connections, devices and number of sessions: a device
\* that has joined is found by a connection whose handler takes what is sent to it, unless two of
\* its connections have joined at a time; nothing of a session that is over remains; and no connection
\* is handed to a session that has both.
THEOREM RelaysFindAndForget == SpecOne => []RelayRight
<1> DEFINE allVars == <<which, vars, relayVars, serverVars, discoveryVars, progressVars, ignoreVars>>
<1>1. InitOne => RelayInv
  BY RelayAtFirst DEF InitOne
<1>2. RelayInv /\ [NextOne]_allVars => RelayInv'
  <2> SUFFICES ASSUME RelayInv, [NextOne]_allVars PROVE RelayInv'
    OBVIOUS
  <2>1. CASE Relay!Next
    BY <2>1, RelayStep
  <2>2. CASE UNCHANGED relayVars
    BY <2>2, ProtocolStays, SessionsStay DEF relayVars, RelayInv
  <2> QED BY <2>1, <2>2 DEF NextOne
<1>3. RelayInv => RelayRight
  BY DEF RelayInv, ProtocolInv, SessionInv, RelayRight, Relay!RelayRight
<1> QED BY <1>1, <1>2, <1>3, PTL DEF SpecOne

-----------------------------------------------------------------------------
(* Discovery servers: the inductive invariant *)

Expiring == [expires : [Addresses -> Nat], misses : Nat, seen : Nat, missed : Nat]
\* No address of the record is kept for longer than a server says.
InTime(rec) == \A adr \in Addresses : rec.expires[adr] <= clock + RecordLifetime

ServerTypes ==
  /\ clock \in Nat
  /\ db \in [Servers -> Expiring]
  /\ misses \in [Servers -> Nat]
  /\ announce \in [Servers -> SUBSET Expiring]
  /\ put \in [Servers -> SUBSET Expiring]
  /\ doomed \in [Servers -> BOOLEAN]
  /\ outbox \in [Records!Pairs -> Seq(Expiring)]
  /\ acked \in [Servers -> [Addresses -> Nat]]
  /\ announced \in [Servers -> Nat]
  /\ overtaken \in [Servers -> BOOLEAN]
  /\ late \in [Servers -> BOOLEAN]

\* So it is for what is on record, waits, or is on its way.
AllInTime ==
  /\ \A s \in Servers : InTime(db[s]) /\ \A rec \in announce[s] \cup put[s] : InTime(rec)
  /\ \A p \in Records!Pairs : \A i \in 1..Len(outbox[p]) : InTime(outbox[p][i])

\* What has been announced and matters is on record, as the server sees it now.
Remembered(s) ==
  /\ Records!FoundAt(s)
  /\ announced[s] > clock - Retention => db[s].seen >= announced[s]

\* A record that is about to be put or deleted had been looked at when nothing was left of the
\* addresses, and has the time at which the device was seen; unless a merge has come since.
NothingLost(s) ==
  /\ put[s] # {} \/ doomed[s] => \A adr \in Addresses : acked[s][adr] < clock
  /\ doomed[s] => announced[s] <= clock - Retention
  /\ \A rec \in put[s] : announced[s] > clock - Retention => rec.seen >= announced[s]

Kept(s) == ~overtaken[s] => Remembered(s) /\ (~late[s] => NothingLost(s))

ServerInv == ServerTypes /\ AllInTime /\ \A s \in Servers : Kept(s)

-----------------------------------------------------------------------------
(* Discovery servers: the actions *)

\* An empty record.
LEMMA NothingIs ==
  /\ Records!Nothing \in Expiring /\ Records!Nothing.seen = 0
  /\ \A adr \in Addresses : Records!Nothing.expires[adr] = 0
  BY DEF Records!Nothing, Records!Never, Expiring

\* merge keeps the newer times, apart from those that have passed.
LEMMA MergeIs ==
  ASSUME NEW new \in Expiring, NEW old \in Expiring, clock \in Nat
  PROVE  LET rec == Records!Merge(new, old) IN
         /\ rec \in Expiring
         /\ rec.seen >= new.seen /\ rec.seen >= old.seen
         /\ \A adr \in Addresses :
              /\ rec.expires[adr] >= new.expires[adr]
              /\ old.expires[adr] >= clock => rec.expires[adr] >= old.expires[adr]
              /\ rec.expires[adr] \in {0, new.expires[adr], old.expires[adr]}
<1> DEFINE times == [adr \in Addresses |-> Records!Later(new.expires[adr],
                       IF Records!Expired(old.expires[adr]) THEN Records!Never ELSE old.expires[adr])]
           seenLast == Records!Later(new.seen, old.seen)
<1>1. ASSUME NEW adr \in Addresses
      PROVE  /\ times[adr] \in Nat /\ times[adr] >= new.expires[adr]
             /\ old.expires[adr] >= clock => times[adr] >= old.expires[adr]
             /\ times[adr] \in {0, new.expires[adr], old.expires[adr]}
  <2>1. new.expires[adr] \in Nat /\ old.expires[adr] \in Nat
    BY DEF Expiring
  <2> QED
    BY <2>1 DEF Records!Later, Records!Expired, Records!Never
<1>2. times \in [Addresses -> Nat]
  BY <1>1
<1>3. seenLast \in Nat /\ seenLast >= new.seen /\ seenLast >= old.seen
  BY DEF Expiring, Records!Later
<1>4. Records!Merge(new, old) = [expires |-> times, misses |-> 0, seen |-> seenLast, missed |-> 0]
  BY DEF Records!Merge, Records!Never
<1> HIDE DEF times, seenLast
<1> QED
  BY <1>1, <1>2, <1>3, <1>4 DEF Expiring

\* What waits at a server stays, and so does what has been looked at.
LEMMA OtherServers ==
  ASSUME ServerInv, NEW s \in Servers,
         clock' = clock, db'[s] = db[s], put'[s] = put[s], doomed'[s] = doomed[s],
         acked'[s] = acked[s], announced'[s] = announced[s], overtaken'[s] = overtaken[s], late'[s] = late[s]
  PROVE  Kept(s)'
  BY DEF ServerInv, Kept, Remembered, NothingLost, Records!FoundAt, Records!Expired

\* A merge takes nothing away that has not passed; what had been looked at is stale now.
LEMMA MergeKeeps ==
  ASSUME ServerInv, NEW s \in Servers, NEW new \in Expiring, InTime(new), Records!MergeInto(s, new),
         UNCHANGED <<misses, put, doomed, overtaken, clock>>,
         \/ UNCHANGED <<acked, announced>>
         \/ /\ acked' = [acked EXCEPT ![s] = [adr \in Addresses |-> Records!Later(acked[s][adr], new.expires[adr])]]
            /\ announced' = [announced EXCEPT ![s] = new.seen],
         announce' \in [Servers -> SUBSET Expiring], \A t \in Servers : announce'[t] \subseteq announce[t],
         outbox' \in [Records!Pairs -> Seq(Expiring)],
         \A p \in Records!Pairs : \A i \in 1..Len(outbox'[p]) : \E j \in 1..Len(outbox[p]) : outbox'[p][i] = outbox[p][j]
  PROVE  ServerInv'
<1>1. ServerTypes /\ AllInTime /\ \A t \in Servers : Kept(t)
  BY DEF ServerInv
<1> DEFINE rec == Records!Merge(new, db[s])
<1>2. /\ db' = [db EXCEPT ![s] = rec]
      /\ late' = [late EXCEPT ![s] = put[s] # {} \/ doomed[s]]
  BY <1>1 DEF Records!MergeInto, ServerTypes
<1>3. db[s] \in Expiring /\ clock \in Nat /\ RecordLifetime \in Nat /\ Retention \in Nat
  BY <1>1, ServerAssumption DEF ServerTypes
<1>4. /\ rec \in Expiring
      /\ rec.seen >= new.seen /\ rec.seen >= db[s].seen
      /\ \A adr \in Addresses :
           /\ rec.expires[adr] >= new.expires[adr]
           /\ db[s].expires[adr] >= clock => rec.expires[adr] >= db[s].expires[adr]
           /\ rec.expires[adr] \in {0, new.expires[adr], db[s].expires[adr]}
  BY <1>3, MergeIs
<1> HIDE DEF rec
<1>5. InTime(rec)
  <2>1. InTime(db[s])
    BY <1>1 DEF AllInTime
  <2>2. ASSUME NEW adr \in Addresses PROVE rec.expires[adr] <= clock + RecordLifetime
    <3>1. new.expires[adr] <= clock + RecordLifetime /\ db[s].expires[adr] <= clock + RecordLifetime
      BY <2>1 DEF InTime
    <3> QED
      BY <1>3, <1>4, <3>1
  <2> QED
    BY <2>2 DEF InTime
<1>6. ASSUME NEW adr \in Addresses PROVE Records!Later(acked[s][adr], new.expires[adr]) \in Nat
  <2>1. acked[s][adr] \in Nat /\ new.expires[adr] \in Nat
    BY <1>1 DEF ServerTypes, Expiring
  <2> QED
    BY <2>1 DEF Records!Later
<1>7. ServerTypes'
  <2>1. db' \in [Servers -> Expiring] /\ late' \in [Servers -> BOOLEAN]
    BY <1>1, <1>2, <1>4 DEF ServerTypes
  <2>2. acked' \in [Servers -> [Addresses -> Nat]] /\ announced' \in [Servers -> Nat]
    <3> DEFINE seen == [adr \in Addresses |-> Records!Later(acked[s][adr], new.expires[adr])]
    <3>1. new.seen \in Nat
      BY DEF Expiring
    <3>2. seen \in [Addresses -> Nat]
      BY <1>6
    <3>3. acked \in [Servers -> [Addresses -> Nat]] /\ announced \in [Servers -> Nat]
      BY <1>1 DEF ServerTypes
    <3>4. \/ acked' = acked /\ announced' = announced
          \/ acked' = [acked EXCEPT ![s] = seen] /\ announced' = [announced EXCEPT ![s] = new.seen]
      OBVIOUS
    <3> HIDE DEF seen
    <3> QED
      BY <3>1, <3>2, <3>3, <3>4
  <2> QED
    BY <1>1, <2>1, <2>2 DEF ServerTypes
<1>8. AllInTime'
  <2>1. ASSUME NEW t \in Servers PROVE InTime(db[t])' /\ \A r \in announce'[t] \cup put'[t] : InTime(r)'
    <3>1. db'[t] = IF t = s THEN rec ELSE db[t]
      BY <1>1, <1>2 DEF ServerTypes
    <3>2. InTime(db[t])'
      BY <1>1, <1>5, <3>1 DEF AllInTime, InTime
    <3> QED
      BY <1>1, <3>2 DEF AllInTime, InTime
  <2>2. \A p \in Records!Pairs : \A i \in 1..Len(outbox'[p]) : InTime(outbox[p][i])'
    BY <1>1 DEF AllInTime, InTime
  <2> QED
    BY <2>1, <2>2 DEF AllInTime
<1>9. ASSUME NEW t \in Servers, t # s PROVE Kept(t)'
  <2>1. db'[t] = db[t] /\ late'[t] = late[t] /\ acked'[t] = acked[t] /\ announced'[t] = announced[t]
    BY <1>1, <1>2, <1>9 DEF ServerTypes
  <2> QED
    BY <2>1, OtherServers
<1>10. Kept(s)'
  <2> SUFFICES ASSUME ~overtaken[s] PROVE Remembered(s)' /\ (~late'[s] => NothingLost(s)')
    BY DEF Kept
  <2>1. Remembered(s)
    BY <1>1 DEF Kept
  <2>2. db'[s] = rec /\ late'[s] = (put[s] # {} \/ doomed[s])
    BY <1>1, <1>2 DEF ServerTypes
  <2>3. NothingLost(s)' \/ late'[s]
    BY <2>2 DEF NothingLost
  <2>4. announced[s] \in Nat /\ db[s].seen \in Nat /\ new.seen \in Nat /\ rec.seen \in Nat
    BY <1>1, <1>3, <1>4 DEF ServerTypes, Expiring
  <2>5. announced'[s] = announced[s] \/ announced'[s] = new.seen
    BY <1>1 DEF ServerTypes
  <2>6. announced'[s] > clock - Retention => rec.seen >= announced'[s]
    BY <1>3, <1>4, <2>1, <2>4, <2>5 DEF Remembered
  <2>7. ASSUME NEW adr \in Addresses, acked'[s][adr] >= clock PROVE rec.expires[adr] >= acked'[s][adr]
    <3>1. acked[s][adr] \in Nat /\ new.expires[adr] \in Nat /\ db[s].expires[adr] \in Nat /\ rec.expires[adr] \in Nat
      BY <1>1, <1>3, <1>4 DEF ServerTypes, Expiring
    <3>2. acked'[s][adr] = acked[s][adr] \/ acked'[s][adr] = Records!Later(acked[s][adr], new.expires[adr])
      BY <1>1 DEF ServerTypes
    <3>3. acked'[s][adr] = acked[s][adr] \/ acked'[s][adr] = new.expires[adr]
      BY <3>2 DEF Records!Later
    <3>4. acked[s][adr] >= clock => db[s].expires[adr] >= acked[s][adr]
      BY <1>3, <2>1, <3>1 DEF Remembered, Records!FoundAt, Records!Expired
    <3> QED
      BY <1>3, <1>4, <2>7, <3>1, <3>3, <3>4
  <2>8. Records!FoundAt(s)'
    <3> SUFFICES ASSUME NEW adr \in Addresses, ~(acked'[s][adr] < clock) PROVE rec.expires[adr] >= acked'[s][adr]
      BY <2>2 DEF Records!FoundAt, Records!Expired
    <3>1. acked'[s][adr] \in Nat
      BY <1>7 DEF ServerTypes
    <3> QED
      BY <1>3, <2>7, <3>1
  <2> QED
    BY <2>2, <2>3, <2>6, <2>8 DEF Remembered
<1> QED
  BY <1>7, <1>8, <1>9, <1>10 DEF ServerInv

\* When a merge is run, the device is told, or another server has read a record.
LEMMA MergesKeep ==
  ASSUME ServerInv, \/ \E s \in Servers : Records!Merged(s)
                    \/ \E p \in Records!Pairs : Records!Replicate(p)
  PROVE  ServerInv'
<1>1. ServerTypes /\ AllInTime
  BY DEF ServerInv
<1>2. ASSUME NEW s \in Servers, Records!Merged(s) PROVE ServerInv'
  <2>1. PICK new \in announce[s] :
          /\ Records!MergeInto(s, new)
          /\ acked' = [acked EXCEPT ![s] = [adr \in Addresses |-> Records!Later(acked[s][adr], new.expires[adr])]]
          /\ announced' = [announced EXCEPT ![s] = new.seen]
    BY <1>1, <1>2 DEF Records!Merged, ServerTypes
  <2>2. new \in Expiring /\ InTime(new)
    BY <1>1 DEF ServerTypes, AllInTime
  <2>3. /\ announce' = [announce EXCEPT ![s] = {}] /\ outbox' = outbox
        /\ UNCHANGED <<misses, put, doomed, overtaken, clock>>
    BY <1>2 DEF Records!Merged, Records!bounds
  <2>4. /\ announce' \in [Servers -> SUBSET Expiring] /\ \A t \in Servers : announce'[t] \subseteq announce[t]
        /\ outbox' \in [Records!Pairs -> Seq(Expiring)]
    BY <1>1, <2>3 DEF ServerTypes
  <2>5. \A p \in Records!Pairs : \A i \in 1..Len(outbox'[p]) : \E j \in 1..Len(outbox[p]) : outbox'[p][i] = outbox[p][j]
    BY <2>3
  <2> QED
    BY <2>1, <2>2, <2>3, <2>4, <2>5, MergeKeeps
<1>3. ASSUME NEW p \in Records!Pairs, Records!Replicate(p) PROVE ServerInv'
  <2>1. /\ outbox[p] # <<>> /\ outbox' = [outbox EXCEPT ![p] = Tail(@)]
        /\ Records!MergeInto(p[2], Head(outbox[p]))
        /\ UNCHANGED <<misses, announce, put, doomed, acked, announced, overtaken, clock>>
    BY <1>3 DEF Records!Replicate, Records!bounds
  <2>2. p[2] \in Servers
    BY DEF Records!Pairs
  <2>3. outbox[p] \in Seq(Expiring)
    BY <1>1 DEF ServerTypes
  <2>4. /\ Head(outbox[p]) \in Expiring /\ Tail(outbox[p]) \in Seq(Expiring)
        /\ Len(outbox[p]) \in Nat /\ Len(outbox[p]) >= 1
        /\ Head(outbox[p]) = outbox[p][1]
        /\ Len(Tail(outbox[p])) = Len(outbox[p]) - 1
        /\ \A i \in 1..Len(Tail(outbox[p])) : Tail(outbox[p])[i] = outbox[p][i + 1]
    BY <2>1, <2>3, HeadTailProperties, EmptySeq
  <2>5. InTime(Head(outbox[p]))
    BY <1>1, <2>4 DEF AllInTime
  <2>6. /\ announce' \in [Servers -> SUBSET Expiring] /\ \A t \in Servers : announce'[t] \subseteq announce[t]
        /\ outbox' \in [Records!Pairs -> Seq(Expiring)]
    BY <1>1, <2>1, <2>4 DEF ServerTypes
  <2>7. ASSUME NEW q \in Records!Pairs, NEW i \in 1..Len(outbox'[q])
        PROVE  \E j \in 1..Len(outbox[q]) : outbox'[q][i] = outbox[q][j]
    <3>1. CASE q = p
      <4>1. outbox'[q] = Tail(outbox[p])
        BY <1>1, <2>1, <3>1 DEF ServerTypes
      <4>2. i + 1 \in 1..Len(outbox[p]) /\ outbox'[q][i] = outbox[p][i + 1]
        BY <2>4, <2>7, <4>1
      <4> QED
        BY <3>1, <4>2
    <3>2. CASE q # p
      BY <1>1, <2>1, <3>2 DEF ServerTypes
    <3> QED
      BY <3>1, <3>2
  <2> QED
    BY <2>1, <2>2, <2>4, <2>5, <2>6, <2>7, MergeKeeps
<1> QED
  BY <1>2, <1>3

\* An announcement waits for its merge, and goes to the other servers as far as there is room.
LEMMA AnnounceKeeps ==
  ASSUME ServerInv, NEW s \in Servers, Records!Announce(s)
  PROVE  ServerInv'
<1>1. ServerTypes /\ AllInTime /\ \A t \in Servers : Kept(t)
  BY DEF ServerInv
<1>2. PICK as \in SUBSET Addresses :
        LET expires == [adr \in Addresses |-> IF adr \in as THEN clock + RecordLifetime ELSE Records!Never] IN
        /\ announce' = [announce EXCEPT ![s] = {[Records!Nothing EXCEPT !.expires = expires, !.seen = clock]}]
        /\ outbox' = [p \in Records!Pairs |-> IF p[1] = s /\ Len(outbox[p]) < OutboxSize
                                              THEN Append(outbox[p], [Records!Nothing EXCEPT !.expires = expires])
                                              ELSE outbox[p]]
  BY DEF Records!Announce
<1>3. /\ db' = db /\ misses' = misses /\ put' = put /\ doomed' = doomed /\ clock' = clock
      /\ acked' = acked /\ announced' = announced /\ overtaken' = overtaken /\ late' = late
  BY DEF Records!Announce, Records!ghosts
<1> DEFINE expires == [adr \in Addresses |-> IF adr \in as THEN clock + RecordLifetime ELSE Records!Never]
           mine == [Records!Nothing EXCEPT !.expires = expires, !.seen = clock]
           others == [Records!Nothing EXCEPT !.expires = expires]
<1>4. clock \in Nat /\ RecordLifetime \in Nat
  BY <1>1, ServerAssumption DEF ServerTypes
<1>5. expires \in [Addresses -> Nat] /\ \A adr \in Addresses : expires[adr] <= clock + RecordLifetime
  <2>1. clock + RecordLifetime \in Nat /\ Records!Never = 0
    BY <1>4 DEF Records!Never
  <2>2. ASSUME NEW adr \in Addresses PROVE expires[adr] \in Nat /\ expires[adr] <= clock + RecordLifetime
    <3>1. expires[adr] = clock + RecordLifetime \/ expires[adr] = 0
      BY <2>1
    <3> HIDE DEF expires
    <3> QED
      BY <1>4, <3>1
  <2>3. expires = [adr \in Addresses |-> expires[adr]]
    OBVIOUS
  <2> HIDE DEF expires
  <2> QED
    BY <2>2, <2>3
<1>6. /\ announce' = [announce EXCEPT ![s] = {mine}]
      /\ outbox' = [p \in Records!Pairs |-> IF p[1] = s /\ Len(outbox[p]) < OutboxSize
                                            THEN Append(outbox[p], others) ELSE outbox[p]]
  BY <1>2
<1> HIDE DEF expires
<1>7. mine \in Expiring /\ others \in Expiring /\ mine.expires = expires /\ others.expires = expires
  BY <1>4, <1>5, NothingIs DEF Expiring
<1> HIDE DEF mine, others
<1>8. InTime(mine) /\ InTime(others)
  BY <1>5, <1>7 DEF InTime
<1>9. ASSUME NEW p \in Records!Pairs
      PROVE  outbox'[p] \in Seq(Expiring) /\ \A i \in 1..Len(outbox'[p]) : InTime(outbox'[p][i])
  <2>1. outbox[p] \in Seq(Expiring) /\ \A i \in 1..Len(outbox[p]) : InTime(outbox[p][i])
    BY <1>1 DEF ServerTypes, AllInTime
  <2>2. outbox'[p] = outbox[p] \/ outbox'[p] = Append(outbox[p], others)
    BY <1>6
  <2>3. /\ Append(outbox[p], others) \in Seq(Expiring)
        /\ Len(outbox[p]) \in Nat /\ Len(Append(outbox[p], others)) = Len(outbox[p]) + 1
        /\ Append(outbox[p], others)[Len(outbox[p]) + 1] = others
        /\ \A i \in 1..Len(outbox[p]) : Append(outbox[p], others)[i] = outbox[p][i]
    BY <1>7, <2>1, AppendProperties
  <2>4. ASSUME NEW i \in 1..Len(Append(outbox[p], others)) PROVE InTime(Append(outbox[p], others)[i])
    <3>1. i \in 1..Len(outbox[p]) \/ i = Len(outbox[p]) + 1
      BY <2>3
    <3> QED
      BY <1>8, <2>1, <2>3, <3>1
  <2> QED
    BY <2>1, <2>2, <2>3, <2>4
<1>10. ServerTypes'
  <2>1. announce' \in [Servers -> SUBSET Expiring]
    BY <1>1, <1>6, <1>7 DEF ServerTypes
  <2>2. outbox' \in [Records!Pairs -> Seq(Expiring)]
    BY <1>6, <1>9
  <2> QED
    BY <1>1, <1>3, <2>1, <2>2 DEF ServerTypes
<1>11. AllInTime'
  <2>1. ASSUME NEW t \in Servers PROVE InTime(db[t])' /\ \A r \in announce'[t] \cup put'[t] : InTime(r)'
    <3>1. announce'[t] = announce[t] \/ announce'[t] = {mine}
      BY <1>1, <1>6 DEF ServerTypes
    <3> QED
      BY <1>1, <1>3, <1>8, <3>1 DEF AllInTime, InTime
  <2>2. \A p \in Records!Pairs : \A i \in 1..Len(outbox'[p]) : InTime(outbox[p][i])'
    BY <1>3, <1>9 DEF InTime
  <2> QED
    BY <2>1, <2>2 DEF AllInTime
<1>12. ASSUME NEW t \in Servers PROVE Kept(t)'
  BY <1>3, OtherServers
<1> QED
  BY <1>10, <1>11, <1>12 DEF ServerInv

\* What is removed from an outbox or from what waits was all right; time passes, and what is over
\* stays over.
LEMMA LosingKeeps ==
  ASSUME ServerInv, (\E p \in Records!Pairs : Records!LoseEvent(p)) \/ (\E s \in Servers : Records!Restart(s)) \/ Records!Tick
  PROVE  ServerInv'
<1>1. ServerTypes /\ AllInTime /\ \A t \in Servers : Kept(t)
  BY DEF ServerInv
<1>2. ASSUME NEW p \in Records!Pairs, Records!LoseEvent(p) PROVE ServerInv'
  <2>1. outbox[p] # <<>> /\ outbox' = [outbox EXCEPT ![p] = Tail(@)]
    BY <1>2 DEF Records!LoseEvent
  <2>2. /\ db' = db /\ misses' = misses /\ announce' = announce /\ put' = put /\ doomed' = doomed /\ clock' = clock
        /\ acked' = acked /\ announced' = announced /\ overtaken' = overtaken /\ late' = late
    BY <1>2 DEF Records!LoseEvent, Records!ghosts, Records!bounds
  <2>3. /\ outbox[p] \in Seq(Expiring)
        /\ Tail(outbox[p]) \in Seq(Expiring) /\ Len(outbox[p]) \in Nat
        /\ Len(Tail(outbox[p])) = Len(outbox[p]) - 1
        /\ \A i \in 1..Len(Tail(outbox[p])) : Tail(outbox[p])[i] = outbox[p][i + 1]
    BY <1>1, <2>1, HeadTailProperties, EmptySeq DEF ServerTypes
  <2>4. ASSUME NEW q \in Records!Pairs
        PROVE  outbox'[q] \in Seq(Expiring) /\ \A i \in 1..Len(outbox'[q]) : InTime(outbox'[q][i])
    <3>1. CASE q = p
      <4>1. outbox'[q] = Tail(outbox[p])
        BY <1>1, <2>1, <3>1 DEF ServerTypes
      <4>2. \A i \in 1..Len(outbox[p]) : InTime(outbox[p][i])
        BY <1>1 DEF AllInTime
      <4>3. \A i \in 1..Len(Tail(outbox[p])) : i + 1 \in 1..Len(outbox[p])
        BY <2>3
      <4> QED
        BY <2>3, <4>1, <4>2, <4>3
    <3>2. CASE q # p
      BY <1>1, <2>1, <3>2 DEF ServerTypes, AllInTime
    <3> QED
      BY <3>1, <3>2
  <2>5. outbox' \in [Records!Pairs -> Seq(Expiring)]
    BY <1>1, <2>1, <2>3 DEF ServerTypes
  <2>6. ServerTypes'
    BY <1>1, <2>2, <2>5 DEF ServerTypes
  <2>7. AllInTime'
    BY <1>1, <2>2, <2>4 DEF AllInTime, InTime
  <2>8. ASSUME NEW t \in Servers PROVE Kept(t)'
    BY <2>2, OtherServers
  <2> QED
    BY <2>6, <2>7, <2>8 DEF ServerInv
<1>3. ASSUME NEW s \in Servers, Records!Restart(s) PROVE ServerInv'
  <2>1. /\ misses' = [misses EXCEPT ![s] = 0] /\ announce' = [announce EXCEPT ![s] = {}]
        /\ put' = [put EXCEPT ![s] = {}] /\ doomed' = [doomed EXCEPT ![s] = FALSE]
        /\ outbox' = [p \in Records!Pairs |-> IF p[1] = s THEN <<>> ELSE outbox[p]]
    BY <1>3 DEF Records!Restart
  <2>2. /\ db' = db /\ clock' = clock
        /\ acked' = acked /\ announced' = announced /\ overtaken' = overtaken /\ late' = late
    BY <1>3 DEF Records!Restart, Records!ghosts
  <2>3. ASSUME NEW q \in Records!Pairs
        PROVE  outbox'[q] \in Seq(Expiring) /\ \A i \in 1..Len(outbox'[q]) : InTime(outbox'[q][i])
    <3>1. CASE outbox'[q] = <<>>
      BY <3>1, EmptySeq
    <3>2. CASE outbox'[q] = outbox[q]
      BY <1>1, <3>2 DEF ServerTypes, AllInTime
    <3> QED
      BY <2>1, <3>1, <3>2
  <2>4. outbox' \in [Records!Pairs -> Seq(Expiring)]
    BY <2>1, <2>3
  <2>5. ServerTypes'
    BY <1>1, <2>1, <2>2, <2>4 DEF ServerTypes
  <2>6. \A t \in Servers : announce'[t] \subseteq announce[t] /\ put'[t] \subseteq put[t] /\ (doomed'[t] => doomed[t])
    BY <1>1, <2>1 DEF ServerTypes
  <2>7. AllInTime'
    BY <1>1, <2>2, <2>3, <2>6 DEF AllInTime, InTime
  <2>8. ASSUME NEW t \in Servers PROVE Kept(t)'
    <3>1. Kept(t) /\ put'[t] \subseteq put[t] /\ (doomed'[t] => doomed[t])
      BY <1>1, <2>6
    <3>2. Remembered(t) => Remembered(t)'
      BY <2>2 DEF Remembered, Records!FoundAt, Records!Expired
    <3>3. NothingLost(t) => NothingLost(t)'
      BY <2>2, <3>1 DEF NothingLost
    <3> QED
      BY <2>2, <3>1, <3>2, <3>3 DEF Kept
  <2> QED
    BY <2>5, <2>7, <2>8 DEF ServerInv
<1>4. CASE Records!Tick
  <2>1. /\ db' = db /\ misses' = misses /\ announce' = announce /\ put' = put /\ doomed' = doomed /\ outbox' = outbox
        /\ acked' = acked /\ announced' = announced /\ overtaken' = overtaken /\ late' = late /\ clock' = clock + 1
    BY <1>4 DEF Records!Tick, Records!ghosts
  <2>2. clock \in Nat /\ clock' \in Nat /\ Retention \in Nat /\ RecordLifetime \in Nat
    BY <1>1, <2>1, ServerAssumption DEF ServerTypes
  <2>3. ServerTypes'
    BY <1>1, <2>1, <2>2 DEF ServerTypes
  <2>4. ASSUME NEW r \in Expiring, InTime(r) PROVE InTime(r)'
    <3>1. \A adr \in Addresses : r.expires[adr] \in Nat /\ r.expires[adr] <= clock + RecordLifetime
      BY <2>4 DEF InTime, Expiring
    <3>2. \A adr \in Addresses : r.expires[adr] <= clock' + RecordLifetime
      BY <2>1, <2>2, <3>1
    <3> QED
      BY <3>2 DEF InTime
  <2>5. AllInTime'
    <3>1. ASSUME NEW t \in Servers PROVE InTime(db[t])' /\ \A r \in announce'[t] \cup put'[t] : InTime(r)'
      <4>1. db[t] \in Expiring /\ announce[t] \subseteq Expiring /\ put[t] \subseteq Expiring
        BY <1>1 DEF ServerTypes
      <4> QED
        BY <1>1, <2>1, <2>4, <4>1 DEF AllInTime, InTime
    <3>2. ASSUME NEW p \in Records!Pairs, NEW i \in 1..Len(outbox[p]) PROVE InTime(outbox[p][i])'
      <4>1. outbox[p][i] \in Expiring /\ InTime(outbox[p][i])
        BY <1>1, ElementOfSeq DEF ServerTypes, AllInTime
      <4> QED
        BY <2>1, <2>4, <4>1
    <3> QED
      BY <2>1, <3>1, <3>2 DEF AllInTime, InTime
  <2>6. ASSUME NEW t \in Servers PROVE Kept(t)'
    <3>1. Kept(t) /\ announced[t] \in Nat /\ \A adr \in Addresses : acked[t][adr] \in Nat
      BY <1>1 DEF ServerTypes
    <3>2. Remembered(t) => Remembered(t)'
      BY <2>1, <2>2, <3>1 DEF Remembered, Records!FoundAt, Records!Expired
    <3>3. NothingLost(t) => NothingLost(t)'
      BY <2>1, <2>2, <3>1 DEF NothingLost
    <3> QED
      BY <2>1, <3>1, <3>2, <3>3 DEF Kept
  <2> QED
    BY <2>3, <2>5, <2>6 DEF ServerInv
<1> QED
  BY <1>2, <1>3, <1>4

\* A lookup and the statistics see a record of which nothing is left, and the time at which the
\* device was seen; what they put or delete later is right unless a merge has come in between.
LEMMA LookingKeeps ==
  ASSUME ServerInv, NEW s \in Servers,
         Records!Lookup(s) \/ Records!Put(s) \/ Records!CollectStatistics(s) \/ Records!Delete(s)
  PROVE  ServerInv'
<1>1. ServerTypes /\ AllInTime /\ \A t \in Servers : Kept(t)
  BY DEF ServerInv
<1>2. /\ clock \in Nat /\ Retention \in Nat /\ RecordLifetime \in Nat
      /\ db[s] \in Expiring /\ db[s].seen \in Nat /\ db[s].misses \in Nat /\ misses[s] \in Nat /\ announced[s] \in Nat
      /\ \A adr \in Addresses : db[s].expires[adr] \in Nat /\ acked[s][adr] \in Nat
  BY <1>1, ServerAssumption DEF ServerTypes, Expiring
<1>3. ASSUME Kept(s), ~overtaken[s], \A adr \in Addresses : db[s].expires[adr] < clock
      PROVE  \A adr \in Addresses : acked[s][adr] < clock
  BY <1>2, <1>3 DEF Kept, Remembered, Records!FoundAt, Records!Expired
<1>4. CASE Records!Lookup(s)
  <2> DEFINE n == Records!Misses(s)
             rec == [Records!Nothing EXCEPT !.misses = n, !.missed = clock, !.seen = db[s].seen]
  <2>1. /\ put[s] = {} /\ Records!Found(s) = {}
        /\ misses' = [misses EXCEPT ![s] = n]
        /\ put' = [put EXCEPT ![s] = IF n % Interval = 0 THEN {rec} ELSE {}]
        /\ late' = [late EXCEPT ![s] = late[s] /\ (put[s] # {} \/ doomed[s])]
    BY <1>1, <1>4 DEF Records!Lookup, Records!LooksAt, ServerTypes
  <2>2. /\ db' = db /\ announce' = announce /\ doomed' = doomed /\ outbox' = outbox /\ clock' = clock
        /\ acked' = acked /\ announced' = announced /\ overtaken' = overtaken
    BY <1>4 DEF Records!Lookup
  <2>3. n \in Nat
    BY <1>2 DEF Records!Misses
  <2> HIDE DEF n
  <2>4. rec \in Expiring /\ rec.seen = db[s].seen /\ rec.expires = Records!Nothing.expires
    BY <1>2, <2>3, NothingIs DEF Expiring
  <2> HIDE DEF rec
  <2>5. InTime(rec)
    BY <1>2, <2>4, NothingIs DEF InTime
  <2>6. /\ \A t \in Servers : t # s => put'[t] = put[t] /\ late'[t] = late[t]
        /\ put'[s] \subseteq {rec} /\ late'[s] = (late[s] /\ doomed[s])
    BY <1>1, <2>1 DEF ServerTypes
  <2>7. ServerTypes'
    BY <1>1, <2>1, <2>2, <2>3, <2>4 DEF ServerTypes
  <2>8. AllInTime'
    BY <1>1, <2>2, <2>5, <2>6 DEF AllInTime, InTime
  <2>9. Kept(s)'
    <3> SUFFICES ASSUME ~overtaken[s] PROVE Remembered(s)' /\ (~late'[s] => NothingLost(s)')
      BY <2>2 DEF Kept
    <3>1. Remembered(s) /\ (~late[s] => NothingLost(s))
      BY <1>1 DEF Kept
    <3>2. \A adr \in Addresses : db[s].expires[adr] < clock
      BY <2>1 DEF Records!Found, Records!Expired
    <3>3. \A adr \in Addresses : acked[s][adr] < clock
      BY <1>1, <1>3, <3>2
    <3>4. Remembered(s)'
      BY <2>2, <3>1 DEF Remembered, Records!FoundAt, Records!Expired
    <3>5. ASSUME ~late'[s] PROVE NothingLost(s)'
      <4>1. doomed[s] => ~late[s]
        BY <2>6, <3>5
      <4>2. doomed'[s] => announced'[s] <= clock' - Retention
        BY <2>2, <3>1, <4>1 DEF NothingLost
      <4>3. \A r \in put'[s] : announced'[s] > clock' - Retention => r.seen >= announced'[s]
        BY <2>2, <2>4, <2>6, <3>1 DEF Remembered
      <4> QED
        BY <2>2, <3>3, <4>2, <4>3 DEF NothingLost
    <3> QED
      BY <3>4, <3>5
  <2>10. ASSUME NEW t \in Servers, t # s PROVE Kept(t)'
    BY <2>2, <2>6, <2>10, OtherServers
  <2> QED
    BY <2>7, <2>8, <2>9, <2>10 DEF ServerInv
<1>5. CASE Records!Put(s)
  <2>1. PICK rec \in put[s] : db' = [db EXCEPT ![s] = rec]
    BY <1>5 DEF Records!Put
  <2>2. /\ put' = [put EXCEPT ![s] = {}]
        /\ overtaken' = [overtaken EXCEPT ![s] = overtaken[s] \/ late[s]]
    BY <1>1, <1>5 DEF Records!Put, ServerTypes
  <2>3. /\ misses' = misses /\ announce' = announce /\ doomed' = doomed /\ outbox' = outbox /\ clock' = clock
        /\ acked' = acked /\ announced' = announced /\ late' = late
    BY <1>5 DEF Records!Put, Records!bounds
  <2>4. rec \in Expiring /\ InTime(rec)
    BY <1>1 DEF ServerTypes, AllInTime
  <2>5. /\ \A t \in Servers : t # s => db'[t] = db[t] /\ put'[t] = put[t] /\ overtaken'[t] = overtaken[t]
        /\ db'[s] = rec /\ put'[s] = {} /\ overtaken'[s] = (overtaken[s] \/ late[s])
    BY <1>1, <2>1, <2>2 DEF ServerTypes
  <2>6. ServerTypes'
    BY <1>1, <2>1, <2>2, <2>3, <2>4 DEF ServerTypes
  <2>7. AllInTime'
    BY <1>1, <2>3, <2>4, <2>5 DEF AllInTime, InTime
  <2>8. Kept(s)'
    <3> SUFFICES ASSUME ~overtaken[s], ~late[s] PROVE Remembered(s)' /\ NothingLost(s)'
      BY <2>3, <2>5 DEF Kept
    <3>1. NothingLost(s)
      BY <1>1 DEF Kept
    <3>2. Remembered(s)'
      BY <2>1, <2>3, <2>5, <3>1 DEF NothingLost, Remembered, Records!FoundAt, Records!Expired
    <3>3. NothingLost(s)'
      BY <2>3, <2>5, <3>1 DEF NothingLost
    <3> QED
      BY <3>2, <3>3
  <2>9. ASSUME NEW t \in Servers, t # s PROVE Kept(t)'
    BY <2>3, <2>5, <2>9, OtherServers
  <2> QED
    BY <2>6, <2>7, <2>8, <2>9 DEF ServerInv
<1>6. CASE Records!CollectStatistics(s)
  <2>1. /\ ~doomed[s] /\ Records!Useless(db[s])
        /\ doomed' = [doomed EXCEPT ![s] = TRUE]
        /\ late' = [late EXCEPT ![s] = late[s] /\ (put[s] # {} \/ doomed[s])]
    BY <1>1, <1>6 DEF Records!CollectStatistics, Records!LooksAt, ServerTypes
  <2>2. /\ db' = db /\ misses' = misses /\ announce' = announce /\ put' = put /\ outbox' = outbox /\ clock' = clock
        /\ acked' = acked /\ announced' = announced /\ overtaken' = overtaken
    BY <1>6 DEF Records!CollectStatistics, Records!bounds
  <2>3. /\ \A t \in Servers : t # s => doomed'[t] = doomed[t] /\ late'[t] = late[t]
        /\ late'[s] = (late[s] /\ put[s] # {})
    BY <1>1, <2>1 DEF ServerTypes
  <2>4. ServerTypes'
    BY <1>1, <2>1, <2>2 DEF ServerTypes
  <2>5. AllInTime'
    BY <1>1, <2>2 DEF AllInTime, InTime
  <2>6. Kept(s)'
    <3> SUFFICES ASSUME ~overtaken[s] PROVE Remembered(s)' /\ (~late'[s] => NothingLost(s)')
      BY <2>2 DEF Kept
    <3>1. Remembered(s) /\ (~late[s] => NothingLost(s))
      BY <1>1 DEF Kept
    <3>2. (\A adr \in Addresses : db[s].expires[adr] < clock) /\ db[s].seen <= clock - Retention
      BY <2>1 DEF Records!Useless, Records!Expired
    <3>3. \A adr \in Addresses : acked[s][adr] < clock
      BY <1>1, <1>3, <3>2
    <3>4. announced[s] <= clock - Retention
      BY <1>2, <3>1, <3>2 DEF Remembered
    <3>5. Remembered(s)'
      BY <2>2, <3>1 DEF Remembered, Records!FoundAt, Records!Expired
    <3>6. ASSUME ~late'[s] PROVE NothingLost(s)'
      <4>1. put[s] # {} => ~late[s]
        BY <2>3, <3>6
      <4>2. \A r \in put[s] : announced[s] > clock - Retention => r.seen >= announced[s]
        BY <3>1, <4>1 DEF NothingLost
      <4> QED
        BY <2>2, <3>3, <3>4, <4>2 DEF NothingLost
    <3> QED
      BY <3>5, <3>6
  <2>7. ASSUME NEW t \in Servers, t # s PROVE Kept(t)'
    BY <2>2, <2>3, <2>7, OtherServers
  <2> QED
    BY <2>4, <2>5, <2>6, <2>7 DEF ServerInv
<1>7. CASE Records!Delete(s)
  <2>1. /\ doomed[s] /\ doomed' = [doomed EXCEPT ![s] = FALSE]
        /\ db' = [db EXCEPT ![s] = Records!Nothing]
        /\ overtaken' = [overtaken EXCEPT ![s] = overtaken[s] \/ late[s]]
    BY <1>1, <1>7 DEF Records!Delete, ServerTypes
  <2>2. /\ misses' = misses /\ announce' = announce /\ put' = put /\ outbox' = outbox /\ clock' = clock
        /\ acked' = acked /\ announced' = announced /\ late' = late
    BY <1>7 DEF Records!Delete, Records!bounds
  <2>3. /\ \A t \in Servers : t # s => db'[t] = db[t] /\ doomed'[t] = doomed[t] /\ overtaken'[t] = overtaken[t]
        /\ db'[s] = Records!Nothing /\ ~doomed'[s] /\ overtaken'[s] = (overtaken[s] \/ late[s])
    BY <1>1, <2>1 DEF ServerTypes
  <2>4. ServerTypes'
    BY <1>1, <2>1, <2>2, NothingIs DEF ServerTypes
  <2>5. InTime(Records!Nothing)
    BY <1>2, NothingIs DEF InTime
  <2>6. AllInTime'
    BY <1>1, <2>2, <2>3, <2>5 DEF AllInTime, InTime
  <2>7. Kept(s)'
    <3> SUFFICES ASSUME ~overtaken[s], ~late[s] PROVE Remembered(s)' /\ NothingLost(s)'
      BY <2>2, <2>3 DEF Kept
    <3>1. NothingLost(s)
      BY <1>1 DEF Kept
    <3>2. announced[s] <= clock - Retention /\ \A adr \in Addresses : acked[s][adr] < clock
      BY <2>1, <3>1 DEF NothingLost
    <3>3. Remembered(s)'
      BY <1>2, <2>2, <2>3, <3>2 DEF Remembered, Records!FoundAt, Records!Expired
    <3>4. NothingLost(s)'
      BY <2>2, <2>3, <3>1, <3>2 DEF NothingLost
    <3> QED
      BY <3>3, <3>4
  <2>8. ASSUME NEW t \in Servers, t # s PROVE Kept(t)'
    BY <2>2, <2>3, <2>8, OtherServers
  <2> QED
    BY <2>4, <2>6, <2>7, <2>8 DEF ServerInv
<1> QED
  BY <1>4, <1>5, <1>6, <1>7

\* At first there is nothing.
LEMMA ServersAtFirst == Records!Init => ServerInv
<1> SUFFICES ASSUME Records!Init PROVE ServerInv
  OBVIOUS
<1>1. /\ db = [s \in Servers |-> Records!Nothing] /\ misses = [s \in Servers |-> 0]
      /\ announce = [s \in Servers |-> {}] /\ put = [s \in Servers |-> {}] /\ doomed = [s \in Servers |-> FALSE]
      /\ outbox = [p \in Records!Pairs |-> <<>>]
      /\ acked = [s \in Servers |-> [adr \in Addresses |-> 0]] /\ announced = [s \in Servers |-> 0]
      /\ overtaken = [s \in Servers |-> FALSE] /\ late = [s \in Servers |-> FALSE]
      /\ clock = Retention + 1
  BY DEF Records!Init, Records!Never
<1>2. clock \in Nat /\ Retention \in Nat /\ RecordLifetime \in Nat /\ clock > 0 /\ clock - Retention > 0
  BY <1>1, ServerAssumption
<1>3. ServerTypes
  <2>1. outbox \in [Records!Pairs -> Seq(Expiring)]
    BY <1>1, EmptySeq
  <2> QED
    BY <1>1, <1>2, <2>1, NothingIs DEF ServerTypes
<1>4. AllInTime
  <2>1. \A p \in Records!Pairs : Len(outbox[p]) = 0
    BY <1>1, EmptySeq
  <2> QED
    BY <1>1, <1>2, <2>1, NothingIs DEF AllInTime, InTime
<1>5. ASSUME NEW s \in Servers PROVE Kept(s)
  BY <1>1, <1>2 DEF Kept, Remembered, NothingLost, Records!FoundAt, Records!Expired
<1> QED
  BY <1>3, <1>4, <1>5 DEF ServerInv

\* The discovery servers (cmd/stdiscosrv), for any number of servers, addresses, times and limits: a
\* server that has said it has an address has it until it expires, and the time at which the device
\* was seen for as long as it matters, unless a lookup or the statistics put or delete a record that
\* they had looked at before; and it keeps no address for longer than it said.
THEOREM ServersRemember == SpecOne => []DiscoveryServerRight
<1> DEFINE allVars == <<which, vars, relayVars, serverVars, discoveryVars, progressVars, ignoreVars>>
<1>1. InitOne => ServerInv
  BY ServersAtFirst DEF InitOne
<1>2. ServerInv /\ [NextOne]_allVars => ServerInv'
  <2> SUFFICES ASSUME ServerInv, [NextOne]_allVars PROVE ServerInv'
    OBVIOUS
  <2>1. CASE Records!Next
    BY <2>1, MergesKeep, AnnounceKeeps, LosingKeeps, LookingKeeps DEF Records!Next
  <2>2. CASE UNCHANGED serverVars
    BY <2>2 DEF serverVars, ServerInv, ServerTypes, AllInTime, InTime, Kept, Remembered, NothingLost, Records!FoundAt,
                Records!Expired
  <2> QED BY <2>1, <2>2 DEF NextOne
<1>3. ServerInv => DiscoveryServerRight
  <2> SUFFICES ASSUME ServerInv PROVE DiscoveryServerRight
    OBVIOUS
  <2>1. Records!FoundUnlessOvertaken
    BY DEF ServerInv, Kept, Remembered, Records!FoundUnlessOvertaken
  <2>2. Records!SeenIsKept
    BY DEF ServerInv, Kept, Remembered, Records!SeenIsKept
  <2>3. Records!NotForLonger
    BY DEF ServerInv, AllInTime, InTime, Records!NotForLonger
  <2> QED BY <2>1, <2>2, <2>3 DEF DiscoveryServerRight, Records!DiscoveryServerRight
<1> QED BY <1>1, <1>2, <1>3, PTL DEF SpecOne

-----------------------------------------------------------------------------
(* Discovery: the inductive invariant *)

AnnounceTimes == {Reannounce, ErrorRetry} \cup AnnounceRetry
CacheTimes == {CacheTime, NegCacheTime} \cup LookupRetry
MostAnnounce == Found!Longest(AnnounceTimes)
MostCache == Found!Longest(CacheTimes)

Cacheable == [found : BOOLEAN, addrs : SUBSET Addresses, age : Nat, wait : 0..LongestRetry]
\* For how long the entry still answers lookups.
LeftOf(e) == IF e.found THEN CacheTime - e.age ELSE Found!Later(e.wait, NegCacheTime - e.age)
\* What is left of the timer.
UpTo(t) == IF t = Found!Idle THEN 0 ELSE t

DiscoveryTypes ==
  /\ addrs \subseteq Addresses /\ \A m, n \in addrs : m = n
  /\ events \in Nat /\ timer \in -1..MostAnnounce /\ fired \in BOOLEAN /\ posting \subseteq Addresses
  /\ records \in [Addresses -> -1..Lifetime]
  /\ enabled \in BOOLEAN /\ started \in BOOLEAN /\ finder \in BOOLEAN /\ asking \in BOOLEAN
  /\ copy \subseteq {enabled}
  /\ cache \subseteq Cacheable /\ \A e, f \in cache : e = f
  /\ \A e \in cache : LeftOf(e) >= 0 /\ LeftOf(e) <= MostCache
  /\ steady \in Nat

\* There are entries, and lookups under way, only with the finder; and it is there as configured.
FinderRight ==
  /\ ~finder => cache = {} /\ ~asking
  /\ Found!FinderFollows

\* Since something has changed or failed, no event waits and nothing else is being announced.
Calm == steady > 0 => events = 0 /\ posting \subseteq addrs

\* An address is announced before too long, or the server has it until after the next time.
Announcing ==
  \A adr \in addrs :
    \/ steady + UpTo(timer) <= MostAnnounce
    \/ records[adr] - UpTo(timer) >= Lifetime - Reannounce

\* What is no address any more has been on record since something changed.
Forgetting == \A adr \in Addresses \ addrs : records[adr] >= 0 => steady + records[adr] <= Lifetime

\* An entry without the address was made before that was announced, and one with another
\* before that was forgotten.
Asking ==
  \A e \in cache :
    /\ \A adr \in addrs : adr \notin e.addrs => steady + LeftOf(e) <= MostAnnounce + MostCache
    /\ \A adr \in e.addrs : adr \notin addrs => steady + LeftOf(e) <= Lifetime + MostCache

DiscoveryInv ==
  /\ DiscoveryTypes /\ FinderRight /\ Found!StaysAwake
  /\ Calm /\ Announcing /\ Forgetting /\ Asking

-----------------------------------------------------------------------------
(* Discovery: the operators *)

\* A set of numbers that is bounded has a longest one.
LEMMA LongestIs ==
  ASSUME NEW N \in SUBSET Nat, N # {}, NEW b1 \in Nat, \A k \in N : k <= b1
  PROVE  Found!Longest(N) \in N /\ \A k \in N : k <= Found!Longest(N)
<1> DEFINE R == {b1 - k : k \in N}
<1>1. R \in SUBSET Nat /\ R # {}
  <2>1. \A k \in N : k \in Nat /\ b1 - k \in Nat
    OBVIOUS
  <2>2. PICK k \in N : TRUE
    OBVIOUS
  <2>3. b1 - k \in R
    OBVIOUS
  <2> QED
    BY <2>1, <2>3
<1>2. IsWellFoundedOn(OpToRel(<, Nat), Nat)
  BY NatLessThanWellFounded
<1>3. PICK i \in R : \A r \in R : <<r, i>> \notin OpToRel(<, Nat)
  BY <1>1, <1>2, WFMin
<1>4. \A r \in R : ~(r < i)
  BY <1>1, <1>3 DEF OpToRel
<1>5. PICK m \in N : i = b1 - m
  BY <1>3
<1>6. ASSUME NEW k \in N PROVE k <= m
  <2>1. b1 - k \in R
    OBVIOUS
  <2>2. ~(b1 - k < b1 - m)
    BY <1>4, <1>5, <2>1
  <2> QED
    BY <2>2
<1> QED
  BY <1>6 DEF Found!Longest

\* The longest times are no shorter than each of them.
LEMMA LongestTimes ==
  /\ MostAnnounce \in Nat /\ \A t \in AnnounceTimes : t \in 0..MostAnnounce
  /\ MostCache \in Nat /\ \A t \in CacheTimes : t \in 0..MostCache
<1>1. ASSUME NEW N \in SUBSET Nat, N # {}, NEW b1 \in Nat, \A k \in N : k <= b1
      PROVE  Found!Longest(N) \in Nat /\ \A k \in N : k \in 0..Found!Longest(N)
  <2>1. Found!Longest(N) \in N /\ \A k \in N : k <= Found!Longest(N)
    BY <1>1, LongestIs
  <2>2. Found!Longest(N) \in Nat
    BY <2>1
  <2>3. ASSUME NEW k \in N PROVE k \in 0..Found!Longest(N)
    <3>1. k \in Nat /\ k <= Found!Longest(N)
      BY <2>1
    <3> QED
      BY <2>2, <3>1
  <2> QED
    BY <2>2, <2>3
<1>2. /\ Lifetime \in Nat /\ Reannounce \in Nat /\ ErrorRetry \in Nat /\ CacheTime \in Nat /\ NegCacheTime \in Nat
      /\ LongestRetry \in Nat /\ AnnounceRetry \subseteq 0..LongestRetry /\ LookupRetry \subseteq 0..LongestRetry
  BY DiscoveryAssumption
<1>3. AnnounceTimes \in SUBSET Nat /\ AnnounceTimes # {} /\ \A t \in AnnounceTimes : t <= Reannounce + ErrorRetry + LongestRetry
  BY <1>2 DEF AnnounceTimes
<1>4. CacheTimes \in SUBSET Nat /\ CacheTimes # {} /\ \A t \in CacheTimes : t <= CacheTime + NegCacheTime + LongestRetry
  BY <1>2 DEF CacheTimes
<1>5. Reannounce + ErrorRetry + LongestRetry \in Nat /\ CacheTime + NegCacheTime + LongestRetry \in Nat
  BY <1>2
<1> QED
  BY <1>1, <1>3, <1>4, <1>5 DEF MostAnnounce, MostCache

\* An entry answers a lookup as long as something is left of it.
LEMMA CachedIs ==
  ASSUME cache \subseteq Cacheable
  PROVE  Found!Cached <=> \E e \in cache : LeftOf(e) > 0
<1>1. ASSUME NEW e \in cache PROVE Found!Fresh(e) \/ Found!Valid(e) <=> LeftOf(e) > 0
  <2>1. e.found \in BOOLEAN /\ e.age \in Nat /\ e.wait \in Nat /\ CacheTime \in Nat /\ NegCacheTime \in Nat
    BY DiscoveryAssumption DEF Cacheable
  <2> QED
    BY <2>1 DEF Found!Fresh, Found!Valid, LeftOf, Found!Later
<1> QED
  BY <1>1 DEF Found!Cached

\* A new entry lasts as long as the caches, or as the server says.
LEMMA NewEntries ==
  ASSUME NEW as \in SUBSET Addresses, NEW w \in {0} \cup LookupRetry
  PROVE  LET yes == [Found!Positive EXCEPT !.addrs = as]
             no == Found!NotFound(w) IN
         /\ yes \in Cacheable /\ yes.addrs = as /\ LeftOf(yes) \in 0..MostCache
         /\ no \in Cacheable /\ no.addrs = {} /\ LeftOf(no) \in 0..MostCache
<1>1. /\ CacheTime \in 0..MostCache /\ NegCacheTime \in 0..MostCache /\ w \in 0..MostCache
      /\ CacheTime \in Nat /\ NegCacheTime \in Nat /\ w \in 0..LongestRetry /\ MostCache \in Nat /\ LongestRetry \in Nat
  BY LongestTimes, DiscoveryAssumption DEF CacheTimes
<1>2. Found!NotFound(w) = [found |-> FALSE, addrs |-> {}, age |-> 0, wait |-> w]
  BY DEF Found!NotFound
<1> DEFINE yes == [Found!Positive EXCEPT !.addrs = as]
           no == [found |-> FALSE, addrs |-> {}, age |-> 0, wait |-> w]
<1>3. 0 \in 0..LongestRetry /\ {} \subseteq Addresses
  BY <1>1
<1>4. yes \in Cacheable /\ yes.addrs = as /\ yes.found = TRUE /\ yes.age = 0
  BY <1>3 DEF Cacheable, Found!Positive
<1>5. no \in Cacheable /\ no.addrs = {}
  BY <1>1, <1>3 DEF Cacheable
<1>6. LeftOf(no) \in 0..MostCache
  <2>1. LeftOf(no) = Found!Later(w, NegCacheTime)
    BY <1>1 DEF LeftOf
  <2> QED
    BY <1>1, <2>1 DEF Found!Later
<1> HIDE DEF yes
<1>7. LeftOf(yes) = CacheTime
  BY <1>1, <1>4 DEF LeftOf
<1> QED
  BY <1>1, <1>2, <1>4, <1>5, <1>6, <1>7 DEF yes

-----------------------------------------------------------------------------
(* Discovery: the actions *)

\* When something has just changed or failed, the times begin again.
LEMMA BeginsAgain == DiscoveryTypes /\ steady = 0 => Calm /\ Announcing /\ Forgetting /\ Asking
<1> SUFFICES ASSUME DiscoveryTypes, steady = 0 PROVE Calm /\ Announcing /\ Forgetting /\ Asking
  OBVIOUS
<1>1. /\ MostAnnounce \in Nat /\ MostCache \in Nat /\ Lifetime \in Nat /\ timer \in -1..MostAnnounce
      /\ \A adr \in Addresses : records[adr] \in -1..Lifetime
  BY LongestTimes, DiscoveryAssumption DEF DiscoveryTypes
<1>2. Calm
  BY DEF Calm
<1>3. UpTo(timer) \in 0..MostAnnounce
  BY <1>1 DEF UpTo, Found!Idle
<1>4. Announcing
  BY <1>1, <1>3 DEF Announcing
<1>5. Forgetting
  BY <1>1 DEF Forgetting
<1>6. ASSUME NEW e \in cache PROVE LeftOf(e) \in Int /\ LeftOf(e) <= MostCache
  <2>1. e.found \in BOOLEAN /\ e.age \in Nat /\ e.wait \in Nat /\ CacheTime \in Nat /\ NegCacheTime \in Nat
    BY DiscoveryAssumption DEF Cacheable, DiscoveryTypes
  <2>2. LeftOf(e) \in Int
    BY <2>1 DEF LeftOf, Found!Later
  <2> QED
    BY <2>2 DEF DiscoveryTypes
<1>7. Asking
  BY <1>1, <1>6 DEF Asking
<1> QED
  BY <1>2, <1>4, <1>5, <1>7

\* What changes or fails leaves times that are no longer than they may be.
LEMMA RestartingKeeps ==
  ASSUME DiscoveryInv,
         \/ Found!ChangeAddress \/ Found!HandleEvent \/ Found!AnnounceFails \/ Found!LoseRecord
         \/ Found!Start \/ Found!CommitConfiguration \/ Found!LookupFails
  PROVE  DiscoveryInv'
<1>1. DiscoveryTypes /\ FinderRight /\ Found!StaysAwake /\ Calm
  BY DEF DiscoveryInv
<1>2. ASSUME DiscoveryTypes', FinderRight', Found!StaysAwake', steady' = 0 PROVE DiscoveryInv'
  <2>1. (DiscoveryTypes /\ steady = 0 => Calm /\ Announcing /\ Forgetting /\ Asking)'
    BY BeginsAgain, PTL
  <2> QED
    BY <1>2, <2>1 DEF DiscoveryInv
<1>3. /\ MostAnnounce \in Nat /\ \A t \in AnnounceTimes : t \in 0..MostAnnounce
      /\ MostCache \in Nat /\ Lifetime \in Nat /\ Reannounce \in 0..MostAnnounce /\ ErrorRetry \in 0..MostAnnounce
      /\ MostAnnounce' = MostAnnounce /\ MostCache' = MostCache
  BY LongestTimes, DiscoveryAssumption DEF AnnounceTimes, MostAnnounce, MostCache
<1>4. CASE Found!ChangeAddress
  <2>1. /\ addrs' \in {{}} \cup {{adr} : adr \in Addresses} /\ events' = events + 1 /\ steady' = 0
        /\ UNCHANGED <<timer, fired, resets, posting, records, enabled, started, copy, finder, cache, asking>>
    BY <1>4 DEF Found!ChangeAddress, Found!manager
  <2>2. addrs' \subseteq Addresses /\ \A m, n \in addrs' : m = n
    BY <2>1
  <2>3. DiscoveryTypes'
    BY <1>1, <1>3, <2>1, <2>2 DEF DiscoveryTypes, LeftOf
  <2>4. FinderRight' /\ Found!StaysAwake'
    BY <1>1, <2>1 DEF FinderRight, Found!FinderFollows, Found!StaysAwake
  <2> QED
    BY <1>2, <2>1, <2>3, <2>4
<1>5. CASE Found!HandleEvent
  <2>1. /\ events > 0 /\ events' = events - 1 /\ steady' = steady
        /\ timer' \in {0, ErrorRetry, timer}
        /\ UNCHANGED <<addrs, fired, posting, records, enabled, started, copy, finder, cache, asking>>
    BY <1>5 DEF Found!HandleEvent, Found!manager
  <2>2. steady' = 0 /\ events' \in Nat
    BY <1>1, <2>1 DEF Calm, DiscoveryTypes
  <2>3. timer' \in -1..MostAnnounce
    BY <1>1, <1>3, <2>1 DEF DiscoveryTypes
  <2>4. DiscoveryTypes'
    BY <1>1, <1>3, <2>1, <2>2, <2>3 DEF DiscoveryTypes, LeftOf
  <2>5. FinderRight'
    BY <1>1, <2>1 DEF FinderRight, Found!FinderFollows
  <2>6. Found!StaysAwake'
    BY <1>1, <1>3, <2>1 DEF Found!StaysAwake, Found!Idle
  <2> QED
    BY <1>2, <2>2, <2>4, <2>5, <2>6
<1>6. CASE Found!AnnounceFails
  <2>1. /\ records' = [adr \in Addresses |-> IF adr \in posting THEN Lifetime ELSE records[adr]] \/ records' = records
        /\ posting' = {} /\ timer' \in AnnounceTimes /\ steady' = 0
        /\ UNCHANGED <<addrs, events, fired, resets, enabled, started, copy, finder, cache, asking>>
    BY <1>6 DEF Found!AnnounceFails, Found!Posted, Found!AfterFailure, Found!manager, AnnounceTimes
  <2>2. timer' \in 0..MostAnnounce
    BY <1>3, <2>1
  <2>3. records' \in [Addresses -> -1..Lifetime]
    BY <1>1, <1>3, <2>1 DEF DiscoveryTypes
  <2>4. DiscoveryTypes'
    BY <1>1, <1>3, <2>1, <2>2, <2>3 DEF DiscoveryTypes, LeftOf
  <2>5. FinderRight' /\ Found!StaysAwake'
    BY <1>1, <1>3, <2>1, <2>2 DEF FinderRight, Found!FinderFollows, Found!StaysAwake, Found!Idle
  <2> QED
    BY <1>2, <2>1, <2>4, <2>5
<1>7. CASE Found!LoseRecord
  <2>1. /\ records' = [adr \in Addresses |-> -1] /\ steady' = 0
        /\ UNCHANGED <<addrs, events, timer, fired, resets, posting, enabled, started, copy, finder, cache, asking>>
    BY <1>7 DEF Found!LoseRecord, Found!Idle, Found!announcer, Found!manager
  <2>2. records' \in [Addresses -> -1..Lifetime]
    BY <1>3, <2>1
  <2>3. DiscoveryTypes'
    BY <1>1, <1>3, <2>1, <2>2 DEF DiscoveryTypes, LeftOf
  <2>4. FinderRight' /\ Found!StaysAwake'
    BY <1>1, <2>1 DEF FinderRight, Found!FinderFollows, Found!StaysAwake
  <2> QED
    BY <1>2, <2>1, <2>3, <2>4
<1>8. CASE Found!Start \/ Found!CommitConfiguration
  <2>1. /\ ~asking /\ asking' = asking /\ steady' = 0
        /\ finder' = enabled' /\ enabled' \in BOOLEAN /\ started' \in BOOLEAN
        /\ cache' = (IF finder' /\ finder THEN cache ELSE {}) /\ copy' = {}
        /\ UNCHANGED <<addrs, events, timer, fired, resets, posting, records>>
    <3>1. CASE Found!Start
      <4>1. PICK use \in copy : Found!UseFinder(use)
        BY <3>1 DEF Found!Start
      <4>2. use = enabled
        BY <1>1 DEF DiscoveryTypes
      <4> QED
        BY <1>1, <3>1, <4>1, <4>2 DEF Found!Start, Found!UseFinder, Found!announcer, DiscoveryTypes
    <3>2. CASE Found!CommitConfiguration
      BY <1>1, <3>2 DEF Found!CommitConfiguration, Found!UseFinder, Found!announcer, DiscoveryTypes
    <3> QED
      BY <1>8, <3>1, <3>2
  <2>2. cache' \subseteq cache
    BY <2>1
  <2>3. DiscoveryTypes'
    BY <1>1, <1>3, <2>1, <2>2 DEF DiscoveryTypes, LeftOf
  <2>4. FinderRight' /\ Found!StaysAwake'
    BY <1>1, <2>1 DEF FinderRight, Found!FinderFollows, Found!StaysAwake
  <2> QED
    BY <1>2, <2>1, <2>3, <2>4
<1>9. CASE Found!LookupFails
  <2>1. PICK w \in {0} \cup LookupRetry : cache' = {Found!NotFound(w)}
    BY <1>9 DEF Found!LookupFails
  <2>2. /\ asking /\ asking' = FALSE /\ steady' = 0
        /\ UNCHANGED <<addrs, events, timer, fired, resets, posting, records, enabled, started, copy, finder>>
    BY <1>9 DEF Found!LookupFails, Found!announcer
  <2>3. Found!NotFound(w) \in Cacheable /\ LeftOf(Found!NotFound(w)) \in 0..MostCache
    BY NewEntries
  <2>4. cache' \subseteq Cacheable /\ (\A e, f \in cache' : e = f) /\ \A e \in cache' : LeftOf(e) >= 0 /\ LeftOf(e) <= MostCache
    BY <1>3, <2>1, <2>3
  <2>5. DiscoveryTypes'
    BY <1>1, <1>3, <2>2, <2>4 DEF DiscoveryTypes, LeftOf
  <2>6. FinderRight' /\ Found!StaysAwake'
    BY <1>1, <2>2 DEF FinderRight, Found!FinderFollows, Found!StaysAwake
  <2> QED
    BY <1>2, <2>2, <2>5, <2>6
<1> QED
  BY <1>4, <1>5, <1>6, <1>7, <1>8, <1>9

\* The timer and the announcement: what is announced is on record until after the next time.
LEMMA AnnouncingKeeps ==
  ASSUME DiscoveryInv, Found!TimerFires \/ Found!SendAnnouncement \/ Found!Announced \/ Found!Copy \/ Found!Lookup
  PROVE  DiscoveryInv'
<1>1. /\ DiscoveryTypes /\ FinderRight /\ Found!StaysAwake
      /\ Calm /\ Announcing /\ Forgetting /\ Asking
  BY DEF DiscoveryInv
<1>2. /\ MostAnnounce \in Nat /\ Reannounce \in 0..MostAnnounce /\ ErrorRetry \in 0..MostAnnounce
      /\ MostCache \in Nat /\ Lifetime \in Nat /\ Reannounce \in Nat
      /\ MostAnnounce' = MostAnnounce /\ MostCache' = MostCache
  BY LongestTimes, DiscoveryAssumption DEF AnnounceTimes, MostAnnounce, MostCache
<1>3. CASE Found!TimerFires
  <2>1. /\ timer = 0 /\ timer' = -1 /\ fired' = TRUE
        /\ UNCHANGED <<addrs, events, resets, posting, records, enabled, started, copy, finder, cache, asking, steady>>
    BY <1>3 DEF Found!TimerFires, Found!Idle, Found!manager
  <2>2. UpTo(timer)' = UpTo(timer)
    BY <2>1 DEF UpTo, Found!Idle
  <2>3. DiscoveryTypes'
    BY <1>1, <1>2, <2>1 DEF DiscoveryTypes, LeftOf
  <2>4. FinderRight' /\ Found!StaysAwake' /\ Calm'
    BY <1>1, <2>1 DEF FinderRight, Found!FinderFollows, Found!StaysAwake, Calm
  <2>5. Announcing' /\ Forgetting' /\ Asking'
    BY <1>1, <1>2, <2>1, <2>2 DEF Announcing, Forgetting, Asking, LeftOf
  <2> QED
    BY <2>3, <2>4, <2>5 DEF DiscoveryInv
<1>4. CASE Found!SendAnnouncement
  <2>1. /\ fired' = FALSE /\ posting' = addrs
        /\ timer' = (IF addrs = {} THEN ErrorRetry ELSE timer)
        /\ UNCHANGED <<addrs, events, records, enabled, started, copy, finder, cache, asking, steady>>
    BY <1>4 DEF Found!SendAnnouncement, Found!manager
  <2>2. DiscoveryTypes'
    <3>1. timer' \in -1..MostAnnounce
      BY <1>1, <1>2, <2>1 DEF DiscoveryTypes
    <3>2. fired' \in BOOLEAN /\ posting' \subseteq Addresses
      BY <1>1, <2>1 DEF DiscoveryTypes
    <3> QED
      BY <1>1, <1>2, <2>1, <3>1, <3>2 DEF DiscoveryTypes, LeftOf
  <2>3. FinderRight' /\ Found!StaysAwake' /\ Calm'
    BY <1>1, <1>2, <2>1 DEF FinderRight, Found!FinderFollows, Found!StaysAwake, Found!Idle, Calm
  <2>4. addrs # {} => timer' = timer
    BY <2>1
  <2>5. Announcing'
    BY <1>1, <1>2, <2>1, <2>4 DEF Announcing, UpTo
  <2>6. Forgetting' /\ Asking'
    BY <1>1, <1>2, <2>1 DEF Forgetting, Asking, LeftOf
  <2> QED
    BY <2>2, <2>3, <2>5, <2>6 DEF DiscoveryInv
<1>5. CASE Found!Announced
  <2>1. /\ posting # {} /\ posting' = {} /\ timer' = Reannounce
        /\ records' = [adr \in Addresses |-> IF adr \in posting THEN Lifetime ELSE records[adr]]
        /\ UNCHANGED <<addrs, events, fired, resets, enabled, started, copy, finder, cache, asking, steady>>
    BY <1>5 DEF Found!Announced, Found!Posted, Found!manager
  <2>2. records' \in [Addresses -> -1..Lifetime]
    BY <1>1, <1>2, <2>1 DEF DiscoveryTypes
  <2>3. DiscoveryTypes'
    BY <1>1, <1>2, <2>1, <2>2 DEF DiscoveryTypes, LeftOf
  <2>4. FinderRight' /\ Found!StaysAwake' /\ Calm'
    BY <1>1, <1>2, <2>1 DEF FinderRight, Found!FinderFollows, Found!StaysAwake, Found!Idle, Calm
  <2>5. CASE steady = 0
    <3>1. (DiscoveryTypes /\ steady = 0 => Calm /\ Announcing /\ Forgetting /\ Asking)'
      BY BeginsAgain, PTL
    <3> QED
      BY <2>1, <2>3, <2>4, <2>5, <3>1 DEF DiscoveryInv
  <2>6. CASE steady # 0
    <3>1. posting \subseteq addrs
      BY <1>1, <2>6 DEF Calm, DiscoveryTypes
    <3>2. \A adr \in addrs : records'[adr] = Lifetime
      BY <1>1, <2>1, <3>1 DEF DiscoveryTypes
    <3>3. \A adr \in Addresses \ addrs : records'[adr] = records[adr]
      BY <2>1, <3>1
    <3>4. UpTo(timer)' = Reannounce
      BY <1>2, <2>1 DEF UpTo, Found!Idle
    <3>5. Announcing'
      BY <1>2, <2>1, <3>2, <3>4 DEF Announcing
    <3>6. Forgetting' /\ Asking'
      BY <1>1, <1>2, <2>1, <3>3 DEF Forgetting, Asking, LeftOf
    <3> QED
      BY <2>3, <2>4, <3>5, <3>6 DEF DiscoveryInv
  <2> QED
    BY <2>5, <2>6
<1>6. CASE Found!Copy \/ Found!Lookup
  <2>1. /\ copy' \in {copy, {enabled}} /\ asking' \in BOOLEAN /\ (asking' => asking \/ finder)
        /\ UNCHANGED <<addrs, events, timer, fired, resets, posting, records, enabled, started, finder, cache, steady>>
    <3>1. asking \in BOOLEAN
      BY <1>1 DEF DiscoveryTypes
    <3>2. CASE Found!Copy
      BY <3>1, <3>2 DEF Found!Copy, Found!announcer
    <3>3. CASE Found!Lookup
      BY <3>3 DEF Found!Lookup, Found!announcer
    <3> QED
      BY <1>6, <3>2, <3>3
  <2>2. DiscoveryTypes'
    BY <1>1, <1>2, <2>1 DEF DiscoveryTypes, LeftOf
  <2>3. FinderRight' /\ Found!StaysAwake' /\ Calm'
    BY <1>1, <2>1 DEF FinderRight, Found!FinderFollows, Found!StaysAwake, Calm
  <2>4. Announcing' /\ Forgetting' /\ Asking'
    BY <1>1, <1>2, <2>1 DEF Announcing, Forgetting, Asking, LeftOf, UpTo
  <2> QED
    BY <2>2, <2>3, <2>4 DEF DiscoveryInv
<1> QED
  BY <1>3, <1>4, <1>5, <1>6

\* An answer that leaves the address out comes before it is announced, and one that has another
\* before that is forgotten.
LEMMA AnsweredKeeps ==
  ASSUME DiscoveryInv, Found!Answered
  PROVE  DiscoveryInv'
<1>1. /\ DiscoveryTypes /\ FinderRight /\ Found!StaysAwake
      /\ Calm /\ Announcing /\ Forgetting /\ Asking
  BY DEF DiscoveryInv
<1>2. /\ MostAnnounce \in Nat /\ MostCache \in Nat /\ Lifetime \in Nat /\ Reannounce \in Nat /\ Reannounce <= Lifetime
      /\ MostAnnounce' = MostAnnounce /\ MostCache' = MostCache
  BY LongestTimes, DiscoveryAssumption DEF MostAnnounce, MostCache
<1>3. /\ asking /\ asking' = FALSE
      /\ UNCHANGED <<addrs, events, timer, fired, resets, posting, records, enabled, started, copy, finder, steady>>
  BY DEF Found!Answered, Found!announcer
<1>4. Found!OnServer = {adr \in Addresses : records[adr] # -1}
  BY DEF Found!OnServer, Found!Idle
<1>5. PICK e \in Cacheable : /\ cache' = {e} /\ LeftOf(e) \in 0..MostCache
                             /\ e.addrs = Found!OnServer
  <2>1. CASE Found!OnServer # {}
    <3>1. cache' = {[Found!Positive EXCEPT !.addrs = Found!OnServer]}
      BY <2>1 DEF Found!Answered
    <3>2. Found!OnServer \in SUBSET Addresses
      BY <1>4
    <3> QED
      BY <3>1, <3>2, NewEntries
  <2>2. CASE Found!OnServer = {}
    <3>1. PICK w \in LookupRetry : cache' = {Found!NotFound(w)}
      BY <2>2 DEF Found!Answered
    <3> QED
      BY <2>2, <3>1, NewEntries
  <2> QED
    BY <2>1, <2>2
<1>6. DiscoveryTypes'
  <2>1. cache' \subseteq Cacheable /\ (\A f, g \in cache' : f = g) /\ \A f \in cache' : LeftOf(f) >= 0 /\ LeftOf(f) <= MostCache
    BY <1>2, <1>5
  <2> QED
    BY <1>1, <1>2, <1>3, <2>1 DEF DiscoveryTypes, LeftOf
<1>7. FinderRight' /\ Found!StaysAwake' /\ Calm'
  BY <1>1, <1>3 DEF FinderRight, Found!FinderFollows, Found!StaysAwake, Calm
<1>8. Announcing' /\ Forgetting'
  BY <1>1, <1>2, <1>3 DEF Announcing, Forgetting, UpTo
<1>9. /\ steady \in Nat /\ timer \in -1..MostAnnounce /\ addrs \subseteq Addresses
      /\ \A adr \in Addresses : records[adr] \in -1..Lifetime
  BY <1>1 DEF DiscoveryTypes
<1>10. UpTo(timer) \in 0..MostAnnounce
  BY <1>2, <1>9 DEF UpTo, Found!Idle
<1>11. ASSUME NEW adr \in addrs, adr \notin e.addrs PROVE steady + LeftOf(e) <= MostAnnounce + MostCache
  <2>1. records[adr] = -1
    BY <1>4, <1>5, <1>9, <1>11
  <2>2. steady + UpTo(timer) <= MostAnnounce
    BY <1>1, <1>2, <1>9, <1>10, <2>1 DEF Announcing
  <2> QED
    BY <1>2, <1>5, <1>9, <1>10, <2>2
<1>12. ASSUME NEW adr \in e.addrs, adr \notin addrs PROVE steady + LeftOf(e) <= Lifetime + MostCache
  <2>1. adr \in Addresses \ addrs /\ records[adr] \in 0..Lifetime
    BY <1>2, <1>4, <1>5, <1>9, <1>12
  <2>2. steady + records[adr] <= Lifetime
    BY <1>1, <2>1 DEF Forgetting
  <2> QED
    BY <1>2, <1>5, <1>9, <2>1, <2>2
<1>13. Asking'
  BY <1>2, <1>3, <1>5, <1>11, <1>12 DEF Asking, LeftOf
<1> QED
  BY <1>6, <1>7, <1>8, <1>13 DEF DiscoveryInv

\* As time passes nothing lasts longer than what is left of it.
LEMMA TickKeepsDiscovery ==
  ASSUME DiscoveryInv, Found!Tick
  PROVE  DiscoveryInv'
<1>1. /\ DiscoveryTypes /\ FinderRight /\ Found!StaysAwake
      /\ Calm /\ Announcing /\ Forgetting /\ Asking
  BY DEF DiscoveryInv
<1>2. /\ MostAnnounce \in Nat /\ MostCache \in Nat /\ Lifetime \in Nat /\ Reannounce \in Nat /\ Reannounce <= Lifetime
      /\ CacheTime \in Nat /\ NegCacheTime \in Nat /\ LongestRetry \in Nat
      /\ MostAnnounce' = MostAnnounce /\ MostCache' = MostCache
  BY LongestTimes, DiscoveryAssumption DEF MostAnnounce, MostCache
<1> DEFINE older(e) == [e EXCEPT !.age = IF @ < Found!Oldest THEN @ + 1 ELSE @, !.wait = Found!Down(@)]
<1>3. /\ timer # 0 /\ ~fired /\ posting = {} /\ events = 0 /\ ~asking /\ (finder => Found!Cached)
      /\ timer' = timer - 1 /\ steady' \in {steady, steady + 1}
      /\ records' = [adr \in Addresses |-> IF records[adr] = -1 THEN -1 ELSE records[adr] - 1]
      /\ cache' = {older(e) : e \in cache}
      /\ UNCHANGED <<addrs, events, fired, resets, posting, enabled, started, copy, finder, asking>>
  BY DEF Found!Tick, Found!Idle
<1>4. /\ steady \in Nat /\ timer \in -1..MostAnnounce /\ addrs \subseteq Addresses
      /\ \A adr \in Addresses : records[adr] \in -1..Lifetime
  BY <1>1 DEF DiscoveryTypes
<1>5. timer > 0
  <2>1. timer # -1
    BY <1>1, <1>3 DEF Found!StaysAwake, Found!Idle
  <2>2. timer # 0
    BY <1>3
  <2>3. timer \in Int /\ timer >= -1
    BY <1>2, <1>4
  <2> QED
    BY <2>1, <2>2, <2>3
<1>6. UpTo(timer) = timer /\ UpTo(timer)' = timer - 1
  <2>1. timer \in Int /\ timer # -1 /\ timer - 1 # -1
    BY <1>2, <1>4, <1>5
  <2>2. timer' # -1 /\ timer' = timer - 1
    BY <1>3, <2>1
  <2>3. UpTo(timer) = timer
    BY <2>1 DEF UpTo, Found!Idle
  <2>4. UpTo(timer)' = timer'
    BY <2>2 DEF UpTo, Found!Idle
  <2> QED
    BY <2>2, <2>3, <2>4
<1>7. \A adr \in Addresses : records'[adr] = IF records[adr] = -1 THEN -1 ELSE records[adr] - 1
  BY <1>3
<1>8. ASSUME NEW e \in cache
      PROVE  /\ older(e) \in Cacheable /\ older(e).addrs = e.addrs
             /\ LeftOf(e) \in Nat /\ LeftOf(e) <= MostCache /\ LeftOf(older(e)) = LeftOf(e) - 1 /\ LeftOf(e) > 0
  <2>1. e \in Cacheable /\ e.found \in BOOLEAN /\ e.age \in Nat /\ e.wait \in 0..LongestRetry /\ e.wait \in Nat
    BY <1>1, <1>2 DEF DiscoveryTypes, Cacheable
  <2>2. LeftOf(e) > 0
    <3>1. PICK f \in cache : LeftOf(f) > 0
      BY <1>1, <1>3, CachedIs DEF FinderRight, DiscoveryTypes
    <3> QED
      BY <1>1, <3>1 DEF DiscoveryTypes
  <2>3. LeftOf(e) \in Int
    BY <1>2, <2>1 DEF LeftOf, Found!Later
  <2> DEFINE age1 == IF e.age < Found!Oldest THEN e.age + 1 ELSE e.age
             wait1 == Found!Down(e.wait)
  <2>4. /\ age1 \in Nat
        /\ e.age < CacheTime \/ e.age < NegCacheTime => age1 = e.age + 1
        /\ age1 >= e.age
    BY <1>2, <2>1 DEF Found!Oldest, Found!Later
  <2>5. wait1 \in 0..LongestRetry /\ wait1 = IF e.wait = 0 THEN 0 ELSE e.wait - 1
    BY <1>2, <2>1 DEF Found!Down
  <2>6. older(e) = [e EXCEPT !.age = age1, !.wait = wait1]
    BY <2>1 DEF Cacheable
  <2> HIDE DEF age1, wait1, older
  <2>7. /\ older(e) \in Cacheable /\ older(e).addrs = e.addrs /\ older(e).found = e.found
        /\ older(e).age = age1 /\ older(e).wait = wait1
    BY <2>1, <2>4, <2>5, <2>6 DEF Cacheable
  <2>8. CASE e.found
    <3>1. LeftOf(e) = CacheTime - e.age /\ LeftOf(older(e)) = CacheTime - age1
      BY <2>7, <2>8 DEF LeftOf
    <3>2. e.age < CacheTime
      BY <1>2, <2>1, <2>2, <3>1
    <3> QED
      BY <1>1, <1>2, <2>1, <2>2, <2>3, <2>4, <2>7, <3>1, <3>2 DEF DiscoveryTypes
  <2>9. CASE ~e.found
    <3>1. LeftOf(e) = Found!Later(e.wait, NegCacheTime - e.age) /\ LeftOf(older(e)) = Found!Later(wait1, NegCacheTime - age1)
      BY <2>7, <2>9 DEF LeftOf
    <3>2. LeftOf(older(e)) = LeftOf(e) - 1
      <4>1. CASE e.age < NegCacheTime
        <5>1. age1 = e.age + 1
          BY <2>4, <4>1
        <5> QED
          BY <1>2, <2>1, <2>2, <2>5, <3>1, <4>1, <5>1 DEF Found!Later
      <4>2. CASE ~(e.age < NegCacheTime)
        <5>1. LeftOf(e) = e.wait /\ e.wait > 0
          BY <1>2, <2>1, <2>2, <3>1, <4>2 DEF Found!Later
        <5>2. NegCacheTime - age1 <= 0 /\ wait1 = e.wait - 1
          BY <1>2, <2>1, <2>4, <2>5, <4>2, <5>1
        <5> QED
          BY <1>2, <2>1, <2>4, <3>1, <5>1, <5>2 DEF Found!Later
      <4> QED
        BY <4>1, <4>2
    <3> QED
      BY <1>1, <2>2, <2>3, <2>7, <3>2 DEF DiscoveryTypes
  <2> QED
    BY <2>8, <2>9
<1> HIDE DEF older
<1>9. DiscoveryTypes'
  <2>1. cache' \subseteq Cacheable /\ \A e, f \in cache' : e = f
    BY <1>1, <1>3, <1>8 DEF DiscoveryTypes
  <2>2. \A e \in cache' : LeftOf(e) >= 0 /\ LeftOf(e) <= MostCache
    <3> SUFFICES ASSUME NEW e \in cache PROVE LeftOf(older(e)) >= 0 /\ LeftOf(older(e)) <= MostCache
      BY <1>3
    <3> QED
      BY <1>2, <1>8
  <2>3. records' \in [Addresses -> -1..Lifetime]
    <3>1. \A adr \in Addresses : records'[adr] \in -1..Lifetime
      BY <1>2, <1>4, <1>7
    <3> QED
      BY <1>3, <3>1
  <2>4. timer' \in -1..MostAnnounce /\ steady' \in Nat
    BY <1>2, <1>3, <1>4, <1>5
  <2> QED
    BY <1>1, <1>2, <1>3, <2>1, <2>2, <2>3, <2>4 DEF DiscoveryTypes, LeftOf
<1>10. FinderRight'
  BY <1>1, <1>3 DEF FinderRight, Found!FinderFollows
<1>11. Found!StaysAwake' /\ Calm'
  BY <1>2, <1>3, <1>4, <1>5 DEF Found!StaysAwake, Found!Idle, Calm
<1>12. Announcing'
  <2> SUFFICES ASSUME NEW adr \in addrs
               PROVE  steady' + UpTo(timer)' <= MostAnnounce \/ records'[adr] - UpTo(timer)' >= Lifetime - Reannounce
    BY <1>2, <1>3 DEF Announcing
  <2>1. records[adr] \in -1..Lifetime /\ records'[adr] = IF records[adr] = -1 THEN -1 ELSE records[adr] - 1
    BY <1>4, <1>7
  <2>2. CASE steady + UpTo(timer) <= MostAnnounce
    BY <1>2, <1>3, <1>4, <1>6, <2>2
  <2>3. CASE records[adr] - UpTo(timer) >= Lifetime - Reannounce
    BY <1>2, <1>4, <1>5, <1>6, <2>1, <2>3
  <2> QED
    BY <1>1, <2>2, <2>3 DEF Announcing
<1>13. Forgetting'
  <2> SUFFICES ASSUME NEW adr \in Addresses \ addrs, records'[adr] >= 0 PROVE steady' + records'[adr] <= Lifetime
    BY <1>3 DEF Forgetting
  <2>1. records[adr] \in 0..Lifetime /\ records'[adr] = records[adr] - 1
    BY <1>2, <1>4, <1>7
  <2>2. steady + records[adr] <= Lifetime
    BY <1>1, <2>1 DEF Forgetting
  <2>3. steady' = steady \/ steady' = steady + 1
    BY <1>3
  <2>4. records[adr] \in Int /\ steady \in Int /\ Lifetime \in Int
    BY <1>2, <1>4, <2>1
  <2> QED
    BY <2>1, <2>2, <2>3, <2>4
<1>14. Asking'
  <2>0. \A m, l \in Int : steady + l <= m => steady' + (l - 1) <= m
    <3>1. steady' = steady \/ steady' = steady + 1
      BY <1>3
    <3>2. steady \in Int /\ steady' \in Int
      BY <1>4, <3>1
    <3>3. \A s, t, m, l \in Int : (t = s \/ t = s + 1) /\ s + l <= m => t + (l - 1) <= m
      OBVIOUS
    <3> HIDE DEF older
    <3> QED
      BY <3>1, <3>2, <3>3
  <2>1. ASSUME NEW e \in cache, NEW adr \in addrs, adr \notin older(e).addrs
        PROVE  steady' + LeftOf(older(e)) <= MostAnnounce + MostCache
    <3>1. LeftOf(e) \in Nat /\ LeftOf(older(e)) = LeftOf(e) - 1 /\ adr \notin e.addrs
      BY <1>8, <2>1
    <3>2. steady + LeftOf(e) <= MostAnnounce + MostCache
      BY <1>1, <3>1 DEF Asking
    <3>3. MostAnnounce + MostCache \in Int /\ LeftOf(e) \in Int
      BY <1>2, <1>4, <3>1
    <3>4. steady' + (LeftOf(e) - 1) <= MostAnnounce + MostCache
      BY <2>0, <3>2, <3>3
    <3> QED
      BY <3>1, <3>4
  <2>2. ASSUME NEW e \in cache, NEW adr \in older(e).addrs, adr \notin addrs
        PROVE  steady' + LeftOf(older(e)) <= Lifetime + MostCache
    <3>1. LeftOf(e) \in Nat /\ LeftOf(older(e)) = LeftOf(e) - 1 /\ adr \in e.addrs
      BY <1>8, <2>2
    <3>2. steady + LeftOf(e) <= Lifetime + MostCache
      BY <1>1, <2>2, <3>1 DEF Asking
    <3> QED
      BY <1>2, <1>4, <2>0, <3>1, <3>2
  <2>3. /\ \A e \in cache' : \A adr \in addrs : adr \notin e.addrs => steady' + LeftOf(e) <= MostAnnounce + MostCache
        /\ \A e \in cache' : \A adr \in e.addrs : adr \notin addrs => steady' + LeftOf(e) <= Lifetime + MostCache
    BY <1>3, <2>1, <2>2
  <2> QED
    BY <1>2, <1>3, <2>3 DEF Asking, LeftOf
<1> QED
  BY <1>9, <1>10, <1>11, <1>12, <1>13, <1>14 DEF DiscoveryInv

\* At first nothing is announced, known or asked for.
LEMMA DiscoveryAtFirst == Found!Init => DiscoveryInv
<1> SUFFICES ASSUME Found!Init PROVE DiscoveryInv
  OBVIOUS
<1>1. /\ addrs \in {{}} \cup {{adr} : adr \in Addresses}
      /\ events = 0 /\ timer = 0 /\ fired = FALSE /\ posting = {}
      /\ records = [adr \in Addresses |-> -1]
      /\ enabled = TRUE /\ started = FALSE /\ copy = {} /\ finder = FALSE
      /\ cache = {} /\ asking = FALSE /\ steady = 0
  BY DEF Found!Init, Found!Idle
<1>2. MostAnnounce \in Nat /\ Lifetime \in Nat
  BY LongestTimes, DiscoveryAssumption
<1>3. DiscoveryTypes
  <2>1. addrs \subseteq Addresses /\ \A m, n \in addrs : m = n
    BY <1>1
  <2>2. records \in [Addresses -> -1..Lifetime] /\ timer \in -1..MostAnnounce
    BY <1>1, <1>2
  <2> QED
    BY <1>1, <2>1, <2>2 DEF DiscoveryTypes
<1>4. Calm /\ Announcing /\ Forgetting /\ Asking
  BY <1>1, <1>3, BeginsAgain
<1> QED
  <2>1. FinderRight
    BY <1>1 DEF FinderRight, Found!FinderFollows
  <2>2. Found!StaysAwake
    BY <1>1 DEF Found!StaysAwake, Found!Idle
  <2> QED
    BY <1>3, <1>4, <2>1, <2>2 DEF DiscoveryInv

\* Once nothing has changed or failed for long enough, the address is on the server and in the
\* cache, and those before it are in neither.
LEMMA DiscoveryImplied == DiscoveryInv => DiscoveryRight
<1> SUFFICES ASSUME DiscoveryInv PROVE DiscoveryRight
  OBVIOUS
<1>1. DiscoveryTypes /\ FinderRight /\ Found!StaysAwake /\ Asking
  BY DEF DiscoveryInv
<1>2. MostAnnounce \in Nat /\ MostCache \in Nat /\ Lifetime \in Nat /\ steady \in Nat
  BY <1>1, LongestTimes, DiscoveryAssumption DEF DiscoveryTypes
<1>3. Found!FoundAfter = MostAnnounce + MostCache + 1 /\ Found!ForgottenAfter = MostAnnounce + MostCache + 1 + Lifetime + 1
  BY DEF Found!FoundAfter, Found!ForgottenAfter, MostAnnounce, MostCache, AnnounceTimes, CacheTimes
<1>4. ASSUME steady >= Found!FoundAfter, Found!Cached PROVE addrs \subseteq Found!Answer
  <2>1. PICK e \in cache : LeftOf(e) > 0
    BY <1>1, <1>4, CachedIs DEF DiscoveryTypes
  <2>2. LeftOf(e) \in Int
    <3>1. e.found \in BOOLEAN /\ e.age \in Nat /\ e.wait \in Nat /\ CacheTime \in Nat /\ NegCacheTime \in Nat
      BY <1>1, DiscoveryAssumption DEF Cacheable, DiscoveryTypes
    <3> QED
      BY <3>1 DEF LeftOf, Found!Later
  <2>3. ASSUME NEW adr \in addrs PROVE adr \in e.addrs
    BY <1>1, <1>2, <1>3, <1>4, <2>1, <2>2, <2>3 DEF Asking
  <2> QED
    BY <2>3 DEF Found!Answer
<1>5. ASSUME steady >= Found!ForgottenAfter, Found!Cached PROVE Found!Answer \subseteq addrs
  <2>1. PICK e \in cache : LeftOf(e) > 0
    BY <1>1, <1>5, CachedIs DEF DiscoveryTypes
  <2>2. LeftOf(e) \in Int
    <3>1. e.found \in BOOLEAN /\ e.age \in Nat /\ e.wait \in Nat /\ CacheTime \in Nat /\ NegCacheTime \in Nat
      BY <1>1, DiscoveryAssumption DEF Cacheable, DiscoveryTypes
    <3> QED
      BY <3>1 DEF LeftOf, Found!Later
  <2>3. ASSUME NEW adr \in e.addrs PROVE adr \in addrs
    BY <1>1, <1>2, <1>3, <1>5, <2>1, <2>2, <2>3 DEF Asking
  <2>4. \A f \in cache : f = e
    BY <1>1 DEF DiscoveryTypes
  <2> QED
    BY <2>3, <2>4 DEF Found!Answer
<1>6. Found!FoundWhenSteady
  <2>1. steady >= Found!ForgottenAfter => steady >= Found!FoundAfter
    BY <1>2, <1>3
  <2> QED
    BY <1>4, <1>5, <2>1 DEF Found!FoundWhenSteady
<1> QED
  BY <1>1, <1>6 DEF DiscoveryRight, Found!DiscoveryRight, FinderRight

\* The discovery (lib/discover), for any addresses and any times a server may ask for: a device that
\* has kept its address for long enough, with nothing failing, is found at it and nowhere else; the
\* announcer never goes to sleep for ever; and the finder is the configured one, if no configuration
\* is committed between the manager's copy of it and its use.
THEOREM DevicesAreFound == SpecOne => []DiscoveryRight
<1> DEFINE allVars == <<which, vars, relayVars, serverVars, discoveryVars, progressVars, ignoreVars>>
<1>1. InitOne => DiscoveryInv
  BY DiscoveryAtFirst DEF InitOne
<1>2. DiscoveryInv /\ [NextOne]_allVars => DiscoveryInv'
  <2> SUFFICES ASSUME DiscoveryInv, [NextOne]_allVars PROVE DiscoveryInv'
    OBVIOUS
  <2>1. CASE Found!Next
    BY <2>1, RestartingKeeps, AnnouncingKeeps, AnsweredKeeps, TickKeepsDiscovery DEF Found!Next
  <2>2. CASE UNCHANGED discoveryVars
    BY <2>2 DEF discoveryVars, DiscoveryInv, DiscoveryTypes, FinderRight, Found!FinderFollows, Found!StaysAwake, Calm,
                Announcing, Forgetting, Asking, UpTo, LeftOf, MostAnnounce, MostCache
  <2> QED BY <2>1, <2>2 DEF NextOne
<1>3. DiscoveryInv => DiscoveryRight
  BY DiscoveryImplied
<1> QED BY <1>1, <1>2, <1>3, PTL DEF SpecOne

-----------------------------------------------------------------------------
(* What a list of updates makes of the beliefs of the receiver *)

\* Among subsets of a finite set there is one that has none of the others in it.
LEMMA SmallestSubset ==
  ASSUME NEW U, IsFiniteSet(U), NEW bad, bad \subseteq SUBSET U, bad # {}
  PROVE  \E u \in bad : \A s \in bad : s \subseteq u => s = u
<1>1. IsWellFoundedOn(StrictSubsetOrdering(U), SUBSET U)
  BY FS_StrictSubsetOrderingWellFounded, FS_FiniteSubsetsOfFinite
<1>2. PICK u \in bad : \A s \in bad : <<s, u>> \notin StrictSubsetOrdering(U)
  BY <1>1, WFMin
<1>3. ASSUME NEW s \in bad, s \subseteq u PROVE s = u
  <2>1. <<s, u>> \in (SUBSET U) \X (SUBSET U)
    OBVIOUS
  <2>2. ~(s \subseteq u /\ s # u)
    BY <1>2, <2>1 DEF StrictSubsetOrdering
  <2> QED
    BY <1>3, <2>2
<1> QED
  BY <1>3

PlacesIn(u) == \E n \in Nat : u \subseteq 1..n
Topmost(u) == CHOOSE k \in u : \A l \in u : k >= l

\* g has, for each set of places, what is believed after the updates there.
Hears(base, q, U, g) ==
  g = [u \in SUBSET U |-> IF u = {} THEN base ELSE Progress!Heard(g[u \ {Topmost(u)}], q[Topmost(u)])]

\* Among numbers there is a smallest one.
LEMMA LeastOf == ASSUME NEW N, N \subseteq Nat, N # {} PROVE \E n \in N : \A m \in N : n <= m
<1>1. IsWellFoundedOn(OpToRel(<, Nat), Nat)
  BY NatLessThanWellFounded
<1>2. PICK n \in N : \A m \in N : <<m, n>> \notin OpToRel(<, Nat)
  BY <1>1, WFMin
<1>3. \A m \in N : ~(m < n)
  BY <1>2 DEF OpToRel
<1> QED
  BY <1>3

\* A finite set of numbers has a highest one.
LEMMA TopmostIs == ASSUME NEW u, PlacesIn(u), u # {} PROVE Topmost(u) \in u /\ \A l \in u : Topmost(u) >= l
<1>0. PICK n \in Nat : u \subseteq 1..n
  BY DEF PlacesIn
<1> DEFINE R == {n - k : k \in u}
<1>1. R \subseteq Nat /\ R # {}
  <2>1. ASSUME NEW k \in u PROVE n - k \in Nat
    BY <1>0
  <2> QED
    BY <2>1
<1>2. PICK r \in R : \A q \in R : r <= q
  <2> HIDE DEF R
  <2> QED
    BY <1>1, LeastOf
<1>3. PICK k \in u : r = n - k
  OBVIOUS
<1>4. ASSUME NEW l \in u PROVE k >= l
  <2>1. n - k <= n - l
    BY <1>2, <1>3
  <2>2. k \in Int /\ l \in Int
    BY <1>0
  <2> QED
    BY <2>1, <2>2
<1> QED
  BY <1>4 DEF Topmost

\* What is in a set of places is one, and a finite set.
LEMMA PlacesAre == ASSUME NEW u, PlacesIn(u) PROVE IsFiniteSet(u) /\ \A s \in SUBSET u : PlacesIn(s)
<1>1. PICK n \in Nat : u \subseteq 1..n
  BY DEF PlacesIn
<1>2. IsFiniteSet(1..n)
  BY FS_Interval
<1>3. IsFiniteSet(u)
  BY <1>1, <1>2, FS_Subset
<1>4. ASSUME NEW s \in SUBSET u PROVE PlacesIn(s)
  BY <1>1 DEF PlacesIn
<1> QED
  BY <1>3, <1>4

\* What Newers says of a set of places.
LEMMA HearsIs ==
  ASSUME NEW base, NEW q, NEW U, NEW g, Hears(base, q, U, g), NEW u, u \subseteq U
  PROVE  g[u] = IF u = {} THEN base ELSE Progress!Heard(g[u \ {Topmost(u)}], q[Topmost(u)])
<1>1. g = [v \in SUBSET U |->
             IF v = {} THEN base ELSE Progress!Heard(g[v \ {Topmost(v)}], q[Topmost(v)])]
  BY DEF Hears
<1> QED
  BY <1>1

\* There is one such function.
LEMMA HearsAgree ==
  ASSUME NEW base, NEW q, NEW U, NEW W, NEW g, NEW h, Hears(base, q, U, g), Hears(base, q, W, h),
         NEW s, PlacesIn(s), s \subseteq U, s \subseteq W
  PROVE  g[s] = h[s]
<1> DEFINE bad == {u \in SUBSET s : g[u] # h[u]}
<1>1. SUFFICES bad = {}
  BY DEF bad
<1>2. SUFFICES ASSUME bad # {} PROVE FALSE
  OBVIOUS
<1>3. PICK u \in bad : \A r \in bad : r \subseteq u => r = u
  <2>1. bad \subseteq SUBSET s
    OBVIOUS
  <2>2. IsFiniteSet(s)
    BY PlacesAre
  <2> HIDE DEF bad
  <2> QED
    BY <1>2, <2>1, <2>2, SmallestSubset
<1>4. u \subseteq U /\ u \subseteq W /\ u \subseteq s /\ g[u] # h[u]
  OBVIOUS
<1>5. /\ g[u] = IF u = {} THEN base ELSE Progress!Heard(g[u \ {Topmost(u)}], q[Topmost(u)])
      /\ h[u] = IF u = {} THEN base ELSE Progress!Heard(h[u \ {Topmost(u)}], q[Topmost(u)])
  <2>1. u \subseteq U /\ u \subseteq W
    BY <1>4
  <2>2. ASSUME NEW w, w \subseteq U PROVE g[w] = IF w = {} THEN base ELSE Progress!Heard(g[w \ {Topmost(w)}], q[Topmost(w)])
    BY <2>2 DEF Hears
  <2>3. ASSUME NEW w, w \subseteq W PROVE h[w] = IF w = {} THEN base ELSE Progress!Heard(h[w \ {Topmost(w)}], q[Topmost(w)])
    BY <2>3 DEF Hears
  <2> QED
    BY <2>1, <2>2, <2>3
<1>6. u # {}
  BY <1>4, <1>5
<1>7. Topmost(u) \in u
  BY <1>4, <1>6, TopmostIs, PlacesAre
<1>8. u \ {Topmost(u)} \subseteq u /\ u \ {Topmost(u)} # u /\ u \ {Topmost(u)} \in SUBSET s
  BY <1>4, <1>7
<1>9. g[u \ {Topmost(u)}] = h[u \ {Topmost(u)}]
  BY <1>3, <1>8
<1> QED
  BY <1>4, <1>5, <1>6, <1>9

\* And there is one for any number of updates.
LEMMA HearsExist == ASSUME NEW base, NEW q, NEW U, PlacesIn(U) PROVE \E g : Hears(base, q, U, g)
<1> DEFINE bad == {u \in SUBSET U : ~\E g : Hears(base, q, u, g)}
<1>1. SUFFICES bad = {}
  BY DEF bad
<1>2. SUFFICES ASSUME bad # {} PROVE FALSE
  OBVIOUS
<1>3. PICK u \in bad : \A r \in bad : r \subseteq u => r = u
  <2>1. bad \subseteq SUBSET U /\ IsFiniteSet(U)
    BY PlacesAre
  <2> HIDE DEF bad
  <2> QED
    BY <1>2, <2>1, SmallestSubset
<1>4. u \subseteq U /\ PlacesIn(u) /\ ~\E g : Hears(base, q, u, g)
  BY PlacesAre
<1> DEFINE G(s) == CHOOSE g : Hears(base, q, s, g)
           step(s) == IF s = {} THEN base ELSE Progress!Heard(G(s \ {Topmost(s)})[s \ {Topmost(s)}], q[Topmost(s)])
           h == [s \in SUBSET u |-> step(s)]
<1>5. ASSUME NEW s, s \subseteq u, s # u PROVE Hears(base, q, s, G(s))
  <2>1. s \in SUBSET U /\ s \notin bad
    BY <1>3, <1>4, <1>5
  <2>2. \E g : Hears(base, q, s, g)
    BY <2>1
  <2> QED
    BY <2>2
<1>6. ASSUME NEW s, s \subseteq u, s # u PROVE h[s] = G(s)[s]
  <2>1. G(s)[s] = IF s = {} THEN base ELSE Progress!Heard(G(s)[s \ {Topmost(s)}], q[Topmost(s)])
    <3>1. Hears(base, q, s, G(s)) /\ s \subseteq s
      BY <1>5, <1>6
    <3> HIDE DEF G
    <3> QED
      BY <3>1, HearsIs
  <2>2. h[s] = step(s)
    BY <1>6
  <2>3. CASE s = {}
    BY <2>1, <2>2, <2>3
  <2>4. CASE s # {}
    <3> DEFINE r == s \ {Topmost(s)}
    <3>1. r \subseteq s /\ r \subseteq u /\ r # u /\ PlacesIn(r)
      <4>1. Topmost(s) \in s
        BY <1>4, <1>6, <2>4, TopmostIs, PlacesAre
      <4>2. PlacesIn(r)
        BY <1>4, <1>6, PlacesAre
      <4> QED
        BY <1>4, <1>6, <4>1, <4>2
    <3>2. Hears(base, q, r, G(r)) /\ Hears(base, q, s, G(s))
      BY <1>5, <1>6, <3>1
    <3>3. G(r)[r] = G(s)[r]
      <4> HIDE DEF r, G
      <4> QED
        BY <3>1, <3>2, HearsAgree
    <3>4. step(s) = Progress!Heard(G(r)[r], q[Topmost(s)]) /\ G(s)[s] = Progress!Heard(G(s)[r], q[Topmost(s)])
      BY <2>1, <2>4
    <3> QED
      BY <2>2, <3>3, <3>4
  <2> QED
    BY <2>3, <2>4
<1>7. ASSUME NEW s \in SUBSET u PROVE step(s) = IF s = {} THEN base ELSE Progress!Heard(h[s \ {Topmost(s)}], q[Topmost(s)])
  <2>1. CASE s = {}
    BY <2>1
  <2>2. CASE s # {}
    <3> DEFINE r == s \ {Topmost(s)}
    <3>1. r \subseteq u /\ r # u
      <4>1. Topmost(s) \in s
        BY <1>4, <2>2, TopmostIs, PlacesAre
      <4> QED
        BY <1>4, <4>1
    <3>2. h[r] = G(r)[r]
      <4> HIDE DEF r, G, h
      <4> QED
        BY <1>6, <3>1
    <3>3. step(s) = Progress!Heard(G(r)[r], q[Topmost(s)])
      BY <2>2
    <3> HIDE DEF h, step, G
    <3> QED
      BY <2>2, <3>2, <3>3
  <2> QED
    BY <2>1, <2>2
<1>8. Hears(base, q, u, h)
  <2>1. h = [s \in SUBSET u |-> step(s)]
    OBVIOUS
  <2> HIDE DEF h, step, G
  <2> QED
    BY <1>7, <2>1 DEF Hears
<1> QED
  BY <1>4, <1>8

Upto(n) == 1..n

\* The places up to one.
LEMMA UptoIs ==
  ASSUME NEW n \in Nat
  PROVE  /\ PlacesIn(Upto(n))
         /\ n = 0 => Upto(n) = {}
         /\ n # 0 => Upto(n) # {} /\ Topmost(Upto(n)) = n /\ Upto(n) \ {n} = Upto(n - 1)
         /\ \A m \in Nat : n <= m => Upto(n) \subseteq Upto(m)
<1>1. PlacesIn(Upto(n)) /\ (n = 0 => Upto(n) = {}) /\ \A m \in Nat : n <= m => Upto(n) \subseteq Upto(m)
  BY DEF PlacesIn, Upto
<1>2. ASSUME n # 0 PROVE Upto(n) # {} /\ Upto(n) \ {n} = Upto(n - 1) /\ n \in Upto(n) /\ \A k \in Upto(n) : k \in Nat /\ k <= n
  BY <1>2 DEF Upto
<1>3. ASSUME n # 0 PROVE Topmost(Upto(n)) = n
  <2>1. Topmost(Upto(n)) \in Upto(n) /\ Topmost(Upto(n)) >= n
    BY <1>1, <1>2, <1>3, TopmostIs
  <2>2. Topmost(Upto(n)) \in Nat /\ Topmost(Upto(n)) <= n
    BY <1>2, <1>3, <2>1
  <2> QED
    BY <2>1, <2>2
<1> QED
  BY <1>1, <1>2, <1>3

\* What is believed after the updates of q, one after the other, from what was believed.
View(base, q) == Progress!FoldLeft(Progress!Heard, base, q)
Runs(base, q, h) == h[0] = base /\ \A n \in 1..Len(q) : h[n] = Progress!Heard(h[n - 1], q[n])

\* They are heard one after the other.
LEMMA ViewRuns ==
  ASSUME NEW S, NEW base, NEW q \in Seq(S)
  PROVE  \E h : Runs(base, q, h) /\ View(base, q) = h[Len(q)]
<1> DEFINE m == Len(q)
           iter(g) == g = [s \in SUBSET DOMAIN q |->
                             IF s = {} THEN base
                             ELSE LET xs == CHOOSE k \in s : \A l \in s : k >= l
                                  IN  Progress!Heard(g[s \ {xs}], q[xs])]
<1>1. View(base, q) = (CHOOSE g : iter(g))[DOMAIN q]
  BY DEF View, Progress!FoldLeft, Progress!MapThenFoldSet, Progress!Max
<1>2. m \in Nat /\ DOMAIN q = Upto(m)
  BY DEF Upto
<1>3. PICK g : Hears(base, q, Upto(m), g)
  BY <1>2, UptoIs, HearsExist
<1>4. \A k : iter(k) <=> Hears(base, q, Upto(m), k)
  BY <1>2 DEF Hears, Topmost
<1> DEFINE c == CHOOSE k : iter(k)
<1>5. Hears(base, q, Upto(m), c)
  <2>1. iter(g)
    BY <1>3, <1>4
  <2>2. iter(c)
    <3> HIDE DEF iter
    <3> QED
      BY <2>1
  <2> HIDE DEF iter, c
  <2> QED
    BY <1>4, <2>2
<1> HIDE DEF iter, m, c
<1> DEFINE h == [n \in 0..m |-> c[Upto(n)]]
<1>6. h[0] = base
  <2>1. Upto(0) = {} /\ Upto(0) \subseteq Upto(m)
    BY <1>2, UptoIs
  <2>2. c[Upto(0)] = base
    BY <1>5, <2>1, HearsIs
  <2> QED
    BY <1>2, <2>2
<1>0. ASSUME NEW w, w \subseteq Upto(m)
      PROVE  c[w] = IF w = {} THEN base ELSE Progress!Heard(c[w \ {Topmost(w)}], q[Topmost(w)])
  BY <1>5, <1>0 DEF Hears
<1>7. ASSUME NEW n \in 1..m PROVE h[n] = Progress!Heard(h[n - 1], q[n])
  <2>1. n \in Nat /\ n # 0 /\ n <= m /\ n \in 0..m /\ n - 1 \in 0..m
    BY <1>2
  <2>2. Upto(n) \subseteq Upto(m) /\ Upto(n) # {} /\ Topmost(Upto(n)) = n /\ Upto(n) \ {n} = Upto(n - 1)
    BY <1>2, <2>1, UptoIs
  <2> DEFINE u == Upto(n)
  <2>3. c[u] = Progress!Heard(c[u \ {n}], q[n])
    <3>1. u \subseteq Upto(m) /\ u # {} /\ Topmost(u) = n
      BY <2>2
    <3> HIDE DEF u
    <3>2. c[u] = IF u = {} THEN base ELSE Progress!Heard(c[u \ {Topmost(u)}], q[Topmost(u)])
      BY <1>0, <3>1
    <3> QED
      BY <3>1, <3>2
  <2>4. h[n] = c[Upto(n)] /\ h[n - 1] = c[Upto(n - 1)]
    BY <2>1
  <2> QED
    BY <2>2, <2>3, <2>4
<1>8. View(base, q) = h[m]
  BY <1>1, <1>2 DEF c
<1>9. Runs(base, q, h)
  BY <1>6, <1>7 DEF Runs, m
<1> QED
  BY <1>8, <1>9 DEF m

\* However they are heard, what is believed in the end is the same.
LEMMA RunsAgree ==
  ASSUME NEW S, NEW base, NEW q \in Seq(S), NEW h, NEW k, Runs(base, q, h), Runs(base, q, k), NEW n \in 0..Len(q)
  PROVE  h[n] = k[n]
<1> DEFINE bad == {i \in 0..Len(q) : h[i] # k[i]}
<1>1. SUFFICES ASSUME bad # {} PROVE FALSE
  OBVIOUS
<1>2. PICK i \in bad : \A j \in bad : i <= j
  <2>1. bad \subseteq Nat
    OBVIOUS
  <2> HIDE DEF bad
  <2> QED
    BY <1>1, <2>1, LeastOf
<1>3. i \in 0..Len(q) /\ h[i] # k[i] /\ Len(q) \in Nat
  OBVIOUS
<1>4. i # 0
  BY <1>3 DEF Runs
<1>5. i \in 1..Len(q) /\ i - 1 \in 0..Len(q) /\ ~(i <= i - 1)
  BY <1>3, <1>4
<1>6. h[i - 1] = k[i - 1]
  BY <1>2, <1>5
<1> QED
  BY <1>3, <1>5, <1>6 DEF Runs

\* Beliefs that follow each other in that order end in what the updates make of the first.
LEMMA ViewIs ==
  ASSUME NEW S, NEW base, NEW q \in Seq(S), NEW h, Runs(base, q, h)
  PROVE  View(base, q) = h[Len(q)]
<1>1. PICK k : Runs(base, q, k) /\ View(base, q) = k[Len(q)]
  BY ViewRuns
<1>2. Len(q) \in 0..Len(q)
  OBVIOUS
<1> QED
  BY <1>1, <1>2, RunsAgree

\* Without updates nothing changes.
LEMMA ViewOfNone == ASSUME NEW base PROVE View(base, <<>>) = base
<1> DEFINE h == [n \in {0} |-> base]
<1>1. <<>> \in Seq({}) /\ Len(<<>>) = 0 /\ 1..0 = {}
  OBVIOUS
<1>2. Runs(base, <<>>, h)
  BY <1>1 DEF Runs
<1> QED
  BY <1>1, <1>2, ViewIs

\* One update makes of beliefs what is heard of it.
LEMMA ViewOfOne == ASSUME NEW base, NEW u PROVE View(base, <<u>>) = Progress!Heard(base, u)
<1>1. <<u>> \in Seq({u}) /\ Len(<<u>>) = 1 /\ <<u>>[1] = u
  OBVIOUS
<1>2. PICK k : Runs(base, <<u>>, k) /\ View(base, <<u>>) = k[1]
  BY <1>1, ViewRuns
<1>3. 1 \in 1..1 /\ 1 - 1 = 0
  OBVIOUS
<1> QED
  BY <1>1, <1>2, <1>3 DEF Runs

\* What comes later is heard later.
LEMMA ViewOfConcat ==
  ASSUME NEW S, NEW base, NEW xs \in Seq(S), NEW ys \in Seq(S)
  PROVE  View(base, xs \o ys) = View(View(base, xs), ys)
<1> DEFINE q == xs \o ys
           m == Len(xs)
<1>1. q \in Seq(S) /\ Len(q) = m + Len(ys) /\ m \in Nat /\ Len(ys) \in Nat
      /\ \A i \in 1..(m + Len(ys)) : q[i] = IF i <= m THEN xs[i] ELSE ys[i - m]
  BY ConcatProperties
<1> HIDE DEF q, m
<1>2. PICK h : Runs(base, q, h) /\ View(base, q) = h[Len(q)]
  BY <1>1, ViewRuns
<1>3. Runs(base, xs, h)
  <2>1. \A n \in 1..m : n \in 1..(m + Len(ys)) /\ n <= m
    BY <1>1
  <2>2. \A n \in 1..m : h[n] = Progress!Heard(h[n - 1], xs[n])
    BY <1>1, <1>2, <2>1 DEF Runs
  <2> QED
    BY <1>2, <2>2 DEF Runs, m
<1>4. View(base, xs) = h[m]
  BY <1>3, ViewIs DEF m
<1> DEFINE k == [n \in 0..Len(ys) |-> h[m + n]]
<1>5. Runs(h[m], ys, k)
  <2>1. k[0] = h[m]
    BY <1>1
  <2>2. ASSUME NEW n \in 1..Len(ys) PROVE k[n] = Progress!Heard(k[n - 1], ys[n])
    <3>1. m + n \in 1..(m + Len(ys)) /\ ~(m + n <= m) /\ (m + n) - m = n /\ (m + n) - 1 = m + (n - 1)
          /\ n \in 0..Len(ys) /\ n - 1 \in 0..Len(ys)
      BY <1>1
    <3>2. q[m + n] = ys[n]
      BY <1>1, <3>1
    <3>3. h[m + n] = Progress!Heard(h[(m + n) - 1], q[m + n])
      BY <1>1, <1>2, <3>1 DEF Runs
    <3> QED
      BY <3>1, <3>2, <3>3
  <2> QED
    BY <2>1, <2>2 DEF Runs
<1>6. View(h[m], ys) = k[Len(ys)] /\ k[Len(ys)] = h[m + Len(ys)]
  BY <1>1, <1>5, ViewIs
<1> QED
  BY <1>1, <1>2, <1>4, <1>6 DEF q

-----------------------------------------------------------------------------
(* The updates of several pullers, in the order of one list *)

\* The members of a finite set, in some order, each once.
LEMMA SetInOrder ==
  ASSUME NEW T, IsFiniteSet(T)
  PROVE  /\ Progress!SetToSeq(T) \in Seq(T)
         /\ \A i, j \in 1..Len(Progress!SetToSeq(T)) : Progress!SetToSeq(T)[i] = Progress!SetToSeq(T)[j] => i = j
         /\ \A xs \in T : \E i \in 1..Len(Progress!SetToSeq(T)) : Progress!SetToSeq(T)[i] = xs
<1> DEFINE n == Cardinality(T)
           s == Progress!SetToSeq(T)
<1>1. n \in Nat /\ ExistsBijection(1..n, T)
  BY FS_CardinalityType
<1>2. PICK bv \in Bijection(1..n, T) : TRUE
  BY <1>1 DEF ExistsBijection
<1>3. bv \in [1..n -> T] /\ \A i, j \in 1..n : bv[i] = bv[j] => i = j
  BY <1>2, Fun_BijectionProperties
<1>4. Progress!IsInjective(bv)
  BY <1>3 DEF Progress!IsInjective
<1>c. Progress!Cardinality(T) = n
  BY DEF Progress!Cardinality, Cardinality
<1>5. s \in [1..n -> T] /\ Progress!IsInjective(s)
  <2> HIDE DEF n
  <2>1. s = CHOOSE f \in [1..n -> T] : Progress!IsInjective(f)
    BY <1>c DEF Progress!SetToSeq
  <2> HIDE DEF s
  <2> QED
    BY <1>3, <1>4, <2>1
<1>6. \A i, j \in 1..n : s[i] = s[j] => i = j
  BY <1>5 DEF Progress!IsInjective
<1>7. \A xs \in T : \E i \in 1..n : s[i] = xs
  <2> HIDE DEF s
  <2>1. s \in Injection(1..n, T)
    BY <1>5, <1>6, Fun_IsInj
  <2>2. Cardinality(1..n) = n
    <3>1. 1 \in Int /\ n \in Int
      BY <1>1
    <3>2. Cardinality(1..n) = IF 1 > n THEN 0 ELSE n - 1 + 1
      BY <3>1, FS_Interval
    <3> HIDE DEF n
    <3> QED
      BY <1>1, <3>2
  <2>3. s \in Surjection(1..n, T)
    BY <2>1, <2>2, FS_Injection
  <2> QED
    <3> DEFINE E == 1..n
    <3>1. s \in Surjection(E, T)
      BY <2>3
    <3> HIDE DEF E
    <3>2. \A xs \in T : \E i \in E : s[i] = xs
      BY <3>1, Fun_SurjectionProperties
    <3> QED
      BY <3>2 DEF E
<1> HIDE DEF s, n
<1>8. s \in Seq(T) /\ Len(s) = n
  BY <1>1, <1>5
<1> QED
  BY <1>6, <1>7, <1>8 DEF s

Flattens(q, m, g) == g = [i \in 1..m |-> IF i = 1 THEN q[i] ELSE g[i - 1] \o q[i]]

\* Sequences can be put one after the other, as many as there are.
LEMMA FlattensExist == ASSUME NEW q, NEW n \in Nat PROVE \E g : Flattens(q, n, g)
<1> DEFINE bad == {i \in Nat : ~\E g : Flattens(q, i, g)}
<1> SUFFICES ASSUME bad # {} PROVE FALSE
  OBVIOUS
<1>1. PICK m \in bad : \A j \in bad : m <= j
  <2>1. bad \subseteq Nat
    OBVIOUS
  <2> HIDE DEF bad
  <2> QED
    BY <2>1, LeastOf
<1>2. m \in Nat /\ ~\E g : Flattens(q, m, g)
  OBVIOUS
<1>3. m # 0
  <2>1. Flattens(q, 0, [i \in 1..0 |-> q[i]])
    <3>1. 1..0 = {}
      OBVIOUS
    <3> QED
      BY <3>1 DEF Flattens
  <2> QED
    BY <1>2, <2>1
<1>4. m - 1 \in Nat /\ ~(m <= m - 1)
  BY <1>2, <1>3
<1>5. PICK g : Flattens(q, m - 1, g)
  BY <1>1, <1>4
<1>6. \A i \in 1..(m - 1) : g[i] = IF i = 1 THEN q[i] ELSE g[i - 1] \o q[i]
  BY <1>5 DEF Flattens
<1> DEFINE k == [i \in 1..m |-> IF i < m THEN g[i] ELSE IF m = 1 THEN q[i] ELSE g[m - 1] \o q[i]]
<1>7. ASSUME NEW i \in 1..m PROVE k[i] = IF i = 1 THEN q[i] ELSE k[i - 1] \o q[i]
  <2>1. CASE i < m
    <3>1. i \in 1..(m - 1) /\ k[i] = g[i]
      BY <1>2, <2>1
    <3>2. i # 1 => i - 1 \in 1..m /\ i - 1 < m /\ k[i - 1] = g[i - 1]
      BY <1>2, <2>1
    <3> HIDE DEF k
    <3> QED
      BY <1>6, <3>1, <3>2
  <2>2. CASE i = m
    <3>1. k[i] = IF m = 1 THEN q[i] ELSE g[m - 1] \o q[i]
      BY <2>2
    <3>2. m # 1 => m - 1 \in 1..m /\ m - 1 < m /\ k[m - 1] = g[m - 1]
      BY <1>2, <1>3
    <3> HIDE DEF k
    <3> QED
      BY <2>2, <3>1, <3>2
  <2> QED
    BY <1>2, <2>1, <2>2
<1>8. Flattens(q, m, k)
  <2>1. k = [i \in 1..m |-> k[i]]
    OBVIOUS
  <2> HIDE DEF k
  <2> QED
    BY <1>7, <2>1 DEF Flattens
<1> QED
  BY <1>2, <1>8

Grows(S, q, all, g) ==
  /\ g[1] = q[1] /\ all = g[Len(q)]
  /\ \A i \in 1..Len(q) : g[i] \in Seq(S) /\ (i # 1 => g[i] = g[i - 1] \o q[i])

\* So what is put together grows by one sequence at a time.
LEMMA FlattenGrows ==
  ASSUME NEW S, NEW q \in Seq(Seq(S)), q # <<>>
  PROVE  \E g : Grows(S, q, Progress!FlattenSeq(q), g)
<1> DEFINE n == Len(q)
<1>1. n \in Nat /\ n # 0 /\ n >= 1 /\ \A i \in 1..n : q[i] \in Seq(S)
  BY EmptySeq, ElementOfSeq
<1> DEFINE g == CHOOSE h : Flattens(q, n, h)
<1>2. Flattens(q, n, g)
  <2>1. \E h : Flattens(q, n, h)
    BY <1>1, FlattensExist
  <2> QED
    BY <2>1
<1>3. Progress!FlattenSeq(q) = g[n]
  BY <1>1 DEF Progress!FlattenSeq, Flattens
<1> HIDE DEF g, n
<1>4. \A i \in 1..n : g[i] = IF i = 1 THEN q[i] ELSE g[i - 1] \o q[i]
  BY <1>2 DEF Flattens
<1>5. g[1] = q[1]
  BY <1>1, <1>4
<1>6. \A i \in 1..n : g[i] \in Seq(S)
  <2> DEFINE bad == {i \in 1..n : g[i] \notin Seq(S)}
  <2> SUFFICES ASSUME bad # {} PROVE FALSE
    OBVIOUS
  <2>1. PICK m \in bad : \A j \in bad : m <= j
    <3>1. bad \subseteq Nat
      OBVIOUS
    <3> HIDE DEF bad
    <3> QED
      BY <3>1, LeastOf
  <2>2. m \in 1..n /\ g[m] \notin Seq(S)
    OBVIOUS
  <2>3. m # 1
    BY <1>1, <1>5, <2>2
  <2>4. m - 1 \in 1..n /\ ~(m <= m - 1)
    BY <1>1, <2>2, <2>3
  <2>5. g[m - 1] \in Seq(S)
    BY <2>1, <2>4
  <2>6. g[m] = g[m - 1] \o q[m] /\ q[m] \in Seq(S)
    BY <1>1, <1>4, <2>2, <2>3
  <2>7. g[m - 1] \o q[m] \in Seq(S)
    <3> DEFINE av == g[m - 1]
               bv == q[m]
    <3>1. av \in Seq(S) /\ bv \in Seq(S)
      BY <2>5, <2>6
    <3> HIDE DEF av, bv
    <3>2. av \o bv \in Seq(S)
      BY <3>1, ConcatProperties
    <3> QED
      BY <3>2 DEF av, bv
  <2> QED
    BY <2>2, <2>6, <2>7
<1> QED
  BY <1>3, <1>4, <1>5, <1>6 DEF n, Grows

-----------------------------------------------------------------------------
(* What the emitter says, and what it has on record *)

Versioned == {VersionOf[p] : p \in Pullers}
Belief == [version : Versioned, blocks : SUBSET Blocks]
Saying == [type : {"forget", "append"}, file : Progress!Pulled, version : Versioned, blocks : SUBSET Blocks]
SentEntry == [version : Versioned, blocks : SUBSET Blocks, created : Nat, updated : Nat]
PullerState == [at : {"new", "created", "registered", "done"}, blocks : SUBSET Blocks,
                created : Nat, updated : Nat, available : Nat]
Views == [Progress!Pulled -> Belief \cup {None}]

ProgressTypes ==
  /\ puller \in [Pullers -> PullerState] /\ pullTime \in Nat
  /\ sentState \in [Progress!Pulled -> SentEntry \cup {None}]
  /\ remoteState \in Views /\ channel \in Seq(Saying) /\ up \in BOOLEAN

\* A belief is within an entry on record.
Within(bv, e) ==
  bv = None \/ (bv \in Belief /\ e # None /\ bv.version = e.version /\ bv.blocks \subseteq e.blocks)

\* One attempt at a time is made at each file.
Active == {"created", "registered"}
OneAttempt ==
  \A p, q \in Pullers : FileOf[p] = FileOf[q] /\ puller[p].at \in Active /\ puller[q].at \in Active => p = q

\* What has been looked at is the blocks of the registered pullers.
Looking == looked # None => DOMAIN looked = Progress!Registered /\ \A p \in DOMAIN looked : looked[p] \subseteq puller[p].blocks

\* An update changes the belief in one file.
LEMMA HeardChanges ==
  ASSUME NEW v \in Views, NEW u \in Saying
  PROVE  /\ Progress!Heard(v, u) \in Views
         /\ \A f \in Progress!Pulled : Progress!Heard(v, u)[f] = IF f = u.file THEN Progress!Applied(v[f], u) ELSE v[f]
<1> DEFINE e == v[u.file]
           av == Progress!Applied(e, u)
<1>1. u.file \in Progress!Pulled /\ u.version \in Versioned /\ u.blocks \subseteq Blocks
  BY DEF Saying
<1>2. e \in Belief \cup {None}
  BY <1>1 DEF Views
<1> HIDE DEF e
<1>3. av \in Belief \cup {None}
  <2>1. CASE u.type = "forget"
    BY <1>2, <2>1 DEF Progress!Applied
  <2>2. CASE u.type # "forget" /\ (e = None \/ e.version # u.version)
    <3>1. av = [version |-> u.version, blocks |-> u.blocks]
      BY <2>2 DEF Progress!Applied
    <3> QED
      BY <1>1, <3>1 DEF Belief
  <2>3. CASE u.type # "forget" /\ ~(e = None \/ e.version # u.version)
    <3>1. e \in Belief /\ av = [e EXCEPT !.blocks = @ \cup u.blocks]
      BY <1>2, <2>3 DEF Progress!Applied
    <3> QED
      BY <1>1, <3>1 DEF Belief
  <2> QED
    BY <2>1, <2>2, <2>3
<1>4. Progress!Heard(v, u) = [v EXCEPT ![u.file] = av]
  BY DEF Progress!Heard, e
<1>5. \A f \in Progress!Pulled : f = u.file => Progress!Applied(v[f], u) = av
  BY DEF e
<1> HIDE DEF av
<1> QED
  BY <1>1, <1>3, <1>4, <1>5 DEF Views

\* Updates leave beliefs in other files as they are.
LEMMA ViewChanges ==
  ASSUME NEW v \in Views, NEW q \in Seq(Saying)
  PROVE  /\ View(v, q) \in Views
         /\ \A f \in Progress!Pulled : (\A i \in 1..Len(q) : q[i].file # f) => View(v, q)[f] = v[f]
<1>1. PICK h : Runs(v, q, h) /\ View(v, q) = h[Len(q)]
  BY ViewRuns
<1> DEFINE n == Len(q)
           Good(i) == /\ h[i] \in Views
                      /\ \A f \in Progress!Pulled : (\A k \in 1..n : q[k].file # f) => h[i][f] = v[f]
           bad == {i \in 0..n : ~Good(i)}
<1>2. n \in Nat /\ \A i \in 1..n : q[i] \in Saying
  BY ElementOfSeq
<1>3. h[0] = v /\ \A i \in 1..n : h[i] = Progress!Heard(h[i - 1], q[i])
  BY <1>1 DEF Runs
<1> HIDE DEF n
<1>4. bad = {}
  <2> SUFFICES ASSUME bad # {} PROVE FALSE
    OBVIOUS
  <2>1. PICK i \in bad : \A j \in bad : i <= j
    <3>1. bad \subseteq Nat
      OBVIOUS
    <3> HIDE DEF bad
    <3> QED
      BY <3>1, LeastOf
  <2>2. i \in 0..n /\ ~Good(i)
    OBVIOUS
  <2>3. i # 0
    BY <1>3, <2>2
  <2>4. i \in 1..n /\ i - 1 \in 0..n /\ ~(i <= i - 1)
    BY <1>2, <2>2, <2>3
  <2>5. Good(i - 1)
    BY <2>1, <2>4
  <2> DEFINE w == h[i - 1]
  <2>6. w \in Views /\ q[i] \in Saying /\ h[i] = Progress!Heard(w, q[i])
    BY <1>2, <1>3, <2>4, <2>5
  <2>7. \A f \in Progress!Pulled : (\A k \in 1..n : q[k].file # f) => w[f] = v[f]
    BY <2>5
  <2> HIDE DEF w
  <2>8. Good(i)
    <3>1. Progress!Heard(w, q[i]) \in Views
      BY <2>6, HeardChanges
    <3>2. ASSUME NEW f \in Progress!Pulled, \A k \in 1..n : q[k].file # f PROVE Progress!Heard(w, q[i])[f] = v[f]
      <4>1. q[i].file # f
        BY <2>4, <3>2
      <4>2. Progress!Heard(w, q[i])[f] = w[f]
        BY <2>6, <4>1, HeardChanges
      <4> QED
        BY <2>7, <3>2, <4>2
    <3> QED
      BY <2>6, <3>1, <3>2
  <2> QED
    BY <2>2, <2>8
<1>5. n \in 0..n
  BY <1>2
<1>6. Good(n)
  BY <1>4, <1>5
<1> QED
  BY <1>1, <1>6 DEF n

\* What is said of a file brings a belief within what was on record within what is then.
LEMMA SaysOne ==
  ASSUME ProgressTypes, NEW p \in Pullers, looked # None, p \in DOMAIN looked, looked[p] \subseteq Blocks,
         \A q \in DOMAIN looked : FileOf[q] = FileOf[p] => q = p,
         NEW v \in Views, Within(v[FileOf[p]], sentState[FileOf[p]])
  PROVE  /\ Progress!UpdatesFor(p) \in Seq(Saying)
         /\ \A i \in 1..Len(Progress!UpdatesFor(p)) : Progress!UpdatesFor(p)[i].file = FileOf[p]
         /\ Within(View(v, Progress!UpdatesFor(p))[FileOf[p]], Progress!SentAfter(FileOf[p]))
<1> DEFINE f == FileOf[p]
           l == looked[p]
           e == sentState[f]
           bv == v[f]
           us == Progress!UpdatesFor(p)
           after == Progress!SentAfter(f)
           Made == Progress!EntryOf(p)
           said(ver, blk) == Progress!AppendBlocks(f, ver, blk)
<1> SUFFICES /\ us \in Seq(Saying) /\ \A i \in 1..Len(us) : us[i].file = f
             /\ Within(View(v, us)[f], after)
  OBVIOUS
<1>1. f \in Progress!Pulled /\ VersionOf[p] \in Versioned /\ bv \in Belief \cup {None} /\ e \in SentEntry \cup {None}
  BY DEF Progress!Pulled, Versioned, Views, ProgressTypes
<1>2. puller[p].created \in Nat /\ puller[p].available \in Nat
  BY DEF ProgressTypes, PullerState
<1>3. None \notin SentEntry
  BY ProgressAssumption DEF SentEntry, Versioned
<1>4. Made \in SentEntry /\ Made.version = VersionOf[p] /\ Made.blocks = l
  BY <1>1, <1>2 DEF Progress!EntryOf, SentEntry
<1>5. \A ver \in Versioned, blk \in SUBSET Blocks :
         said(ver, blk) \in Saying /\ said(ver, blk).type # "forget" /\ said(ver, blk).file = f
         /\ said(ver, blk).version = ver /\ said(ver, blk).blocks = blk
  BY <1>1 DEF Saying, Progress!AppendBlocks
<1>6. after = IF e = None /\ l = {} THEN None
              ELSE IF e # None /\ e.updated = puller[p].available /\ e.version = VersionOf[p] THEN e
              ELSE IF e # None /\ ~Progress!Restarted(p)
              THEN [e EXCEPT !.blocks = @ \cup l, !.updated = puller[p].available]
              ELSE Made
  <2>1. p = CHOOSE q \in DOMAIN looked : FileOf[q] = f
    OBVIOUS
  <2>2. \E q \in DOMAIN looked : FileOf[q] = f
    OBVIOUS
  <2> QED
    BY <2>1, <2>2 DEF Progress!SentAfter
<1>7. us = IF e = None
           THEN IF l = {} THEN <<>> ELSE <<said(VersionOf[p], l)>>
           ELSE IF e.updated = puller[p].available /\ e.version = VersionOf[p] THEN <<>>
           ELSE IF Progress!Restarted(p)
           THEN <<Progress!Forget(f, e), said(VersionOf[p], l)>>
           ELSE IF l \ e.blocks = {} THEN <<>>
           ELSE <<said(e.version, l \ e.blocks)>>
  BY DEF Progress!UpdatesFor
<1>8. bv = None \/ (bv \in Belief /\ e # None /\ bv.version = e.version /\ bv.blocks \subseteq e.blocks)
  BY DEF Within
<1>e. e # None => e.version \in Versioned /\ e.blocks \subseteq Blocks
  BY <1>1 DEF SentEntry
<1> HIDE DEF f, l, e, bv, us, after, Made, said
<1>9. \A r \in Belief : e # None => [e EXCEPT !.blocks = @ \cup l, !.updated = puller[p].available] \in SentEntry
  BY <1>1, <1>2 DEF SentEntry, l
<1>10. v[f] = bv /\ Progress!Pulled # {} /\ f \in Progress!Pulled
  BY <1>1 DEF bv
<1>11. ASSUME us = <<>>, Within(bv, after)
       PROVE  /\ us \in Seq(Saying) /\ \A i \in 1..Len(us) : us[i].file = f
              /\ Within(View(v, us)[f], after)
  <2>1. View(v, us) = v
    BY <1>11, ViewOfNone
  <2>2. us \in Seq(Saying) /\ 1..Len(us) = {}
    BY <1>11
  <2> QED
    BY <1>10, <1>11, <2>1, <2>2
<1>12. ASSUME NEW u \in Saying, us = <<u>>, u.file = f, Within(Progress!Applied(bv, u), after)
       PROVE  /\ us \in Seq(Saying) /\ \A i \in 1..Len(us) : us[i].file = f
              /\ Within(View(v, us)[f], after)
  <2>1. View(v, us) = Progress!Heard(v, u)
    BY <1>12, ViewOfOne
  <2>2. Progress!Heard(v, u)[f] = Progress!Applied(bv, u)
    BY <1>10, <1>12, HeardChanges
  <2>3. us \in Seq(Saying) /\ \A i \in 1..Len(us) : us[i] = u
    BY <1>12
  <2> QED
    BY <1>12, <2>1, <2>2, <2>3
<1>13. CASE e = None
  <2>1. bv = None
    BY <1>8, <1>13
  <2>2. CASE l = {}
    <3>1. us = <<>> /\ after = None
      BY <1>6, <1>7, <1>13, <2>2
    <3> QED
      BY <1>11, <2>1, <3>1 DEF Within
  <2>3. CASE l # {}
    <3> DEFINE u == said(VersionOf[p], l)
    <3>1. us = <<u>> /\ after = Made
      BY <1>6, <1>7, <1>13, <2>3
    <3>2. u \in Saying /\ u.type # "forget" /\ u.file = f /\ u.version = VersionOf[p] /\ u.blocks = l
      BY <1>1, <1>5 DEF l
    <3> HIDE DEF u
    <3>3. Progress!Applied(bv, u) = [version |-> VersionOf[p], blocks |-> l]
      BY <2>1, <3>2 DEF Progress!Applied
    <3>4. Within(Progress!Applied(bv, u), after)
      BY <1>1, <1>3, <1>4, <3>1, <3>3 DEF Within, Belief, l
    <3> QED
      BY <1>12, <3>1, <3>2, <3>4
  <2> QED
    BY <2>2, <2>3
<1>14. CASE e # None /\ e.updated = puller[p].available /\ e.version = VersionOf[p]
  <2>1. us = <<>> /\ after = e
    BY <1>6, <1>7, <1>14
  <2> QED
    BY <1>8, <1>11, <2>1 DEF Within
<1>15. CASE e # None /\ ~(e.updated = puller[p].available /\ e.version = VersionOf[p]) /\ Progress!Restarted(p)
  <2> DEFINE u == said(VersionOf[p], l)
             gone == Progress!Forget(f, e)
  <2>1. us = <<gone, u>> /\ after = Made
    BY <1>6, <1>7, <1>15
  <2>2. u \in Saying /\ u.type # "forget" /\ u.file = f /\ u.version = VersionOf[p] /\ u.blocks = l
    BY <1>1, <1>5 DEF l
  <2>3. gone \in Saying /\ gone.type = "forget" /\ gone.file = f /\ gone.version = e.version
    BY <1>10, <1>15, <1>e DEF Progress!Forget, Saying
  <2> HIDE DEF u, gone
  <2> DEFINE w == Progress!Heard(v, gone)
  <2>4. w \in Views /\ w[f] = Progress!Applied(bv, gone)
    BY <1>10, <2>3, HeardChanges
  <2>5. w[f] = None
    <3>1. bv # None => bv.version = e.version
      BY <1>8
    <3> QED
      BY <2>3, <2>4, <3>1 DEF Progress!Applied
  <2>6. View(v, us) = Progress!Heard(w, u)
    <3>1. <<gone>> \in Seq(Saying) /\ <<u>> \in Seq(Saying) /\ us = <<gone>> \o <<u>>
      BY <2>1, <2>2, <2>3
    <3>2. View(v, us) = View(View(v, <<gone>>), <<u>>)
      <4> DEFINE xs == <<gone>>
                 ys == <<u>>
      <4>1. xs \in Seq(Saying) /\ ys \in Seq(Saying) /\ us = xs \o ys
        BY <3>1
      <4> HIDE DEF xs, ys
      <4>2. View(v, xs \o ys) = View(View(v, xs), ys)
        BY <4>1, ViewOfConcat
      <4> QED
        BY <4>1, <4>2 DEF xs, ys
    <3>3. View(v, <<gone>>) = w
      BY ViewOfOne
    <3> HIDE DEF w
    <3> QED
      BY <3>2, <3>3, ViewOfOne
  <2> HIDE DEF w
  <2>7. Progress!Heard(w, u)[f] = Progress!Applied(None, u)
    BY <1>10, <2>2, <2>4, <2>5, HeardChanges
  <2>8. Progress!Applied(None, u) = [version |-> VersionOf[p], blocks |-> l]
    BY <2>2 DEF Progress!Applied
  <2>9. Within(View(v, us)[f], after)
    BY <1>1, <1>3, <1>4, <2>1, <2>6, <2>7, <2>8 DEF Within, Belief, l
  <2>10. us \in Seq(Saying) /\ \A i \in 1..Len(us) : us[i] = gone \/ us[i] = u
    BY <2>1, <2>2, <2>3
  <2> QED
    BY <2>2, <2>3, <2>9, <2>10
<1>16. CASE e # None /\ ~(e.updated = puller[p].available /\ e.version = VersionOf[p]) /\ ~Progress!Restarted(p)
  <2> DEFINE more == [e EXCEPT !.blocks = @ \cup l, !.updated = puller[p].available]
  <2>1. after = more
    BY <1>6, <1>16
  <2>2. more # None /\ more.version = e.version /\ more.blocks = e.blocks \cup l
    <3>1. e \in SentEntry
      BY <1>1, <1>16
    <3>2. more.version = e.version /\ more.blocks = e.blocks \cup l
      BY <3>1 DEF SentEntry
    <3>3. more \in SentEntry
      BY <1>2, <3>1 DEF SentEntry, l
    <3> HIDE DEF more
    <3> QED
      BY <1>3, <3>2, <3>3
  <2> HIDE DEF more
  <2>3. CASE l \ e.blocks = {}
    <3>1. us = <<>>
      BY <1>7, <1>16, <2>3
    <3>2. Within(bv, after)
      BY <1>8, <2>1, <2>2 DEF Within
    <3> QED
      BY <1>11, <3>1, <3>2
  <2>4. CASE l \ e.blocks # {}
    <3> DEFINE u == said(e.version, l \ e.blocks)
    <3>1. us = <<u>>
      BY <1>7, <1>16, <2>4
    <3>2. u \in Saying /\ u.type # "forget" /\ u.file = f /\ u.version = e.version /\ u.blocks = l \ e.blocks
      BY <1>5, <1>e, <1>16 DEF l
    <3> HIDE DEF u
    <3>3. Within(Progress!Applied(bv, u), after)
      <4>1. CASE bv = None
        <5>1. Progress!Applied(bv, u) = [version |-> e.version, blocks |-> l \ e.blocks]
          BY <3>2, <4>1 DEF Progress!Applied
        <5> QED
          BY <1>e, <1>16, <2>1, <2>2, <5>1 DEF Within, Belief, l
      <4>2. CASE bv # None
        <5>1. bv \in Belief /\ bv.version = e.version /\ bv.blocks \subseteq e.blocks
          BY <1>8, <4>2
        <5>2. Progress!Applied(bv, u) = [bv EXCEPT !.blocks = @ \cup u.blocks]
          BY <3>2, <4>2, <5>1 DEF Progress!Applied
        <5> DEFINE av == [bv EXCEPT !.blocks = @ \cup u.blocks]
        <5>3. av \in Belief /\ av.version = e.version /\ av.blocks = bv.blocks \cup u.blocks
          BY <3>2, <5>1 DEF Belief, Saying
        <5> HIDE DEF av
        <5> QED
          BY <2>1, <2>2, <3>2, <5>1, <5>2, <5>3 DEF Within, av
      <4> QED
        BY <4>1, <4>2
    <3> QED
      BY <1>12, <3>1, <3>2, <3>3
  <2> QED
    BY <2>3, <2>4
<1> QED
  BY <1>13, <1>14, <1>15, <1>16

\* What is said of the pullers together brings each belief there.
LEMMA SaysAll ==
  ASSUME ProgressTypes, OneAttempt, Looking, looked # None,
         NEW v \in Views, \A f \in Progress!Pulled : Within(v[f], sentState[f])
  PROVE  LET q == Progress!FlattenSeq(Progress!SetToSeq({Progress!UpdatesFor(p) : p \in DOMAIN looked}))
         IN  /\ q \in Seq(Saying) /\ View(v, q) \in Views
             /\ \A f \in Progress!Pulled :
                  IF \E p \in DOMAIN looked : FileOf[p] = f THEN Within(View(v, q)[f], Progress!SentAfter(f))
                                                            ELSE View(v, q)[f] = v[f]
<1> DEFINE seen == DOMAIN looked
           T == {Progress!UpdatesFor(p) : p \in seen}
           s == Progress!SetToSeq(T)
           n == Len(s)
           q == Progress!FlattenSeq(s)
           Have(f) == \E p \in seen : FileOf[p] = f
<1>1. /\ seen \subseteq Pullers /\ \A p \in seen : looked[p] \subseteq Blocks
      /\ \A p \in seen : FileOf[p] \in Progress!Pulled
      /\ \A p, r \in seen : FileOf[r] = FileOf[p] => r = p
  <2>1. seen = Progress!Registered /\ \A p \in seen : looked[p] \subseteq puller[p].blocks
    BY DEF Looking
  <2>2. Progress!Registered \subseteq Pullers /\ \A p \in Progress!Registered : puller[p].at \in Active /\ FileOf[p] \in Progress!Pulled
    BY DEF Progress!Registered, Progress!Pulled, Active
  <2>3. \A p \in Pullers : puller[p].blocks \subseteq Blocks
    BY DEF ProgressTypes, PullerState
  <2> HIDE DEF seen
  <2> QED
    BY <2>1, <2>2, <2>3 DEF OneAttempt
<1>2. ASSUME NEW p \in seen, NEW w \in Views, Within(w[FileOf[p]], sentState[FileOf[p]])
      PROVE  /\ Progress!UpdatesFor(p) \in Seq(Saying)
             /\ \A i \in 1..Len(Progress!UpdatesFor(p)) : Progress!UpdatesFor(p)[i].file = FileOf[p]
             /\ Within(View(w, Progress!UpdatesFor(p))[FileOf[p]], Progress!SentAfter(FileOf[p]))
  BY <1>1, <1>2, SaysOne
<1>3. ASSUME NEW p \in seen
      PROVE  /\ Progress!UpdatesFor(p) \in Seq(Saying)
             /\ \A i \in 1..Len(Progress!UpdatesFor(p)) : Progress!UpdatesFor(p)[i].file = FileOf[p]
  BY <1>1, <1>2, <1>3
<1>4. IsFiniteSet(T)
  <2> DEFINE us == [p \in seen |-> Progress!UpdatesFor(p)]
  <2>1. IsFiniteSet(seen)
    BY <1>1, ProgressAssumption, FS_Subset
  <2>2. us \in Surjection(seen, T)
    BY Fun_IsSurj
  <2> HIDE DEF us, seen, T
  <2> QED
    BY <2>1, <2>2, FS_Surjection
<1>5. /\ s \in Seq(T) /\ n \in Nat
      /\ \A i, j \in 1..n : s[i] = s[j] => i = j
      /\ \A xs \in T : \E i \in 1..n : s[i] = xs
  <2> HIDE DEF T
  <2> QED
    BY <1>4, SetInOrder
<1>6. \A i \in 1..n : \E p \in seen : s[i] = Progress!UpdatesFor(p)
  <2> SUFFICES ASSUME NEW i \in 1..n PROVE s[i] \in T
    OBVIOUS
  <2> HIDE DEF s, T
  <2> QED
    BY <1>5, ElementOfSeq
<1>7. \A f \in Progress!Pulled : Have(f) => \E p \in seen : FileOf[p] = f /\ \E i \in 1..n : s[i] = Progress!UpdatesFor(p)
  <2>1. \A p \in seen : Progress!UpdatesFor(p) \in T
    OBVIOUS
  <2> HIDE DEF s, T, seen
  <2> QED
    BY <1>5, <2>1
<1> SUFFICES /\ q \in Seq(Saying) /\ View(v, q) \in Views
             /\ \A f \in Progress!Pulled : IF Have(f) THEN Within(View(v, q)[f], Progress!SentAfter(f)) ELSE View(v, q)[f] = v[f]
  OBVIOUS
<1> HIDE DEF s, T, seen
<1>8. CASE n = 0
  <2>1. q = s /\ s = <<>>
    BY <1>5, <1>8, EmptySeq DEF Progress!FlattenSeq
  <2>2. View(v, q) = v /\ q \in Seq(Saying)
    BY <2>1, ViewOfNone
  <2>3. \A f \in Progress!Pulled : ~Have(f)
    BY <1>7, <1>8
  <2> HIDE DEF q, Have
  <2> QED
    BY <2>2, <2>3
<1>9. CASE n # 0
  <2>1. s \in Seq(Seq(Saying)) /\ s # <<>>
    <3>1. T \subseteq Seq(Saying)
      BY <1>3 DEF T
    <3>2. \A i \in 1..n : s[i] \in Seq(Saying)
      BY <1>3, <1>6
    <3>3. s = [i \in 1..n |-> s[i]]
      BY <1>5
    <3> QED
      BY <1>5, <1>9, <3>2, <3>3
  <2>2. PICK g : /\ g[1] = s[1] /\ q = g[n]
                 /\ \A i \in 1..n : g[i] \in Seq(Saying) /\ (i # 1 => g[i] = g[i - 1] \o s[i])
    <3>1. PICK g : Grows(Saying, s, Progress!FlattenSeq(s), g)
      BY <2>1, FlattenGrows
    <3> QED
      BY <3>1 DEF Grows
  <2> DEFINE before(i) == IF i = 1 THEN v ELSE View(v, g[i - 1])
             Come(f, i) == \E j \in 1..i : \E p \in seen : FileOf[p] = f /\ s[j] = Progress!UpdatesFor(p)
             Good(i) == \A f \in Progress!Pulled :
                          IF Come(f, i) THEN Within(View(v, g[i])[f], Progress!SentAfter(f)) ELSE View(v, g[i])[f] = v[f]
             bad == {i \in 1..n : ~Good(i)}
  <2>3. ASSUME NEW i \in 1..n PROVE before(i) \in Views /\ s[i] \in Seq(Saying) /\ View(v, g[i]) = View(before(i), s[i])
    <3>1. s[i] \in Seq(Saying)
      BY <1>3, <1>6
    <3>2. CASE i = 1
      BY <2>2, <3>1, <3>2
    <3>3. CASE i # 1
      <4>1. i - 1 \in 1..n
        BY <1>5, <3>3
      <4> DEFINE xs == g[i - 1]
                 ys == s[i]
      <4>2. xs \in Seq(Saying) /\ ys \in Seq(Saying) /\ g[i] = xs \o ys
        BY <2>2, <3>1, <3>3, <4>1
      <4>3. before(i) = View(v, xs)
        BY <3>3
      <4> HIDE DEF xs, ys, before
      <4>4. View(v, xs) \in Views
        BY <4>2, ViewChanges
      <4>5. View(v, xs \o ys) = View(View(v, xs), ys)
        BY <4>2, ViewOfConcat
      <4> QED
        BY <3>1, <4>2, <4>3, <4>4, <4>5 DEF ys
    <3> QED
      BY <3>2, <3>3
  <2>4. bad = {}
    <3> SUFFICES ASSUME bad # {} PROVE FALSE
      OBVIOUS
    <3>1. PICK i \in bad : \A j \in bad : i <= j
      <4>1. bad \subseteq Nat
        OBVIOUS
      <4> HIDE DEF bad
      <4> QED
        BY <4>1, LeastOf
    <3>2. i \in 1..n /\ ~Good(i)
      OBVIOUS
    <3> DEFINE w == before(i)
    <3>3. \E p \in seen : s[i] = Progress!UpdatesFor(p)
      BY <1>6, <3>2
    <3>4. \A f \in Progress!Pulled : IF i # 1 /\ Come(f, i - 1) THEN Within(w[f], Progress!SentAfter(f)) ELSE w[f] = v[f]
      <4>1. CASE i = 1
        BY <4>1
      <4>2. CASE i # 1
        <5>1. i - 1 \in 1..n /\ ~(i <= i - 1)
          BY <1>5, <3>2, <4>2
        <5>2. Good(i - 1)
          BY <3>1, <5>1
        <5>3. w = View(v, g[i - 1])
          BY <4>2
        <5> HIDE DEF w, Come
        <5> QED
          BY <4>2, <5>2, <5>3
      <4> QED
        BY <4>1, <4>2
    <3>5. w \in Views /\ s[i] \in Seq(Saying) /\ View(v, g[i]) = View(w, s[i])
      BY <2>3, <3>2
    <3> HIDE DEF w, before
    <3>6. ASSUME NEW p \in seen, s[i] = Progress!UpdatesFor(p)
          PROVE  Come(FileOf[p], i) /\ Within(View(w, s[i])[FileOf[p]], Progress!SentAfter(FileOf[p]))
      <4>1. ~(i # 1 /\ Come(FileOf[p], i - 1))
        <5> SUFFICES ASSUME i # 1, Come(FileOf[p], i - 1) PROVE FALSE
          OBVIOUS
        <5>1. PICK j \in 1..(i - 1) : \E r \in seen : FileOf[r] = FileOf[p] /\ s[j] = Progress!UpdatesFor(r)
          OBVIOUS
        <5>2. s[j] = s[i]
          BY <1>1, <3>6, <5>1
        <5>3. j \in 1..n /\ j # i
          BY <1>5, <3>2, <5>1
        <5> QED
          BY <1>5, <3>2, <5>2, <5>3
      <4>2. w[FileOf[p]] = v[FileOf[p]] /\ FileOf[p] \in Progress!Pulled
        BY <1>1, <3>4, <4>1
      <4>3. Within(w[FileOf[p]], sentState[FileOf[p]])
        BY <4>2
      <4>4. Within(View(w, Progress!UpdatesFor(p))[FileOf[p]], Progress!SentAfter(FileOf[p]))
        BY <1>2, <3>5, <4>3
      <4>5. i \in 1..i
        BY <1>5, <3>2
      <4>6. Come(FileOf[p], i)
        BY <3>6, <4>5
      <4> QED
        BY <3>6, <4>4, <4>6
    <3>7. ASSUME NEW f \in Progress!Pulled, \A p \in seen : s[i] = Progress!UpdatesFor(p) => FileOf[p] # f
          PROVE  View(w, s[i])[f] = w[f] /\ (Come(f, i) <=> i # 1 /\ Come(f, i - 1))
      <4>1. \A k \in 1..Len(s[i]) : s[i][k].file # f
        BY <1>3, <3>3, <3>7
      <4> DEFINE xs == s[i]
      <4>2. xs \in Seq(Saying) /\ \A k \in 1..Len(xs) : xs[k].file # f
        BY <3>5, <4>1
      <4>3. View(w, xs)[f] = w[f]
        <5> HIDE DEF xs
        <5> QED
          BY <3>5, <4>2, ViewChanges
      <4>4. ASSUME Come(f, i) PROVE i # 1 /\ Come(f, i - 1)
        <5>1. PICK j \in 1..i : \E r \in seen : FileOf[r] = f /\ s[j] = Progress!UpdatesFor(r)
          BY <4>4
        <5>2. j # i
          BY <3>7, <5>1
        <5>3. i # 1 /\ j \in 1..(i - 1)
          BY <1>5, <3>2, <5>1, <5>2
        <5> QED
          BY <5>1, <5>3
      <4>5. ASSUME i # 1, Come(f, i - 1) PROVE Come(f, i)
        <5>1. \A j \in 1..(i - 1) : j \in 1..i
          BY <1>5, <3>2
        <5> QED
          BY <4>5, <5>1
      <4> QED
        BY <4>3, <4>4, <4>5
    <3>8. ASSUME NEW f \in Progress!Pulled
          PROVE  IF Come(f, i) THEN Within(View(v, g[i])[f], Progress!SentAfter(f)) ELSE View(v, g[i])[f] = v[f]
      <4> DEFINE mine == \E p \in seen : s[i] = Progress!UpdatesFor(p) /\ FileOf[p] = f
                 newer == View(v, g[i])
      <4>1. newer = View(w, s[i])
        BY <3>5
      <4> HIDE DEF Come, newer
      <4>2. CASE mine
        <5>1. Come(f, i) /\ Within(newer[f], Progress!SentAfter(f))
          BY <3>6, <4>1, <4>2
        <5> QED
          BY <5>1 DEF newer
      <4>3. CASE ~mine
        <5>1. newer[f] = w[f] /\ (Come(f, i) <=> i # 1 /\ Come(f, i - 1))
          BY <3>7, <4>1, <4>3
        <5> QED
          BY <3>4, <5>1 DEF newer
      <4> QED
        BY <4>2, <4>3
    <3>9. Good(i)
      BY <3>8
    <3> QED
      BY <3>2, <3>9
  <2>5. n \in 1..n
    BY <1>5, <1>9
  <2>6. Good(n)
    BY <2>4, <2>5
  <2>7. q = g[n] /\ q \in Seq(Saying)
    BY <2>2, <2>5
  <2>8. \A f \in Progress!Pulled : Have(f) <=> Come(f, n)
    <3>1. \A f \in Progress!Pulled : Have(f) => Come(f, n)
      <4> SUFFICES ASSUME NEW f \in Progress!Pulled, Have(f) PROVE Come(f, n)
        OBVIOUS
      <4>1. PICK p \in seen : FileOf[p] = f /\ \E i \in 1..n : s[i] = Progress!UpdatesFor(p)
        BY <1>7
      <4> QED
        BY <4>1
    <3> QED
      BY <3>1
  <2> HIDE DEF q, Have, Come
  <2>9. View(v, q) \in Views
    BY <2>7, ViewChanges
  <2> QED
    BY <2>6, <2>7, <2>8, <2>9
<1> QED
  BY <1>8, <1>9

-----------------------------------------------------------------------------
(* Attempts at files, and what is on record of them *)

\* The attempts that have begun did so at different times.
Times ==
  /\ \A p \in Pullers : puller[p].at # "new" => puller[p].created < pullTime
  /\ \A p, q \in Pullers : puller[p].at # "new" /\ puller[q].at # "new" /\ puller[p].created = puller[q].created => p = q

\* What is on record of a file is in the temporary file of the attempt it was sent for.
InAttempt(f, e) ==
  \E p \in Pullers : /\ puller[p].at # "new" /\ FileOf[p] = f /\ VersionOf[p] = e.version
                     /\ puller[p].created = e.created /\ e.blocks \subseteq puller[p].blocks
There == \A f \in Progress!Pulled : sentState[f] # None => InAttempt(f, sentState[f])

\* What the other side will believe is within what is on record, and nothing is known or on
\* its way to where nobody is.
Agreed == up => \A f \in Progress!Pulled : Within(View(remoteState, channel)[f], sentState[f])
Apart == ~up => channel = <<>> /\ \A f \in Progress!Pulled : remoteState[f] = None

ProgressInv == ProgressTypes /\ OneAttempt /\ Times /\ Looking /\ There /\ Agreed /\ Apart

\* Updates that files are forgotten leave no belief in those files.
LEMMA GoneSays ==
  ASSUME ProgressTypes, looked # None, NEW v \in Views,
         \A f \in Progress!Pulled : (\A p \in DOMAIN looked : FileOf[p] # f) => Within(v[f], sentState[f])
  PROVE  /\ Progress!Gone \in Seq(Saying) /\ View(v, Progress!Gone) \in Views
         /\ \A f \in Progress!Pulled : IF \E p \in DOMAIN looked : FileOf[p] = f THEN View(v, Progress!Gone)[f] = v[f]
                                                                             ELSE View(v, Progress!Gone)[f] = None
<1> DEFINE G == {f \in Progress!Pulled : sentState[f] # None /\ \A p \in DOMAIN looked : FileOf[p] # f}
           T == {Progress!Forget(f, sentState[f]) : f \in G}
           q == Progress!Gone
           n == Len(q)
           Said(f, i) == \E j \in 1..i : q[j].file = f
<1>1. q = Progress!SetToSeq(T)
  BY DEF Progress!Gone
<1>2. IsFiniteSet(T)
  <2> DEFINE pulls == [p \in Pullers |-> FileOf[p]]
             say == [f \in G |-> Progress!Forget(f, sentState[f])]
  <2>1. pulls \in Surjection(Pullers, Progress!Pulled)
    <3>1. Progress!Pulled = {FileOf[p] : p \in Pullers}
      BY DEF Progress!Pulled
    <3> QED
      BY <3>1, Fun_IsSurj
  <2>2. IsFiniteSet(Progress!Pulled)
    <3> HIDE DEF pulls
    <3> QED
      BY <2>1, ProgressAssumption, FS_Surjection
  <2>3. IsFiniteSet(G)
    <3>1. G \subseteq Progress!Pulled
      OBVIOUS
    <3> HIDE DEF G
    <3> QED
      BY <2>2, <3>1, FS_Subset
  <2>4. say \in Surjection(G, T)
    BY Fun_IsSurj
  <2> HIDE DEF say, G, T
  <2> QED
    BY <2>3, <2>4, FS_Surjection
<1>3. /\ q \in Seq(T) /\ n \in Nat
      /\ \A xs \in T : \E i \in 1..n : q[i] = xs
  <2> HIDE DEF T, q
  <2> QED
    BY <1>1, <1>2, SetInOrder
<1>4. ASSUME NEW i \in 1..n
      PROVE  \E f \in G : q[i] = Progress!Forget(f, sentState[f])
  <2>1. q[i] \in T
    <3> HIDE DEF q, T
    <3> QED
      BY <1>3, ElementOfSeq
  <2> QED
    BY <2>1
<1>5. ASSUME NEW f \in G
      PROVE  LET u == Progress!Forget(f, sentState[f])
             IN  u \in Saying /\ u.type = "forget" /\ u.file = f /\ u.version = sentState[f].version
  <2>1. sentState[f] \in SentEntry /\ f \in Progress!Pulled
    BY DEF ProgressTypes
  <2>2. sentState[f].version \in Versioned
    BY <2>1 DEF SentEntry
  <2> QED
    BY <2>1, <2>2 DEF Progress!Forget, Saying
<1>6. q \in Seq(Saying)
  <2>1. \A i \in 1..n : q[i] \in Saying
    BY <1>4, <1>5
  <2>2. q = [i \in 1..n |-> q[i]]
    BY <1>3
  <2> HIDE DEF q
  <2> QED
    BY <1>3, <2>1, <2>2
<1>7. \A f \in Progress!Pulled : f \in G <=> Said(f, n)
  <2>1. ASSUME NEW f \in G PROVE Said(f, n)
    <3> DEFINE u == Progress!Forget(f, sentState[f])
    <3>1. u \in T
      OBVIOUS
    <3>2. u.file = f
      BY <1>5
    <3> HIDE DEF u, T, q
    <3>3. PICK i \in 1..n : q[i] = u
      BY <1>3, <3>1
    <3> QED
      BY <3>2, <3>3
  <2>2. ASSUME NEW f \in Progress!Pulled, Said(f, n) PROVE f \in G
    <3>1. PICK j \in 1..n : q[j].file = f
      BY <2>2
    <3>2. PICK e \in G : q[j] = Progress!Forget(e, sentState[e])
      BY <1>4
    <3>3. e = f
      BY <1>5, <3>1, <3>2
    <3> QED
      BY <3>3
  <2> QED
    BY <2>1, <2>2
<1>8. PICK h : Runs(v, q, h) /\ View(v, q) = h[n]
  BY <1>6, ViewRuns
<1> DEFINE Good(i) == /\ h[i] \in Views
                      /\ \A f \in Progress!Pulled : h[i][f] = IF Said(f, i) THEN None ELSE v[f]
           bad == {i \in 0..n : ~Good(i)}
<1>9. h[0] = v /\ \A i \in 1..n : h[i] = Progress!Heard(h[i - 1], q[i])
  BY <1>8 DEF Runs
<1>10. \A f \in G : f \in Progress!Pulled /\ Within(v[f], sentState[f])
  OBVIOUS
<1> HIDE DEF q, n, G
<1>11. bad = {}
  <2> SUFFICES ASSUME bad # {} PROVE FALSE
    OBVIOUS
  <2>1. PICK i \in bad : \A j \in bad : i <= j
    <3>1. bad \subseteq Nat
      OBVIOUS
    <3> HIDE DEF bad
    <3> QED
      BY <3>1, LeastOf
  <2>2. i \in 0..n /\ ~Good(i)
    OBVIOUS
  <2>3. i # 0
    <3>1. \A f \in Progress!Pulled : ~Said(f, 0)
      OBVIOUS
    <3>2. Good(0)
      BY <1>9, <3>1
    <3> QED
      BY <2>2, <3>2
  <2>4. i \in 1..n /\ i - 1 \in 0..n /\ ~(i <= i - 1) /\ 1..i = (1..(i - 1)) \cup {i}
    BY <1>3, <2>2, <2>3
  <2>5. Good(i - 1)
    BY <2>1, <2>4
  <2> DEFINE w == h[i - 1]
  <2>6. PICK e \in G : q[i] = Progress!Forget(e, sentState[e])
    BY <1>4, <2>4
  <2>7. q[i] \in Saying /\ q[i].type = "forget" /\ q[i].file = e /\ q[i].version = sentState[e].version
    BY <1>5, <2>6
  <2>8. w \in Views /\ h[i] = Progress!Heard(w, q[i]) /\ \A f \in Progress!Pulled : w[f] = IF Said(f, i - 1) THEN None ELSE v[f]
    BY <1>9, <2>4, <2>5
  <2> HIDE DEF w
  <2>9. h[i] \in Views /\ \A f \in Progress!Pulled : h[i][f] = IF f = e THEN Progress!Applied(w[f], q[i]) ELSE w[f]
    BY <2>7, <2>8, HeardChanges
  <2>10. Progress!Applied(w[e], q[i]) = None
    <3>1. w[e] = None \/ w[e] = v[e]
      BY <1>10, <2>8
    <3>2. w[e] # None => w[e].version = sentState[e].version
      BY <1>10, <3>1 DEF Within
    <3> QED
      BY <2>7, <3>2 DEF Progress!Applied
  <2>11. \A f \in Progress!Pulled : Said(f, i) <=> (Said(f, i - 1) \/ f = e)
    BY <2>4, <2>7
  <2> HIDE DEF Said
  <2>12. Good(i)
    BY <2>8, <2>9, <2>10, <2>11
  <2> QED
    BY <2>2, <2>12
<1>12. n \in 0..n
  BY <1>3
<1>13. Good(n)
  BY <1>11, <1>12
<1>14. \A f \in Progress!Pulled : (\A p \in DOMAIN looked : FileOf[p] # f) /\ f \notin G => v[f] = None
  BY DEF G, Within
<1> DEFINE w == View(v, q)
<1>15. w \in Views /\ \A f \in Progress!Pulled : w[f] = IF f \in G THEN None ELSE v[f]
  BY <1>7, <1>8, <1>13
<1> HIDE DEF w
<1>16. \A f \in G : ~\E p \in DOMAIN looked : FileOf[p] = f
  BY DEF G
<1>17. \A f \in Progress!Pulled : IF \E p \in DOMAIN looked : FileOf[p] = f THEN w[f] = v[f] ELSE w[f] = None
  BY <1>14, <1>15, <1>16
<1> QED
  BY <1>6, <1>15, <1>17 DEF w, q

-----------------------------------------------------------------------------
(* The steps of the pullers *)

\* What is in the temporary file of an attempt stays there.
LEMMA StaysThere ==
  ASSUME There, sentState' = sentState,
         \A p \in Pullers : puller[p].at # "new" =>
           /\ puller'[p].at # "new" /\ puller'[p].created = puller[p].created
           /\ puller[p].blocks \subseteq puller'[p].blocks
  PROVE  There'
<1> SUFFICES ASSUME NEW f \in Progress!Pulled, sentState[f] # None PROVE InAttempt(f, sentState[f])'
  BY DEF There
<1>1. InAttempt(f, sentState[f])
  BY DEF There
<1> QED
  BY <1>1 DEF InAttempt

\* Nothing that the properties of the two sides are about changes.
LEMMA LinkKeeps ==
  ASSUME Agreed, Apart, UNCHANGED <<sentState, channel, remoteState, up>>
  PROVE  Agreed' /\ Apart'
  BY DEF Agreed, Apart

\* A puller is made.
LEMMA CreateKeeps ==
  ASSUME ProgressInv, NEW p \in Pullers, Progress!Create(p)
  PROVE  ProgressInv'
<1>1. PICK bv \in SUBSET Blocks :
        puller' = [puller EXCEPT ![p] = [at |-> "created", blocks |-> bv, created |-> pullTime,
                                         updated |-> pullTime, available |-> pullTime]]
  BY DEF Progress!Create
<1> DEFINE new == [at |-> "created", blocks |-> bv, created |-> pullTime, updated |-> pullTime, available |-> pullTime]
<1>2. /\ puller[p].at = "new" /\ pullTime' = pullTime + 1
      /\ \A q \in Pullers : FileOf[q] = FileOf[p] => puller[q].at \in {"new", "done"}
      /\ UNCHANGED <<looked, sentState, channel, remoteState, up>>
  BY DEF Progress!Create, Progress!emitter, Progress!link
<1>3. puller \in [Pullers -> PullerState] /\ pullTime \in Nat
  BY DEF ProgressInv, ProgressTypes
<1>4. new \in PullerState /\ new.at = "created" /\ new.created = pullTime
  BY <1>3 DEF PullerState
<1> HIDE DEF new
<1>5. puller' \in [Pullers -> PullerState] /\ puller'[p] = new /\ \A q \in Pullers : q # p => puller'[q] = puller[q]
  BY <1>1, <1>3, <1>4 DEF new
<1>6. ProgressTypes'
  BY <1>2, <1>3, <1>5 DEF ProgressInv, ProgressTypes
<1>7. OneAttempt'
  BY <1>2, <1>5 DEF ProgressInv, OneAttempt, Active
<1>8. Times'
  <2>1. \A q \in Pullers : puller[q].at # "new" => puller[q].created \in Nat /\ puller[q].created < pullTime
    BY <1>3 DEF ProgressInv, Times, PullerState
  <2>2. \A q \in Pullers : puller[q].at # "new" => puller[q].created < pullTime + 1 /\ puller[q].created # pullTime
    BY <1>3, <2>1
  <2>3. pullTime < pullTime + 1
    BY <1>3
  <2>4. \A q \in Pullers : puller'[q].at # "new" => puller'[q].created < pullTime'
    BY <1>2, <1>4, <1>5, <2>2, <2>3
  <2>5. \A q, r \in Pullers : puller[q].at # "new" /\ puller[r].at # "new" /\ puller[q].created = puller[r].created => q = r
    BY DEF ProgressInv, Times
  <2>6. \A q, r \in Pullers : puller'[q].at # "new" /\ puller'[r].at # "new" /\ puller'[q].created = puller'[r].created => q = r
    BY <1>4, <1>5, <2>2, <2>5
  <2> QED
    BY <2>4, <2>6 DEF Times
<1>9. Looking'
  <2>1. Progress!Registered' = Progress!Registered /\ p \notin Progress!Registered
    BY <1>2, <1>4, <1>5 DEF Progress!Registered
  <2> QED
    BY <1>2, <1>5, <2>1 DEF ProgressInv, Looking, Progress!Registered
<1>10. There'
  <2>1. \A q \in Pullers : puller[q].at # "new" => puller'[q] = puller[q]
    BY <1>2, <1>5
  <2> QED
    BY <1>2, <2>1, StaysThere DEF ProgressInv
<1>11. Agreed' /\ Apart'
  BY <1>2, LinkKeeps DEF ProgressInv
<1> QED
  BY <1>6, <1>7, <1>8, <1>9, <1>10, <1>11 DEF ProgressInv

\* A puller goes on: another state, or more blocks.
LEMMA PullerGoesOn ==
  ASSUME ProgressInv, NEW p \in Pullers, pullTime' \in Nat, pullTime' >= pullTime,
         UNCHANGED <<looked, sentState, channel, remoteState, up>>,
         puller' \in [Pullers -> PullerState], \A q \in Pullers : q # p => puller'[q] = puller[q],
         puller[p].at \in Active, puller'[p].at \in Active \cup {"done"},
         puller'[p].created = puller[p].created, puller[p].blocks \subseteq puller'[p].blocks,
         looked = None \/ Progress!Registered' = Progress!Registered
  PROVE  ProgressInv'
<1>1. ProgressTypes'
  BY DEF ProgressInv, ProgressTypes
<1>2. OneAttempt'
  <2>1. \A q \in Pullers : puller'[q].at \in Active => puller[q].at \in Active
    OBVIOUS
  <2> QED
    BY <2>1 DEF ProgressInv, OneAttempt
<1>3. \A q \in Pullers : (puller'[q].at # "new" <=> puller[q].at # "new") /\ puller'[q].created = puller[q].created
                         /\ puller[q].blocks \subseteq puller'[q].blocks
  BY DEF Active
<1>4. Times'
  <2>1. \A q \in Pullers : puller[q].created \in Nat
    BY DEF ProgressInv, ProgressTypes, PullerState
  <2>2. \A q \in Pullers : puller[q].at # "new" => puller[q].created < pullTime'
    <3>1. pullTime \in Nat /\ \A q \in Pullers : puller[q].at # "new" => puller[q].created < pullTime
      BY DEF ProgressInv, ProgressTypes, Times
    <3> QED
      BY <2>1, <3>1
  <2> QED
    BY <1>3, <2>2 DEF ProgressInv, Times
<1>5. Looking'
  <2>1. CASE looked = None
    BY <2>1 DEF Looking
  <2>2. CASE looked # None
    <3>1. DOMAIN looked = Progress!Registered /\ \A q \in DOMAIN looked : looked[q] \subseteq puller[q].blocks
      BY <2>2 DEF ProgressInv, Looking
    <3>2. Progress!Registered \subseteq Pullers
      BY DEF Progress!Registered
    <3> QED
      BY <1>3, <2>2, <3>1, <3>2 DEF Looking
  <2> QED
    BY <2>1, <2>2
<1>6. There'
  BY <1>3, StaysThere DEF ProgressInv
<1>7. Agreed' /\ Apart'
  BY LinkKeeps DEF ProgressInv
<1> QED
  BY <1>1, <1>2, <1>4, <1>5, <1>6, <1>7 DEF ProgressInv

\* A puller is registered, gets a block, and is taken off.
LEMMA PullerKeeps ==
  ASSUME ProgressInv, NEW p \in Pullers, Progress!PullerStep(p)
  PROVE  ProgressInv'
<1>1. puller \in [Pullers -> PullerState] /\ pullTime \in Nat
  BY DEF ProgressInv, ProgressTypes
<1>2. puller[p] \in PullerState
  BY <1>1
<1>3. CASE Progress!Register(p)
  <2>1. /\ puller' = [puller EXCEPT ![p].at = "registered"] /\ puller[p].at = "created" /\ looked = None
        /\ UNCHANGED <<pullTime, looked, sentState, channel, remoteState, up>>
    BY <1>3 DEF Progress!Register, Progress!link
  <2>2. /\ puller' \in [Pullers -> PullerState] /\ \A q \in Pullers : q # p => puller'[q] = puller[q]
        /\ puller'[p].at = "registered" /\ puller'[p].created = puller[p].created
        /\ puller'[p].blocks = puller[p].blocks
    BY <1>1, <2>1 DEF PullerState
  <2>3. pullTime' \in Nat /\ pullTime' >= pullTime
    BY <1>1, <2>1
  <2> QED
    BY <2>1, <2>2, <2>3, PullerGoesOn DEF Active
<1>4. CASE Progress!BlockDone(p)
  <2>1. PICK bv \in Blocks :
          puller' = [puller EXCEPT ![p].blocks = @ \cup {bv}, ![p].updated = pullTime, ![p].available = pullTime]
    BY <1>4 DEF Progress!BlockDone
  <2>2. /\ puller[p].at = "registered" /\ pullTime' = pullTime + 1
        /\ UNCHANGED <<looked, sentState, channel, remoteState, up>>
    BY <1>4 DEF Progress!BlockDone, Progress!emitter, Progress!link
  <2>3. /\ puller' \in [Pullers -> PullerState] /\ \A q \in Pullers : q # p => puller'[q] = puller[q]
        /\ puller'[p].at = puller[p].at /\ puller'[p].created = puller[p].created
        /\ puller[p].blocks \subseteq puller'[p].blocks
    BY <1>1, <2>1 DEF PullerState
  <2>4. pullTime' \in Nat /\ pullTime' >= pullTime
    BY <1>1, <2>2
  <2>5. Progress!Registered' = Progress!Registered
    BY <2>3 DEF Progress!Registered
  <2> QED
    BY <2>2, <2>3, <2>4, <2>5, PullerGoesOn DEF Active
<1>5. CASE Progress!Deregister(p)
  <2>1. /\ puller' = [puller EXCEPT ![p].at = "done"] /\ puller[p].at = "registered" /\ looked = None
        /\ UNCHANGED <<pullTime, looked, sentState, channel, remoteState, up>>
    BY <1>5 DEF Progress!Deregister, Progress!emitter, Progress!link
  <2>2. /\ puller' \in [Pullers -> PullerState] /\ \A q \in Pullers : q # p => puller'[q] = puller[q]
        /\ puller'[p].at = "done" /\ puller'[p].created = puller[p].created
        /\ puller'[p].blocks = puller[p].blocks
    BY <1>1, <2>1 DEF PullerState
  <2>3. pullTime' \in Nat /\ pullTime' >= pullTime
    BY <1>1, <2>1
  <2> QED
    BY <2>1, <2>2, <2>3, PullerGoesOn DEF Active
<1> QED
  BY <1>3, <1>4, <1>5, CreateKeeps DEF Progress!PullerStep

\* What is on record after a round is an entry, and in the attempt it was sent for.
LEMMA RecordIsThere ==
  ASSUME ProgressInv, looked # None, NEW f \in Progress!Pulled
  PROVE  /\ Progress!SentAfter(f) \in SentEntry \cup {None}
         /\ Progress!SentAfter(f) # None => InAttempt(f, Progress!SentAfter(f))
         /\ (\A q \in DOMAIN looked : FileOf[q] # f) => Progress!SentAfter(f) = None
<1> DEFINE e == sentState[f]
<1>1. DOMAIN looked = Progress!Registered /\ (\A q \in DOMAIN looked : looked[q] \subseteq puller[q].blocks)
      /\ Progress!Registered \subseteq Pullers /\ \A q \in Progress!Registered : puller[q].at # "new"
  BY DEF ProgressInv, Looking, Progress!Registered
<1>2. puller \in [Pullers -> PullerState] /\ e \in SentEntry \cup {None}
  BY DEF ProgressInv, ProgressTypes
<1>3. e # None => InAttempt(f, e)
  BY DEF ProgressInv, There
<1>4. CASE \A q \in DOMAIN looked : FileOf[q] # f
  BY <1>4 DEF Progress!SentAfter
<1>5. CASE ~\A q \in DOMAIN looked : FileOf[q] # f
  <2> DEFINE p == CHOOSE q \in DOMAIN looked : FileOf[q] = f
             l == looked[p]
             more == [e EXCEPT !.blocks = @ \cup l, !.updated = puller[p].available]
             after == Progress!SentAfter(f)
  <2>1. p \in DOMAIN looked /\ FileOf[p] = f
    BY <1>5
  <2>2. after = IF e = None /\ l = {} THEN None
                ELSE IF e # None /\ e.updated = puller[p].available /\ e.version = VersionOf[p] THEN e
                ELSE IF e # None /\ ~Progress!Restarted(p) THEN more
                ELSE Progress!EntryOf(p)
    BY <1>5 DEF Progress!SentAfter
  <2> HIDE DEF p
  <2>3. p \in Pullers /\ puller[p].at # "new" /\ l \subseteq puller[p].blocks
    BY <1>1, <2>1
  <2>4. puller[p].created \in Nat /\ puller[p].available \in Nat /\ puller[p].blocks \subseteq Blocks /\ VersionOf[p] \in Versioned
    BY <1>2, <2>3 DEF PullerState, Versioned
  <2> HIDE DEF l, more, after, e
  <2>5. CASE after = None
    BY <1>5, <2>5 DEF after
  <2>6. CASE after = e
    BY <1>2, <1>3, <1>5, <2>6 DEF after
  <2>7. CASE after = more /\ e # None /\ ~Progress!Restarted(p)
    <3>1. e \in SentEntry
      BY <1>2, <2>7
    <3>2. e.created = puller[p].created
      BY <2>1, <2>7 DEF Progress!Restarted, e
    <3>3. PICK r \in Pullers : /\ puller[r].at # "new" /\ FileOf[r] = f /\ VersionOf[r] = e.version
                               /\ puller[r].created = e.created /\ e.blocks \subseteq puller[r].blocks
      BY <1>3, <2>7 DEF InAttempt
    <3>4. r = p
      BY <2>3, <3>2, <3>3 DEF ProgressInv, Times
    <3>5. more \in SentEntry /\ more.version = e.version /\ more.created = e.created /\ more.blocks = e.blocks \cup l
      BY <2>3, <2>4, <3>1 DEF SentEntry, more
    <3>6. InAttempt(f, more)
      BY <2>3, <3>3, <3>4, <3>5 DEF InAttempt
    <3> QED
      BY <1>5, <2>7, <3>5, <3>6 DEF after
  <2>8. CASE after = Progress!EntryOf(p)
    <3> DEFINE made == Progress!EntryOf(p)
    <3>1. made \in SentEntry /\ made.version = VersionOf[p] /\ made.created = puller[p].created /\ made.blocks = l
      BY <2>3, <2>4 DEF Progress!EntryOf, SentEntry, l
    <3> HIDE DEF made
    <3>2. InAttempt(f, made)
      BY <2>1, <2>3, <3>1 DEF InAttempt
    <3> QED
      BY <1>5, <2>8, <3>1, <3>2 DEF after, made
  <2> QED
    BY <2>2, <2>5, <2>6, <2>7, <2>8
<1> QED
  BY <1>4, <1>5

-----------------------------------------------------------------------------
(* The steps of the emitter, of the connection and of the receiver *)

\* A round of the emitter brings what the other side will believe within what is on record then.
LEMMA EmitKeeps ==
  ASSUME ProgressInv, Progress!Emit
  PROVE  ProgressInv'
<1> DEFINE said == Progress!FlattenSeq(Progress!SetToSeq({Progress!UpdatesFor(p) : p \in DOMAIN looked}))
           gone == Progress!Gone
<1>1. /\ looked # None /\ looked' = None
      /\ IF up THEN sentState' = [f \in Progress!Pulled |-> Progress!SentAfter(f)] /\ channel' = channel \o said \o gone
               ELSE sentState' = [f \in Progress!Pulled |-> None] /\ channel' = channel
      /\ UNCHANGED <<puller, pullTime, remoteState, up>>
  BY DEF Progress!Emit
<1>2. /\ ProgressTypes /\ OneAttempt /\ Times /\ Looking /\ Agreed /\ Apart
      /\ remoteState \in Views /\ channel \in Seq(Saying)
  BY DEF ProgressInv, ProgressTypes
<1>3. OneAttempt' /\ Times' /\ Looking' /\ Apart'
  BY <1>1, <1>2 DEF OneAttempt, Times, Looking, Apart
<1>4. CASE ~up
  <2>1. sentState' = [f \in Progress!Pulled |-> None] /\ channel' = channel /\ ~up'
    BY <1>1, <1>4
  <2>2. ProgressTypes'
    BY <1>1, <1>2, <2>1 DEF ProgressTypes
  <2>3. There' /\ Agreed'
    BY <2>1 DEF There, Agreed
  <2> QED
    BY <1>3, <2>2, <2>3 DEF ProgressInv
<1>5. CASE up
  <2>1. sentState' = [f \in Progress!Pulled |-> Progress!SentAfter(f)] /\ channel' = channel \o said \o gone
    BY <1>1, <1>5
  <2> DEFINE v == View(remoteState, channel)
             w == View(v, said)
             z == View(w, gone)
  <2>2. v \in Views /\ \A f \in Progress!Pulled : Within(v[f], sentState[f])
    BY <1>2, <1>5, ViewChanges DEF Agreed
  <2> HIDE DEF v
  <2>3. /\ said \in Seq(Saying) /\ w \in Views
        /\ \A f \in Progress!Pulled :
             IF \E p \in DOMAIN looked : FileOf[p] = f THEN Within(w[f], Progress!SentAfter(f)) ELSE w[f] = v[f]
    BY <1>1, <1>2, <2>2, SaysAll
  <2> HIDE DEF said, w
  <2>4. \A f \in Progress!Pulled : (\A p \in DOMAIN looked : FileOf[p] # f) => Within(w[f], sentState[f])
    BY <2>2, <2>3
  <2>5. /\ gone \in Seq(Saying)
        /\ \A f \in Progress!Pulled : IF \E p \in DOMAIN looked : FileOf[p] = f THEN z[f] = w[f] ELSE z[f] = None
    BY <1>1, <1>2, <2>3, <2>4, GoneSays
  <2> HIDE DEF gone
  <2>6. View(remoteState, channel') = z
    <3>1. channel \o said \in Seq(Saying)
      BY <1>2, <2>3
    <3> DEFINE both == channel \o said
    <3>2. View(remoteState, both) = w
      BY <1>2, <2>3, ViewOfConcat DEF v, w
    <3> HIDE DEF both
    <3>3. both \in Seq(Saying)
      BY <3>1 DEF both
    <3>4. View(remoteState, both \o gone) = View(View(remoteState, both), gone)
      BY <2>5, <3>3, ViewOfConcat
    <3>5. channel' = both \o gone
      BY <2>1 DEF both
    <3> QED
      BY <3>2, <3>4, <3>5
  <2> HIDE DEF z
  <2>7. \A f \in Progress!Pulled : sentState'[f] = Progress!SentAfter(f)
    BY <2>1
  <2>8. \A f \in Progress!Pulled : Within(z[f], sentState'[f])
    BY <2>3, <2>5, <2>7 DEF Within
  <2>9. Agreed'
    <3>1. View(remoteState', channel') = z
      BY <1>1, <2>6
    <3> QED
      BY <2>8, <3>1 DEF Agreed
  <2>10. \A f \in Progress!Pulled : /\ Progress!SentAfter(f) \in SentEntry \cup {None}
                                    /\ Progress!SentAfter(f) # None => InAttempt(f, Progress!SentAfter(f))
    BY <1>1, RecordIsThere
  <2>11. channel' \in Seq(Saying)
    BY <1>2, <2>1, <2>3, <2>5
  <2>12. ProgressTypes'
    BY <1>1, <1>2, <2>1, <2>10, <2>11 DEF ProgressTypes
  <2>13. \A f \in Progress!Pulled : sentState'[f] # None => InAttempt(f, sentState'[f])
    BY <2>7, <2>10
  <2>14. There'
    BY <1>1, <2>13 DEF There, InAttempt
  <2> QED
    BY <1>3, <2>9, <2>12, <2>14 DEF ProgressInv
<1> QED
  BY <1>4, <1>5

\* Hearing of the next update changes what is believed, and not what will be.
LEMMA ReceiveKeeps ==
  ASSUME ProgressInv, Progress!Receive
  PROVE  ProgressInv'
<1> DEFINE u == Head(channel)
           rest == Tail(channel)
<1>1. /\ channel # <<>> /\ channel' = rest /\ remoteState' = Progress!Heard(remoteState, u)
      /\ UNCHANGED <<puller, pullTime, looked, sentState, up>>
  BY DEF Progress!Receive, Progress!emitter, Progress!Heard
<1>2. remoteState \in Views /\ channel \in Seq(Saying)
  BY DEF ProgressInv, ProgressTypes
<1>3. u \in Saying /\ rest \in Seq(Saying) /\ <<u>> \in Seq(Saying) /\ channel = <<u>> \o rest
  BY <1>1, <1>2
<1>4. remoteState' \in Views
  BY <1>1, <1>2, <1>3, HeardChanges
<1> DEFINE first == <<u>>
<1>5. first \in Seq(Saying) /\ View(remoteState, first) = Progress!Heard(remoteState, u)
  BY <1>3, ViewOfOne
<1> HIDE DEF rest, u
<1>6. View(remoteState, channel) = View(remoteState', rest)
  <2>1. View(remoteState, channel) = View(remoteState, first \o rest)
    BY <1>3
  <2> HIDE DEF first
  <2>2. View(remoteState, first \o rest) = View(View(remoteState, first), rest)
    BY <1>3, <1>5, ViewOfConcat
  <2> QED
    BY <1>1, <1>5, <2>1, <2>2
<1>7. ProgressTypes'
  BY <1>1, <1>3, <1>4 DEF ProgressInv, ProgressTypes
<1>8. Agreed'
  BY <1>1, <1>6 DEF ProgressInv, Agreed
<1>9. Apart'
  BY <1>1 DEF ProgressInv, Apart
<1>10. OneAttempt' /\ Times' /\ Looking'
  BY <1>1 DEF ProgressInv, OneAttempt, Times, Looking, Progress!Registered
<1>11. There'
  BY <1>1, StaysThere DEF ProgressInv
<1> QED
  BY <1>7, <1>8, <1>9, <1>10, <1>11 DEF ProgressInv

\* Where nothing is on its way and nothing is believed, nothing will be.
LEMMA NothingIsBelieved ==
  ASSUME NEW v, NEW c, c = <<>>, \A f \in Progress!Pulled : v[f] = None, NEW f \in Progress!Pulled, NEW e
  PROVE  Within(View(v, c)[f], e)
<1>1. View(v, c) = v
  BY ViewOfNone
<1> QED
  BY <1>1 DEF Within

\* The connection is lost, and made again.
LEMMA LinkChanges ==
  ASSUME ProgressInv, Progress!Disconnect \/ Progress!Connect
  PROVE  ProgressInv'
<1>1. UNCHANGED <<puller, pullTime, looked, sentState>>
  BY DEF Progress!Disconnect, Progress!Connect, Progress!emitter
<1>2. /\ channel' = <<>> /\ \A f \in Progress!Pulled : remoteState'[f] = None
      /\ remoteState' \in Views /\ up' \in BOOLEAN
  <2>1. CASE Progress!Disconnect
    <3>1. channel' = <<>> /\ remoteState' = [f \in Progress!Pulled |-> None] /\ up' = FALSE
      BY <2>1 DEF Progress!Disconnect
    <3> QED
      BY <3>1 DEF Views
  <2>2. CASE Progress!Connect
    <3>1. ~up /\ channel' = channel /\ remoteState' = remoteState /\ up' = TRUE
      BY <2>2 DEF Progress!Connect
    <3> QED
      BY <3>1 DEF ProgressInv, ProgressTypes, Apart
  <2> QED
    BY <2>1, <2>2
<1>3. ProgressTypes'
  <2>1. channel' \in Seq(Saying)
    BY <1>2
  <2> QED
    BY <1>1, <1>2, <2>1 DEF ProgressInv, ProgressTypes
<1>4. Agreed' /\ Apart'
  <2>1. \A f \in Progress!Pulled : Within(View(remoteState', channel')[f], sentState'[f])
    BY <1>2, NothingIsBelieved
  <2>2. Agreed'
    BY <2>1 DEF Agreed
  <2> QED
    BY <1>2, <2>2 DEF Apart
<1>5. OneAttempt' /\ Times' /\ Looking'
  BY <1>1 DEF ProgressInv, OneAttempt, Times, Looking, Progress!Registered
<1>6. There'
  BY <1>1, StaysThere DEF ProgressInv
<1> QED
  BY <1>3, <1>4, <1>5, <1>6 DEF ProgressInv

\* The emitter looks at the pullers, or waits.
LEMMA LookKeeps ==
  ASSUME ProgressInv, UNCHANGED <<puller, pullTime, sentState, channel, remoteState, up>>,
         looked' = looked \/ looked' = [p \in Progress!Registered |-> puller[p].blocks]
  PROVE  ProgressInv'
<1>1. ProgressTypes' /\ OneAttempt' /\ Times'
  BY DEF ProgressInv, ProgressTypes, OneAttempt, Times
<1>2. Looking'
  <2>1. Progress!Registered' = Progress!Registered
    BY DEF Progress!Registered
  <2> QED
    BY <2>1 DEF ProgressInv, Looking
<1>3. There' /\ Agreed' /\ Apart'
  BY StaysThere, LinkKeeps DEF ProgressInv
<1> QED
  BY <1>1, <1>2, <1>3 DEF ProgressInv

\* No step of the pullers, the emitter and the connection changes that.
LEMMA ProgressKeeps ==
  ASSUME ProgressInv, Progress!Next \/ UNCHANGED progressVars
  PROVE  ProgressInv'
<1>1. CASE \E p \in Pullers : Progress!PullerStep(p)
  BY <1>1, PullerKeeps
<1>2. CASE Progress!TimerExpires \/ Progress!Look \/ UNCHANGED progressVars
  <2>1. UNCHANGED <<puller, pullTime, sentState, channel, remoteState, up>>
    BY <1>2 DEF Progress!TimerExpires, Progress!Look, Progress!link, progressVars
  <2>2. looked' = looked \/ looked' = [p \in Progress!Registered |-> puller[p].blocks]
    BY <1>2 DEF Progress!TimerExpires, Progress!Look, progressVars
  <2> QED
    BY <2>1, <2>2, LookKeeps
<1>3. CASE Progress!Emit
  BY <1>3, EmitKeeps
<1>4. CASE Progress!Receive
  BY <1>4, ReceiveKeeps
<1>5. CASE Progress!Disconnect \/ Progress!Connect
  BY <1>5, LinkChanges
<1> QED
  BY <1>1, <1>2, <1>3, <1>4, <1>5 DEF Progress!Next

\* At first no attempt has begun, and nothing is said.
LEMMA ProgressBegins == Progress!Init => ProgressInv
<1> SUFFICES ASSUME Progress!Init PROVE ProgressInv
  OBVIOUS
<1> DEFINE new == [at |-> "new", blocks |-> {}, created |-> 0, updated |-> 0, available |-> 0]
<1>1. /\ puller = [p \in Pullers |-> new] /\ pullTime = 1 /\ looked = None
      /\ sentState = [f \in Progress!Pulled |-> None] /\ channel = <<>>
      /\ remoteState = [f \in Progress!Pulled |-> None] /\ up = TRUE
  BY DEF Progress!Init
<1>2. new \in PullerState /\ new.at = "new"
  BY DEF PullerState
<1> HIDE DEF new
<1>3. \A p \in Pullers : puller[p] = new
  BY <1>1
<1>4. remoteState \in Views /\ sentState \in [Progress!Pulled -> SentEntry \cup {None}] /\ channel \in Seq(Saying)
  BY <1>1 DEF Views
<1>5. ProgressTypes
  BY <1>1, <1>2, <1>4 DEF ProgressTypes
<1>6. OneAttempt /\ Times /\ Looking /\ There
  BY <1>1, <1>2, <1>3 DEF OneAttempt, Times, Looking, There, Active
<1>7. Agreed
  <2>1. \A f \in Progress!Pulled : remoteState[f] = None
    BY <1>1
  <2>2. \A f \in Progress!Pulled : Within(View(remoteState, channel)[f], sentState[f])
    BY <1>1, <2>1, NothingIsBelieved
  <2> QED
    BY <2>2 DEF Agreed
<1>8. Apart
  BY <1>1 DEF Apart
<1> QED
  BY <1>5, <1>6, <1>7, <1>8 DEF ProgressInv

\* What a device has said of its downloads, heard or on its way, is within what it has on
\* record, and that is in the temporary files of the attempts it was sent for.
THEOREM BeliefsAreWithinWhatIsThere == SpecOne => []ProgressRight
<1>1. InitOne => ProgressInv
  BY ProgressBegins DEF InitOne
<1>2. ProgressInv /\ [NextOne]_<<which, vars, relayVars, serverVars, discoveryVars, progressVars, ignoreVars>> => ProgressInv'
  <2>1. NextOne => Progress!Next \/ UNCHANGED progressVars
    BY DEF NextOne, progressVars
  <2> QED
    BY <2>1, ProgressKeeps
<1>3. ProgressInv => ProgressRight
  <2> SUFFICES ASSUME ProgressInv PROVE Progress!BeliefWithinSent /\ Progress!SentIsThere
    BY DEF ProgressRight
  <2>1. Progress!BeliefWithinSent
    <3>1. up => \A f \in Progress!Pulled : Within(View(remoteState, channel)[f], sentState[f])
      BY DEF ProgressInv, Agreed
    <3>2. Progress!FoldLeft(Progress!Heard, remoteState, channel) = View(remoteState, channel)
      BY DEF View
    <3> QED
      BY <3>1, <3>2 DEF Progress!BeliefWithinSent, Within
  <2>2. Progress!SentIsThere
    BY DEF ProgressInv, There, InAttempt, Progress!SentIsThere
  <2> QED
    BY <2>1, <2>2
<1> QED
  BY <1>1, <1>2, <1>3, PTL DEF SpecOne

-----------------------------------------------------------------------------
(* What patterns match, and when directories can be skipped *)

\* Names, and what stands for them in patterns: strings.
Words == STRING \cup {"*", "**"}
Pattern == [include : BOOLEAN, rooted : BOOLEAN, segs : Seq(Words)]
Below(segs) == segs \o <<"**">>
EndsBelow(segs) == segs[Len(segs)] = "**"
Fits(segs, path) == Ignores!Matches(segs, path)

\* What is above a path is a shorter path of the same names.
LEMMA AboveIs ==
  ASSUME NEW dr \in Seq(Words), NEW path \in Seq(Words), Ignores!IsStrictPrefix(dr, path)
  PROVE  Len(dr) < Len(path) /\ \A i \in 1..Len(dr) : dr[i] = path[i]
<1> DEFINE n == Len(dr)
<1>1. n <= Len(path) /\ SubSeq(dr, 1, n) = SubSeq(path, 1, n) /\ dr # path
  BY DEF Ignores!IsStrictPrefix, Ignores!IsPrefix
<1>2. n \in Nat /\ Len(path) \in Nat
  BY LenProperties
<1>3. \A i \in 1..n : dr[i] = path[i]
  <2>1. \A i \in 1..n : SubSeq(dr, 1, n)[i] = dr[i] /\ SubSeq(path, 1, n)[i] = path[i]
    BY <1>1, <1>2
  <2> QED
    BY <1>1, <2>1
<1>4. n # Len(path)
  <2> SUFFICES ASSUME n = Len(path) PROVE FALSE
    OBVIOUS
  <2>1. dr = path
    BY <1>2, <1>3, SeqEqual
  <2> QED
    BY <1>1, <2>1
<1> QED
  BY <1>1, <1>2, <1>3, <1>4

\* A match gives each name of the path a part of the pattern.
Gives(g, segs, path, n, t) ==
  /\ g \in [1..t -> 1..n]
  /\ \A i \in 1..n : \E j \in 1..t : g[j] = i
  /\ \A j \in 1..t : segs[g[j]] \in {path[j], "*", "**"}
  /\ \A j \in 2..t : g[j] > g[j - 1] \/ (g[j] = g[j - 1] /\ segs[g[j]] = "**")
\* A pattern fits a path if there is such a match.
LEMMA FitsIs ==
  ASSUME NEW segs, NEW path, NEW n, NEW t, DOMAIN segs = 1..n, DOMAIN path = 1..t, Len(path) = t
  PROVE  Fits(segs, path) <=> \E g : Gives(g, segs, path, n, t)
<1>1. Fits(segs, path) <=>
        \E g \in [1..t -> 1..n] :
          /\ \A i \in 1..n : \E j \in 1..t : g[j] = i
          /\ \A j \in 1..t : segs[g[j]] \in {path[j], "*", "**"}
          /\ \A j \in 2..t : g[j] > g[j - 1] \/ (g[j] = g[j - 1] /\ segs[g[j]] = "**")
  BY DEF Fits, Ignores!Matches
<1> QED
  BY <1>1 DEF Gives

\* A pattern that is about what is below a directory is about all of that.
LEMMA FitsBelow ==
  ASSUME NEW segs \in Seq(Words), segs # <<>>, EndsBelow(segs), NEW dr \in Seq(Words), NEW path \in Seq(Words),
         Ignores!IsStrictPrefix(dr, path), Fits(segs, dr)
  PROVE  Fits(segs, path)
<1> DEFINE n == Len(segs)
           d == Len(dr)
           t == Len(path)
<1>1. n \in Nat /\ n >= 1 /\ d \in Nat /\ t \in Nat /\ d < t /\ segs[n] = "**" /\ \A i \in 1..d : dr[i] = path[i]
  BY AboveIs, EmptySeq, LenProperties DEF EndsBelow
<1>2. DOMAIN segs = 1..n /\ DOMAIN dr = 1..d /\ DOMAIN path = 1..t
  BY LenProperties
<1> HIDE DEF n, d, t
<1>3. PICK g \in [1..d -> 1..n] :
        /\ \A i \in 1..n : \E j \in 1..d : g[j] = i
        /\ \A j \in 1..d : segs[g[j]] \in {dr[j], "*", "**"}
        /\ \A j \in 2..d : g[j] > g[j - 1] \/ (g[j] = g[j - 1] /\ segs[g[j]] = "**")
  <2>1. \E g : Gives(g, segs, dr, n, d)
    BY <1>2, FitsIs DEF d
  <2> QED
    BY <2>1 DEF Gives
<1> DEFINE h == [j \in 1..t |-> IF j <= d THEN g[j] ELSE n]
<1>4. h \in [1..t -> 1..n]
  BY <1>1
<1>5. \A i \in 1..n : \E j \in 1..t : h[j] = i
  <2> SUFFICES ASSUME NEW i \in 1..n PROVE \E j \in 1..t : h[j] = i
    OBVIOUS
  <2>1. PICK j \in 1..d : g[j] = i
    BY <1>3
  <2>2. j \in 1..t /\ j <= d
    BY <1>1
  <2> QED
    BY <2>1, <2>2
<1>6. \A j \in 1..t : segs[h[j]] \in {path[j], "*", "**"}
  <2> SUFFICES ASSUME NEW j \in 1..t PROVE segs[h[j]] \in {path[j], "*", "**"}
    OBVIOUS
  <2>1. CASE j <= d
    <3>1. j \in 1..d /\ h[j] = g[j] /\ dr[j] = path[j]
      BY <1>1, <2>1
    <3> QED
      BY <1>3, <3>1
  <2>2. CASE ~(j <= d)
    BY <1>1, <2>2
  <2> QED
    BY <2>1, <2>2
<1>7. \A j \in 2..t : h[j] > h[j - 1] \/ (h[j] = h[j - 1] /\ segs[h[j]] = "**")
  <2> SUFFICES ASSUME NEW j \in 2..t PROVE h[j] > h[j - 1] \/ (h[j] = h[j - 1] /\ segs[h[j]] = "**")
    OBVIOUS
  <2>1. j \in 1..t /\ j - 1 \in 1..t
    BY <1>1
  <2>2. CASE j <= d
    <3>1. j \in 2..d /\ h[j] = g[j] /\ h[j - 1] = g[j - 1]
      BY <1>1, <2>1, <2>2
    <3> QED
      BY <1>3, <3>1
  <2>3. CASE ~(j <= d)
    <3>1. h[j] = n /\ h[j - 1] \in 1..n
      BY <1>4, <2>1, <2>3
    <3> HIDE DEF h
    <3> QED
      BY <1>1, <3>1
  <2> QED
    BY <2>2, <2>3
<1> HIDE DEF h
<1> QED
  <2>1. Gives(h, segs, path, n, t)
    BY <1>4, <1>5, <1>6, <1>7 DEF Gives
  <2> QED
    BY <1>2, <2>1, FitsIs DEF t

\* Such a pattern covers what another like it below it does.
LEMMA FitsAbove ==
  ASSUME NEW segs \in Seq(Words), segs # <<>>, EndsBelow(segs), NEW path \in Seq(Words), Fits(Below(segs), path)
  PROVE  Fits(segs, path)
<1> DEFINE n == Len(segs)
           t == Len(path)
           more == Below(segs)
<1>1. n \in Nat /\ n >= 1 /\ t \in Nat /\ segs[n] = "**"
  BY EmptySeq, LenProperties DEF EndsBelow
<1>2. DOMAIN segs = 1..n /\ DOMAIN path = 1..t /\ DOMAIN more = 1..(n + 1) /\ \A i \in 1..n : more[i] = segs[i]
  BY LenProperties DEF Below
<1> HIDE DEF n, t, more
<1>3. PICK g \in [1..t -> 1..(n + 1)] :
        /\ \A i \in 1..(n + 1) : \E j \in 1..t : g[j] = i
        /\ \A j \in 1..t : more[g[j]] \in {path[j], "*", "**"}
        /\ \A j \in 2..t : g[j] > g[j - 1] \/ (g[j] = g[j - 1] /\ more[g[j]] = "**")
  <2>1. \E g : Gives(g, more, path, n + 1, t)
    BY <1>2, FitsIs DEF t, more
  <2> QED
    BY <2>1 DEF Gives
<1> DEFINE h == [j \in 1..t |-> IF g[j] = n + 1 THEN n ELSE g[j]]
<1>4. \A j \in 1..t : g[j] \in 1..(n + 1) /\ (g[j] # n + 1 => g[j] \in 1..n)
  BY <1>1, <1>3
<1>5. h \in [1..t -> 1..n]
  BY <1>1, <1>4
<1>6. \A i \in 1..n : \E j \in 1..t : h[j] = i
  <2> SUFFICES ASSUME NEW i \in 1..n PROVE \E j \in 1..t : h[j] = i
    OBVIOUS
  <2>1. i \in 1..(n + 1) /\ i # n + 1
    BY <1>1
  <2>2. PICK j \in 1..t : g[j] = i
    BY <1>3, <2>1
  <2> QED
    BY <2>1, <2>2
<1>7. \A j \in 1..t : segs[h[j]] \in {path[j], "*", "**"}
  <2> SUFFICES ASSUME NEW j \in 1..t PROVE segs[h[j]] \in {path[j], "*", "**"}
    OBVIOUS
  <2>1. CASE g[j] = n + 1
    BY <1>1, <2>1
  <2>2. CASE g[j] # n + 1
    <3>1. h[j] = g[j] /\ g[j] \in 1..n
      BY <1>4, <2>2
    <3> QED
      BY <1>2, <1>3, <3>1
  <2> QED
    BY <2>1, <2>2
<1>8. \A j \in 2..t : h[j] > h[j - 1] \/ (h[j] = h[j - 1] /\ segs[h[j]] = "**")
  <2> SUFFICES ASSUME NEW j \in 2..t PROVE h[j] > h[j - 1] \/ (h[j] = h[j - 1] /\ segs[h[j]] = "**")
    OBVIOUS
  <2>1. j \in 1..t /\ j - 1 \in 1..t
    BY <1>1
  <2>2. g[j] > g[j - 1] \/ (g[j] = g[j - 1] /\ more[g[j]] = "**")
    BY <1>3
  <2>3. CASE g[j] = n + 1
    <3>1. h[j] = n /\ h[j - 1] \in 1..n
      BY <1>5, <2>1, <2>3
    <3> HIDE DEF h
    <3> QED
      BY <1>1, <3>1
  <2>4. CASE g[j] # n + 1
    <3>1. g[j] \in 1..n /\ g[j - 1] \in 1..(n + 1) /\ h[j] = g[j]
      BY <1>4, <2>1, <2>4
    <3>2. g[j - 1] # n + 1
      BY <1>1, <2>2, <3>1
    <3>3. h[j - 1] = g[j - 1]
      BY <2>1, <3>2
    <3> HIDE DEF h
    <3> QED
      BY <1>2, <2>2, <3>1, <3>3
  <2> QED
    BY <2>3, <2>4
<1> HIDE DEF h
<1> QED
  <2>1. Gives(h, segs, path, n, t)
    BY <1>5, <1>6, <1>7, <1>8 DEF Gives
  <2> QED
    BY <1>2, <2>1, FitsIs DEF t

\* A pattern of one part is about one name, or about everything.
LEMMA FitsOne ==
  ASSUME NEW sg \in Words, NEW path \in Seq(Words), path # <<>>
  PROVE  /\ Len(path) >= 2 /\ Fits(<<sg>>, path) => sg = "**"
         /\ (\A i \in DOMAIN path : sg \in {path[i], "*", "**"}) /\ (Len(path) >= 2 => sg = "**") => Fits(<<sg>>, path)
<1> DEFINE t == Len(path)
           one == <<sg>>
<1>1. t \in Nat /\ t >= 1 /\ DOMAIN path = 1..t /\ DOMAIN one = {1} /\ one[1] = sg
  BY EmptySeq, LenProperties
<1> HIDE DEF one
<1>2. ASSUME t >= 2, Fits(one, path) PROVE sg = "**"
  <2>1. PICK g \in [1..t -> {1}] : \A j \in 2..t : g[j] > g[j - 1] \/ (g[j] = g[j - 1] /\ one[g[j]] = "**")
    BY <1>1, <1>2 DEF Fits, Ignores!Matches
  <2>2. 2 \in 2..t /\ 2 - 1 \in 1..t /\ 2 \in 1..t
    BY <1>1, <1>2
  <2>3. g[2] = 1 /\ g[2 - 1] = 1
    BY <2>2
  <2> QED
    BY <1>1, <2>1, <2>2, <2>3
<1>3. ASSUME \A i \in 1..t : sg \in {path[i], "*", "**"}, t >= 2 => sg = "**" PROVE Fits(one, path)
  <2> DEFINE h == [j \in 1..t |-> 1]
  <2>1. h \in [1..t -> {1}] /\ \A j \in 1..t : h[j] = 1
    OBVIOUS
  <2>2. 1 \in 1..t /\ \A j \in 2..t : t >= 2 /\ j \in 1..t /\ j - 1 \in 1..t
    BY <1>1
  <2> HIDE DEF h
  <2>3. \A i \in {1} : \E j \in 1..t : h[j] = i
    BY <2>1, <2>2
  <2>4. \A j \in 1..t : one[h[j]] \in {path[j], "*", "**"}
    BY <1>1, <1>3, <2>1
  <2>5. \A j \in 2..t : h[j] > h[j - 1] \/ (h[j] = h[j - 1] /\ one[h[j]] = "**")
    BY <1>1, <1>3, <2>1, <2>2
  <2> HIDE DEF t
  <2> QED
    BY <1>1, <2>1, <2>3, <2>4, <2>5 DEF Fits, Ignores!Matches, t
<1> QED
  BY <1>1, <1>2, <1>3 DEF one

\* A pattern for what is below what another covers does so.
LEMMA FitsUnder ==
  ASSUME NEW segs \in Seq(Words), segs # <<>>, NEW dr \in Seq(Words), NEW path \in Seq(Words),
         Ignores!IsStrictPrefix(dr, path), Fits(segs, dr)
  PROVE  Fits(Below(segs), path)
<1> DEFINE n == Len(segs)
           d == Len(dr)
           t == Len(path)
           more == Below(segs)
<1>1. n \in Nat /\ d \in Nat /\ t \in Nat /\ d < t /\ \A i \in 1..d : dr[i] = path[i]
  BY AboveIs, LenProperties
<1>2. /\ DOMAIN segs = 1..n /\ DOMAIN dr = 1..d /\ DOMAIN path = 1..t /\ DOMAIN more = 1..(n + 1)
      /\ more[n + 1] = "**" /\ \A i \in 1..n : more[i] = segs[i]
  BY LenProperties DEF Below
<1> HIDE DEF n, t, d, more
<1>3. PICK g : Gives(g, segs, dr, n, d)
  BY <1>2, FitsIs DEF d
<1>4. /\ g \in [1..d -> 1..n] /\ \A i \in 1..n : \E j \in 1..d : g[j] = i
      /\ \A j \in 1..d : segs[g[j]] \in {dr[j], "*", "**"}
      /\ \A j \in 2..d : g[j] > g[j - 1] \/ (g[j] = g[j - 1] /\ segs[g[j]] = "**")
  BY <1>3 DEF Gives
<1> DEFINE h == [j \in 1..t |-> IF j <= d THEN g[j] ELSE n + 1]
<1>5. h \in [1..t -> 1..(n + 1)]
  <2>1. \A j \in 1..t : j <= d => j \in 1..d /\ g[j] \in 1..n /\ g[j] \in 1..(n + 1)
    BY <1>1, <1>4
  <2>2. n + 1 \in 1..(n + 1)
    BY <1>1
  <2> QED
    BY <2>1, <2>2
<1>6. \A i \in 1..(n + 1) : \E j \in 1..t : h[j] = i
  <2> SUFFICES ASSUME NEW i \in 1..(n + 1) PROVE \E j \in 1..t : h[j] = i
    OBVIOUS
  <2>1. CASE i = n + 1
    <3>1. t \in 1..t /\ ~(t <= d)
      BY <1>1
    <3> QED
      BY <2>1, <3>1
  <2>2. CASE i # n + 1
    <3>1. i \in 1..n
      BY <1>1, <2>2
    <3>2. PICK j \in 1..d : g[j] = i
      BY <1>4, <3>1
    <3>3. j \in 1..t /\ j <= d
      BY <1>1
    <3> QED
      BY <3>2, <3>3
  <2> QED
    BY <2>1, <2>2
<1>7. \A j \in 1..t : more[h[j]] \in {path[j], "*", "**"}
  <2> SUFFICES ASSUME NEW j \in 1..t PROVE more[h[j]] \in {path[j], "*", "**"}
    OBVIOUS
  <2>1. CASE j <= d
    <3>1. j \in 1..d /\ h[j] = g[j] /\ dr[j] = path[j]
      BY <1>1, <2>1
    <3>2. more[g[j]] = segs[g[j]]
      BY <1>2, <1>4, <3>1
    <3> QED
      BY <1>4, <3>1, <3>2
  <2>2. CASE ~(j <= d)
    BY <1>2, <2>2
  <2> QED
    BY <2>1, <2>2
<1>8. \A j \in 2..t : h[j] > h[j - 1] \/ (h[j] = h[j - 1] /\ more[h[j]] = "**")
  <2> SUFFICES ASSUME NEW j \in 2..t PROVE h[j] > h[j - 1] \/ (h[j] = h[j - 1] /\ more[h[j]] = "**")
    OBVIOUS
  <2>1. j \in 1..t /\ j - 1 \in 1..t
    BY <1>1
  <2>2. CASE j <= d
    <3>1. j \in 2..d /\ j \in 1..d /\ h[j] = g[j] /\ h[j - 1] = g[j - 1]
      BY <1>1, <2>1, <2>2
    <3>2. more[g[j]] = segs[g[j]]
      BY <1>2, <1>4, <3>1
    <3> QED
      BY <1>4, <3>1, <3>2
  <2>3. CASE ~(j <= d)
    <3>1. h[j] = n + 1 /\ h[j - 1] \in 1..(n + 1)
      BY <1>5, <2>1, <2>3
    <3> HIDE DEF h
    <3> QED
      BY <1>1, <1>2, <3>1
  <2> QED
    BY <2>2, <2>3
<1> HIDE DEF h
<1>9. Gives(h, more, path, n + 1, t)
  BY <1>5, <1>6, <1>7, <1>8 DEF Gives
<1>10. Fits(more, path)
  BY <1>2, <1>9, FitsIs DEF t
<1> QED
  BY <1>10 DEF more

\* What a pattern of one part and what is below it cover, they also do for directories above.
LEMMA FitsOneBelow ==
  ASSUME NEW sg \in Words, NEW dr \in Seq(Words), NEW path \in Seq(Words), dr # <<>>,
         Ignores!IsStrictPrefix(dr, path), Fits(Below(<<sg>>), path)
  PROVE  Fits(<<sg>>, dr) \/ Fits(Below(<<sg>>), dr)
<1> DEFINE d == Len(dr)
           t == Len(path)
           two == Below(<<sg>>)
<1>1. d \in Nat /\ d >= 1 /\ t \in Nat /\ d < t /\ \A i \in 1..d : dr[i] = path[i]
  BY AboveIs, EmptySeq, LenProperties
<1>2. DOMAIN dr = 1..d /\ DOMAIN path = 1..t /\ DOMAIN two = 1..2 /\ two[1] = sg /\ two[2] = "**"
  BY LenProperties DEF Below
<1> HIDE DEF two
<1>3. PICK g : Gives(g, two, path, 2, t)
  BY <1>2, FitsIs DEF two
<1>4. /\ g \in [1..t -> 1..2] /\ \A i \in 1..2 : \E j \in 1..t : g[j] = i
      /\ \A j \in 1..t : two[g[j]] \in {path[j], "*", "**"}
      /\ \A j \in 2..t : g[j] > g[j - 1] \/ (g[j] = g[j - 1] /\ two[g[j]] = "**")
  BY <1>3 DEF Gives
<1> HIDE DEF d, t
<1>5. 1 \in 1..d /\ g[1] = 1
  <2> DEFINE N == {j \in 1..t : g[j] = 1}
  <2>1. N # {} /\ N \subseteq Nat
    BY <1>4
  <2>2. PICK j \in N : \A k \in N : j <= k
    <3> HIDE DEF N
    <3> QED
      BY <2>1, LeastOf
  <2>3. j = 1
    <3> SUFFICES ASSUME j # 1 PROVE FALSE
      OBVIOUS
    <3>1. j \in 1..t /\ g[j] = 1
      BY <2>2
    <3>2. j \in 2..t /\ j - 1 \in 1..t /\ ~(j <= j - 1)
      BY <1>1, <3>1
    <3>3. g[j - 1] \in 1..2 /\ ~(1 > g[j - 1])
      BY <1>4, <3>2
    <3>4. g[j - 1] = 1
      BY <1>4, <3>1, <3>2, <3>3
    <3> QED
      BY <2>2, <3>2, <3>4
  <2> QED
    BY <1>1, <2>2, <2>3
<1>6. \A j \in 1..d : j \in 1..t /\ two[g[j]] \in {dr[j], "*", "**"}
  BY <1>1, <1>4
<1>7. CASE \E j \in 1..d : g[j] = 2
  <2> DEFINE h == [j \in 1..d |-> g[j]]
  <2>1. h \in [1..d -> 1..2] /\ \A j \in 1..d : h[j] = g[j]
    BY <1>4, <1>6
  <2>2. \A j \in 2..d : j \in 2..t /\ j \in 1..d /\ j - 1 \in 1..d
    BY <1>1
  <2> HIDE DEF h
  <2>3. \A i \in 1..2 : \E j \in 1..d : h[j] = i
    BY <1>5, <1>7, <2>1
  <2>4. \A j \in 1..d : two[h[j]] \in {dr[j], "*", "**"}
    BY <1>6, <2>1
  <2>5. \A j \in 2..d : h[j] > h[j - 1] \/ (h[j] = h[j - 1] /\ two[h[j]] = "**")
    BY <1>4, <2>1, <2>2
  <2>6. Gives(h, two, dr, 2, d)
    BY <2>1, <2>3, <2>4, <2>5 DEF Gives
  <2>7. Fits(two, dr)
    BY <1>2, <2>6, FitsIs DEF d
  <2> QED
    BY <2>7 DEF two
<1>8. CASE ~\E j \in 1..d : g[j] = 2
  <2>1. \A j \in 1..d : g[j] = 1
    BY <1>4, <1>6, <1>8
  <2>2. \A j \in 1..d : sg \in {dr[j], "*", "**"}
    BY <1>2, <1>6, <2>1
  <2>3. ASSUME d >= 2 PROVE sg = "**"
    <3>1. 2 \in 2..t /\ 2 \in 1..d /\ 2 - 1 \in 1..d
      BY <1>1, <2>3
    <3>2. g[2] = 1 /\ g[2 - 1] = 1
      BY <2>1, <3>1
    <3> QED
      BY <1>2, <1>4, <3>1, <3>2
  <2> QED
    BY <1>2, <2>2, <2>3, FitsOne DEF d
<1> QED
  BY <1>7, <1>8

-----------------------------------------------------------------------------
\* What the loop over the patterns remembers, as far as it has come.
Remembers(ps, m, g) ==
  g = [n \in 0..m |-> IF n = 0 THEN <<>>
                      ELSE IF Ignores!Extends(ps[n], g[n - 1]) THEN g[n - 1] ELSE ps[n].segs]

\* There is always something.
LEMMA RemembersExist == ASSUME NEW ps, NEW n \in Nat PROVE \E g : Remembers(ps, n, g)
<1> DEFINE bad == {i \in Nat : ~\E g : Remembers(ps, i, g)}
<1> SUFFICES ASSUME bad # {} PROVE FALSE
  OBVIOUS
<1>1. PICK m \in bad : \A j \in bad : m <= j
  <2>1. bad \subseteq Nat
    OBVIOUS
  <2> HIDE DEF bad
  <2> QED
    BY <2>1, LeastOf
<1>2. m \in Nat /\ ~\E g : Remembers(ps, m, g)
  OBVIOUS
<1>3. m # 0
  <2> DEFINE none == [i \in 0..0 |-> <<>>]
  <2>1. none = [i \in 0..0 |-> IF i = 0 THEN <<>> ELSE IF Ignores!Extends(ps[i], none[i - 1]) THEN none[i - 1] ELSE ps[i].segs]
    <3>1. \A i \in 0..0 : i = 0
      OBVIOUS
    <3> QED
      BY <3>1
  <2>2. Remembers(ps, 0, none)
    BY <2>1 DEF Remembers
  <2> QED
    BY <1>2, <2>2
<1>4. m - 1 \in Nat /\ ~(m <= m - 1)
  BY <1>2, <1>3
<1>5. PICK g : Remembers(ps, m - 1, g)
  BY <1>1, <1>4
<1> DEFINE next(i, w) == IF i = 0 THEN <<>> ELSE IF Ignores!Extends(ps[i], w[i - 1]) THEN w[i - 1] ELSE ps[i].segs
           k == [i \in 0..m |-> IF i < m THEN g[i] ELSE next(m, g)]
<1>6. \A i \in 0..(m - 1) : g[i] = next(i, g)
  BY <1>5 DEF Remembers
<1>7. ASSUME NEW i \in 0..m PROVE k[i] = next(i, k)
  <2>1. i # 0 => i - 1 \in 0..m /\ i - 1 < m /\ k[i - 1] = g[i - 1]
    BY <1>2
  <2>2. next(i, k) = next(i, g)
    <3> HIDE DEF k
    <3> QED
      BY <2>1
  <2>3. k[i] = next(i, g)
    <3>1. CASE i < m
      <4>1. i \in 0..(m - 1) /\ k[i] = g[i]
        BY <1>2, <3>1
      <4> HIDE DEF k, next
      <4> QED
        BY <1>6, <4>1
    <3>2. CASE ~(i < m)
      <4>1. i = m /\ k[i] = next(m, g)
        BY <1>2, <3>2
      <4> QED
        BY <4>1
    <3> QED
      BY <3>1, <3>2
  <2> QED
    BY <2>2, <2>3
<1>8. k = [i \in 0..m |-> k[i]]
  OBVIOUS
<1>9. k = [i \in 0..m |-> next(i, k)]
  <2> HIDE DEF k, next
  <2> QED
    BY <1>7, <1>8
<1>10. Remembers(ps, m, k)
  <2> HIDE DEF k
  <2> QED
    BY <1>9 DEF Remembers
<1> QED
  BY <1>2, <1>10

\* The pattern that is remembered is one that came before, and did not extend another.
LEMMA PreviousIs ==
  ASSUME NEW ps, Len(ps) \in Nat, NEW n \in 1..Len(ps), Ignores!Previous(ps)[n - 1] # <<>>
  PROVE  \E k \in 1..(n - 1) : /\ Ignores!Previous(ps)[n - 1] = ps[k].segs
                               /\ ~Ignores!Extends(ps[k], Ignores!Previous(ps)[k - 1])
<1> DEFINE l == Len(ps)
           g == Ignores!Previous(ps)
           Good(i) == g[i] = <<>> \/ \E k \in 1..i : g[i] = ps[k].segs /\ ~Ignores!Extends(ps[k], g[k - 1])
           bad == {i \in 0..l : ~Good(i)}
<1>1. Remembers(ps, l, g)
  <2> DEFINE f == CHOOSE h : Remembers(ps, l, h)
  <2>1. Remembers(ps, l, f)
    BY RemembersExist
  <2>2. g = f
    BY DEF Ignores!Previous, Remembers
  <2> QED
    BY <2>1, <2>2
<1> HIDE DEF g
<1>2. g[0] = <<>> /\ \A i \in 1..l : g[i] = IF Ignores!Extends(ps[i], g[i - 1]) THEN g[i - 1] ELSE ps[i].segs
  <2>1. \A i \in 0..l : g[i] = IF i = 0 THEN <<>> ELSE IF Ignores!Extends(ps[i], g[i - 1]) THEN g[i - 1] ELSE ps[i].segs
    BY <1>1 DEF Remembers
  <2>2. \A i \in 1..l : i \in 0..l /\ i # 0
    OBVIOUS
  <2> QED
    BY <2>1, <2>2
<1> HIDE DEF l
<1>3. bad = {}
  <2> SUFFICES ASSUME bad # {} PROVE FALSE
    OBVIOUS
  <2>0. l \in Nat
    BY DEF l
  <2>1. PICK i \in bad : \A j \in bad : i <= j
    <3>1. bad \subseteq Nat
      BY <2>0
    <3> HIDE DEF bad
    <3> QED
      BY <3>1, LeastOf
  <2>2. i \in 0..l /\ ~Good(i)
    OBVIOUS
  <2>3. i # 0
    BY <1>2, <2>2
  <2>4. i \in 1..l /\ i - 1 \in 0..l /\ ~(i <= i - 1) /\ i \in 1..i /\ \A k \in 1..(i - 1) : k \in 1..i
    BY <2>0, <2>2, <2>3
  <2>5. Good(i - 1)
    BY <2>1, <2>4
  <2>6. Good(i)
    <3>1. CASE Ignores!Extends(ps[i], g[i - 1])
      <4>1. g[i] = g[i - 1]
        BY <1>2, <2>4, <3>1
      <4> QED
        BY <2>4, <2>5, <4>1
    <3>2. CASE ~Ignores!Extends(ps[i], g[i - 1])
      <4>1. g[i] = ps[i].segs
        BY <1>2, <2>4, <3>2
      <4> QED
        BY <2>4, <3>2, <4>1
    <3> QED
      BY <3>1, <3>2
  <2> QED
    BY <2>2, <2>6
<1>4. n - 1 \in 0..l
  BY DEF l
<1>5. Good(n - 1)
  BY <1>3, <1>4
<1> QED
  BY <1>5 DEF g

Between(i, k, j) == (i < k /\ k < j) \/ (j < k /\ k < i)

\* Each pattern covers what is below what it covers, or there is one like it, with none of the
\* other kind in between, that does.
Covered(ps) ==
  \A i \in 1..Len(ps) :
    EndsBelow(ps[i].segs) \/ \E j \in 1..Len(ps) : /\ ps[j].segs = Below(ps[i].segs) /\ ps[j].include = ps[i].include
                                                  /\ \A k \in 1..Len(ps) : Between(i, k, j) => ps[k].include = ps[i].include
PatternList(ps) == ps \in Seq(Pattern) /\ \A i \in 1..Len(ps) : ps[i].segs # <<>>

\* A pattern that is not in the way of skipping directories, and does not fit one, does not fit
\* what is below it, unless one before it fits the directory.
LEMMA OneSkips ==
  ASSUME NEW p \in Pattern, p.segs # <<>>, p.include = FALSE, Ignores!AllowsSkipping(p),
         NEW dr \in Seq(Words), NEW path \in Seq(Words), dr # <<>>, Ignores!IsStrictPrefix(dr, path)
  PROVE  /\ Fits(p.segs, path) => Fits(p.segs, dr)
         /\ Fits(Below(p.segs), path) => Fits(p.segs, dr) \/ Fits(Below(p.segs), dr)
<1>1. Len(p.segs) = 1 /\ p.segs \in Seq(Words)
  BY DEF Ignores!AllowsSkipping, Pattern
<1> DEFINE sg == p.segs[1]
<1>2. sg \in Words /\ p.segs = <<sg>>
  BY <1>1
<1> HIDE DEF sg
<1>3. ASSUME Fits(<<sg>>, path) PROVE Fits(<<sg>>, dr)
  <2>1. Len(path) \in Nat /\ Len(path) >= 2 /\ path # <<>> /\ DOMAIN dr = 1..Len(dr)
    BY AboveIs, EmptySeq, LenProperties
  <2>2. sg = "**"
    BY <1>2, <1>3, <2>1, FitsOne
  <2> QED
    BY <1>2, <2>2, FitsOne
<1> QED
  BY <1>2, <1>3, FitsOneBelow

\* If no pattern is in the way of skipping directories, all that is in an ignored one is ignored.
LEMMA SkipsRight ==
  ASSUME NEW ps, PatternList(ps), Covered(ps), Ignores!Skip(ps),
         NEW dr \in Seq(Words), NEW path \in Seq(Words), dr # <<>>, Ignores!IsStrictPrefix(dr, path),
         Ignores!Ignored(ps, dr)
  PROVE  Ignores!Ignored(ps, path)
<1> DEFINE l == Len(ps)
           Hit(i, pth) == Fits(ps[i].segs, pth)
           In(i) == ps[i].include
<1>1. /\ l \in Nat /\ DOMAIN ps = 1..l
      /\ \A i \in 1..l : ps[i] \in Pattern /\ ps[i].segs \in Seq(Words) /\ ps[i].segs # <<>> /\ ps[i].include \in BOOLEAN
  <2>1. l \in Nat /\ DOMAIN ps = 1..l /\ \A i \in 1..l : ps[i] \in Pattern
    BY LenProperties, ElementOfSeq DEF PatternList
  <2> QED
    BY <2>1 DEF PatternList, Pattern
<1>2. PICK i \in 1..l : Hit(i, dr) /\ In(i) /\ \A j \in 1..(i - 1) : ~Hit(j, dr)
  BY <1>1 DEF Ignores!Ignored, Fits
<1>3. /\ \A j \in 1..l : \/ EndsBelow(ps[j].segs)
                         \/ \E k \in 1..l : /\ ps[k].segs = Below(ps[j].segs) /\ In(k) = In(j)
                                            /\ \A q \in 1..l : Between(j, q, k) => In(q) = In(j)
  BY DEF Covered
<1>4. \A j \in 1..l : Ignores!Extends(ps[j], Ignores!Previous(ps)[j - 1]) \/ Ignores!AllowsSkipping(ps[j])
  BY <1>1 DEF Ignores!Skip
<1>5. \A j \in 1..l : EndsBelow(ps[j].segs) /\ Hit(j, dr) => Hit(j, path)
  BY <1>1, FitsBelow
<1>6. \A j \in 1..l : EndsBelow(ps[j].segs) /\ Fits(Below(ps[j].segs), path) => Hit(j, path)
  BY <1>1, FitsAbove
\* A pattern that includes what is in the directory, before any that excludes comes.
<1>7. PICK m \in 1..l : Hit(m, path) /\ In(m) /\ \A q \in 1..l : Between(i, q, m) => In(q)
  <2>1. CASE EndsBelow(ps[i].segs)
    <3>1. \A q \in 1..l : ~Between(i, q, i)
      BY <1>1 DEF Between
    <3> QED
      BY <1>2, <1>5, <2>1, <3>1
  <2>2. CASE ~EndsBelow(ps[i].segs)
    <3>1. PICK m \in 1..l : ps[m].segs = Below(ps[i].segs) /\ In(m) = In(i) /\ \A q \in 1..l : Between(i, q, m) => In(q) = In(i)
      BY <1>3, <2>2
    <3>2. Fits(Below(ps[i].segs), path)
      BY <1>1, <1>2, FitsUnder
    <3> QED
      BY <1>2, <3>1, <3>2
  <2> QED
    BY <2>1, <2>2
<1>8. PICK f \in 1..l : Hit(f, path) /\ \A j \in 1..l : Hit(j, path) => f <= j
  <2> DEFINE N == {j \in 1..l : Hit(j, path)}
  <2>1. N # {} /\ N \subseteq Nat
    BY <1>7
  <2>2. \E j \in N : \A k \in N : j <= k
    <3> HIDE DEF N
    <3> QED
      BY <2>1, LeastOf
  <2> QED
    BY <2>2
<1>9. In(f)
  <2> SUFFICES ASSUME ~In(f) PROVE FALSE
    OBVIOUS
  <2>1. f < i
    <3>1. f <= m /\ f # m /\ f # i /\ ~Between(i, f, m)
      BY <1>2, <1>7, <1>8, <2>1
    <3> QED
      BY <1>1, <3>1 DEF Between
  <2>2. \A j \in 1..l : j <= f => ~Hit(j, dr)
    <3>1. \A j \in 1..l : j <= f => j \in 1..(i - 1)
      BY <1>1, <2>1
    <3> QED
      BY <1>2, <3>1
  <2> DEFINE prev == Ignores!Previous(ps)
  <2>3. CASE Ignores!AllowsSkipping(ps[f])
    <3>1. Hit(f, dr)
      BY <1>1, <1>8, <2>3, OneSkips
    <3> QED
      BY <1>1, <2>2, <3>1
  <2>4. CASE Ignores!Extends(ps[f], prev[f - 1])
    <3>1. prev[f - 1] # <<>> /\ ps[f].segs = Below(prev[f - 1])
      BY <2>4 DEF Ignores!Extends, Below
    <3>2. PICK k \in 1..(f - 1) : prev[f - 1] = ps[k].segs /\ ~Ignores!Extends(ps[k], prev[k - 1])
      <4> HIDE DEF prev
      <4> QED
        BY <1>1, <3>1, PreviousIs DEF prev
    <3>3. k \in 1..l /\ k < f /\ k <= f
      BY <1>1
    <3> HIDE DEF prev
    <3>4. Fits(Below(ps[k].segs), path)
      BY <1>8, <3>1, <3>2
    <3>5. CASE ~In(k)
      <4>1. Ignores!AllowsSkipping(ps[k])
        BY <1>4, <3>2, <3>3 DEF prev
      <4>2. Hit(k, dr) \/ Fits(Below(ps[k].segs), dr)
        BY <1>1, <3>3, <3>4, <3>5, <4>1, OneSkips
      <4>3. Hit(k, dr) \/ Hit(f, dr)
        BY <3>1, <3>2, <4>2
      <4> QED
        BY <1>1, <2>2, <3>3, <4>3
    <3>6. CASE In(k)
      <4>1. ~Hit(k, path)
        BY <1>1, <1>8, <3>3
      <4>2. ~EndsBelow(ps[k].segs)
        BY <1>6, <3>3, <3>4, <4>1
      <4>3. PICK j \in 1..l : /\ ps[j].segs = Below(ps[k].segs) /\ In(j) = In(k)
                              /\ \A q \in 1..l : Between(k, q, j) => In(q) = In(k)
        BY <1>3, <3>3, <4>2
      <4>4. f <= j /\ f # j
        BY <1>8, <2>1, <3>4, <3>6, <4>3
      <4>5. Between(k, f, j)
        BY <1>1, <3>3, <4>4 DEF Between
      <4> QED
        BY <3>6, <4>3, <4>5
    <3> QED
      BY <3>5, <3>6
  <2> QED
    BY <1>4, <2>3, <2>4
<1>10. \A j \in 1..(f - 1) : ~Hit(j, path)
  BY <1>1, <1>8
<1> QED
  BY <1>1, <1>8, <1>9, <1>10 DEF Ignores!Ignored, Fits

\* The parts of a list that are put one after the other.
LEMMA PutTogether ==
  ASSUME NEW S, NEW u \in Seq(S), NEW w \in Seq(S)
  PROVE  /\ u \o w \in Seq(S) /\ Len(u \o w) = Len(u) + Len(w) /\ Len(u) \in Nat /\ Len(w) \in Nat
         /\ \A i \in 1..Len(u) : (u \o w)[i] = u[i] /\ i \in 1..Len(u \o w)
         /\ \A i \in 1..Len(w) : (u \o w)[Len(u) + i] = w[i] /\ Len(u) + i \in 1..Len(u \o w)
         /\ \A i \in 1..Len(u \o w) : i \in 1..Len(u) \/ (i - Len(u) \in 1..Len(w) /\ Len(u) + (i - Len(u)) = i)
<1>1. u \o w \in Seq(S) /\ Len(u \o w) = Len(u) + Len(w) /\ Len(u) \in Nat /\ Len(w) \in Nat
  BY ConcatProperties, LenProperties
<1>2. \A i \in 1..(Len(u) + Len(w)) : (u \o w)[i] = IF i <= Len(u) THEN u[i] ELSE w[i - Len(u)]
  BY ConcatProperties
<1> DEFINE a1 == Len(u)
           a2 == Len(w)
           both == u \o w
<1>3. both \in Seq(S) /\ Len(both) = a1 + a2 /\ a1 \in Nat /\ a2 \in Nat
  BY <1>1
<1>4. \A i \in 1..(a1 + a2) : both[i] = IF i <= a1 THEN u[i] ELSE w[i - a1]
  BY <1>2
<1> SUFFICES /\ both \in Seq(S) /\ Len(both) = a1 + a2 /\ a1 \in Nat /\ a2 \in Nat
             /\ \A i \in 1..a1 : both[i] = u[i] /\ i \in 1..Len(both)
             /\ \A i \in 1..a2 : both[a1 + i] = w[i] /\ a1 + i \in 1..Len(both)
             /\ \A i \in 1..Len(both) : i \in 1..a1 \/ (i - a1 \in 1..a2 /\ a1 + (i - a1) = i)
  OBVIOUS
<1> HIDE DEF a1, a2, both
<1>5. \A i \in 1..a1 : i \in 1..(a1 + a2) /\ i <= a1
  BY <1>3
<1>6. \A i \in 1..a2 : a1 + i \in 1..(a1 + a2) /\ ~(a1 + i <= a1) /\ (a1 + i) - a1 = i
  BY <1>3
<1>7. \A i \in 1..(a1 + a2) : i \in 1..a1 \/ (i - a1 \in 1..a2 /\ a1 + (i - a1) = i)
  BY <1>3
<1>8. \A i \in 1..a1 : both[i] = u[i] /\ i \in 1..Len(both)
  BY <1>3, <1>4, <1>5
<1>9. \A i \in 1..a2 : both[a1 + i] = w[i] /\ a1 + i \in 1..Len(both)
  BY <1>3, <1>4, <1>6
<1> QED
  BY <1>3, <1>7, <1>8, <1>9

\* Of two lists in which what is below is covered, one after the other, it is, too.
LEMMA CoveredTogether ==
  ASSUME NEW u, NEW w, PatternList(u), PatternList(w), Covered(u), Covered(w)
  PROVE  PatternList(u \o w) /\ Covered(u \o w)
<1> DEFINE l1 == Len(u)
           l2 == Len(w)
           both == u \o w
           l == Len(both)
<1>1. u \in Seq(Pattern) /\ w \in Seq(Pattern)
  BY DEF PatternList
<1>2. /\ both \in Seq(Pattern) /\ l = l1 + l2 /\ l1 \in Nat /\ l2 \in Nat
      /\ \A i \in 1..l1 : both[i] = u[i] /\ i \in 1..l
      /\ \A i \in 1..l2 : both[l1 + i] = w[i] /\ l1 + i \in 1..l
      /\ \A i \in 1..l : i \in 1..l1 \/ (i - l1 \in 1..l2 /\ l1 + (i - l1) = i)
  BY <1>1, PutTogether
<1>3. /\ \A i \in 1..l1 : u[i].segs # <<>>
      /\ \A i \in 1..l2 : w[i].segs # <<>>
  BY DEF PatternList
<1>4. \A i \in 1..l1 :
        EndsBelow(u[i].segs) \/ \E j \in 1..l1 : /\ u[j].segs = Below(u[i].segs) /\ u[j].include = u[i].include
                                                 /\ \A k \in 1..l1 : Between(i, k, j) => u[k].include = u[i].include
  BY DEF Covered
<1>5. \A i \in 1..l2 :
        EndsBelow(w[i].segs) \/ \E j \in 1..l2 : /\ w[j].segs = Below(w[i].segs) /\ w[j].include = w[i].include
                                                 /\ \A k \in 1..l2 : Between(i, k, j) => w[k].include = w[i].include
  BY DEF Covered
<1> SUFFICES PatternList(both) /\ Covered(both)
  OBVIOUS
<1> HIDE DEF both, l, l1, l2
<1>6. PatternList(both)
  <2>1. ASSUME NEW i \in 1..l PROVE both[i].segs # <<>>
    <3>1. CASE i \in 1..l1
      BY <1>2, <1>3, <3>1
    <3>2. CASE i \notin 1..l1
      <4> DEFINE r == i - l1
      <4>1. r \in 1..l2 /\ l1 + r = i
        BY <1>2, <3>2
      <4> HIDE DEF r
      <4>2. both[i] = w[r]
        BY <1>2, <4>1
      <4> QED
        BY <1>3, <4>1, <4>2
    <3> QED
      BY <3>1, <3>2
  <2> QED
    BY <1>2, <2>1 DEF PatternList, l
<1>7. ASSUME NEW i \in 1..l, ~EndsBelow(both[i].segs)
      PROVE  \E j \in 1..l : /\ both[j].segs = Below(both[i].segs) /\ both[j].include = both[i].include
                             /\ \A k \in 1..l : Between(i, k, j) => both[k].include = both[i].include
  <2>1. CASE i \in 1..l1
    <3>1. both[i] = u[i]
      BY <1>2, <2>1
    <3>2. PICK j \in 1..l1 : /\ u[j].segs = Below(u[i].segs) /\ u[j].include = u[i].include
                             /\ \A k \in 1..l1 : Between(i, k, j) => u[k].include = u[i].include
      BY <1>4, <1>7, <2>1, <3>1
    <3>3. \A k \in 1..l : Between(i, k, j) => k \in 1..l1
      BY <1>2, <2>1 DEF Between
    <3>4. both[j] = u[j] /\ j \in 1..l
      BY <1>2
    <3>5. \A k \in 1..l : Between(i, k, j) => both[k].include = both[i].include
      BY <1>2, <3>1, <3>2, <3>3
    <3> QED
      BY <3>1, <3>2, <3>4, <3>5
  <2>2. CASE i \notin 1..l1
    <3> DEFINE r == i - l1
    <3>1. r \in 1..l2 /\ l1 + r = i
      BY <1>2, <2>2
    <3> HIDE DEF r
    <3>2. both[i] = w[r]
      BY <1>2, <3>1
    <3>3. PICK j \in 1..l2 : /\ w[j].segs = Below(w[r].segs) /\ w[j].include = w[r].include
                             /\ \A k \in 1..l2 : Between(r, k, j) => w[k].include = w[r].include
      BY <1>5, <1>7, <3>1, <3>2
    <3>4. both[l1 + j] = w[j] /\ l1 + j \in 1..l
      BY <1>2
    <3>5. ASSUME NEW k \in 1..l, Between(i, k, l1 + j) PROVE both[k].include = both[i].include
      <4>1. k \notin 1..l1
        BY <1>2, <3>1, <3>5 DEF Between
      <4> DEFINE q == k - l1
      <4>2. q \in 1..l2 /\ l1 + q = k
        BY <1>2, <4>1
      <4> HIDE DEF q
      <4>3. Between(r, q, j)
        BY <1>2, <3>1, <3>5, <4>2 DEF Between
      <4>4. both[k] = w[q] /\ w[q].include = w[r].include
        BY <1>2, <3>3, <4>2, <4>3
      <4> QED
        BY <3>2, <4>4
    <3> QED
      BY <3>2, <3>3, <3>4, <3>5
  <2> QED
    BY <2>1, <2>2
<1>8. Covered(both)
  BY <1>7 DEF Covered, l
<1> QED
  BY <1>6, <1>8

PatternLine == [include : BOOLEAN, rooted : BOOLEAN, segs : Seq(Words), inside : BOOLEAN]

\* Two pairs of patterns of one kind, the second about what is below the first, cover what is below.
LEMMA PairsCover ==
  ASSUME NEW kind \in BOOLEAN, NEW r1, NEW r2, NEW r3, NEW r4, NEW ps, ps = <<r1, r2, r3, r4>>,
         \A r \in {r1, r2, r3, r4} : r \in Pattern /\ r.include = kind /\ r.segs # <<>>,
         EndsBelow(r1.segs) \/ r3.segs = Below(r1.segs), EndsBelow(r2.segs) \/ r4.segs = Below(r2.segs),
         EndsBelow(r3.segs), EndsBelow(r4.segs)
  PROVE  PatternList(ps) /\ Covered(ps)
<1>1. Len(ps) = 4 /\ 1..4 = {1, 2, 3, 4} /\ ps[1] = r1 /\ ps[2] = r2 /\ ps[3] = r3 /\ ps[4] = r4 /\ ps \in Seq(Pattern)
  OBVIOUS
<1>2. \A i \in 1..4 : ps[i].include = kind /\ ps[i].segs # <<>>
  BY <1>1
<1>3. \A i \in 1..4 : EndsBelow(ps[i].segs) \/ \E j \in 1..4 : ps[j].segs = Below(ps[i].segs)
  BY <1>1
<1> QED
  BY <1>1, <1>2, <1>3 DEF PatternList, Covered

\* And so does one pair, or one pattern with the one about what is below it.
LEMMA PairCovers ==
  ASSUME NEW kind \in BOOLEAN, NEW r1, NEW r2, NEW ps, ps = <<r1, r2>>,
         \A r \in {r1, r2} : r \in Pattern /\ r.include = kind /\ r.segs # <<>>,
         EndsBelow(r1.segs) \/ r2.segs = Below(r1.segs), EndsBelow(r2.segs)
  PROVE  PatternList(ps) /\ Covered(ps)
<1>1. Len(ps) = 2 /\ 1..2 = {1, 2} /\ ps[1] = r1 /\ ps[2] = r2 /\ ps \in Seq(Pattern)
  OBVIOUS
<1>2. \A i \in 1..2 : ps[i].include = kind /\ ps[i].segs # <<>>
  BY <1>1
<1>3. \A i \in 1..2 : EndsBelow(ps[i].segs) \/ \E j \in 1..2 : ps[j].segs = Below(ps[i].segs)
  BY <1>1
<1> QED
  BY <1>1, <1>2, <1>3 DEF PatternList, Covered

\* A sequence of one.
LEMMA OneOf == ASSUME NEW S, NEW sg \in S PROVE <<sg>> \in Seq(S)
OBVIOUS

\* What stands for any names is a word.
LEMMA AnyIsWord == "**" \in Words
BY DEF Words

\* A sequence that goes on with one more.
LEMMA GoesOnWith ==
  ASSUME NEW S, NEW u \in Seq(S), NEW w \in Seq(S), Len(w) = 1
  PROVE  /\ u \o w \in Seq(S) /\ Len(u \o w) = Len(u) + 1 /\ (u \o w)[Len(u) + 1] = w[1]
         /\ \A i \in 1..Len(u) : (u \o w)[i] = u[i]
<1> DEFINE n == Len(u)
           both == u \o w
<1>1. both \in Seq(S) /\ Len(both) = n + Len(w) /\ \A i \in 1..(n + Len(w)) : both[i] = IF i <= n THEN u[i] ELSE w[i - n]
  BY ConcatProperties
<1>2. n \in Nat
  BY LenProperties
<1> HIDE DEF n, both
<1>3. ~(n + 1 <= n) /\ (n + 1) - n = 1 /\ n + 1 \in 1..(n + 1)
  BY <1>2
<1>4. both[n + 1] = w[1]
  BY <1>1, <1>3
<1>5. \A i \in 1..n : both[i] = u[i]
  BY <1>1, <1>2
<1> QED
  BY <1>1, <1>4, <1>5 DEF both, n

\* And one that goes on with a given element.
LEMMA GoesOnByOne ==
  ASSUME NEW S, NEW segs \in Seq(S), NEW sg \in S
  PROVE  LET more == segs \o <<sg>>
         IN  /\ more \in Seq(S) /\ Len(more) = Len(segs) + 1 /\ more[Len(segs) + 1] = sg
             /\ \A i \in 1..Len(segs) : more[i] = segs[i]
<1> DEFINE one == <<sg>>
<1>1. one \in Seq(S) /\ Len(one) = 1 /\ one[1] = sg
  OBVIOUS
<1> HIDE DEF one
<1> QED
  BY <1>1, GoesOnWith DEF one

\* Short lists, one after the other.
LEMMA ShortTogether ==
  ASSUME NEW r1, NEW r2, NEW r3, NEW r4
  PROVE  <<r1>> \o <<r2>> = <<r1, r2>> /\ <<r1, r2>> \o <<r3, r4>> = <<r1, r2, r3, r4>>
<1> DEFINE T == {r1, r2, r3, r4}
<1>1. <<r1>> \in Seq(T) /\ <<r2>> \in Seq(T) /\ <<r1, r2>> \in Seq(T) /\ <<r3, r4>> \in Seq(T)
      /\ <<r1, r2, r3, r4>> \in Seq(T)
  OBVIOUS
<1>2. <<r1>> \o <<r2>> = <<r1, r2>>
  <2> DEFINE u == <<r1>>
             w == <<r2>>
  <2>1. u \in Seq(T) /\ w \in Seq(T) /\ Len(u) = 1 /\ Len(w) = 1 /\ u[1] = r1 /\ w[1] = r2
    BY <1>1
  <2> HIDE DEF u, w, T
  <2> DEFINE both == u \o w
  <2>2. both \in Seq(T) /\ Len(both) = 2 /\ both[1] = r1 /\ both[2] = r2
    <3>1. both \in Seq(T) /\ Len(both) = Len(u) + 1 /\ both[Len(u) + 1] = w[1] /\ \A i \in 1..Len(u) : both[i] = u[i]
      BY <2>1, GoesOnWith
    <3> HIDE DEF both
    <3> QED
      BY <2>1, <3>1
  <2> HIDE DEF both
  <2>3. both = <<r1, r2>>
    BY <2>2
  <2> QED
    BY <2>3 DEF both, u, w
<1>3. <<r1, r2>> \o <<r3, r4>> = <<r1, r2, r3, r4>>
  <2> DEFINE u == <<r1, r2>>
             w == <<r3, r4>>
  <2>1. /\ u \in Seq(T) /\ w \in Seq(T) /\ Len(u) = 2 /\ Len(w) = 2
        /\ u[1] = r1 /\ u[2] = r2 /\ w[1] = r3 /\ w[2] = r4
    BY <1>1
  <2> HIDE DEF u, w, T
  <2> DEFINE both == u \o w
  <2>2. /\ both \in Seq(T) /\ Len(both) = 4
        /\ both[1] = r1 /\ both[2] = r2 /\ both[3] = r3 /\ both[4] = r4
    <3>1. Len(both) = 2 + 2 /\ both \in Seq(T) /\ \A i \in 1..(2 + 2) : both[i] = IF i <= 2 THEN u[i] ELSE w[i - 2]
      BY <2>1, ConcatProperties
    <3> HIDE DEF both
    <3> QED
      BY <2>1, <3>1
  <2> HIDE DEF both
  <2>3. both = <<r1, r2, r3, r4>>
    BY <2>2
  <2> QED
    BY <2>3 DEF both, u, w
<1> QED
  BY <1>2, <1>3

\* Sequences that go on with "**".
LEMMA BelowIs ==
  ASSUME NEW segs \in Seq(Words), segs # <<>>
  PROVE  LET below == Below(segs)
         IN  /\ below \in Seq(Words) /\ below # <<>> /\ Len(below) > 1 /\ below[1] = segs[1] /\ EndsBelow(below)
             /\ Tail(below) \in Seq(Words) /\ Tail(below) # <<>> /\ EndsBelow(Tail(below))
             /\ Len(segs) > 1 => Tail(segs) \in Seq(Words) /\ Tail(segs) # <<>> /\ Below(Tail(segs)) = Tail(below)
             /\ ~(Len(segs) > 1) /\ segs[1] = "**" => EndsBelow(segs)
<1> DEFINE below == Below(segs)
           n == Len(segs)
<1>1. n \in Nat /\ n >= 1 /\ DOMAIN segs = 1..n
  BY EmptySeq, LenProperties
<1>2. /\ below \in Seq(Words) /\ Len(below) = n + 1 /\ below[n + 1] = "**"
      /\ \A i \in 1..n : below[i] = segs[i]
  BY <1>1, AnyIsWord, GoesOnByOne DEF Below
<1> HIDE DEF below, n
<1>3. Len(below) > 1 /\ below # <<>> /\ below[1] = segs[1] /\ EndsBelow(below)
  BY <1>1, <1>2 DEF EndsBelow
<1>4. /\ Tail(below) \in Seq(Words) /\ Len(Tail(below)) = n
      /\ \A i \in 1..n : Tail(below)[i] = below[i + 1]
  BY <1>1, <1>2, <1>3, HeadTailProperties
<1>5. Tail(below) # <<>> /\ EndsBelow(Tail(below))
  <2> DEFINE end == Tail(below)
  <2>1. end \in Seq(Words) /\ Len(end) = n /\ end[n] = below[n + 1]
    BY <1>1, <1>4
  <2> HIDE DEF end
  <2>2. Len(end) # 0
    BY <1>1, <2>1
  <2>3. end # <<>>
    BY <2>2
  <2> QED
    BY <1>2, <2>1, <2>3 DEF EndsBelow, end
<1>6. ASSUME n > 1 PROVE Tail(segs) \in Seq(Words) /\ Tail(segs) # <<>> /\ Below(Tail(segs)) = Tail(below)
  <2>1. /\ Tail(segs) \in Seq(Words) /\ Len(Tail(segs)) = n - 1
        /\ \A i \in 1..(n - 1) : Tail(segs)[i] = segs[i + 1]
    BY <1>1, <1>6, HeadTailProperties DEF n
  <2> DEFINE rest == Tail(segs)
             end == Tail(below)
  <2>2. rest # <<>>
    <3>1. Len(rest) # 0
      BY <1>1, <1>6, <2>1
    <3> HIDE DEF rest
    <3> QED
      BY <3>1
  <2>3. rest \in Seq(Words) /\ Len(rest) = n - 1 /\ end \in Seq(Words) /\ Len(end) = n
    BY <1>4, <2>1
  <2>4. \A i \in 1..(n - 1) : end[i] = rest[i]
    <3> SUFFICES ASSUME NEW i \in 1..(n - 1) PROVE end[i] = rest[i]
      OBVIOUS
    <3>1. i \in 1..n /\ i + 1 \in 1..n
      BY <1>1
    <3> QED
      BY <1>2, <1>4, <2>1, <3>1
  <2>5. end[n] = "**"
    BY <1>1, <1>2, <1>4
  <2> HIDE DEF rest, end
  <2>6. Below(rest) = end
    <3>1. /\ Below(rest) \in Seq(Words) /\ Len(Below(rest)) = (n - 1) + 1 /\ Below(rest)[(n - 1) + 1] = "**"
          /\ \A i \in 1..(n - 1) : Below(rest)[i] = rest[i]
      BY <2>3, AnyIsWord, GoesOnByOne DEF Below
    <3>2. (n - 1) + 1 = n /\ \A i \in 1..n : i = n \/ i \in 1..(n - 1)
      BY <1>1
    <3>3. \A i \in 1..n : Below(rest)[i] = end[i]
      BY <2>4, <2>5, <3>1, <3>2
    <3> HIDE DEF n
    <3> QED
      BY <2>3, <3>1, <3>2, <3>3, SeqEqual
  <2> QED
    BY <2>1, <2>2, <2>6 DEF rest, end
<1>7. ~(n > 1) /\ segs[1] = "**" => EndsBelow(segs)
  <2>1. ~(n > 1) => n = 1
    BY <1>1
  <2> QED
    BY <2>1 DEF EndsBelow, n
<1> QED
  BY <1>2, <1>3, <1>4, <1>5, <1>6, <1>7 DEF below, n

\* And those that begin with it.
LEMMA BeforeIs ==
  ASSUME NEW segs \in Seq(Words), segs # <<>>
  PROVE  LET before == <<"**">> \o segs
         IN  /\ before \in Seq(Words) /\ before # <<>> /\ Below(before) = <<"**">> \o Below(segs)
             /\ EndsBelow(segs) => EndsBelow(before)
<1> DEFINE before == <<"**">> \o segs
           n == Len(segs)
<1>1. n \in Nat /\ n >= 1
  BY EmptySeq, LenProperties
<1>2. before \in Seq(Words) /\ Len(before) = n + 1 /\ before[n + 1] = segs[n]
  <2> DEFINE one == <<"**">>
  <2>1. Len(one) = 1
    OBVIOUS
  <2>2. one \in Seq(Words)
    BY AnyIsWord, OneOf
  <2> HIDE DEF one
  <2>3. one \o segs \in Seq(Words) /\ Len(one \o segs) = Len(one) + Len(segs) /\ \A i \in 1..Len(segs) : (one \o segs)[Len(one) + i] = segs[i]
    BY <2>2, PutTogether
  <2>4. n \in 1..n /\ 1 + n = n + 1
    BY <1>1
  <2> QED
    BY <2>1, <2>3, <2>4 DEF one
<1>3. before # <<>>
  <2> HIDE DEF before
  <2> QED
    BY <1>1, <1>2, EmptySeq
<1>4. Below(before) = <<"**">> \o Below(segs)
  <2> DEFINE one == <<"**">>
  <2>1. one \in Seq(Words) /\ segs \in Seq(Words)
    BY AnyIsWord, OneOf
  <2>2. Below(before) = (one \o segs) \o one /\ <<"**">> \o Below(segs) = one \o (segs \o one)
    BY DEF Below
  <2> HIDE DEF one
  <2>3. (one \o segs) \o one = one \o (segs \o one)
    BY <2>1, ConcatAssociative
  <2> QED
    BY <2>2, <2>3
<1>5. EndsBelow(segs) => EndsBelow(before)
  BY <1>2 DEF EndsBelow
<1> QED
  BY <1>2, <1>3, <1>4, <1>5

\* What stands for one line: for each pattern for a name there is one for what is below it.
LEMMA LineIs ==
  ASSUME NEW line \in PatternLine, line.segs # <<>>
  PROVE  PatternList(Ignores!ParsedLine(line)) /\ Covered(Ignores!ParsedLine(line))
<1> DEFINE q == line.segs
           below == Below(q)
           p(s) == [include |-> line.include, rooted |-> line.rooted, segs |-> s]
           before(s) == <<"**">> \o s
           first == Ignores!ParseLine(line, q)
           second == Ignores!ParseLine(line, below)
           ps == Ignores!ParsedLine(line)
           more(r) == IF Len(r) > 1 /\ r[1] = "**" THEN Tail(r) ELSE before(r)
           Like(r) == r \in Pattern /\ r.include = line.include /\ r.segs # <<>>
<1>1. q \in Seq(Words) /\ q # <<>> /\ line.include \in BOOLEAN /\ line.rooted \in BOOLEAN
  BY DEF PatternLine
<1>2. ps = IF line.inside THEN second ELSE first \o second
  BY DEF Ignores!ParsedLine, Below
<1>3. /\ first = IF line.rooted THEN <<p(q)>>
                 ELSE IF Len(q) > 1 /\ q[1] = "**" THEN <<p(q), p(Tail(q))>> ELSE <<p(q), p(before(q))>>
      /\ second = IF line.rooted THEN <<p(below)>>
                  ELSE IF Len(below) > 1 /\ below[1] = "**" THEN <<p(below), p(Tail(below))>>
                  ELSE <<p(below), p(before(below))>>
  BY DEF Ignores!ParseLine
<1>4. \A s \in Seq(Words) : s # <<>> => Like(p(s)) /\ p(s).segs = s
  BY <1>1 DEF Pattern
<1>5. /\ below \in Seq(Words) /\ below # <<>> /\ Len(below) > 1 /\ below[1] = q[1] /\ EndsBelow(below)
      /\ Tail(below) \in Seq(Words) /\ Tail(below) # <<>> /\ EndsBelow(Tail(below))
      /\ before(below) \in Seq(Words) /\ before(below) # <<>> /\ EndsBelow(before(below))
  BY <1>1, BelowIs, BeforeIs
<1>6. /\ before(q) \in Seq(Words) /\ before(q) # <<>> /\ Below(before(q)) = before(below)
      /\ Len(q) > 1 => Tail(q) \in Seq(Words) /\ Tail(q) # <<>> /\ Below(Tail(q)) = Tail(below)
      /\ ~(Len(q) > 1) /\ q[1] = "**" => EndsBelow(q) /\ EndsBelow(before(q))
  BY <1>1, BelowIs, BeforeIs
<1>7. CASE line.inside /\ line.rooted
  <2>1. ps = <<p(below)>>
    BY <1>2, <1>3, <1>7
  <2>2. Like(p(below)) /\ EndsBelow(p(below).segs)
    BY <1>4, <1>5
  <2> HIDE DEF p, ps
  <2>3. Len(ps) = 1 /\ 1..1 = {1} /\ ps[1] = p(below) /\ ps \in Seq(Pattern)
    BY <2>1, <2>2
  <2> QED
    BY <2>2, <2>3 DEF PatternList, Covered, ps
<1>8. Like(p(q)) /\ Like(p(below)) /\ p(q).segs = q /\ p(below).segs = below
  BY <1>1, <1>4, <1>5
<1>9. CASE ~line.inside /\ line.rooted
  <2>1. ps = <<p(q)>> \o <<p(below)>>
    BY <1>2, <1>3, <1>9
  <2> HIDE DEF p, ps, q, below
  <2>2. ps = <<p(q), p(below)>>
    BY <2>1, ShortTogether
  <2>3. /\ Like(p(q)) /\ Like(p(below)) /\ EndsBelow(p(below).segs) /\ line.include \in BOOLEAN
        /\ p(below).segs = Below(p(q).segs)
    BY <1>1, <1>5, <1>8 DEF below
  <2>4. PatternList(ps) /\ Covered(ps)
    BY <2>2, <2>3, PairCovers
  <2> QED
    BY <2>4 DEF ps
<1>10. CASE line.inside /\ ~line.rooted
  <2>1. ps = <<p(below), p(more(below))>>
    BY <1>2, <1>3, <1>5, <1>10
  <2>2. more(below) \in {Tail(below), before(below)}
    OBVIOUS
  <2>3. Like(p(more(below))) /\ p(more(below)).segs = more(below) /\ EndsBelow(more(below))
    BY <1>4, <1>5, <2>2
  <2> HIDE DEF p, ps, more
  <2>4. PatternList(ps) /\ Covered(ps)
    BY <1>1, <1>5, <1>8, <2>1, <2>3, PairCovers
  <2> QED
    BY <2>4 DEF ps
<1>11. CASE ~line.inside /\ ~line.rooted
  <2>1. ps = <<p(q), p(more(q))>> \o <<p(below), p(more(below))>>
    BY <1>2, <1>3, <1>5, <1>11
  <2>2. /\ more(below) \in Seq(Words) /\ more(below) # <<>> /\ EndsBelow(more(below))
        /\ more(q) \in Seq(Words) /\ more(q) # <<>>
    BY <1>5, <1>6
  <2>3. EndsBelow(more(q)) \/ more(below) = Below(more(q))
    BY <1>5, <1>6
  <2>4. Like(p(more(q))) /\ p(more(q)).segs = more(q) /\ Like(p(more(below))) /\ p(more(below)).segs = more(below)
    BY <1>4, <2>2
  <2>5. EndsBelow(q) \/ below = Below(q)
    OBVIOUS
  <2> HIDE DEF p, ps, more, below, q
  <2>7. ps = <<p(q), p(more(q)), p(below), p(more(below))>>
    BY <2>1, ShortTogether
  <2>8. /\ Like(p(q)) /\ Like(p(more(q))) /\ Like(p(below)) /\ Like(p(more(below)))
        /\ EndsBelow(p(below).segs) /\ EndsBelow(p(more(below)).segs)
        /\ EndsBelow(p(q).segs) \/ p(below).segs = Below(p(q).segs)
        /\ EndsBelow(p(more(q)).segs) \/ p(more(below)).segs = Below(p(more(q)).segs)
    BY <1>5, <1>8, <2>2, <2>3, <2>4, <2>5
  <2>6. PatternList(ps) /\ Covered(ps)
    BY <1>1, <2>7, <2>8, PairsCover
  <2> QED
    BY <2>6 DEF ps
<1> QED
  BY <1>7, <1>9, <1>10, <1>11

\* What stands for the lines of a file covers what is below what it covers.
LEMMA ParsedCovers ==
  ASSUME NEW content, content # Bad => content \in Seq(PatternLine) /\ \A i \in DOMAIN content : content[i].segs # <<>>
  PROVE  PatternList(Ignores!Parsed(content)) /\ Covered(Ignores!Parsed(content))
<1> DEFINE Good(ps) == PatternList(ps) /\ Covered(ps)
<1>1. Good(<<>>)
  <2>1. <<>> \in Seq(Pattern) /\ Len(<<>>) = 0 /\ 1..0 = {}
    OBVIOUS
  <2> QED
    BY <2>1 DEF PatternList, Covered
<1>2. CASE content = Bad
  BY <1>1, <1>2 DEF Ignores!Parsed
<1>3. CASE content # Bad
  <2> DEFINE n == Len(content)
             q == [i \in 1..n |-> Ignores!ParsedLine(content[i])]
             ps == Ignores!Parsed(content)
  <2>1. n \in Nat /\ DOMAIN content = 1..n /\ \A i \in 1..n : content[i] \in PatternLine /\ content[i].segs # <<>>
    BY <1>3, LenProperties, ElementOfSeq
  <2>2. ps = Ignores!FlattenSeq(q)
    BY <1>3, <2>1 DEF Ignores!Parsed
  <2>3. \A i \in 1..n : q[i] = Ignores!ParsedLine(content[i])
    OBVIOUS
  <2>4. \A i \in 1..n : Good(q[i])
    BY <2>1, <2>3, LineIs
  <2>5. \A i \in 1..n : q[i] \in Seq(Pattern)
    <3> HIDE DEF q
    <3> QED
      BY <2>4 DEF PatternList
  <2>6. q \in Seq(Seq(Pattern)) /\ Len(q) = n
    <3>1. q = [i \in 1..n |-> q[i]]
      OBVIOUS
    <3> HIDE DEF q, n
    <3> QED
      BY <2>1, <2>5, <3>1
  <2> HIDE DEF q, ps, n
  <2>7. CASE n = 0
    <3>1. q = <<>>
      BY <2>6, <2>7, EmptySeq
    <3>2. ps = <<>>
      BY <2>2, <2>6, <2>7, <3>1 DEF Ignores!FlattenSeq
    <3> QED
      BY <1>1, <3>2 DEF ps
  <2>8. CASE n # 0
    <3>1. q # <<>>
      BY <2>6, <2>8
    <3>2. PICK g : /\ g[1] = q[1] /\ ps = g[n]
                   /\ \A i \in 1..n : g[i] \in Seq(Pattern) /\ (i # 1 => g[i] = g[i - 1] \o q[i])
      <4>1. Ignores!FlattenSeq(q) = Progress!FlattenSeq(q)
        BY DEF Ignores!FlattenSeq, Progress!FlattenSeq
      <4> QED
        <5>1. PICK g : Grows(Pattern, q, Progress!FlattenSeq(q), g)
          BY <2>6, <3>1, FlattenGrows
        <5> QED
          BY <2>2, <2>6, <4>1, <5>1 DEF Grows
    <3> DEFINE bad == {i \in 1..n : ~Good(g[i])}
    <3>3. bad = {}
      <4> SUFFICES ASSUME bad # {} PROVE FALSE
        OBVIOUS
      <4>1. PICK i \in bad : \A j \in bad : i <= j
        <5>1. bad \subseteq Nat
          OBVIOUS
        <5> HIDE DEF bad
        <5> QED
          BY <5>1, LeastOf
      <4>2. i \in 1..n /\ ~Good(g[i])
        OBVIOUS
      <4> HIDE DEF Good
      <4>3. i # 1
        BY <2>4, <3>2, <4>2
      <4>4. i - 1 \in 1..n /\ ~(i <= i - 1)
        BY <2>1, <4>2, <4>3
      <4>5. Good(g[i - 1])
        BY <4>1, <4>4
      <4>6. Good(g[i - 1] \o q[i])
        BY <2>4, <4>2, <4>5, CoveredTogether DEF Good
      <4> QED
        BY <3>2, <4>2, <4>3, <4>6
    <3>4. n \in 1..n
      BY <2>1, <2>8
    <3>5. Good(ps)
      BY <3>2, <3>3, <3>4
    <3> QED
      BY <3>5 DEF ps
  <2> QED
    BY <2>7, <2>8
<1> QED
  BY <1>2, <1>3

-----------------------------------------------------------------------------
(* The matcher of ignore patterns *)

ParsedFrom(content) == Ignores!Parsed(content)
SkipsWith(ps) == Ignores!Skip(ps)
IgnoredWith(ps, path) == Ignores!Ignored(ps, path)

\* Both matchers read files alike.
LEMMA ParsedAlike == ASSUME NEW content PROVE Patterns!Parsed(content) = ParsedFrom(content)
BY DEF ParsedFrom, Patterns!Parsed, Patterns!ParsedLine, Patterns!ParseLine, Patterns!FlattenSeq,
       Ignores!Parsed, Ignores!ParsedLine, Ignores!ParseLine, Ignores!FlattenSeq
\* And they decide alike whether directories are skipped.
LEMMA SkippedAlike == ASSUME NEW ps PROVE Patterns!Skip(ps) = SkipsWith(ps)
BY DEF SkipsWith, Patterns!Skip, Patterns!Extends, Patterns!Previous, Patterns!AllowsSkipping,
       Ignores!Skip, Ignores!Extends, Ignores!Previous, Ignores!AllowsSkipping
\* And what is ignored.
LEMMA IgnoredAlike == ASSUME NEW ps, NEW path PROVE Patterns!Ignored(ps, path) = IgnoredWith(ps, path)
BY DEF IgnoredWith, Patterns!Ignored, Patterns!Matches, Ignores!Ignored, Ignores!Matches

AnyFile == SomeFiles \cup AllFiles

\* What stands for the files that are there covers what is below what it covers.
LEMMA FilesCover == ASSUME NEW content \in AnyFile PROVE PatternList(ParsedFrom(content)) /\ Covered(ParsedFrom(content))
<1> DEFINE Plain == [include : BOOLEAN, rooted : BOOLEAN, segs : Seq(STRING), inside : BOOLEAN]
<1>1. content # Bad => content \in Seq(Plain) /\ \A i \in DOMAIN content : content[i].segs # <<>>
  BY IgnoreAssumption DEF AnyFile
<1>2. Plain \subseteq PatternLine
  <2>1. \A s \in Seq(STRING) : s \in Seq(Words)
    <3>1. STRING \subseteq Words
      BY DEF Words
    <3> QED
      BY <3>1, SeqMonotonic
  <2> QED
    BY <2>1 DEF PatternLine
<1> HIDE DEF Plain
<1>3. content # Bad => content \in Seq(PatternLine)
  BY <1>1, <1>2, SeqMonotonic
<1> QED
  BY <1>1, <1>3, ParsedCovers DEF ParsedFrom

OneOrNone(some) == some = {} \/ \E c \in AnyFile : some = {c}

\* A file that is remembered was parsed, and the patterns are its own.
FollowsFile ==
  /\ mtime \in Nat /\ \A m \in remembered : m \in Nat /\ m <= mtime
  /\ OneOrNone(file) /\ OneOrNone(aside)
  /\ mtime \in remembered => \A c \in file : c # Bad /\ patterns = ParsedFrom(c)
  /\ loaded => \A c \in file : patterns = ParsedFrom(c)

\* The patterns cover what is below what they cover; directories are skipped, and results are kept, by these patterns.
PatternsServe ==
  /\ PatternList(patterns) /\ Covered(patterns)
  /\ skipIgnoredDirs => SkipsWith(patterns)
  /\ \A m \in matches : m.ignored = IgnoredWith(patterns, m.path)

IgnoreInv == FollowsFile /\ PatternsServe

\* The file changes: its time is a new one, or it is gone.
LEMMA FileChanges ==
  ASSUME IgnoreInv, UNCHANGED <<patterns, remembered, matches, skipIgnoredDirs>>, loaded' = FALSE,
         OneOrNone(file'), OneOrNone(aside'), mtime' = mtime + 1 \/ (mtime' = mtime /\ file' = {})
  PROVE  IgnoreInv'
<1>1. PatternsServe'
  BY DEF IgnoreInv, PatternsServe
<1>2. mtime' \in Nat /\ \A m \in remembered' : m \in Nat /\ m <= mtime'
  BY DEF IgnoreInv, FollowsFile
<1>3. mtime' \in remembered' => file' = {}
  <2>1. mtime \in Nat /\ \A m \in remembered : m <= mtime
    BY DEF IgnoreInv, FollowsFile
  <2>2. mtime + 1 \notin remembered
    BY <2>1
  <2> QED
    BY <2>2
<1> QED
  BY <1>1, <1>2, <1>3 DEF IgnoreInv, FollowsFile

\* The file is edited, moved away, or brought back.
LEMMA FileStepKeeps ==
  ASSUME IgnoreInv, \/ Ignores!Edit \/ Ignores!MoveAway \/ Ignores!MoveBack
                    \/ Patterns!Edit \/ Patterns!MoveAway \/ Patterns!MoveBack
  PROVE  IgnoreInv'
<1>1. UNCHANGED <<patterns, remembered, matches, skipIgnoredDirs>> /\ loaded' = FALSE
  BY DEF Ignores!Edit, Ignores!MoveAway, Ignores!MoveBack, Patterns!Edit, Patterns!MoveAway, Patterns!MoveBack,
         Ignores!matcher, Patterns!matcher
<1>2. \/ (\E c \in AnyFile : file' = {c}) /\ mtime' = mtime + 1 /\ aside' = {}
      \/ file' = {} /\ aside' = file /\ mtime' = mtime
      \/ file' = aside /\ aside' = {} /\ mtime' = mtime + 1
  BY DEF Ignores!Edit, Ignores!MoveAway, Ignores!MoveBack, Patterns!Edit, Patterns!MoveAway, Patterns!MoveBack, AnyFile
<1>3. OneOrNone(file') /\ OneOrNone(aside')
  BY <1>2 DEF IgnoreInv, FollowsFile, OneOrNone
<1> QED
  BY <1>1, <1>2, <1>3, FileChanges

\* Other patterns come with a cache and with a decision on directories of their own.
LEMMA UsesPatterns ==
  ASSUME PatternsServe, NEW ps, PatternList(ps), Covered(ps), patterns' = ps,
         matches' = IF ps = patterns THEN matches ELSE {},
         skipIgnoredDirs' = IF ps = patterns THEN skipIgnoredDirs ELSE SkipsWith(ps)
  PROVE  PatternsServe'
<1>1. CASE ps = patterns
  BY <1>1 DEF PatternsServe
<1>2. CASE ps # patterns
  BY <1>2 DEF PatternsServe
<1> QED
  BY <1>1, <1>2

\* No patterns are a list that covers what is below.
LEMMA NoPatterns == PatternList(<<>>) /\ Covered(<<>>) /\ SkipsWith(<<>>)
<1>1. <<>> \in Seq(Pattern) /\ Len(<<>>) = 0 /\ 1..0 = {} /\ DOMAIN <<>> = {}
  OBVIOUS
<1> QED
  BY <1>1 DEF PatternList, Covered, SkipsWith, Ignores!Skip

\* What a Load does.
Loads ==
  /\ UNCHANGED <<file, mtime, aside>> /\ loaded' = (file # {} /\ file # {Bad})
  /\ \/ /\ file # {} /\ mtime \in remembered
        /\ UNCHANGED <<patterns, remembered, matches, skipIgnoredDirs>>
     \/ \E ps : /\ patterns' = ps
                /\ matches' = IF ps = patterns THEN matches ELSE {}
                /\ skipIgnoredDirs' = IF ps = patterns THEN skipIgnoredDirs ELSE SkipsWith(ps)
                /\ \/ file = {} /\ ps = <<>> /\ remembered' = remembered
                   \/ \E c \in file : ps = ParsedFrom(c) /\ remembered' = IF c = Bad THEN {} ELSE {mtime}

\* A Load of either matcher does that.
LEMMA LoadIs == Ignores!Load \/ Patterns!Load => Loads
<1>1. ASSUME Ignores!Load PROVE Loads
  BY <1>1 DEF Loads, Ignores!Load, Ignores!LoadAgain, Ignores!UsePatterns, Ignores!NewCache, Ignores!matcher, Ignores!disk,
              ParsedFrom, SkipsWith
<1>2. ASSUME Patterns!Load PROVE Loads
  <2>1. CASE ~Patterns!LoadAgain
    BY <1>2, <2>1 DEF Loads, Patterns!Load, Patterns!LoadAgain, Patterns!matcher, Patterns!disk
  <2>2. CASE Patterns!LoadAgain
    <3>1. UNCHANGED <<file, mtime, aside>> /\ loaded' = (file # {} /\ file # {Bad})
      BY <1>2 DEF Patterns!Load, Patterns!disk
    <3>2. \/ file = {} /\ Patterns!UsePatterns(<<>>) /\ remembered' = remembered
          \/ \E c \in file : Patterns!UsePatterns(Patterns!Parsed(c)) /\ remembered' = IF c = Bad THEN {} ELSE {mtime}
      BY <1>2, <2>2 DEF Patterns!Load
    <3>3. ASSUME NEW ps, Patterns!UsePatterns(ps)
          PROVE  /\ patterns' = ps /\ matches' = IF ps = patterns THEN matches ELSE {}
                 /\ skipIgnoredDirs' = IF ps = patterns THEN skipIgnoredDirs ELSE SkipsWith(ps)
      BY <3>3, SkippedAlike DEF Patterns!UsePatterns, Patterns!NewCache
    <3> QED
      BY <3>1, <3>2, <3>3, ParsedAlike DEF Loads
  <2> QED
    BY <2>1, <2>2
<1> QED
  BY <1>1, <1>2

\* Patterns are those of the file after it, and serve.
LEMMA LoadKeeps ==
  ASSUME IgnoreInv, Loads
  PROVE  IgnoreInv'
<1>1. /\ UNCHANGED <<file, mtime, aside>> /\ loaded' = (file # {} /\ file # {Bad})
      /\ FollowsFile /\ PatternsServe
  BY DEF Loads, IgnoreInv
<1>2. CASE /\ file # {} /\ mtime \in remembered
           /\ UNCHANGED <<patterns, remembered, matches, skipIgnoredDirs>>
  <2>1. FollowsFile'
    BY <1>1, <1>2 DEF FollowsFile
  <2>2. PatternsServe'
    BY <1>1, <1>2 DEF PatternsServe
  <2> QED
    BY <2>1, <2>2 DEF IgnoreInv
<1>3. CASE file = {} /\ patterns' = <<>> /\ remembered' = remembered
           /\ matches' = (IF <<>> = patterns THEN matches ELSE {})
           /\ skipIgnoredDirs' = (IF <<>> = patterns THEN skipIgnoredDirs ELSE SkipsWith(<<>>))
  <2>1. FollowsFile'
    BY <1>1, <1>3 DEF FollowsFile
  <2>2. PatternsServe'
    BY <1>1, <1>3, NoPatterns, UsesPatterns
  <2> QED
    BY <2>1, <2>2 DEF IgnoreInv
<1>4. ASSUME NEW c \in file, NEW ps, ps = ParsedFrom(c), patterns' = ps, remembered' = IF c = Bad THEN {} ELSE {mtime},
             matches' = IF ps = patterns THEN matches ELSE {},
             skipIgnoredDirs' = IF ps = patterns THEN skipIgnoredDirs ELSE SkipsWith(ps)
      PROVE  IgnoreInv'
  <2>1. c \in AnyFile /\ file = {c}
    BY <1>1, <1>4 DEF FollowsFile, OneOrNone
  <2>2. FollowsFile'
    <3>1. mtime \in Nat /\ mtime <= mtime
      BY <1>1 DEF FollowsFile
    <3> QED
      BY <1>1, <1>4, <2>1, <3>1 DEF FollowsFile
  <2>3. PatternsServe'
    BY <1>1, <1>4, <2>1, FilesCover, UsesPatterns
  <2> QED
    BY <2>2, <2>3 DEF IgnoreInv
<1> QED
  BY <1>2, <1>3, <1>4 DEF Loads

\* Paths are matched, and what was not asked for goes.
LEMMA CacheKeeps ==
  ASSUME IgnoreInv, \/ Ignores!Match \/ Ignores!Clean \/ Patterns!Match \/ Patterns!Clean
  PROVE  IgnoreInv'
<1>1. UNCHANGED <<file, mtime, aside, patterns, remembered, skipIgnoredDirs, loaded>>
  BY DEF Ignores!Match, Ignores!Clean, Patterns!Match, Patterns!Clean, Ignores!disk, Patterns!disk
<1>2. \A m \in matches' : m \in matches \/ m.ignored = IgnoredWith(patterns, m.path)
  <2>1. CASE Ignores!Clean \/ Patterns!Clean
    BY <2>1 DEF Ignores!Clean, Patterns!Clean
  <2>2. CASE Ignores!Match
    BY <2>2 DEF Ignores!Match, IgnoredWith
  <2>3. CASE Patterns!Match
    BY <2>3 DEF Patterns!Match
  <2> QED
    BY <2>1, <2>2, <2>3
<1>3. FollowsFile'
  BY <1>1 DEF IgnoreInv, FollowsFile
<1>4. PatternsServe'
  BY <1>1, <1>2 DEF IgnoreInv, PatternsServe
<1> QED
  BY <1>3, <1>4 DEF IgnoreInv

\* Every step of either matcher.
LEMMA IgnoreKeeps ==
  ASSUME IgnoreInv, Ignores!Next \/ Patterns!Next \/ UNCHANGED ignoreVars
  PROVE  IgnoreInv'
<1>1. CASE UNCHANGED ignoreVars
  BY <1>1 DEF ignoreVars, IgnoreInv, FollowsFile, PatternsServe
<1>2. CASE Ignores!Next
  BY <1>2, FileStepKeeps, LoadIs, LoadKeeps, CacheKeeps DEF Ignores!Next
<1>3. CASE Patterns!Next
  BY <1>3, FileStepKeeps, LoadIs, LoadKeeps, CacheKeeps DEF Patterns!Next
<1> QED
  BY <1>1, <1>2, <1>3

\* At first nothing is loaded.
LEMMA IgnoreBegins == Ignores!Init \/ Patterns!Init => IgnoreInv
<1> SUFFICES ASSUME Ignores!Init \/ Patterns!Init PROVE IgnoreInv
  OBVIOUS
<1>1. /\ OneOrNone(file) /\ mtime = 0 /\ aside = {} /\ patterns = <<>> /\ remembered = {} /\ matches = {}
      /\ loaded = FALSE
  BY DEF Ignores!Init, Patterns!Init, OneOrNone, AnyFile
<1>2. FollowsFile
  BY <1>1 DEF FollowsFile, OneOrNone
<1>3. PatternsServe
  BY <1>1, NoPatterns DEF PatternsServe
<1> QED
  BY <1>2, <1>3 DEF IgnoreInv

\* If ignored directories are skipped, all that is in one is ignored.
LEMMA SkippedIsIgnored ==
  ASSUME IgnoreInv, skipIgnoredDirs, NEW dr \in Paths, NEW path \in Paths, Ignores!IsStrictPrefix(dr, path),
         IgnoredWith(patterns, dr)
  PROVE  IgnoredWith(patterns, path)
<1>1. dr \in Seq(Words) /\ path \in Seq(Words) /\ dr # <<>>
  <2>1. STRING \subseteq Words /\ dr \in Seq(STRING) /\ path \in Seq(STRING) /\ dr # <<>>
    BY IgnoreAssumption DEF Words
  <2> QED
    BY <2>1, SeqMonotonic
<1>2. PatternList(patterns) /\ Covered(patterns) /\ Ignores!Skip(patterns) /\ Ignores!Ignored(patterns, dr)
  BY DEF IgnoreInv, PatternsServe, SkipsWith, IgnoredWith
<1> QED
  BY <1>1, <1>2, SkipsRight DEF IgnoredWith

\* The matcher of ignore patterns (lib/ignore), for any paths and any files of patterns: after a Load
\* without an error the patterns are those of the file, however it was edited, moved away and
\* brought back; the cache says what the patterns say; and if ignored directories are skipped, all
\* that is in one is ignored.
THEOREM PatternsAreFollowed == SpecOne => []IgnoreRight
<1> DEFINE allVars == <<which, vars, relayVars, serverVars, discoveryVars, progressVars, ignoreVars>>
<1>1. InitOne => IgnoreInv
  BY IgnoreBegins DEF InitOne
<1>2. IgnoreInv /\ [NextOne]_allVars => IgnoreInv'
  <2>1. NextOne => Ignores!Next \/ Patterns!Next \/ UNCHANGED ignoreVars
    BY DEF NextOne
  <2> QED
    BY <2>1, IgnoreKeeps
<1>3. IgnoreInv => IgnoreRight
  <2> SUFFICES ASSUME IgnoreInv PROVE IgnoreRight
    OBVIOUS
  <2>1. Ignores!PatternsFollow /\ Patterns!PatternsFollow
    BY ParsedAlike DEF IgnoreInv, FollowsFile, Ignores!PatternsFollow, Patterns!PatternsFollow, ParsedFrom
  <2>2. Ignores!CacheRight
    BY DEF IgnoreInv, PatternsServe, Ignores!CacheRight, IgnoredWith
  <2>3. Ignores!SkipRight
    BY SkippedIsIgnored DEF Ignores!SkipRight, IgnoredWith
  <2>4. Patterns!SkipRight
    <3>1. \A dr, path : Patterns!IsStrictPrefix(dr, path) => Ignores!IsStrictPrefix(dr, path)
      BY DEF Patterns!IsStrictPrefix, Patterns!IsPrefix, Ignores!IsStrictPrefix, Ignores!IsPrefix
    <3> QED
      BY <3>1, IgnoredAlike, SkippedIsIgnored DEF Patterns!SkipRight
  <2> QED
    BY <2>1, <2>2, <2>3, <2>4 DEF IgnoreRight, Ignores!IgnoreRight
<1> QED BY <1>1, <1>2, <1>3, PTL DEF SpecOne

-----------------------------------------------------------------------------
(* What waits for the user, and what introducers may do *)

Origins == Devices \cup {Nobody, User}
Config == [by : [Devices -> Origins], paused : SUBSET Devices, shunned : SUBSET Devices, have : SUBSET Folders,
           ignored : [Devices -> SUBSET Folders], shares : [Shares -> Origins]]
Hand == [at : {"idle", "accept", "wait", "folders", "introduce"}, cc : SUBSET Shares, ignored : SUBSET Folders]

\* What prepareFoldersAndDevices leaves of any configuration.
Clean(c) ==
  /\ c.paused \subseteq Known(c) /\ c.shunned \cap Known(c) = {} /\ Ignored(c) \cap Shared(c) = {}
  /\ FoldersIn(Shared(c)) \subseteq c.have /\ DevicesIn(Shared(c)) \subseteq Known(c)

Typed ==
  /\ cfg \in Config /\ committed \in Config
  /\ pendingFolders \subseteq Shares /\ pendingDevices \subseteq Devices
  /\ link \in [Conns -> {"down", "greeting", "up", "closing"}]
  /\ inbox \in [Conns -> Seq(SUBSET Shares)]
  /\ hand \in [Conns -> Hand]
  /\ theirs \in [Devices -> SUBSET Shares]

TypeInv == Typed /\ Clean(cfg) /\ Clean(committed)

-----------------------------------------------------------------------------
(* Configurations *)

\* The six parts of a configuration have their types.
LEMMA ConfigParts ==
    ASSUME NEW c \in Config
    PROVE  /\ c.by \in [Devices -> Origins] /\ c.paused \subseteq Devices /\ c.shunned \subseteq Devices
           /\ c.have \subseteq Folders /\ c.ignored \in [Devices -> SUBSET Folders] /\ c.shares \in [Shares -> Origins]
  BY DEF Config

\* A configuration is prepared before it is stored: its devices stay, shares stay where folder
\* and device are there, and the rest fits.
LEMMA PreparedIs ==
    ASSUME NEW c \in Config
    PROVE  /\ Prepared(c) \in Config
           /\ Prepared(c).by = c.by /\ Prepared(c).have = c.have
           /\ Known(Prepared(c)) = Known(c)
           /\ \A s \in Shares : Prepared(c).shares[s] = IF s[1] \in c.have /\ s[2] \in Known(c) THEN c.shares[s]
                                                                                             ELSE Nobody
           /\ Clean(Prepared(c))
<1> DEFINE shares == [s \in Shares |-> IF s[1] \in c.have /\ s[2] \in Known(c) THEN c.shares[s] ELSE Nobody]
           ignored == [d \in Devices |-> IF d \in Known(c) THEN {f \in c.ignored[d] : shares[<<f, d>>] = Nobody} ELSE {}]
           p == Prepared(c)
<1>1. p = [c EXCEPT !.shares = shares, !.paused = @ \cap Known(c), !.shunned = @ \ Known(c), !.ignored = ignored]
  BY Zenon DEF Prepared
<1>2. /\ c.by \in [Devices -> Origins] /\ c.paused \subseteq Devices /\ c.shunned \subseteq Devices
      /\ c.have \subseteq Folders /\ c.ignored \in [Devices -> SUBSET Folders] /\ c.shares \in [Shares -> Origins]
  BY ConfigParts
<1> HIDE DEF shares, ignored, p
<1>3. /\ p.by = c.by /\ p.have = c.have /\ p.shares = shares /\ p.ignored = ignored
      /\ p.paused = c.paused \cap Known(c) /\ p.shunned = c.shunned \ Known(c)
  BY <1>1 DEF Config
<1>4. shares \in [Shares -> Origins]
  BY <1>2 DEF shares, Origins
<1>5. ignored \in [Devices -> SUBSET Folders]
  BY <1>2 DEF ignored
<1>6. Known(p) = Known(c)
  BY <1>3 DEF Known
<1>7. p \in Config
  BY <1>1, <1>2, <1>4, <1>5 DEF Config
<1>8. \A s \in Shares : p.shares[s] = IF s[1] \in c.have /\ s[2] \in Known(c) THEN c.shares[s] ELSE Nobody
  BY <1>3 DEF shares
<1>9. Clean(p)
  <2>1. p.paused \subseteq Known(p) /\ p.shunned \cap Known(p) = {}
    BY <1>3, <1>6
  <2>2. \A s \in Shared(p) : s \in Shares /\ s[1] \in p.have /\ s[2] \in Known(p)
    BY <1>8, <1>3, <1>6 DEF Shared
  <2>3. FoldersIn(Shared(p)) \subseteq p.have /\ DevicesIn(Shared(p)) \subseteq Known(p)
    BY <2>2 DEF FoldersIn, DevicesIn
  <2>4. ASSUME NEW s \in Shares, s[1] \in p.ignored[s[2]] PROVE p.shares[s] = Nobody
    <3>1. s[2] \in Devices /\ s = <<s[1], s[2]>>
      BY DEF Shares
    <3>2. shares[<<s[1], s[2]>>] = Nobody
      BY <2>4, <3>1, <1>3 DEF ignored
    <3> QED
      BY <3>1, <3>2, <1>3
  <2>5. Ignored(p) \cap Shared(p) = {}
    BY <2>4 DEF Ignored, Shared
  <2> QED
    BY <2>1, <2>3, <2>5 DEF Clean
<1> QED
  BY <1>3, <1>6, <1>7, <1>8, <1>9 DEF p

\* What the user may make of a configuration is one.
LEMMA EditedIs ==
    ASSUME NEW c \in Config, NEW e \in Edited(c)
    PROVE  e \in Config /\ \A s \in Shares : e.shares[s] \in {c.shares[s], User, Nobody}
<1>1. /\ c.by \in [Devices -> Origins] /\ c.paused \subseteq Devices /\ c.shunned \subseteq Devices
      /\ c.have \subseteq Folders /\ c.ignored \in [Devices -> SUBSET Folders] /\ c.shares \in [Shares -> Origins]
  BY ConfigParts
<1>2. CASE \E d \in Devices : e = [c EXCEPT !.by[d] = IF @ = Nobody THEN User ELSE Nobody]
  BY <1>1, <1>2 DEF Config, Origins
<1>3. CASE \E f \in Folders : e = [c EXCEPT !.have = Toggle(@, f)]
  BY <1>1, <1>3 DEF Config, Toggle
<1>4. CASE \E d \in Known(c) : e = [c EXCEPT !.paused = Toggle(@, d)]
  BY <1>1, <1>4 DEF Config, Toggle, Known
<1>5. CASE \E d \in Devices \ Known(c) : e = [c EXCEPT !.shunned = Toggle(@, d)]
  BY <1>1, <1>5 DEF Config, Toggle
<1>6. CASE \E s \in {s \in Shares : s[2] \in Known(c)} \ Shared(c) : e = [c EXCEPT !.ignored[s[2]] = Toggle(@, s[1])]
  <2>1. PICK s \in Shares : e = [c EXCEPT !.ignored[s[2]] = Toggle(@, s[1])]
    BY <1>6
  <2>2. s[1] \in Folders /\ s[2] \in Devices
    BY DEF Shares
  <2>3. [c.ignored EXCEPT ![s[2]] = Toggle(@, s[1])] \in [Devices -> SUBSET Folders]
    BY <1>1, <2>2 DEF Toggle
  <2> QED
    BY <1>1, <2>1, <2>3 DEF Config
<1>7. CASE \E s \in {s \in Shares : s[2] \in Known(c)} :
             e = [c EXCEPT !.shares[s] = IF @ = Nobody THEN User ELSE Nobody, !.have = @ \cup {s[1]}]
  <2>1. PICK s \in Shares : e = [c EXCEPT !.shares[s] = IF @ = Nobody THEN User ELSE Nobody, !.have = @ \cup {s[1]}]
    BY <1>7
  <2>2. s[1] \in Folders
    BY DEF Shares
  <2>3. [c.shares EXCEPT ![s] = IF @ = Nobody THEN User ELSE Nobody] \in [Shares -> Origins]
    BY <1>1 DEF Origins
  <2> QED
    BY <1>1, <2>1, <2>2, <2>3 DEF Config
<1> QED
  BY <1>2, <1>3, <1>4, <1>5, <1>6, <1>7 DEF Edited

\* What a handler accepts on its own makes a configuration.
LEMMA AcceptedIs ==
    ASSUME NEW c \in Config, NEW d \in Devices, NEW folders \in SUBSET Folders
    PROVE  LET accepted == {<<f, d>> : f \in folders}
           IN [c EXCEPT !.have = @ \cup FoldersIn(accepted),
                        !.shares = [s \in Shares |-> IF s \in accepted /\ @[s] = Nobody THEN User ELSE @[s]]]
                \in Config
<1> DEFINE accepted == {<<f, d>> : f \in folders}
           shares == [s \in Shares |-> IF s \in accepted /\ c.shares[s] = Nobody THEN User ELSE c.shares[s]]
<1>1. /\ c.by \in [Devices -> Origins] /\ c.paused \subseteq Devices /\ c.shunned \subseteq Devices
      /\ c.have \subseteq Folders /\ c.ignored \in [Devices -> SUBSET Folders] /\ c.shares \in [Shares -> Origins]
  BY ConfigParts
<1>2. FoldersIn(accepted) \subseteq Folders
  BY DEF FoldersIn
<1>3. shares \in [Shares -> Origins]
  BY <1>1 DEF Origins
<1> QED
  BY <1>1, <1>2, <1>3 DEF Config

\* What an introducer i brings, and takes away: only where nothing is, or what is its own.
LEMMA IntroducedIs ==
    ASSUME NEW c \in Config, NEW i \in Devices, NEW common \in SUBSET Shares
    PROVE  LET e == Deintroduced(i, common, Introduced(i, common, c))
           IN  /\ e \in Config
               /\ e.have = c.have
               /\ \A s \in Shares : c.shares[s] \notin {i, Nobody} => e.shares[s] = c.shares[s]
               /\ \A s \in Shares : e.shares[s] # c.shares[s] => e.shares[s] \in {i, Nobody}
               /\ \A s \in Shares : i \notin Skipping /\ e.shares[s] = i => s \in common
               /\ \A d \in Devices : c.by[d] \notin {i, Nobody} => e.by[d] = c.by[d]
               /\ \A s \in Shares : c.shares[s] \notin {i, Nobody} /\ c.by[s[2]] # Nobody => e.by[s[2]] # Nobody
<1> DEFINE made == Introduced(i, common, c)
           e == Deintroduced(i, common, made)
           by == [d \in Devices |-> IF d \in DevicesIn(common) /\ c.by[d] = Nobody THEN i ELSE c.by[d]]
           shares == [s \in Shares |-> IF s \in common /\ c.shares[s] = Nobody THEN i ELSE c.shares[s]]
           shares2 == [s \in Shares |-> IF shares[s] = i /\ s \notin common THEN Nobody ELSE shares[s]]
           by2 == [d \in Devices |-> IF by[d] = i /\ d \notin DevicesIn(common) \cup NeededOtherwise(i, shares)
                                      THEN Nobody ELSE by[d]]
<1>1. /\ c.by \in [Devices -> Origins] /\ c.paused \subseteq Devices /\ c.shunned \subseteq Devices
      /\ c.have \subseteq Folders /\ c.ignored \in [Devices -> SUBSET Folders] /\ c.shares \in [Shares -> Origins]
  BY ConfigParts
<1>2. by \in [Devices -> Origins] /\ shares \in [Shares -> Origins]
  BY <1>1 DEF Origins
<1>3. made = [c EXCEPT !.by = by, !.shares = shares]
  BY Zenon DEF Introduced
<1>4. made \in Config /\ made.by = by /\ made.shares = shares /\ made.have = c.have
  <2> HIDE DEF by, shares, made
  <2> QED
    BY <1>1, <1>2, <1>3 DEF Config
<1>5. CASE i \in Skipping
  <2>1. e = made
    BY <1>5 DEF Deintroduced
  <2>2. \A s \in Shares : e.shares[s] = IF s \in common /\ c.shares[s] = Nobody THEN i ELSE c.shares[s]
    BY <2>1, <1>4
  <2>3. \A d \in Devices : e.by[d] = IF d \in DevicesIn(common) /\ c.by[d] = Nobody THEN i ELSE c.by[d]
    BY <2>1, <1>4
  <2>4. e \in Config /\ e.have = c.have
    BY <2>1, <1>4
  <2>5. \A s \in Shares : s[2] \in Devices
    BY DEF Shares
  <2> HIDE DEF e, made
  <2>6. \A s \in Shares : /\ c.shares[s] \notin {i, Nobody} => e.shares[s] = c.shares[s]
                          /\ e.shares[s] # c.shares[s] => e.shares[s] \in {i, Nobody}
                          /\ c.shares[s] \notin {i, Nobody} /\ c.by[s[2]] # Nobody => e.by[s[2]] # Nobody
    BY <2>2, <2>3, <2>5, DevicesAssumption
  <2>7. \A d \in Devices : c.by[d] \notin {i, Nobody} => e.by[d] = c.by[d]
    BY <2>3
  <2> QED
    BY <2>4, <2>6, <2>7, <1>5 DEF e, made
<1>6. CASE i \notin Skipping
  <2>1. shares2 \in [Shares -> Origins] /\ by2 \in [Devices -> Origins]
    BY <1>2 DEF Origins
  <2>2. e = [made EXCEPT !.shares = shares2, !.by = by2]
    <3>1. e = [made EXCEPT !.shares = [s \in Shares |-> IF made.shares[s] = i /\ s \notin common THEN Nobody ELSE made.shares[s]],
                        !.by = [d \in Devices |->
                                  IF made.by[d] = i /\ d \notin DevicesIn(common) \cup NeededOtherwise(i, made.shares)
                                  THEN Nobody ELSE made.by[d]]]
      <4> HIDE DEF made
      <4> QED
        BY <1>6, Zenon DEF Deintroduced
    <3> HIDE DEF made, by, shares
    <3> QED
      BY <3>1, <1>4
  <2>3. e \in Config /\ e.shares = shares2 /\ e.by = by2 /\ e.have = c.have
    <3>1. /\ made.by \in [Devices -> Origins] /\ made.paused \subseteq Devices /\ made.shunned \subseteq Devices
          /\ made.have \subseteq Folders /\ made.ignored \in [Devices -> SUBSET Folders] /\ made.shares \in [Shares -> Origins]
      BY <1>4, ConfigParts
    <3> HIDE DEF made, by2, shares2, e
    <3> QED
      BY <2>1, <2>2, <3>1, <1>4 DEF Config
  <2>4. \A s \in Shares : c.shares[s] \notin {i, Nobody} => s[2] \in NeededOtherwise(i, shares) /\ s[2] \in Devices
    BY DEF NeededOtherwise, Shares
  <2>5. \A s \in Shares : shares[s] = IF s \in common /\ c.shares[s] = Nobody THEN i ELSE c.shares[s]
    OBVIOUS
  <2>6. \A s \in Shares : e.shares[s] = IF shares[s] = i /\ s \notin common THEN Nobody ELSE shares[s]
    BY <2>3
  <2>7. \A d \in Devices : e.by[d] = IF by[d] = i /\ d \notin DevicesIn(common) \cup NeededOtherwise(i, shares)
                                      THEN Nobody ELSE by[d]
    BY <2>3
  <2>8. \A d \in Devices : by[d] = IF d \in DevicesIn(common) /\ c.by[d] = Nobody THEN i ELSE c.by[d]
    OBVIOUS
  <2>9. i # Nobody
    BY DevicesAssumption
  <2> HIDE DEF e, made, shares, by, shares2, by2
  <2>10. \A s \in Shares : /\ c.shares[s] \notin {i, Nobody} => e.shares[s] = c.shares[s]
                           /\ e.shares[s] # c.shares[s] => e.shares[s] \in {i, Nobody}
                           /\ e.shares[s] = i => s \in common
    BY <2>5, <2>6, <2>9
  <2>11. \A d \in Devices : c.by[d] \notin {i, Nobody} => e.by[d] = c.by[d]
    BY <2>7, <2>8
  <2>12. \A s \in Shares : c.shares[s] \notin {i, Nobody} /\ c.by[s[2]] # Nobody => e.by[s[2]] # Nobody
    BY <2>4, <2>7, <2>8, <2>9
  <2> QED
    BY <2>3, <2>10, <2>11, <2>12 DEF e, made
<1> QED
  BY <1>5, <1>6

-----------------------------------------------------------------------------
(* Types *)

\* A configuration that is stored has been prepared.
LEMMA ModifyKeeps ==
    ASSUME TypeInv, NEW c \in Config, Modify(c) PROVE cfg' \in Config /\ Clean(cfg')
  BY PreparedIs DEF Modify

\* The configuration begins well formed: nothing is shared, and what is there was put there by the user.
LEMMA InitTypes == Init => TypeInv
<1> SUFFICES ASSUME Init PROVE TypeInv
  OBVIOUS
<1>1. cfg \in Config /\ committed \in Config
  BY DEF Init, Config, Origins
<1>2. \A d \in Devices : cfg.ignored[d] = {}
  BY DEF Init
<1>3. \A s \in Shares : cfg.shares[s] = Nobody
  BY DEF Init
<1>4. cfg.paused = {} /\ cfg.shunned = {} /\ committed = cfg
  BY DEF Init
<1>5. Shared(cfg) = {}
  BY <1>3 DEF Shared
<1>6. Clean(cfg) /\ Clean(committed)
  BY <1>4, <1>5 DEF Clean, FoldersIn, DevicesIn
<1>7. /\ pendingFolders \subseteq Shares /\ pendingDevices \subseteq Devices
      /\ link \in [Conns -> {"down", "greeting", "up", "closing"}]
      /\ inbox \in [Conns -> Seq(SUBSET Shares)]
      /\ theirs \in [Devices -> SUBSET Shares]
  BY DEF Init
<1>8. hand \in [Conns -> Hand]
  BY DEF Init, Hand, Idle
<1> QED
  BY <1>1, <1>6, <1>7, <1>8 DEF TypeInv, Typed

\* A commit only puts the configuration in effect in the place of the committed one.
LEMMA CommitTypes == ASSUME TypeInv, Commit PROVE TypeInv'
<1>1. /\ cfg' = cfg /\ committed' = cfg /\ inbox' = inbox /\ theirs' = theirs
      /\ link' = [c \in Conns |-> IF Of[c] \in ToClose /\ link[c] = "up" THEN "closing" ELSE link[c]]
      /\ pendingFolders' = CleanFolders(committed.have \ cfg.have)
      /\ pendingDevices' = CleanDevices
      /\ hand' = [c \in Conns |-> IF hand[c].at = "wait" THEN [hand[c] EXCEPT !.at = "folders"] ELSE hand[c]]
  BY DEF Commit
<1>2. pendingFolders' \subseteq Shares /\ pendingDevices' \subseteq Devices
  BY <1>1 DEF CleanFolders, CleanDevices, TypeInv, Typed
<1>3. \A h \in Hand : [h EXCEPT !.at = "folders"] \in Hand
  BY DEF Hand
<1>4. hand' \in [Conns -> Hand]
  BY <1>1, <1>3 DEF TypeInv, Typed
<1>5. link' \in [Conns -> {"down", "greeting", "up", "closing"}]
  BY <1>1 DEF TypeInv, Typed
<1> QED
  BY <1>1, <1>2, <1>4, <1>5 DEF TypeInv, Typed

\* Whatever the user edits, Prepared makes a well formed configuration of it.
LEMMA EditTypes == ASSUME TypeInv, Edit PROVE TypeInv'
<1>1. PICK c \in Edited(cfg) : Modify(c)
  BY DEF Edit
<1>2. cfg' \in Config /\ Clean(cfg')
  BY <1>1, EditedIs, ModifyKeeps DEF TypeInv, Typed
<1> QED
  BY <1>2 DEF Edit, TypeInv, Typed

\* Dismissing an offer or a device takes an entry away.
LEMMA DismissTypes ==
    ASSUME TypeInv, (\E s \in Shares : DismissFolder(s)) \/ (\E d \in Devices : DismissDevice(d)) PROVE TypeInv'
  BY DEF DismissFolder, DismissDevice, TypeInv, Typed

\* Connections come and go without the configuration.
LEMMA LinkTypes ==
    ASSUME TypeInv, NEW c \in Conns, Greet(c) \/ Lose(c) \/ Closed(c) PROVE TypeInv'
<1>1. CASE Greet(c)
  BY <1>1 DEF Greet, TypeInv, Typed
<1>2. CASE Lose(c)
  BY <1>2 DEF Lose, TypeInv, Typed
<1>3. CASE Closed(c)
  BY <1>3 DEF Closed, TypeInv, Typed
<1> QED
  BY <1>1, <1>2, <1>3

\* An unknown device that connects is one of Devices, since connections are of devices.
LEMMA GreetedTypes == ASSUME TypeInv, NEW c \in Conns, Greeted(c) PROVE TypeInv'
<1>1. Of[c] \in Devices
  BY DevicesAssumption
<1>2. <<theirs[Of[c]]>> \in Seq(SUBSET Shares)
  BY <1>1 DEF TypeInv, Typed
<1> QED
  BY <1>1, <1>2 DEF Greeted, TypeInv, Typed

\* What another device announces is a set of shares.
LEMMA TheirsTypes == ASSUME TypeInv, NEW d \in Devices, TheirsChange(d) PROVE TypeInv'
<1>1. PICK cc \in Offers(d) :
        /\ theirs' = [theirs EXCEPT ![d] = cc]
        /\ inbox' = [c \in Conns |-> IF Of[c] = d /\ link[c] = "up" THEN Append(inbox[c], cc) ELSE inbox[c]]
  BY DEF TheirsChange
<1>2. cc \in SUBSET Shares
  BY DEF Offers
<1>3. \A c \in Conns : Append(inbox[c], cc) \in Seq(SUBSET Shares)
  BY <1>2 DEF TypeInv, Typed
<1>4. inbox' \in [Conns -> Seq(SUBSET Shares)]
  BY <1>1, <1>3 DEF TypeInv, Typed
<1> QED
  BY <1>1, <1>2, <1>4 DEF TheirsChange, TypeInv, Typed

\* What a handler holds is a ClusterConfig that was in the inbox.
LEMMA ReceiveTypes == ASSUME TypeInv, NEW c \in Conns, Receive(c) PROVE TypeInv'
<1>1. Of[c] \in Devices
  BY DevicesAssumption
<1>2. Head(inbox[c]) \in SUBSET Shares /\ Tail(inbox[c]) \in Seq(SUBSET Shares)
  BY DEF Receive, TypeInv, Typed
<1>3. cfg.ignored[Of[c]] \subseteq Folders
  BY <1>1, ConfigParts DEF TypeInv, Typed
<1>4. hand' \in [Conns -> Hand]
  <2> DEFINE h == [at |-> IF Of[c] \in Accepting THEN "accept" ELSE "folders",
                   cc |-> Head(inbox[c]), ignored |-> cfg.ignored[Of[c]]]
  <2>1. h \in Hand
    BY <1>2, <1>3 DEF Hand
  <2>2. hand' = [hand EXCEPT ![c] = h] \/ hand' = hand
    BY DEF Receive
  <2> HIDE DEF h
  <2> QED
    BY <2>1, <2>2 DEF TypeInv, Typed
<1>5. inbox' \in [Conns -> Seq(SUBSET Shares)]
  <2>1. inbox' = [inbox EXCEPT ![c] = Tail(inbox[c])] \/ inbox' = [inbox EXCEPT ![c] = <<>>]
    BY DEF Receive, TypeInv, Typed
  <2>2. inbox \in [Conns -> Seq(SUBSET Shares)] /\ <<>> \in Seq(SUBSET Shares)
    BY DEF TypeInv, Typed
  <2> QED
    BY <1>2, <2>1, <2>2
<1>6. link' \in [Conns -> {"down", "greeting", "up", "closing"}]
  BY DEF Receive, TypeInv, Typed
<1> QED
  BY <1>4, <1>5, <1>6 DEF Receive, TypeInv, Typed

\* Folders that are accepted are put there by the user's setting, and prepared like an edit.
LEMMA AutoAcceptTypes == ASSUME TypeInv, NEW c \in Conns, AutoAccept(c) PROVE TypeInv'
<1> DEFINE d == Of[c]
           offered == FoldersIn(hand[c].cc)
<1>1. d \in Devices
  BY DevicesAssumption
<1>2. hand[c].cc \subseteq Shares
  BY DEF TypeInv, Typed, Hand
<1>3. offered \subseteq Folders
  BY <1>2 DEF FoldersIn, Shares
<1>4. PICK inPlace \in SUBSET (offered \ cfg.have) :
        LET accepted == {<<f, d>> : f \in offered \ inPlace}
        IN Modify([cfg EXCEPT !.have = @ \cup FoldersIn(accepted),
                              !.shares = [s \in Shares |-> IF s \in accepted /\ @[s] = Nobody THEN User ELSE @[s]]])
  BY DEF AutoAccept
<1>5. cfg' \in Config /\ Clean(cfg')
  <2> DEFINE accepted == {<<f, d>> : f \in offered \ inPlace}
             new == [cfg EXCEPT !.have = @ \cup FoldersIn(accepted),
                                !.shares = [s \in Shares |-> IF s \in accepted /\ @[s] = Nobody THEN User ELSE @[s]]]
  <2>1. cfg \in Config /\ offered \ inPlace \in SUBSET Folders
    BY <1>3 DEF TypeInv, Typed
  <2>2. Modify(new)
    BY <1>4
  <2> HIDE DEF d, offered
  <2>3. new \in Config
    BY <1>1, <2>1, AcceptedIs
  <2> HIDE DEF new
  <2> QED
    BY <2>2, <2>3, ModifyKeeps
<1>6. hand' \in [Conns -> Hand]
  <2>1. PICK place \in {"folders", "wait"} : hand' = [hand EXCEPT ![c].at = place]
    BY DEF AutoAccept
  <2>2. hand \in [Conns -> Hand]
    BY DEF TypeInv, Typed
  <2>3. [hand[c] EXCEPT !.at = place] \in Hand
    BY <2>2 DEF Hand
  <2> QED
    BY <2>1, <2>2, <2>3
<1> QED
  BY <1>5, <1>6 DEF AutoAccept, TypeInv, Typed

\* The offers that become pending are pairs of a folder and the device.
LEMMA HandleFoldersTypes == ASSUME TypeInv, NEW c \in Conns, HandleFolders(c) PROVE TypeInv'
<1>1. Of[c] \in Devices
  BY DevicesAssumption
<1>2. hand[c].cc \subseteq Shares
  BY DEF TypeInv, Typed, Hand
<1>3. {<<f, Of[c]>> : f \in FoldersIn(hand[c].cc)} \subseteq Shares
  BY <1>1, <1>2 DEF FoldersIn, Shares
<1>4. pendingFolders' \subseteq Shares
  BY <1>3 DEF HandleFolders, TypeInv, Typed
<1>5. Idle \in Hand
  BY DEF Idle, Hand
<1>6. [hand EXCEPT ![c].at = "introduce"] \in [Conns -> Hand] /\ [hand EXCEPT ![c] = Idle] \in [Conns -> Hand]
  BY <1>5 DEF Hand, TypeInv, Typed
<1>7. hand' \in [Conns -> Hand]
  BY <1>6 DEF HandleFolders
<1> QED
  BY <1>4, <1>7 DEF HandleFolders, TypeInv, Typed

\* What Introduce makes of the configuration.
LEMMA IntroduceIs ==
    ASSUME TypeInv, NEW c \in Conns, Introduce(c)
    PROVE  LET i == Of[c]
               common == {s \in hand[c].cc : s[1] \in cfg.have}
               e == Deintroduced(i, common, Introduced(i, common, cfg))
           IN  /\ i \in Devices /\ common \in SUBSET Shares /\ e \in Config
               /\ committed = cfg /\ cfg' = Prepared(e)
<1>1. Of[c] \in Devices
  BY DevicesAssumption
<1>2. hand[c].cc \subseteq Shares
  BY DEF TypeInv, Typed, Hand
<1> QED
  BY <1>1, <1>2, IntroducedIs DEF Introduce, Modify, TypeInv, Typed

\* What is introduced is put there by the device of the connection.
LEMMA IntroduceTypes == ASSUME TypeInv, NEW c \in Conns, Introduce(c) PROVE TypeInv'
<1>1. cfg' \in Config /\ Clean(cfg')
  BY IntroduceIs, PreparedIs
<1>2. Idle \in Hand
  BY DEF Idle, Hand
<1>3. hand' \in [Conns -> Hand]
  BY <1>2 DEF Introduce, TypeInv, Typed
<1> QED
  BY <1>1, <1>3 DEF Introduce, TypeInv, Typed

\* So every step preserves the types.
LEMMA NextTypes == TypeInv /\ [Next]_vars => TypeInv'
<1> SUFFICES ASSUME TypeInv, [Next]_vars PROVE TypeInv'
  OBVIOUS
<1>1. CASE Commit
  BY <1>1, CommitTypes
<1>2. CASE Edit
  BY <1>2, EditTypes
<1>3. CASE (\E s \in Shares : DismissFolder(s)) \/ (\E d \in Devices : DismissDevice(d))
  BY <1>3, DismissTypes
<1>4. CASE \E d \in Devices : TheirsChange(d)
  BY <1>4, TheirsTypes
<1>5. CASE \E c \in Conns : Greet(c) \/ Lose(c) \/ Closed(c)
  BY <1>5, LinkTypes
<1>6. CASE \E c \in Conns : Greeted(c)
  BY <1>6, GreetedTypes
<1>7. CASE \E c \in Conns : Receive(c)
  BY <1>7, ReceiveTypes
<1>8. CASE \E c \in Conns : AutoAccept(c)
  BY <1>8, AutoAcceptTypes
<1>9. CASE \E c \in Conns : HandleFolders(c)
  BY <1>9, HandleFoldersTypes
<1>10. CASE \E c \in Conns : Introduce(c)
  BY <1>10, IntroduceTypes
<1>11. CASE UNCHANGED vars
  BY <1>11 DEF vars, TypeInv, Typed
<1> QED
  BY <1>1, <1>2, <1>3, <1>4, <1>5, <1>6, <1>7, <1>8, <1>9, <1>10, <1>11 DEF Next

\* The configuration, before and after it is committed, is always one that prepareFoldersAndDevices
\* would leave as it is: shares are of folders and devices that are there, and none is ignored.
THEOREM TypeCorrect == Spec => []TypeOK
<1>1. TypeInv => TypeOK
  BY ConfigParts DEF TypeInv, Typed, TypeOK, Clean, Hand, Origins
<1> QED
  BY <1>1, InitTypes, NextTypes, PTL DEF Spec

-----------------------------------------------------------------------------
(* What an introducer may take away *)

\* What was there and is not the introducer's own is as before: neither part of Introduce
\* changes it, and Prepared keeps shares of folders that are there with devices that are.
LEMMA IntroduceTakesItsOwn ==
    ASSUME TypeInv, NEW c \in Conns, Introduce(c)
    PROVE  /\ \A s \in Shares : cfg.shares[s] \notin {Of[c], Nobody} => cfg'.shares[s] = cfg.shares[s]
           /\ \A d \in Devices : cfg.by[d] \notin {Of[c], Nobody} => cfg'.by[d] = cfg.by[d]
<1> DEFINE i == Of[c]
           common == {s \in hand[c].cc : s[1] \in cfg.have}
           e == Deintroduced(i, common, Introduced(i, common, cfg))
<1>1. /\ i \in Devices /\ common \in SUBSET Shares /\ e \in Config /\ cfg \in Config
      /\ cfg' = Prepared(e)
  BY IntroduceIs DEF TypeInv, Typed
<1>2. /\ e.have = cfg.have
      /\ \A s \in Shares : cfg.shares[s] \notin {i, Nobody} => e.shares[s] = cfg.shares[s]
      /\ \A d \in Devices : cfg.by[d] \notin {i, Nobody} => e.by[d] = cfg.by[d]
      /\ \A s \in Shares : cfg.shares[s] \notin {i, Nobody} /\ cfg.by[s[2]] # Nobody => e.by[s[2]] # Nobody
  BY <1>1, IntroducedIs
<1> HIDE DEF e, common
<1>3. /\ cfg'.by = e.by
      /\ \A s \in Shares : cfg'.shares[s] = IF s[1] \in e.have /\ s[2] \in Known(e) THEN e.shares[s] ELSE Nobody
  BY <1>1, PreparedIs
<1>4. \A s \in Shares : cfg.shares[s] # Nobody => s[1] \in cfg.have /\ s[2] \in Devices /\ cfg.by[s[2]] # Nobody
  BY DEF TypeInv, Clean, Shared, FoldersIn, DevicesIn, Known
<1>5. \A s \in Shares : cfg.shares[s] \notin {i, Nobody} => s[1] \in e.have /\ s[2] \in Known(e)
  BY <1>2, <1>4 DEF Known
<1> QED
  BY <1>2, <1>3, <1>5

\* Whatever the user changes meanwhile, and however often: an introducer that does not name a
\* share or device any more takes it away only if it has introduced it itself (handleDeintroductions).
THEOREM IntroducersTakeTheirOwn == Spec => TakesOnlyItsOwn
<1>1. TypeInv /\ [Next]_vars =>
        [\A c \in Conns : Introduce(c) =>
           /\ \A s \in Shares : cfg.shares[s] \notin {Of[c], Nobody} => cfg'.shares[s] = cfg.shares[s]
           /\ \A d \in Devices : cfg.by[d] \notin {Of[c], Nobody} => cfg'.by[d] = cfg.by[d]]_vars
  BY IntroduceTakesItsOwn
<1> QED
  BY <1>1, InitTypes, NextTypes, PTL DEF Spec, TakesOnlyItsOwn

-----------------------------------------------------------------------------
(* What waits for the user *)

\* Each device has one connection at a time; the model gives it one.
OneConnection == \A c, e \in Conns : Of[c] = Of[e] => c = e

Offered(d) == {<<f, d>> : f \in FoldersIn(theirs[d])}
Settled(c) == Shared(c) \cup Ignored(c)

\* Only known devices are connected, but for a commit that is due.
UpIsKnown == \A c \in Conns : link[c] = "up" => Of[c] \in Known(cfg) \cup Known(committed)

\* The last ClusterConfig of a connected device that is not handled is what it shares.
LastIsTheirs ==
  \A c \in Conns : link[c] = "up" =>
    IF inbox[c] # <<>> THEN inbox[c][Len(inbox[c])] = theirs[Of[c]]
                       ELSE hand[c].at # "idle" => hand[c].cc = theirs[Of[c]]

\* Once the folders of the last one have been handled, what the device offers is settled or waits,
\* and nothing else of it waits.
Heard(c) == link[c] = "up" /\ inbox[c] = <<>> /\ hand[c].at \in {"idle", "introduce"}
HeardIsShown ==
  \A c \in Conns : Heard(c) =>
    /\ OfDevice(pendingFolders, Of[c]) \subseteq Offered(Of[c])
    /\ Offered(Of[c]) \subseteq Settled(cfg) \cup Settled(committed) \cup pendingFolders \cup moved

\* Once its introductions have been handled, its shares are those it names.
HeardIsFollowed ==
  \A c \in Conns : Of[c] \in Introducers \ Skipping /\ Heard(c) /\ hand[c].at = "idle" =>
    \A s \in Shares : cfg.shares[s] = Of[c] => s \in theirs[Of[c]]

IInv == TypeInv /\ PendingRight /\ UpIsKnown /\ LastIsTheirs /\ HeardIsShown /\ HeardIsFollowed

\* In the invariant is what is to be shown.
LEMMA InvariantSuffices == IInv => PendingAndShares
<1> SUFFICES ASSUME IInv PROVE OffersShown /\ IntroducedFollow
  BY DEF IInv, PendingAndShares
<1>1. ASSUME NEW d \in Devices, Still(d), Connected(d) PROVE \E c \in Conns : Of[c] = d /\ Heard(c) /\ hand[c].at = "idle"
  BY <1>1 DEF Still, Connected, Heard, Idle
<1>2. OffersShown
  <2> SUFFICES ASSUME NEW d \in Devices, Still(d), Connected(d)
               PROVE  /\ Offered(d) \subseteq Shared(cfg) \cup Ignored(cfg) \cup pendingFolders \cup moved
                      /\ OfDevice(pendingFolders, d) \subseteq Offered(d)
    BY DEF OffersShown, Offered
  <2>1. committed = cfg
    BY DEF Still
  <2>2. /\ OfDevice(pendingFolders, d) \subseteq Offered(d)
        /\ Offered(d) \subseteq Settled(cfg) \cup Settled(committed) \cup pendingFolders \cup moved
    BY <1>1 DEF IInv, HeardIsShown
  <2> QED
    BY <2>1, <2>2 DEF Settled
<1>3. IntroducedFollow
  <2> SUFFICES ASSUME NEW i \in (Introducers \ Skipping) \cap Known(cfg), Still(i), Connected(i),
                      NEW s \in Shares, cfg.shares[s] = i
               PROVE  s \in theirs[i]
    BY DEF IntroducedFollow
  <2>1. i \in Devices
    BY DEF Known
  <2> QED
    BY <2>1, <1>1 DEF IInv, HeardIsFollowed
<1> QED
  BY <1>2, <1>3

\* At first no device is connected and nothing is pending.
LEMMA InitHolds == Init => IInv
<1> SUFFICES ASSUME Init PROVE IInv
  OBVIOUS
<1>1. \A c \in Conns : link[c] = "down"
  BY DEF Init
<1>2. PendingRight
  BY DEF Init, PendingRight
<1> QED
  BY <1>1, <1>2, InitTypes DEF IInv, UpIsKnown, LastIsTheirs, HeardIsShown, HeardIsFollowed, Heard

\* A connection that is up, and about which nothing changes but what a commit or a dismissal does.
LEMMA CommitKeeps == ASSUME IInv, Commit PROVE IInv'
<1> DEFINE removed == committed.have \ cfg.have
<1>1. /\ cfg' = cfg /\ committed' = cfg /\ inbox' = inbox /\ theirs' = theirs
      /\ link' = [c \in Conns |-> IF Of[c] \in ToClose /\ link[c] = "up" THEN "closing" ELSE link[c]]
      /\ pendingFolders' = CleanFolders(removed)
      /\ pendingDevices' = CleanDevices
      /\ hand' = [c \in Conns |-> IF hand[c].at = "wait" THEN [hand[c] EXCEPT !.at = "folders"] ELSE hand[c]]
      /\ stale' = {}
      /\ moved' = moved \cup ((Shared(committed) \cup Ignored(committed) \cup {s \in Shares : s[1] \in removed})
                                \ (Shared(cfg) \cup Ignored(cfg)))
  BY DEF Commit
<1>2. TypeInv /\ TypeInv'
  BY CommitTypes DEF IInv
<1>3. PendingRight'
  BY <1>1 DEF PendingRight, CleanFolders, CleanDevices
<1>4. \A c \in Conns : link'[c] = "up" => link[c] = "up" /\ Of[c] \in Known(cfg)
  BY <1>1 DEF IInv, UpIsKnown, ToClose
<1>5. UpIsKnown'
  BY <1>1, <1>4 DEF UpIsKnown, Known
<1>6. \A c \in Conns : /\ hand'[c].cc = hand[c].cc
                       /\ hand'[c].at = IF hand[c].at = "wait" THEN "folders" ELSE hand[c].at
  BY <1>1, <1>2 DEF TypeInv, Typed, Hand
<1>7. LastIsTheirs'
  BY <1>1, <1>4, <1>6 DEF IInv, LastIsTheirs
<1>8. \A c \in Conns : Heard(c)' => Heard(c) /\ hand'[c].at = hand[c].at
  BY <1>1, <1>4, <1>6 DEF Heard
<1>9. HeardIsFollowed'
  BY <1>1, <1>8 DEF IInv, HeardIsFollowed
<1>10. ASSUME NEW c \in Conns, Heard(c)'
       PROVE  /\ OfDevice(pendingFolders, Of[c])' \subseteq Offered(Of[c])'
              /\ Offered(Of[c])' \subseteq (Settled(cfg) \cup Settled(committed) \cup pendingFolders \cup moved)'
  <2>1. /\ OfDevice(pendingFolders, Of[c]) \subseteq Offered(Of[c])
        /\ Offered(Of[c]) \subseteq Settled(cfg) \cup Settled(committed) \cup pendingFolders \cup moved
    BY <1>8, <1>10 DEF IInv, HeardIsShown
  <2>2. Offered(Of[c])' = Offered(Of[c]) /\ Settled(cfg)' = Settled(cfg)
    BY <1>1 DEF Offered, Settled, Shared, Ignored
  <2>3. pendingFolders' \subseteq pendingFolders
    BY <1>1 DEF CleanFolders
  <2>4. Of[c] \in Known(cfg)
    BY <1>4, <1>10 DEF Heard
  <2>5. \A s \in pendingFolders : s[2] = Of[c] => s \in pendingFolders' \cup Settled(cfg) \cup moved'
    BY <1>1, <1>2, <2>4 DEF CleanFolders, Settled, TypeInv, Typed
  <2>6. Settled(committed) \subseteq Settled(cfg) \cup moved'
    BY <1>1 DEF Settled
  <2>7. moved \subseteq moved'
    BY <1>1
  <2>8. \A s \in Offered(Of[c]) : s[2] = Of[c]
    BY DEF Offered
  <2> QED
    BY <2>1, <2>2, <2>3, <2>5, <2>6, <2>7, <2>8 DEF OfDevice
<1>11. HeardIsShown'
  BY <1>1, <1>10 DEF HeardIsShown
<1> QED
  BY <1>2, <1>3, <1>5, <1>7, <1>9, <1>11 DEF IInv

\* A change of the configuration leaves the rest to the commit.
LEMMA ChangeKeeps ==
    ASSUME IInv, TypeInv', committed = cfg, cfg' # cfg => committed' # cfg',
           UNCHANGED <<committed, pendingFolders, pendingDevices, link, inbox, theirs, stale, moved>>,
           \A c \in Conns : Heard(c)' => Heard(c),
           \A c \in Conns : link[c] = "up" /\ inbox[c] = <<>> /\ hand'[c].at # "idle" =>
                             hand[c].at # "idle" /\ hand'[c].cc = hand[c].cc,
           HeardIsFollowed'
    PROVE  IInv'
<1>1. PendingRight'
  BY DEF IInv, PendingRight, Shared, Known, Ignored
<1>2. UpIsKnown'
  BY DEF IInv, UpIsKnown, Known
<1>3. LastIsTheirs'
  BY DEF IInv, LastIsTheirs
<1>4. HeardIsShown'
  <2> SUFFICES ASSUME NEW c \in Conns, Heard(c)'
               PROVE  /\ OfDevice(pendingFolders, Of[c])' \subseteq Offered(Of[c])'
                      /\ Offered(Of[c])' \subseteq (Settled(cfg) \cup Settled(committed) \cup pendingFolders \cup moved)'
    BY DEF HeardIsShown
  <2>1. /\ OfDevice(pendingFolders, Of[c]) \subseteq Offered(Of[c])
        /\ Offered(Of[c]) \subseteq Settled(cfg) \cup Settled(committed) \cup pendingFolders \cup moved
    BY DEF IInv, HeardIsShown
  <2>2. /\ Settled(committed)' = Settled(committed) /\ Settled(cfg) = Settled(committed)
        /\ Offered(Of[c])' = Offered(Of[c]) /\ OfDevice(pendingFolders, Of[c])' = OfDevice(pendingFolders, Of[c])
    BY DEF Settled, Shared, Ignored, Offered, OfDevice
  <2> QED
    BY <2>1, <2>2
<1> QED
  BY <1>1, <1>2, <1>3, <1>4 DEF IInv

\* A change by the user is not committed yet: nothing is still then.
LEMMA EditKeeps == ASSUME IInv, Edit PROVE IInv'
<1>1. PICK e \in Edited(cfg) : committed = cfg /\ cfg' = Prepared(e)
  BY DEF Edit, Modify
<1>2. UNCHANGED <<committed, pendingFolders, pendingDevices, link, inbox, hand, theirs, stale, moved>>
  BY DEF Edit
<1>3. TypeInv /\ TypeInv'
  BY EditTypes DEF IInv
<1>4. \A s \in Shares : cfg'.shares[s] \in {cfg.shares[s], User, Nobody}
  BY <1>1, <1>3, EditedIs, PreparedIs DEF TypeInv, Typed
<1>5. \A c \in Conns, s \in Shares : cfg'.shares[s] = Of[c] => cfg.shares[s] = Of[c]
  BY <1>4, DevicesAssumption
<1>6. HeardIsFollowed'
  BY <1>2, <1>5 DEF IInv, HeardIsFollowed, Heard
<1> QED
  BY <1>1, <1>2, <1>3, <1>6, ChangeKeeps DEF Heard

\* Folders that are accepted wait for their commit, or were all shared before.
LEMMA AutoAcceptKeeps == ASSUME IInv, NEW c \in Conns, AutoAccept(c) PROVE IInv'
<1> DEFINE offered == FoldersIn(hand[c].cc)
           To(inPlace) == LET accepted == {<<f, Of[c]>> : f \in offered \ inPlace}
                          IN [cfg EXCEPT !.have = @ \cup FoldersIn(accepted),
                                         !.shares = [s \in Shares |-> IF s \in accepted /\ @[s] = Nobody THEN User ELSE @[s]]]
<1>1. /\ hand[c].at = "accept" /\ hand' = [hand EXCEPT ![c].at = IF cfg' = cfg THEN "folders" ELSE "wait"]
      /\ UNCHANGED <<committed, pendingFolders, pendingDevices, link, inbox, theirs, stale, moved>>
  BY DEF AutoAccept
<1>2. TypeInv /\ TypeInv'
  BY AutoAcceptTypes DEF IInv
<1>3. PICK inPlace \in SUBSET (offered \ cfg.have) : committed = cfg /\ cfg' = Prepared(To(inPlace))
  BY DEF AutoAccept, Modify
<1>4. offered \subseteq Folders /\ Of[c] \in Devices /\ cfg \in Config
  BY <1>2, DevicesAssumption DEF TypeInv, Typed, Hand, FoldersIn, Shares
<1>5. To(inPlace) \in Config
  BY <1>4, AcceptedIs
<1>6. \A s \in Shares : To(inPlace).shares[s] \in {cfg.shares[s], User}
  BY <1>4 DEF Config
<1>7. \A s \in Shares : cfg'.shares[s] \in {cfg.shares[s], User, Nobody}
  <2> HIDE DEF To
  <2> QED
    BY <1>3, <1>5, <1>6, PreparedIs
<1>8. \A e \in Conns, s \in Shares : cfg'.shares[s] = Of[e] => cfg.shares[s] = Of[e]
  BY <1>7, DevicesAssumption
<1>9. \A e \in Conns : /\ hand'[e].cc = hand[e].cc
                       /\ hand'[e] = hand[e] \/ (hand[e].at = "accept" /\ hand'[e].at \in {"folders", "wait"})
  BY <1>1, <1>2 DEF TypeInv, Typed, Hand
<1>10. \A e \in Conns : Heard(e)' => Heard(e) /\ hand'[e] = hand[e]
  BY <1>1, <1>9 DEF Heard
<1>11. HeardIsFollowed'
  BY <1>1, <1>8, <1>10 DEF IInv, HeardIsFollowed
<1> QED
  BY <1>1, <1>2, <1>3, <1>9, <1>10, <1>11, ChangeKeeps

\* The end of the handling: what is introduced now is what the device names.
LEMMA IntroduceKeeps == ASSUME IInv, OneConnection, NEW c \in Conns, Introduce(c) PROVE IInv'
<1> DEFINE i == Of[c]
           common == {s \in hand[c].cc : s[1] \in cfg.have}
           e == Deintroduced(i, common, Introduced(i, common, cfg))
<1>1. /\ hand[c].at = "introduce" /\ hand' = [hand EXCEPT ![c] = Idle]
      /\ UNCHANGED <<committed, pendingFolders, pendingDevices, link, inbox, theirs, stale, moved>>
  BY DEF Introduce
<1>2. TypeInv /\ TypeInv'
  BY IntroduceTypes DEF IInv
<1>3. /\ i \in Devices /\ common \in SUBSET Shares /\ e \in Config /\ cfg \in Config
      /\ committed = cfg /\ cfg' = Prepared(e)
  BY <1>2, IntroduceIs DEF TypeInv, Typed
<1>4. /\ \A s \in Shares : e.shares[s] # cfg.shares[s] => e.shares[s] \in {i, Nobody}
      /\ \A s \in Shares : i \notin Skipping /\ e.shares[s] = i => s \in common
  BY <1>3, IntroducedIs
<1>5. \A s \in Shares : cfg'.shares[s] \in {e.shares[s], Nobody}
  <2> HIDE DEF e
  <2> QED
    BY <1>3, PreparedIs
<1>6. \A d \in Conns : hand'[d] = IF d = c THEN Idle ELSE hand[d]
  BY <1>1, <1>2 DEF TypeInv, Typed
<1>7. \A d \in Conns : Heard(d)' => Heard(d)
  BY <1>1, <1>6 DEF Heard
<1>8. HeardIsFollowed'
  <2> SUFFICES ASSUME NEW d \in Conns, Of[d] \in Introducers \ Skipping, Heard(d)', hand'[d].at = "idle",
                      NEW s \in Shares, cfg'.shares[s] = Of[d]
               PROVE  s \in theirs[Of[d]]
    BY <1>1 DEF HeardIsFollowed
  <2>1. Of[d] \in Devices /\ Of[d] # Nobody
    BY DevicesAssumption
  <2>2. e.shares[s] = Of[d]
    BY <1>5, <2>1
  <2> HIDE DEF e
  <2>3. CASE d = c
    <3>1. s \in hand[c].cc
      BY <1>4, <2>2, <2>3
    <3>2. hand[c].cc = theirs[Of[c]]
      BY <1>1, <1>7, <2>3 DEF Heard, IInv, LastIsTheirs
    <3> QED
      BY <2>3, <3>1, <3>2
  <2>4. CASE d # c
    <3>1. Of[d] # i
      BY <2>4 DEF OneConnection
    <3>2. cfg.shares[s] = Of[d]
      BY <1>4, <2>1, <2>2, <3>1
    <3> QED
      BY <1>6, <1>7, <2>4, <3>2 DEF IInv, HeardIsFollowed
  <2> QED
    BY <2>3, <2>4
<1>9. \A d \in Conns : link[d] = "up" /\ inbox[d] = <<>> /\ hand'[d].at # "idle" =>
                         hand[d].at # "idle" /\ hand'[d].cc = hand[d].cc
  BY <1>6 DEF Idle
<1> HIDE DEF e
<1> QED
  BY <1>1, <1>2, <1>3, <1>7, <1>8, <1>9, ChangeKeeps

\* An offer that is dismissed is one the user has decided on.
LEMMA DismissFolderKeeps == ASSUME IInv, NEW s \in Shares, DismissFolder(s) PROVE IInv'
<1>1. /\ pendingFolders' = pendingFolders \ {s} /\ moved' = moved \cup {s}
      /\ UNCHANGED <<cfg, committed, pendingDevices, link, inbox, hand, theirs, stale>>
  BY DEF DismissFolder
<1>2. TypeInv'
  BY DismissTypes DEF IInv
<1>3. PendingRight'
  BY <1>1 DEF IInv, PendingRight, Shared, Known, Ignored
<1>4. UpIsKnown' /\ LastIsTheirs' /\ HeardIsFollowed'
  BY <1>1 DEF IInv, UpIsKnown, Known, LastIsTheirs, HeardIsFollowed, Heard
<1>5. HeardIsShown'
  BY <1>1 DEF IInv, HeardIsShown, Heard, Offered, Settled, OfDevice, Shared, Ignored
<1> QED
  BY <1>2, <1>3, <1>4, <1>5 DEF IInv

\* A device that is dismissed is not pending.
LEMMA DismissDeviceKeeps == ASSUME IInv, NEW d \in Devices, DismissDevice(d) PROVE IInv'
<1>1. /\ pendingDevices' = pendingDevices \ {d}
      /\ UNCHANGED <<cfg, committed, pendingFolders, link, inbox, hand, theirs, stale, moved>>
  BY DEF DismissDevice
<1>2. TypeInv'
  BY DismissTypes DEF IInv
<1>3. PendingRight'
  BY <1>1 DEF IInv, PendingRight, Shared, Known, Ignored
<1>4. UpIsKnown' /\ LastIsTheirs' /\ HeardIsFollowed'
  BY <1>1 DEF IInv, UpIsKnown, Known, LastIsTheirs, HeardIsFollowed, Heard
<1>5. HeardIsShown'
  BY <1>1 DEF IInv, HeardIsShown, Heard, Offered, Settled, OfDevice, Shared, Ignored
<1> QED
  BY <1>2, <1>3, <1>4, <1>5 DEF IInv

\* A connection that is not up, or that goes on hearing what it has heard.
LEMMA LinksKeep ==
    ASSUME IInv, TypeInv', UNCHANGED <<cfg, committed, pendingFolders, hand, theirs, moved>>, PendingRight',
           \A e \in Conns : link'[e] = "up" => link[e] = "up" /\ inbox'[e] = inbox[e]
    PROVE  IInv'
<1>1. \A e \in Conns : Heard(e)' => Heard(e)
  BY DEF Heard
<1>2. UpIsKnown' /\ LastIsTheirs' /\ HeardIsFollowed'
  BY <1>1 DEF IInv, UpIsKnown, Known, LastIsTheirs, HeardIsFollowed
<1>3. HeardIsShown'
  BY <1>1 DEF IInv, HeardIsShown, Offered, Settled, OfDevice, Shared, Ignored
<1> QED
  BY <1>2, <1>3 DEF IInv

\* A connection that begins or ends is not up after the step.
LEMMA ConnectionsKeep == ASSUME IInv, NEW c \in Conns, Greet(c) \/ Lose(c) \/ Closed(c) PROVE IInv'
<1>1. TypeInv /\ TypeInv'
  BY LinkTypes DEF IInv
<1>2. UNCHANGED <<cfg, committed, pendingFolders, pendingDevices, hand, theirs, stale, moved>>
  BY DEF Greet, Lose, Closed
<1>3. PendingRight'
  BY <1>2 DEF IInv, PendingRight, Shared, Known, Ignored
<1>4. \A e \in Conns : link'[e] = "up" => link[e] = "up" /\ inbox'[e] = inbox[e]
  BY <1>1 DEF Greet, Lose, Closed, TypeInv, Typed
<1> QED
  BY <1>1, <1>2, <1>3, <1>4, LinksKeep

\* A device that is added sends what it shares now; one that is not known becomes pending.
LEMMA GreetedKeeps == ASSUME IInv, NEW c \in Conns, Greeted(c) PROVE IInv'
<1>1. TypeInv /\ TypeInv' /\ Of[c] \in Devices
  BY GreetedTypes, DevicesAssumption DEF IInv
<1>2. UNCHANGED <<cfg, committed, pendingFolders, hand, theirs, moved>> /\ link[c] = "greeting"
  BY DEF Greeted
<1>3. CASE cfg.by[Of[c]] = Nobody
  <2>1. /\ pendingDevices' = pendingDevices \cup {Of[c]}
        /\ stale' = IF Of[c] \in cfg.shunned THEN stale \cup {Of[c]} ELSE stale
        /\ link' = [link EXCEPT ![c] = "down"] /\ inbox' = inbox
    BY <1>3 DEF Greeted
  <2>2. PendingRight'
    BY <1>2, <1>3, <2>1 DEF IInv, PendingRight, Shared, Known, Ignored
  <2>3. \A e \in Conns : link'[e] = "up" => link[e] = "up" /\ inbox'[e] = inbox[e]
    BY <1>1, <2>1 DEF TypeInv, Typed
  <2> QED
    BY <1>1, <1>2, <2>2, <2>3, LinksKeep
<1>4. CASE cfg.by[Of[c]] # Nobody
  <2>1. /\ link' = [link EXCEPT ![c] = "up"] /\ inbox' = [inbox EXCEPT ![c] = <<theirs[Of[c]]>>]
        /\ UNCHANGED <<pendingDevices, stale>>
    BY <1>4 DEF Greeted
  <2>2. \A e \in Conns : IF e = c THEN inbox'[e] = <<theirs[Of[c]]>>
                                  ELSE link'[e] = link[e] /\ inbox'[e] = inbox[e]
    BY <1>1, <2>1 DEF TypeInv, Typed
  <2>3. PendingRight'
    BY <1>2, <2>1 DEF IInv, PendingRight, Shared, Known, Ignored
  <2>4. UpIsKnown'
    BY <1>1, <1>2, <1>4, <2>2 DEF IInv, UpIsKnown, Known
  <2>5. <<theirs[Of[c]]>> # <<>> /\ Len(<<theirs[Of[c]]>>) = 1 /\ <<theirs[Of[c]]>>[1] = theirs[Of[c]]
    OBVIOUS
  <2>6. LastIsTheirs'
    BY <1>2, <2>2, <2>5 DEF IInv, LastIsTheirs
  <2>7. \A e \in Conns : Heard(e)' => Heard(e)
    BY <1>2, <2>2, <2>5 DEF Heard
  <2>8. HeardIsFollowed'
    BY <1>2, <2>7 DEF IInv, HeardIsFollowed
  <2>9. HeardIsShown'
    BY <1>2, <2>7 DEF IInv, HeardIsShown, Offered, Settled, OfDevice, Shared, Ignored
  <2> QED
    BY <1>1, <2>3, <2>4, <2>6, <2>8, <2>9 DEF IInv
<1> QED
  BY <1>3, <1>4

\* What a device shares anew is the last in the inbox of its connection.
LEMMA TheirsKeep == ASSUME IInv, NEW d \in Devices, TheirsChange(d) PROVE IInv'
<1>1. TypeInv /\ TypeInv'
  BY TheirsTypes DEF IInv
<1>2. PICK cc \in Offers(d) :
        /\ theirs' = [theirs EXCEPT ![d] = cc]
        /\ inbox' = [c \in Conns |-> IF Of[c] = d /\ link[c] = "up" THEN Append(inbox[c], cc) ELSE inbox[c]]
  BY DEF TheirsChange
<1>3. UNCHANGED <<cfg, committed, pendingFolders, pendingDevices, link, hand, stale, moved>>
  BY DEF TheirsChange
<1>4. PendingRight'
  BY <1>3 DEF IInv, PendingRight, Shared, Known, Ignored
<1>5. UpIsKnown'
  BY <1>3 DEF IInv, UpIsKnown, Known
<1>6. \A c \in Conns : link[c] = "up" =>
        IF Of[c] = d THEN /\ inbox'[c] # <<>> /\ inbox'[c][Len(inbox'[c])] = cc /\ theirs'[Of[c]] = cc
                     ELSE inbox'[c] = inbox[c] /\ theirs'[Of[c]] = theirs[Of[c]]
  <2> SUFFICES ASSUME NEW c \in Conns, link[c] = "up"
               PROVE  IF Of[c] = d THEN /\ inbox'[c] # <<>> /\ inbox'[c][Len(inbox'[c])] = cc /\ theirs'[Of[c]] = cc
                                   ELSE inbox'[c] = inbox[c] /\ theirs'[Of[c]] = theirs[Of[c]]
    OBVIOUS
  <2>1. inbox[c] \in Seq(SUBSET Shares) /\ Of[c] \in Devices /\ cc \in SUBSET Shares
    BY <1>1, DevicesAssumption DEF TypeInv, Typed, Offers
  <2>2. theirs'[Of[c]] = IF Of[c] = d THEN cc ELSE theirs[Of[c]]
    BY <1>1, <1>2, <2>1 DEF TypeInv, Typed
  <2>3. inbox'[c] = IF Of[c] = d THEN Append(inbox[c], cc) ELSE inbox[c]
    BY <1>2
  <2>4. LET q == Append(inbox[c], cc) IN q # <<>> /\ q[Len(q)] = cc
    BY <2>1
  <2> QED
    BY <2>2, <2>3, <2>4
<1>7. LastIsTheirs'
  BY <1>3, <1>6 DEF IInv, LastIsTheirs
<1>8. \A c \in Conns : Heard(c)' => Heard(c) /\ theirs'[Of[c]] = theirs[Of[c]]
  BY <1>3, <1>6 DEF Heard
<1>9. HeardIsFollowed'
  BY <1>3, <1>8 DEF IInv, HeardIsFollowed
<1>10. HeardIsShown'
  BY <1>3, <1>8 DEF IInv, HeardIsShown, Offered, Settled, OfDevice, Shared, Ignored
<1> QED
  BY <1>1, <1>4, <1>5, <1>7, <1>9, <1>10 DEF IInv

\* The last of what is left is the last of all.
LEMMA LastOfTail ==
    ASSUME NEW q \in Seq(SUBSET Shares), q # <<>>
    PROVE  IF Tail(q) # <<>> THEN Tail(q)[Len(Tail(q))] = q[Len(q)] ELSE Head(q) = q[Len(q)]
<1> DEFINE t == Tail(q)
<1>1. Len(q) \in Nat /\ t \in Seq(SUBSET Shares) /\ Len(t) = Len(q) - 1 /\ Head(q) = q[1]
  OBVIOUS
<1>2. \A i \in 1..Len(t) : t[i] = q[i + 1]
  OBVIOUS
<1> HIDE DEF t
<1>3. t = <<>> <=> Len(t) = 0
  BY <1>1
<1>4. Len(t) \in Nat
  BY <1>1
<1>5. IF t # <<>> THEN t[Len(t)] = q[Len(q)] ELSE q[1] = q[Len(q)]
  BY <1>1, <1>2, <1>3, <1>4
<1> QED
  BY <1>1, <1>5 DEF t

\* What was last in the inbox is in the hand of the handler, if it was the only one.
LEMMA ReceivingKeeps == ASSUME IInv, NEW c \in Conns, Receive(c) PROVE IInv'
<1>1. TypeInv /\ TypeInv'
  BY ReceiveTypes DEF IInv
<1>2. /\ UNCHANGED <<cfg, committed, pendingFolders, pendingDevices, theirs, stale, moved>>
      /\ hand[c] = Idle /\ inbox[c] # <<>>
  BY DEF Receive
<1>3. PendingRight'
  BY <1>2 DEF IInv, PendingRight, Shared, Known, Ignored
<1>4. CASE Of[c] \in Known(cfg)
  <2> DEFINE h == [at |-> IF Of[c] \in Accepting THEN "accept" ELSE "folders",
                   cc |-> Head(inbox[c]), ignored |-> cfg.ignored[Of[c]]]
  <2>1. hand' = [hand EXCEPT ![c] = h] /\ inbox' = [inbox EXCEPT ![c] = Tail(inbox[c])] /\ link' = link
    BY <1>1, <1>4 DEF Receive, TypeInv, Typed
  <2>2. h.at \notin {"idle", "introduce"} /\ h.cc = Head(inbox[c])
    OBVIOUS
  <2> HIDE DEF h
  <2>3. \A e \in Conns : IF e = c THEN hand'[e] = h /\ inbox'[e] = Tail(inbox[c])
                                  ELSE hand'[e] = hand[e] /\ inbox'[e] = inbox[e]
    BY <1>1, <2>1 DEF TypeInv, Typed
  <2>4. \A e \in Conns : Heard(e)' => Heard(e) /\ hand'[e] = hand[e]
    BY <2>1, <2>2, <2>3 DEF Heard
  <2>5. inbox[c] \in Seq(SUBSET Shares)
    BY <1>1 DEF TypeInv, Typed
  <2>6. IF Tail(inbox[c]) # <<>> THEN Tail(inbox[c])[Len(Tail(inbox[c]))] = inbox[c][Len(inbox[c])]
                                 ELSE Head(inbox[c]) = inbox[c][Len(inbox[c])]
    BY <1>2, <2>5, LastOfTail
  <2>7. LastIsTheirs'
    <3> SUFFICES ASSUME NEW e \in Conns, link[e] = "up"
                 PROVE  IF inbox'[e] # <<>> THEN inbox'[e][Len(inbox'[e])] = theirs[Of[e]]
                                            ELSE hand'[e].at # "idle" => hand'[e].cc = theirs[Of[e]]
      BY <1>2, <2>1 DEF LastIsTheirs
    <3>1. IF inbox[e] # <<>> THEN inbox[e][Len(inbox[e])] = theirs[Of[e]]
                             ELSE hand[e].at # "idle" => hand[e].cc = theirs[Of[e]]
      BY DEF IInv, LastIsTheirs
    <3>2. CASE e = c
      BY <1>2, <2>2, <2>3, <2>6, <3>1, <3>2
    <3>3. CASE e # c
      BY <2>3, <3>1, <3>3
    <3> QED
      BY <3>2, <3>3
  <2>8. UpIsKnown'
    BY <1>2, <2>1 DEF IInv, UpIsKnown, Known
  <2>9. HeardIsFollowed'
    BY <1>2, <2>4 DEF IInv, HeardIsFollowed
  <2>10. HeardIsShown'
    BY <1>2, <2>4 DEF IInv, HeardIsShown, Offered, Settled, OfDevice, Shared, Ignored
  <2> QED
    BY <1>1, <1>3, <2>7, <2>8, <2>9, <2>10 DEF IInv
<1>5. CASE Of[c] \notin Known(cfg)
  <2>1. link' = [link EXCEPT ![c] = "closing"] /\ inbox' = [inbox EXCEPT ![c] = <<>>] /\ hand' = hand
    BY <1>5 DEF Receive
  <2>2. \A e \in Conns : link'[e] = "up" => link[e] = "up" /\ inbox'[e] = inbox[e]
    BY <1>1, <2>1 DEF TypeInv, Typed
  <2> QED
    BY <1>1, <1>2, <1>3, <2>1, <2>2, LinksKeep
<1> QED
  BY <1>4, <1>5

\* The decision on what was offered: shared, ignored, or pending from now on.
LEMMA HandleFoldersKeeps == ASSUME IInv, OneConnection, NEW c \in Conns, HandleFolders(c) PROVE IInv'
<1> DEFINE d == Of[c]
           offered == {<<f, d>> : f \in FoldersIn(hand[c].cc)}
           ignored == {<<f, d>> : f \in hand[c].ignored}
<1>1. TypeInv /\ TypeInv' /\ d \in Devices
  BY HandleFoldersTypes, DevicesAssumption DEF IInv
<1>2. /\ hand[c].at = "folders"
      /\ pendingFolders' = (pendingFolders \ OfDevice(Shares, d)) \cup (offered \ (Shared(cfg) \cup ignored))
      /\ stale' = IF d \in Known(cfg) /\ hand[c].ignored = cfg.ignored[d] THEN stale ELSE stale \cup {d}
      /\ moved' = (moved \ OfDevice(Shares, d)) \cup (ignored \ (Shared(cfg) \cup Ignored(cfg)))
      /\ UNCHANGED <<cfg, committed, pendingDevices, link, inbox, theirs>>
  BY DEF HandleFolders
<1>3. \A e \in Conns : IF e = c
                       THEN /\ hand'[e].at = IF d \in Introducers THEN "introduce" ELSE "idle"
                            /\ d \in Introducers => hand'[e].cc = hand[e].cc
                       ELSE hand'[e] = hand[e]
  BY <1>1 DEF HandleFolders, TypeInv, Typed, Hand, Idle
<1>4. \A s \in offered : s[2] = d
  OBVIOUS
<1>5. hand[c].cc \subseteq Shares /\ offered \subseteq Shares
  BY <1>1 DEF TypeInv, Typed, Hand, FoldersIn, Shares
<1>6. PendingRight'
  <2> SUFFICES ASSUME cfg = committed
               PROVE  /\ pendingFolders' \cap Shared(cfg) = {}
                      /\ \A s \in pendingFolders' : s[2] \notin stale' => s[2] \in Known(cfg) /\ s \notin Ignored(cfg)
                      /\ pendingDevices \cap Known(cfg) = {}
                      /\ pendingDevices \cap cfg.shunned \subseteq stale'
    BY <1>2 DEF PendingRight, Shared, Known, Ignored
  <2>1. /\ pendingFolders \cap Shared(cfg) = {}
        /\ \A s \in pendingFolders : s[2] \notin stale => s[2] \in Known(cfg) /\ s \notin Ignored(cfg)
        /\ pendingDevices \cap Known(cfg) = {}
        /\ pendingDevices \cap cfg.shunned \subseteq stale
    BY DEF IInv, PendingRight
  <2>2. ASSUME NEW s \in offered \ (Shared(cfg) \cup ignored), s[2] \notin stale'
        PROVE  s[2] \in Known(cfg) /\ s \notin Ignored(cfg)
    <3>1. d \in Known(cfg) /\ hand[c].ignored = cfg.ignored[d]
      BY <1>2, <1>4, <2>2
    <3>2. s = <<s[1], d>> /\ s \in Shares
      BY <1>5
    <3>3. s[1] \notin cfg.ignored[d]
      BY <2>2, <3>1, <3>2
    <3> QED
      BY <3>1, <3>2, <3>3 DEF Ignored
  <2>3. stale \subseteq stale'
    BY <1>2
  <2> QED
    BY <1>2, <2>1, <2>2, <2>3
<1>7. UpIsKnown'
  BY <1>2 DEF IInv, UpIsKnown, Known
<1>8. LastIsTheirs'
  BY <1>2, <1>3 DEF IInv, LastIsTheirs
<1>9. \A e \in Conns : Heard(e)' /\ e # c => Heard(e) /\ hand'[e] = hand[e] /\ Of[e] # d
  BY <1>2, <1>3 DEF Heard, OneConnection
<1>10. \A e \in Conns : Heard(e)' /\ hand'[e].at = "idle" /\ Of[e] \in Introducers => e # c
  BY <1>3
<1>11. HeardIsFollowed'
  BY <1>2, <1>9, <1>10 DEF IInv, HeardIsFollowed
<1>12. HeardIsShown'
  <2> SUFFICES ASSUME NEW e \in Conns, Heard(e)'
               PROVE  /\ OfDevice(pendingFolders', Of[e]) \subseteq Offered(Of[e])
                      /\ Offered(Of[e]) \subseteq Settled(cfg) \cup Settled(committed) \cup pendingFolders' \cup moved'
    BY <1>2 DEF HeardIsShown, Offered, Settled, OfDevice, Shared, Ignored
  <2>1. CASE e = c
    <3>1. hand[c].cc = theirs[d]
      BY <1>2, <2>1 DEF Heard, IInv, LastIsTheirs
    <3>2. Offered(d) = offered
      BY <3>1 DEF Offered
    <3>3. OfDevice(pendingFolders', d) \subseteq offered
      BY <1>1, <1>2 DEF OfDevice, TypeInv, Typed
    <3>4. offered \subseteq Shared(cfg) \cup Ignored(cfg) \cup pendingFolders' \cup moved'
      BY <1>2
    <3> QED
      BY <2>1, <3>2, <3>3, <3>4 DEF Settled
  <2>2. CASE e # c
    <3>1. /\ OfDevice(pendingFolders, Of[e]) \subseteq Offered(Of[e])
          /\ Offered(Of[e]) \subseteq Settled(cfg) \cup Settled(committed) \cup pendingFolders \cup moved
          /\ Of[e] # d
      BY <1>9, <2>2 DEF IInv, HeardIsShown
    <3>2. OfDevice(pendingFolders', Of[e]) \subseteq OfDevice(pendingFolders, Of[e])
      BY <1>2, <1>4, <3>1 DEF OfDevice
    <3>3. \A s \in Offered(Of[e]) : s[2] = Of[e] /\ s \notin OfDevice(Shares, d)
      BY <3>1 DEF Offered, OfDevice
    <3> QED
      BY <1>2, <3>1, <3>2, <3>3
  <2> QED
    BY <2>1, <2>2
<1> QED
  BY <1>1, <1>6, <1>7, <1>8, <1>11, <1>12 DEF IInv

\* So every step preserves the invariant.
LEMMA NextKeeps == ASSUME OneConnection PROVE IInv /\ [Next]_vars => IInv'
<1> SUFFICES ASSUME IInv, [Next]_vars PROVE IInv'
  OBVIOUS
<1>1. CASE Commit
  BY <1>1, CommitKeeps
<1>2. CASE Edit
  BY <1>2, EditKeeps
<1>3. CASE \E s \in Shares : DismissFolder(s)
  BY <1>3, DismissFolderKeeps
<1>4. CASE \E d \in Devices : DismissDevice(d)
  BY <1>4, DismissDeviceKeeps
<1>5. CASE \E d \in Devices : TheirsChange(d)
  BY <1>5, TheirsKeep
<1>6. CASE \E c \in Conns : Greet(c) \/ Lose(c) \/ Closed(c)
  BY <1>6, ConnectionsKeep
<1>7. CASE \E c \in Conns : Greeted(c)
  BY <1>7, GreetedKeeps
<1>8. CASE \E c \in Conns : Receive(c)
  BY <1>8, ReceivingKeeps
<1>9. CASE \E c \in Conns : AutoAccept(c)
  BY <1>9, AutoAcceptKeeps
<1>10. CASE \E c \in Conns : HandleFolders(c)
  BY <1>10, HandleFoldersKeeps
<1>11. CASE \E c \in Conns : Introduce(c)
  BY <1>11, IntroduceKeeps
<1>12. CASE UNCHANGED vars
  <2>1. TypeInv'
    BY <1>12, NextTypes DEF IInv
  <2>2. UNCHANGED <<cfg, committed, pendingFolders, pendingDevices, link, inbox, hand, theirs, stale, moved>>
    BY <1>12 DEF vars
  <2>3. PendingRight'
    BY <2>2 DEF IInv, PendingRight, Shared, Known, Ignored
  <2> QED
    BY <2>1, <2>2, <2>3, LinksKeep
<1> QED
  BY <1>1, <1>2, <1>3, <1>4, <1>5, <1>6, <1>7, <1>8, <1>9, <1>10, <1>11, <1>12 DEF Next

\* Between commits and handlers, in any order and with any number of devices: what waits for the
\* user is not decided yet, what a connected device offers is shared, ignored or waits unless the
\* user has decided otherwise, and what an introducer has introduced is what it shares.
THEOREM OffersWaitAndFollow == ASSUME OneConnection PROVE Spec => []PendingAndShares
<1>1. Init => IInv
  BY InitHolds
<1>2. IInv /\ [Next]_vars => IInv'
  BY NextKeeps
<1>3. IInv => PendingAndShares
  BY InvariantSuffices
<1> QED
  BY <1>1, <1>2, <1>3, PTL DEF Spec
=============================================================================
