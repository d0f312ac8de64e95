------------------------------- MODULE MCDevices -------------------------------
(***************************************************************************)
(* Three components that meet another device, side by side: the promoted     *)
(* connection, the connections themselves, and the exchange of an index. One *)
(* of them runs, chosen at first, and the others stay as they begin. A        *)
(* property of one says nothing while another runs.                          *)
(***************************************************************************)
EXTENDS Promotion, TLC

CONSTANTS s1, s2, tcp1, tcp2, relay, f1, f2, v1, v2

VARIABLES
  which,
  step, down, closing, wantConnections, failures,
  local, localSeq, indexID, sender, remote, diskSeq, remoteID, view, memSeq, pc, msg, todo,
  up, madeConns, toR, claims, ccID, resends

serviceVars == <<step, down, closing, wantConnections, failures>>
promotionVars == <<link, added, conns, started, promoted, timer, handlers, wires, index, promotions, changes>>
exchangeVars == <<local, localSeq, indexID, sender, remote, diskSeq, remoteID, view, memSeq, pc, msg, todo,
                  up, madeConns, toR, claims, ccID, resends>>

TwoSides == {s1, s2}
Opposite == [s \in TwoSides |-> IF s = s1 THEN s2 ELSE s1]

\* Two TCP routes, one dialled by each side, and a worse one over a relay.
Routes == {tcp1, tcp2, relay}
S == INSTANCE ConnectionService WITH
       Conns <- Routes, Multi <- {tcp1, tcp2},
       Dialer <- tcp1 :> s1 @@ tcp2 :> s2 @@ relay :> s1,
       Priority <- [s \in TwoSides |-> tcp1 :> 1 @@ tcp2 :> 1 @@ relay :> 3],
       NumConnections <- [s \in TwoSides |-> 2], Threshold <- 0, MaxFailures <- 1

\* Lost connections, restarts, new index IDs, and a ClusterConfig that is sent again.
E == INSTANCE IndexExchange WITH
       Files <- {f1, f2}, Vals <- {v1, v2}, NoVal <- None, BatchSize <- 2, CrashWindows <- {},
       MaxSeq <- 2, MaxIndexID <- 2, MaxConns <- 2, MaxResends <- 1, conns <- madeConns

InitOne ==
  /\ which \in {"primary", "service", "exchange"}
  /\ P!Init /\ S!Init /\ E!Init
  /\ index = IF which = "primary" THEN [s \in TwoSides |-> IF s = s1 THEN "unsent" ELSE "known"]
                                 ELSE [s \in TwoSides |-> "known"]

Primary1(A) == which = "primary" /\ A /\ UNCHANGED <<which, serviceVars, exchangeVars>>
Service1(A) == which = "service" /\ A /\ UNCHANGED <<which, promotionVars, exchangeVars>>
Exchange1(A) == which = "exchange" /\ A /\ UNCHANGED <<which, promotionVars, serviceVars>>

NextOne == Primary1(P!Next) \/ Service1(S!Next) \/ Exchange1(E!Next)

allVars == <<which, promotionVars, serviceVars, exchangeVars>>
FairOne ==
  /\ InitOne /\ [][NextOne]_allVars
  /\ \A c \in Conns : WF_allVars(Primary1(P!Connect(c)))
  /\ \A s \in Sides : WF_allVars(Primary1(P!Step(s)))
  /\ \A c \in Routes : WF_allVars(Service1(S!Dial(c))) /\ \A s \in Sides : WF_allVars(Service1(S!Step(s, c)))
  /\ WF_allVars(Exchange1(E!SenderStep)) /\ WF_allVars(Exchange1(E!ReceiverStep))
  /\ WF_allVars(Exchange1(E!Connect)) /\ WF_allVars(Exchange1(E!ReadMaxSequence))

-----------------------------------------------------------------------------
(* Properties, as their modules state them *)

\* ConnectionService: two devices do not close and refuse all their connections.
Survivor == S!Survivor

\* PrimaryConnection: what changes on one side becomes known to the other.
IndexGetsKnown == which = "primary" => P!ChangesGetKnown

\* ConnectionService: in the end there are as many of the best connections as wanted.
BestInTheEnd == which = "service" => S!BestInTheEnd

\* IndexExchange: in the end R has the index of S whenever it is connected.
Converges == which = "exchange" => E!Converges
=============================================================================
