------------------------------- MODULE Promotion -------------------------------
(***************************************************************************)
(* Several connections between two devices as one of the components that     *)
(* meet another device: PrimaryConnection with what it is about.            *)
(***************************************************************************)
EXTENDS Naturals

CONSTANTS Sides, Other, Conns, None, Timely, MaxChanges

ASSUME SidesAssumption ==
  /\ Other \in [Sides -> Sides] /\ \A s \in Sides : Other[s] # s /\ Other[Other[s]] = s
  /\ None \notin Conns

VARIABLES link, added, conns, started, promoted, timer, handlers, wires, index, promotions, changes

P == INSTANCE PrimaryConnection WITH wire <- wires

\* PrimaryConnection: two devices agree on the connection that carries the indexes.
ConnectionsAgree == P!ConnectionsAgree
=============================================================================
