-------------------------- MODULE MCIndexExchange --------------------------
(***************************************************************************)
(* IndexExchange on small sets, in two settings side by side: the one of    *)
(* the configuration file, in which the invariant of the proof holds, and    *)
(* one with crashes anywhere and ClusterConfigs that are sent again. One of *)
(* them runs, chosen at first, and the other stays as it begins.            *)
(***************************************************************************)
EXTENDS IndexExchange, TLC

CONSTANTS f1, f2, v1, v2

VARIABLES
  which,
  aLocal, aLocalSeq, aIndexID, aSender, aRemote, aDiskSeq, aRemoteID, aView, aMemSeq, aPC, aMsg, aTodo,
  aUp, aConns, aToR, aClaims, aCcID, aResends

anyVars == <<aLocal, aLocalSeq, aIndexID, aSender, aRemote, aDiskSeq, aRemoteID, aView, aMemSeq, aPC, aMsg, aTodo,
             aUp, aConns, aToR, aClaims, aCcID, aResends>>

MCFiles == {f1, f2}
MCVals == {v1, v2}
Symm == Permutations(MCFiles) \cup Permutations(MCVals)
DropWindow == {"drop"}
BlockListWindow == {"blocklist"}
NoWindow == {}
AnyWindow == DropWindow \cup BlockListWindow

A == INSTANCE IndexExchange WITH
  CrashWindows <- AnyWindow, MaxSeq <- 3, MaxIndexID <- 2, MaxConns <- 3, MaxResends <- 1,
  local <- aLocal, localSeq <- aLocalSeq, indexID <- aIndexID, sender <- aSender, remote <- aRemote,
  diskSeq <- aDiskSeq, remoteID <- aRemoteID, view <- aView, memSeq <- aMemSeq, pc <- aPC, msg <- aMsg, todo <- aTodo,
  up <- aUp, conns <- aConns, toR <- aToR, claims <- aClaims, ccID <- aCcID, resends <- aResends

InitOne == which \in {"one", "any"} /\ Init /\ A!Init

SpecOne ==
  /\ InitOne
  /\ [][\/ which = "one" /\ Next /\ UNCHANGED <<which, anyVars>>
        \/ which = "any" /\ A!Next /\ UNCHANGED <<which, vars>>]_<<which, vars, anyVars>>

\* Whatever crashes and however often ClusterConfigs are sent, R never claims more than S has,
\* and no entry is replaced by an older one.
AnyCrashSafe == []A!NeverAhead /\ A!NoStaleEntry
=============================================================================
