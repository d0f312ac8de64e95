----------------------------- MODULE MCBookkeeping -----------------------------
(***************************************************************************)
(* Components that keep books, each under a lock, side by side: the registry *)
(* of index handlers, the index database in four settings, its local part    *)
(* with crashes, the scan of a folder in four settings, and the times of    *)
(* dials. Which of them runs is chosen at first, the others stay as they     *)
(* begin (SpecOne of BookkeepingProofs). Here is what the run gives them.    *)
(***************************************************************************)
EXTENDS BookkeepingProofs

CONSTANTS nameA, nameB, contentC, contentD, tcp, relay

\* Two files of two contents.
TwoNames == {nameA, nameB}
TwoContents == {contentC, contentD}

TCPAndRelay == {tcp, relay}
TwoAndFive == tcp :> 2 @@ relay :> 5

Symmetric == Permutations(AllRemotes)
=============================================================================
