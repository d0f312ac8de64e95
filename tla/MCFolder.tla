-------------------------------- MODULE MCFolder --------------------------------
(***************************************************************************)
(* Iterations of the puller, the main loop of a folder without and with the  *)
(* watcher of the file system, how an item is replaced, and the progress of  *)
(* downloads, side by side. One of them runs, chosen at first; a property of *)
(* one says nothing while another runs.                                      *)
(***************************************************************************)
EXTENDS Puller

CONSTANTS
  c1, p1, p2, theFile, theVersion, None, f1, f2, s1, d1,
  Versioning, Conflicts, UserAtShortcut, UserAtGap, MaxActs, MaxCrashes   \* of how an item is replaced

ASSUME ReplaceAssumption == MaxActs \in Nat /\ MaxCrashes \in Nat

VARIABLES
  which,
  loop, initial, firstPull, pullScheduled, scanScheduled, restartWatch, scanTimer, pullTimer, pause, error, healthy,
  watch, delayScan, events, dirty, found, need, received, caller, changes, indexes, sick,
  item, child, local, want, at, kept, mine, acts, crashes,
  fetcher, clock, timer, looked, lastUpdate, lastCount, sent, channel, remote, connected, reconnects

loopVars == <<loop, initial, firstPull, pullScheduled, scanScheduled, restartWatch, scanTimer, pullTimer, pause, error,
              healthy, watch, delayScan, events, dirty, found, need, received, caller, changes, indexes, sick>>
replaceVars == <<item, child, local, want, at, kept, mine, acts, crashes>>
progressVars == <<fetcher, clock, timer, looked, lastUpdate, lastCount, sent, channel, remote, connected, reconnects>>

\* Two files of two blocks, of which the first may be there and the second is zeroes, an
\* item that is handled without blocks, and a deletion.
TwoFiles == {f1, f2}
Directories == {s1}
Deleted == {d1}
ZeroBlocks == {2}
OneCopier == {c1}
FirstBlock == {{1}}

\* The main loop without a watcher, and with one.
P == INSTANCE FolderLoop WITH
       Interval <- TRUE, Watcher <- FALSE, Callers <- {c1}, MaxPause <- 1, MaxChanges <- 1, MaxIndexes <- 1,
       MaxSick <- 1, CanStop <- TRUE
W == INSTANCE FolderLoop WITH
       Interval <- TRUE, Watcher <- TRUE, Callers <- {}, MaxPause <- 1, MaxChanges <- 1, MaxIndexes <- 0,
       MaxSick <- 1, CanStop <- TRUE

R == INSTANCE Replace WITH disk <- item

\* Two attempts at one version of one file, which has one block.
D == INSTANCE DownloadProgress WITH
       Pullers <- {p1, p2}, FileOf <- [p \in {p1, p2} |-> theFile], VersionOf <- [p \in {p1, p2} |-> theVersion],
       Blocks <- {1}, ReadApart <- TRUE, OthersRemain <- FALSE, MaxReconnects <- 1, puller <- fetcher

\* A component that does not run begins in one way.
InitOne ==
  /\ which \in {"puller", "loop", "watched", "replace", "progress"}
  /\ Init
  /\ IF which = "watched" THEN W!Init ELSE P!Init
  /\ R!Init /\ D!Init
  /\ ~temp[f2].exists /\ (which # "puller" => ~temp[f1].exists)
  /\ which \notin {"loop", "watched"} => healthy /\ ~need
  /\ which # "replace" => R!NothingThere

Iteration(A) == which = "puller" /\ A /\ UNCHANGED <<which, loopVars, replaceVars, progressVars>>
Loop(plain, watched) ==
  /\ (which = "loop" /\ plain) \/ (which = "watched" /\ watched)
  /\ UNCHANGED <<which, vars, replaceVars, progressVars>>
Item(A) == which = "replace" /\ A /\ UNCHANGED <<which, vars, loopVars, progressVars>>
Progress(A) == which = "progress" /\ A /\ UNCHANGED <<which, vars, loopVars, replaceVars>>

\* A second iteration begins when one file, and perhaps the deletion, is left.
FewLeft == tries = 1 /\ tries' = 2 => {f2, s1} \subseteq recorded

NextOne == Iteration(Next /\ FewLeft) \/ Loop(P!Next, W!Next) \/ Item(R!Next) \/ Progress(D!Next)

allVars == <<which, vars, loopVars, replaceVars, progressVars>>

\* Only one of the components runs: fairness of its step is fairness of the disjunction.
FairOne ==
  /\ InitOne /\ [][NextOne]_allVars
  /\ SF_allVars(Loop(P!ScanTimerFired, W!ScanTimerFired) \/ Progress(\E p \in {p1, p2} : D!PullerStep(p)))
  /\ SF_allVars(Loop(P!PullScheduled \/ P!PullRetried \/ P!PullAfterInitialScan,
                     W!PullScheduled \/ W!PullRetried \/ W!PullAfterInitialScan))
  /\ SF_allVars(Loop(P!ScanForCaller(c1), W!ScanWatched \/ W!RestartWatch))
  /\ SF_allVars(Loop(P!PullItems /\ loop'.at = "pulled", W!PullItems /\ loop'.at = "pulled"))
  /\ WF_allVars(Loop(P!AfterInitial(c1) \/ P!LetGo(c1), W!StartWatch) \/ Iteration(Main))
  /\ WF_allVars(Loop(P!ScanWalk, W!ScanWalk) \/ Iteration(Pull))
  /\ WF_allVars(Loop(P!EndScan, W!EndScan) \/ Iteration(Finish \/ FinishRecord))
  /\ WF_allVars(Loop(P!PullItems, W!PullItems) \/ Iteration(Copy(c1)))
  /\ WF_allVars(Loop(P!PullSucceeds, W!PullSucceeds) \/ Iteration(PullOne(f1, 1)))
  /\ WF_allVars(Loop(P!PullFails, W!PullFails) \/ Iteration(PullOne(f1, 2)))
  /\ WF_allVars(Loop(P!ScanTimerExpires, W!ScanTimerExpires) \/ Iteration(PullOne(f2, 1)))
  /\ WF_allVars(Loop(P!SchedulePull, W!SchedulePull) \/ Iteration(PullOne(f2, 2)))
  /\ WF_allVars(Loop(P!BecomeHealthy, W!BecomeHealthy) \/ Progress(D!Connect))
  /\ WF_allVars(Item(R!Scan) \/ Progress(D!TimerExpires)) /\ WF_allVars(Item(R!Pull) \/ Progress(D!Look))
  /\ WF_allVars(Progress(D!Emit)) /\ WF_allVars(Progress(D!Receive))

-----------------------------------------------------------------------------
(* Properties of the components that are instances, as their modules state them *)

\* Replace: what the user has written and the wanted version does not know is on disk, in
\* a conflict copy or in the archive; what the database does not have, a scan sees; and what
\* is recorded as pulled was there.
ItemRight == R!MineKept /\ R!ChangesAreSeen /\ R!RecordedIsThere

\* FolderLoop: items that are needed are pulled in the end, or are not needed any more.
NeedIsPulled == which \in {"loop", "watched"} => P!NeedIsPulled

\* FolderLoop: changes on disk are seen by a scan in the end.
DiskChangesAreSeen == which \in {"loop", "watched"} => P!ChangesAreSeen

\* What has begun comes to its end. Puller: an iteration ends. Replace: when the user is done,
\* the wanted item comes to be there. DownloadProgress: a receiver does not go on believing in a
\* file that is not pulled.
ComesToItsEnd ==
  /\ which = "puller" => IterationEnds
  /\ which = "replace" => R!Converges
  /\ which = "progress" => D!ForgottenInTheEnd
=============================================================================
