---------------------------- MODULE WatchAggregator ----------------------------
(***************************************************************************)
(* The aggregator of file system events (lib/watchaggregator/aggregator.go):*)
(* it collects changed paths in a tree, replaces too many of them by their  *)
(* directory or the whole folder, and hands what is old enough to the       *)
(* folder to be scanned, removals last.                                     *)
(***************************************************************************)
EXTENDS Integers, FiniteSets, Sequences

CONSTANTS
  Root, Paths,        \* the folder and what can be in it
  Parent,             \* the directory of each path
  Pulled,             \* the paths the puller works on
  maxFiles, maxFilesPerDir,
  MaxEvents           \* bound on the events of the file system

VARIABLES
  tracked,            \* events in the tree: [Paths \cup {Root} -> event or Untracked]
  removes, nonRemoves,\* eventCounter
  timer,              \* notifyTimer: "set", "due" or "stopped"
  needsReset,         \* notifyTimerNeedsReset
  batches,            \* what the notify routine has yet to hand over
  notifying,          \* it is running
  inProgress,         \* items that the puller is working on
  unseen,             \* paths with an event and not handed over since
  count

vars == <<tracked, removes, nonRemoves, timer, needsReset, batches, notifying, inProgress, unseen, count>>
counts == <<removes, nonRemoves>>

Types == {{"nonremove"}, {"remove"}, {"nonremove", "remove"}}
Untracked == [type |-> {}, quiet |-> FALSE, overdue |-> FALSE]
All == Paths \cup {Root}
Tracked == {p \in All : tracked[p] # Untracked}

\* The directories a path is in, without the root, which are on the way to it.
Above == LET above[p \in All] == IF p = Root \/ Parent[p] = Root THEN {}
                                 ELSE {Parent[p]} \cup above[Parent[p]]
         IN  above
Under(p) == {q \in All : p = Root \/ p = q \/ p \in Above[q]}
Below(p) == Under(p) \ {p}

\* Directories of the tree: all that have events below them.
IsDir(p) == Below(p) \cap Tracked # {}
ChildCount(d) == Cardinality({p \in Paths : Parent[p] = d /\ (p \in Tracked \/ IsDir(p))})
\* Mutant: one more than the limit is kept.
Full_OffByOne(d) == ChildCount(d) > (IF d = Root THEN maxFiles ELSE maxFilesPerDir)
Full(d) == ChildCount(d) = (IF d = Root THEN maxFiles ELSE maxFilesPerDir)

Total == removes + nonRemoves
\* eventCounter.add, where what is removed and not counts as removed.
Counted(type, n) ==
  /\ removes' = removes + (IF "remove" \in type THEN n ELSE 0)
  /\ nonRemoves' = nonRemoves + (IF "remove" \in type THEN 0 ELSE n)
Recounted(old, new) ==
  /\ removes' = removes + (IF "remove" \in new THEN 1 ELSE 0) - (IF "remove" \in old THEN 1 ELSE 0)
  /\ nonRemoves' = nonRemoves + (IF "remove" \in new THEN 0 ELSE 1) - (IF "remove" \in old THEN 0 ELSE 1)

Init ==
  /\ tracked = [p \in All |-> Untracked]
  /\ removes = 0 /\ nonRemoves = 0
  /\ timer = "set"
  /\ needsReset = FALSE
  /\ batches = <<>>
  /\ notifying = FALSE
  /\ inProgress = {}
  /\ unseen = {}
  /\ count = 0

-----------------------------------------------------------------------------
(* Events of the file system *)

\* Where, from the top, the way to p ends early: something is tracked already, or the
\* directory has too many children.
Stops(p) == {a \in Above[p] : a \in Tracked \/ Full(Parent[a])}
            \cup {a \in {p} : a \in Tracked \/ (~IsDir(a) /\ Full(Parent[a]))}
First(S) == CHOOSE a \in S : \A b \in S : b \in Under(a)

\* Mutant: the folder is scanned when there are more than the limit.
AtLimit_Over == Total > maxFiles
AtLimit == Total = maxFiles

\* The path an event for p is tracked at.
Place(p) ==
  IF p = Root \/ AtLimit THEN Root
  ELSE IF Stops(p) = {} THEN p
  ELSE LET a == First(Stops(p)) IN IF a \in Tracked THEN a ELSE Parent[a]

TypesBelow(p) == UNION {tracked[q].type : q \in Under(p)}
OverdueBelow(p) == \E q \in Under(p) : tracked[q].overdue

ResetIfNeeded ==
  /\ timer' = IF needsReset THEN "set" ELSE timer
  /\ needsReset' = FALSE

\* An event for what is tracked already.
Merge(p, type) ==
  /\ tracked' = [tracked EXCEPT ![p].type = @ \cup type, ![p].quiet = FALSE]
  /\ Recounted(tracked[p].type, tracked[p].type \cup type)
  /\ UNCHANGED <<timer, needsReset>>

\* A new entry takes the place of all that is below it.  The counts of those stay, and if
\* the type changes one too many is taken off.
Track(p, type) ==
  LET merged == type \cup TypesBelow(p)
  IN  /\ tracked' = [q \in All |->
           IF q = p THEN [type |-> merged, quiet |-> FALSE, overdue |-> OverdueBelow(p)]
           ELSE IF q \in Below(p) THEN Untracked ELSE tracked[q]]
      /\ IF p = Root
         THEN /\ removes' = IF "remove" \in merged THEN 1 ELSE 0
              /\ nonRemoves' = IF "remove" \in merged THEN 0 ELSE 1
         ELSE IF merged # type THEN Recounted(type, merged) ELSE Counted(merged, 1)
      /\ ResetIfNeeded

NewEvent(p, type) ==
  /\ count < MaxEvents
  /\ count' = count + 1
  /\ IF p \in inProgress /\ Root \notin Tracked
     THEN UNCHANGED <<tracked, counts, timer, needsReset, unseen>>
     ELSE /\ unseen' = unseen \cup {p}
          /\ \/ Root \in Tracked /\ UNCHANGED <<tracked, counts, timer, needsReset>>
             \/ /\ Root \notin Tracked
                /\ LET at == Place(p) IN IF at \in Tracked THEN Merge(at, type) ELSE Track(at, type)
  /\ UNCHANGED <<batches, notifying, inProgress>>

UpdateInProgress(p) ==
  /\ inProgress' = IF p \in inProgress THEN inProgress \ {p} ELSE inProgress \cup {p}
  /\ UNCHANGED <<tracked, counts, timer, needsReset, batches, notifying, unseen, count>>

-----------------------------------------------------------------------------
(* Time and the hand-over *)

\* Half the delay has passed without another event, or the timeout since the first one.
BecomeQuiet(p) ==
  /\ p \in Tracked /\ ~tracked[p].quiet
  /\ tracked' = [tracked EXCEPT ![p].quiet = TRUE]
  /\ UNCHANGED <<counts, timer, needsReset, batches, notifying, inProgress, unseen, count>>
BecomeOverdue(p) ==
  /\ p \in Tracked /\ ~tracked[p].overdue
  /\ tracked' = [tracked EXCEPT ![p].overdue = TRUE]
  /\ UNCHANGED <<counts, timer, needsReset, batches, notifying, inProgress, unseen, count>>
TimerExpires ==
  /\ timer = "set"
  /\ timer' = "due"
  /\ UNCHANGED <<tracked, counts, needsReset, batches, notifying, inProgress, unseen, count>>

\* Mutant: removals wait until nothing else does.
IsOld_NoTimeout(e, delayRem) == (~delayRem \/ e.type = {"nonremove"}) /\ e.quiet
IsOld(e, delayRem) == \/ (~delayRem \/ e.type = {"nonremove"}) /\ e.quiet
                      \/ e.overdue

OldPaths(delayRem) == {p \in Tracked : IsOld(tracked[p], delayRem)}
NonRemovesIn(S) == Cardinality({p \in S : "remove" \notin tracked[p].type})
RemovesIn(S) == Cardinality({p \in S : "remove" \in tracked[p].type})
\* What popOldEventsTo takes out, in its two rounds.
Popped ==
  LET first == OldPaths(TRUE)
  IN  IF nonRemoves - NonRemovesIn(first) = 0 /\ removes - RemovesIn(first) # 0
      THEN first \cup OldPaths(FALSE) ELSE first

\* Mutant: a directory goes with the first event that is taken out of it.
Remaining_Dirs(S) ==
  [p \in All |-> IF \E q \in S : p = q \/ (p # Root /\ q # Root /\ Parent[p] = Parent[q])
                 THEN Untracked ELSE tracked[p]]
Remaining(S) == [p \in All |-> IF p \in S THEN Untracked ELSE tracked[p]]

Batches(S) ==
  SelectSeq(<<{p \in S : tracked[p].type = {"nonremove"}},
              {p \in S : tracked[p].type = {"nonremove", "remove"}},
              {p \in S : tracked[p].type = {"remove"}}>>,
            LAMBDA b : b # {})

\* Mutant: the timer is left alone when nothing is old enough.
NothingOld_Stopped == timer' = "stopped"
NothingOld == timer' = "set"

ActOnTimer ==
  /\ timer = "due"
  /\ IF Total = 0
     THEN /\ timer' = "stopped"
          /\ needsReset' = TRUE
          /\ UNCHANGED <<tracked, counts, batches, notifying>>
     ELSE IF Popped = {}
     THEN /\ NothingOld
          /\ needsReset' = FALSE
          /\ UNCHANGED <<tracked, counts, batches, notifying>>
     ELSE /\ timer' = "stopped"
          /\ tracked' = Remaining(Popped)
          /\ removes' = removes - RemovesIn(Popped)
          /\ nonRemoves' = nonRemoves - NonRemovesIn(Popped)
          /\ batches' = Batches(Popped)
          /\ notifying' = TRUE
          /\ UNCHANGED needsReset
  /\ UNCHANGED <<inProgress, unseen, count>>

\* notify: a batch is taken by the folder, which scans it.
HandOver ==
  /\ batches # <<>>
  /\ unseen' = unseen \ UNION {Under(p) : p \in Head(batches)}
  /\ batches' = Tail(batches)
  /\ UNCHANGED <<tracked, counts, timer, needsReset, notifying, inProgress, count>>
NotifyDone ==
  /\ notifying /\ batches = <<>>
  /\ notifying' = FALSE
  /\ timer' = "set"
  /\ needsReset' = FALSE
  /\ UNCHANGED <<tracked, counts, batches, inProgress, unseen, count>>

Next ==
  \/ \E p \in All, type \in {{"nonremove"}, {"remove"}} : NewEvent(p, type)
  \/ \E p \in Pulled : UpdateInProgress(p)
  \/ \E p \in All : BecomeQuiet(p) \/ BecomeOverdue(p)
  \/ TimerExpires \/ ActOnTimer \/ HandOver \/ NotifyDone

Spec == Init /\ [][Next]_vars

\* Time passes, and the folder takes what is handed over.
TimePasses == \E p \in All : BecomeOverdue(p)
FairSpec == /\ Spec
            /\ WF_vars(TimerExpires) /\ WF_vars(ActOnTimer) /\ WF_vars(HandOver) /\ WF_vars(NotifyDone)
            /\ WF_vars(TimePasses)

-----------------------------------------------------------------------------
(* Properties *)

TypeOK ==
  /\ \A p \in Tracked : tracked[p].type \in Types
  /\ timer \in {"set", "due", "stopped"}
  /\ removes \in -MaxEvents..MaxEvents /\ nonRemoves \in -MaxEvents..MaxEvents
  /\ Total <= maxFiles

\* No change falls between aggregation, popping and the hand-over: every path that has
\* changed is to be scanned, itself or with a directory it is in.
NoChangeLost ==
  \A u \in unseen : \E p \in Tracked \cup UNION {batches[i] : i \in 1..Len(batches)} : u \in Under(p)

\* While something is tracked the timer runs, or will once the notify routine is done: the
\* counts, which are not always right, are never zero too early.
TimerRuns == Tracked # {} => timer # "stopped" \/ notifying

\* The tree never holds more than the limits, nor anything twice.
LimitsKept ==
  /\ Cardinality(Tracked) <= maxFiles
  /\ \A d \in Paths : ChildCount(d) <= maxFilesPerDir
  /\ \A p \in Tracked : Below(p) \cap Tracked = {}

\* Every change is handed over in the end.
AllHandedOver == <>[](unseen = {})

\* The counter counts what is tracked.
CountsRight == Total = Cardinality(Tracked)
=============================================================================
