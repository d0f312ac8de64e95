------------------------------ MODULE FolderLoop ------------------------------
(***************************************************************************)
(* The main loop of a folder (lib/model/folder.go): one routine that        *)
(* selects between scans and pulls that are asked for through channels of   *)
(* one element, timers, requests of other routines and the watcher of the   *)
(* file system, with an error state while the folder is not healthy.        *)
(***************************************************************************)
EXTENDS Naturals

CONSTANTS
  Interval,     \* whether there are periodic scans (RescanIntervalS is not 0)
  Watcher,      \* whether the watcher is enabled (FSWatcherEnabled)
  Callers,      \* routines that call Scan
  MaxPause,     \* the pause does not double beyond 2^MaxPause times the base (60)
  MaxChanges,   \* bound on the changes on disk
  MaxIndexes,   \* bound on the index updates that make items needed
  MaxSick,      \* bound on how often the folder becomes unhealthy
  CanStop       \* whether the folder can be stopped

VARIABLES
  loop,         \* where the main loop is, and which case of the select it runs
  initial,      \* initialScanFinished is closed
  firstPull,    \* the pull after the initial scan has not been done yet
  pullScheduled, scanScheduled, restartWatch,  \* the channels of one element
  scanTimer,    \* "off", "set" or "due"
  pullTimer,    \* pullFailTimer is set
  pause,        \* the exponent of pullPause
  error,        \* the error state
  healthy,      \* CheckPath and the free space
  watch,        \* "off", "starting", "on" or "failed"
  delayScan,    \* monitorWatch waits to hand over a DelayScan
  events,       \* the watcher has changes for a scan
  dirty,        \* there are changes on disk that no scan has seen
  found,        \* the scan that runs has found changes
  need,         \* there are needed items
  received,     \* an index update is in the database and the pull not scheduled yet
  caller,       \* where each caller of Scan is
  changes, indexes, sick

vars == <<loop, initial, firstPull, pullScheduled, scanScheduled, restartWatch, scanTimer, pullTimer,
          pause, error, healthy, watch, delayScan, events, dirty, found, need, received,
          caller, changes, indexes, sick>>

channels == <<pullScheduled, scanScheduled, restartWatch>>
timers == <<scanTimer, pullTimer, pause>>
watcher == <<watch, delayScan, events>>
outside == <<healthy, received, caller, changes, indexes, sick>>

Select == [at |-> "select", why |-> "none"]
InScan(why) == [at |-> "scan", why |-> why]
InPull(why) == [at |-> "pull", why |-> why]

Init ==
  /\ loop = Select
  /\ initial = FALSE
  /\ firstPull = TRUE
  /\ pullScheduled = FALSE /\ scanScheduled = FALSE /\ restartWatch = FALSE
  /\ scanTimer = "due"
  /\ pullTimer = FALSE
  /\ pause = 0
  /\ error = FALSE
  /\ healthy \in BOOLEAN
  /\ watch = IF Watcher /\ healthy THEN "starting" ELSE "off"
  /\ delayScan = FALSE
  /\ events = FALSE
  /\ dirty = TRUE
  /\ found = FALSE
  /\ need \in BOOLEAN
  /\ received = FALSE
  /\ caller = [c \in Callers |-> "idle"]
  /\ changes = 0 /\ indexes = 0 /\ sick = 0

\* setError, with an error or without, when sched, rest and ev are left of the scheduled
\* pull, the restart and the events: clearing an error schedules a pull and a restart of
\* the watcher, which an error stops.
SetError(e, sched, rest, w, ev) ==
  LET stop == Watcher /\ e /\ ~error
  IN  /\ error' = e
      /\ pullScheduled' = (sched \/ (error /\ ~e))
      /\ restartWatch' = (rest \/ (Watcher /\ error /\ ~e))
      /\ watch' = IF stop THEN "off" ELSE w
      /\ events' = (ev /\ ~stop)

-----------------------------------------------------------------------------
(* Scans *)

\* Mutant: after a scan that has failed the timer is not set again.
Reschedule_Healthy(ok) == IF Interval /\ ok THEN "set" ELSE "off"
Reschedule(ok) == IF Interval THEN "set" ELSE "off"

\* What a scan does for those who asked for it, when it ends.
Leave(why, ok) ==
  /\ initial' = (initial \/ why = "timer")
  /\ scanTimer' = IF why = "timer" THEN Reschedule(ok) ELSE scanTimer
  /\ caller' = IF why \in Callers THEN [caller EXCEPT ![why] = "idle"] ELSE caller

\* Mutant: a request is only answered when the folder is healthy.
StartScan_Unanswered(why) ==
  /\ loop' = IF healthy THEN InScan(why) ELSE Select
  /\ initial' = (initial \/ (~healthy /\ why = "timer"))
  /\ caller' = IF why \in Callers /\ ~healthy THEN [caller EXCEPT ![why] = "lost"] ELSE caller
\* scanSubdirs begins, or ends at once if the folder is not healthy.
StartScan(why) ==
  IF healthy
  THEN /\ loop' = InScan(why)
       /\ UNCHANGED <<initial, caller>>
  ELSE /\ loop' = Select
       /\ initial' = (initial \/ why = "timer")
       /\ caller' = IF why \in Callers THEN [caller EXCEPT ![why] = "idle"] ELSE caller

ScanTimerFired ==
  /\ loop = Select
  /\ scanTimer = "due"
  /\ StartScan("timer")
  /\ SetError(~healthy, pullScheduled, restartWatch, watch, events)
  /\ scanTimer' = IF healthy THEN "off" ELSE Reschedule(FALSE)
  /\ UNCHANGED <<firstPull, scanScheduled, pullTimer, pause, healthy, delayScan, dirty, found,
                 need, received, changes, indexes, sick>>

ScanWatched ==
  /\ loop = Select
  /\ events
  /\ StartScan("watch")
  /\ SetError(~healthy, pullScheduled, restartWatch, watch, FALSE)
  /\ UNCHANGED <<firstPull, scanScheduled, timers, healthy, delayScan, dirty, found, need,
                 received, changes, indexes, sick>>

ScanForCaller(c) ==
  /\ loop = Select
  /\ caller[c] = "request"
  /\ StartScan(c)
  /\ SetError(~healthy, pullScheduled, restartWatch, watch, events)
  /\ UNCHANGED <<firstPull, scanScheduled, timers, healthy, delayScan, dirty, found, need,
                 received, changes, indexes, sick>>

\* restartWatch: a new watcher is started and everything is scanned.
RestartWatch ==
  /\ loop = Select
  /\ restartWatch
  /\ StartScan("restart")
  /\ SetError(~healthy, pullScheduled, FALSE, "starting", FALSE)
  /\ UNCHANGED <<firstPull, scanScheduled, timers, healthy, delayScan, dirty, found, need,
                 received, changes, indexes, sick>>

\* The walk, which sees what has changed.
Walk == dirty' = FALSE /\ found' = dirty

ScanWalk ==
  /\ loop.at = "scan"
  /\ loop' = [loop EXCEPT !.at = "walked"]
  /\ Walk
  /\ UNCHANGED <<initial, firstPull, channels, timers, error, watcher, need, outside>>

\* The changes are written to the database, unless the folder has become unhealthy; a
\* pull is scheduled if there are any.
EndScan ==
  /\ loop.at = "walked"
  /\ loop' = Select
  /\ Leave(loop.why, healthy)
  /\ found' = FALSE
  /\ IF healthy \/ ~found
     THEN /\ pullScheduled' = (pullScheduled \/ found)
          /\ UNCHANGED <<dirty, error, restartWatch, watch, events>>
     ELSE dirty' = TRUE /\ SetError(TRUE, TRUE, restartWatch, watch, events)
  /\ UNCHANGED <<firstPull, scanScheduled, pullTimer, pause, healthy, delayScan, need,
                 received, changes, indexes, sick>>

ScanScheduled ==
  /\ loop = Select
  /\ scanScheduled
  /\ scanScheduled' = FALSE
  /\ scanTimer' = "due"
  /\ UNCHANGED <<loop, initial, firstPull, pullScheduled, restartWatch, pullTimer, pause, error,
                 watcher, dirty, found, need, outside>>

\* DelayScan is handed over.
ScanDelayed ==
  /\ loop = Select
  /\ delayScan
  /\ delayScan' = FALSE
  /\ scanTimer' = "due"
  /\ UNCHANGED <<loop, initial, firstPull, channels, pullTimer, pause, error, watch, events, dirty,
                 found, need, outside>>

-----------------------------------------------------------------------------
(* Pulls *)

\* Mutant: the pause doubles for ever.
Doubled_Unlimited(p) == p + 1
\* The next pause after a retry that fails.
Doubled(p) == IF p < MaxPause THEN p + 1 ELSE p

\* pull begins, with sched left of the scheduled pull: nothing is done before the initial
\* scan, without needed items, or in a folder that is not healthy.
StartPull(why, sched) ==
  /\ loop = Select
  /\ loop' = IF initial /\ need /\ healthy THEN InPull(why) ELSE Select
  /\ pullTimer' = FALSE
  /\ IF initial /\ need
     THEN /\ SetError(~healthy, sched, restartWatch, watch, events)
          /\ pause' = IF ~healthy /\ why = "retry" THEN Doubled(pause) ELSE pause
     ELSE /\ pullScheduled' = sched
          /\ pause' = IF initial THEN 0 ELSE pause
          /\ UNCHANGED <<error, restartWatch, watch, events>>
  /\ UNCHANGED <<initial, scanScheduled, scanTimer, delayScan, dirty, found, need, outside>>

PullScheduled ==
  /\ pullScheduled
  /\ StartPull("scheduled", FALSE)
  /\ UNCHANGED firstPull
PullRetried ==
  /\ pullTimer
  /\ StartPull("retry", pullScheduled)
  /\ UNCHANGED firstPull
PullAfterInitialScan ==
  /\ initial /\ firstPull
  /\ StartPull("initial", pullScheduled)
  /\ firstPull' = FALSE

\* The last iteration of the puller: everything that is needed is there, or not.
PullItems ==
  /\ loop.at = "pull"
  /\ \/ need' = FALSE /\ loop' = [loop EXCEPT !.at = "pulled"]
     \/ UNCHANGED need /\ loop' = [loop EXCEPT !.at = "failed"]
  /\ UNCHANGED <<initial, firstPull, channels, timers, error, watcher, dirty, found, outside>>

PullSucceeds ==
  /\ loop.at = "pulled"
  /\ loop' = Select
  /\ pause' = 0
  /\ UNCHANGED <<initial, firstPull, channels, scanTimer, pullTimer, error, watcher, dirty, found,
                 need, outside>>

\* Mutant: the pause doubles, and the timer is only set by the retries.
RetryTimer_Retries(why) == why = "retry"
RetryTimer(why) == TRUE
PullFails ==
  /\ loop.at = "failed"
  /\ loop' = Select
  /\ pullTimer' = RetryTimer(loop.why)
  /\ pause' = IF loop.why = "retry" THEN Doubled(pause) ELSE pause
  /\ UNCHANGED <<initial, firstPull, channels, scanTimer, error, watcher, dirty, found, need, outside>>

-----------------------------------------------------------------------------
(* Other routines and the environment *)

ScanTimerExpires ==
  /\ scanTimer = "set"
  /\ scanTimer' = "due"
  /\ UNCHANGED <<loop, initial, firstPull, channels, pullTimer, pause, error, watcher, dirty, found,
                 need, outside>>

\* ScheduleScan, by the user interface or the model.
ScheduleScan ==
  /\ ~scanScheduled
  /\ loop.at # "stopped"
  /\ changes < MaxChanges
  /\ scanScheduled' = TRUE
  /\ UNCHANGED <<loop, initial, firstPull, pullScheduled, restartWatch, timers, error, watcher, dirty,
                 found, need, outside>>

\* A change on disk, which the watcher sees if it is running.
Change ==
  /\ changes < MaxChanges
  /\ changes' = changes + 1
  /\ dirty' = TRUE
  /\ events' = (events \/ watch = "on")
  /\ UNCHANGED <<loop, initial, firstPull, channels, timers, error, watch, delayScan, found, need,
                 healthy, received, caller, indexes, sick>>

\* An index update, and SchedulePull after it.
ReceiveIndex ==
  /\ indexes < MaxIndexes
  /\ indexes' = indexes + 1
  /\ need' = TRUE
  /\ received' = TRUE
  /\ UNCHANGED <<loop, initial, firstPull, channels, timers, error, watcher, dirty, found, healthy,
                 caller, changes, sick>>
SchedulePull ==
  /\ received
  /\ received' = FALSE
  /\ pullScheduled' = TRUE
  /\ UNCHANGED <<loop, initial, firstPull, scanScheduled, restartWatch, timers, error, watcher, dirty,
                 found, need, healthy, caller, changes, indexes, sick>>

BecomeSick ==
  /\ healthy /\ sick < MaxSick
  /\ healthy' = FALSE
  /\ sick' = sick + 1
  /\ UNCHANGED <<loop, initial, firstPull, channels, timers, error, watcher, dirty, found, need,
                 received, caller, changes, indexes>>
BecomeHealthy ==
  /\ ~healthy
  /\ healthy' = TRUE
  /\ UNCHANGED <<loop, initial, firstPull, channels, timers, error, watcher, dirty, found, need,
                 received, caller, changes, indexes, sick>>

\* monitorWatch: the watch is set up, or fails and is tried again; after a failure a scan
\* is asked for.
StartWatch ==
  /\ watch \in {"starting", "failed"}
  /\ delayScan' = (delayScan \/ watch = "failed")
  /\ watch' \in {"on"} \cup (IF sick < MaxSick THEN {"failed"} ELSE {})
  /\ UNCHANGED <<loop, initial, firstPull, channels, timers, error, events, dirty, found, need, outside>>
WatchFails ==
  /\ watch = "on"
  /\ sick < MaxSick
  /\ watch' = "failed"
  /\ events' = FALSE
  /\ sick' = sick + 1
  /\ UNCHANGED <<loop, initial, firstPull, channels, timers, error, delayScan, dirty, found, need,
                 healthy, received, caller, changes, indexes>>

\* Scan: the caller waits for the initial scan, then hands its request to the loop and
\* waits for the answer; it is let go when the folder is stopped.
CallScan(c) ==
  /\ caller[c] = "idle"
  /\ changes < MaxChanges
  /\ caller' = [caller EXCEPT ![c] = "initial"]
  /\ UNCHANGED <<loop, initial, firstPull, channels, timers, error, watcher, dirty, found, need,
                 healthy, received, changes, indexes, sick>>
AfterInitial(c) ==
  /\ caller[c] = "initial"
  /\ initial
  /\ caller' = [caller EXCEPT ![c] = "request"]
  /\ UNCHANGED <<loop, initial, firstPull, channels, timers, error, watcher, dirty, found, need,
                 healthy, received, changes, indexes, sick>>
LetGo(c) ==
  /\ caller[c] = "request"
  /\ loop.at = "stopped"
  /\ caller' = [caller EXCEPT ![c] = "idle"]
  /\ UNCHANGED <<loop, initial, firstPull, channels, timers, error, watcher, dirty, found, need,
                 healthy, received, changes, indexes, sick>>

Stop ==
  /\ CanStop
  /\ loop = Select
  /\ loop' = [at |-> "stopped", why |-> "none"]
  /\ UNCHANGED <<initial, firstPull, channels, timers, error, watcher, dirty, found, need, outside>>

Scans == ScanTimerFired \/ ScanWatched \/ RestartWatch \/ ScanScheduled \/ ScanDelayed
         \/ ScanWalk \/ EndScan \/ \E c \in Callers : ScanForCaller(c)
Pulls == PullScheduled \/ PullRetried \/ PullAfterInitialScan \/ PullItems \/ PullSucceeds \/ PullFails
Monitor == StartWatch \/ WatchFails
Caller(c) == CallScan(c) \/ AfterInitial(c) \/ LetGo(c)
Environment == Change \/ ReceiveIndex \/ BecomeSick \/ BecomeHealthy \/ ScheduleScan
Next == \/ Scans \/ Pulls \/ Monitor \/ Environment
        \/ ScanTimerExpires \/ SchedulePull \/ Stop
        \/ \E c \in Callers : Caller(c)

Spec == Init /\ [][Next]_vars

\* The loop runs, and its select, which picks at random among what is ready, takes timers,
\* pulls, the watcher and callers again and again; timers expire, an unhealthy folder
\* recovers, and a pull that is tried for ever succeeds.
FairSpec ==
  /\ Spec
  /\ SF_vars(ScanTimerFired)
  /\ SF_vars(PullScheduled \/ PullRetried \/ PullAfterInitialScan)
  /\ Watcher => SF_vars(ScanWatched \/ RestartWatch)
  /\ \A c \in Callers : SF_vars(ScanForCaller(c)) /\ WF_vars(AfterInitial(c) \/ LetGo(c))
  /\ WF_vars(ScanWalk) /\ WF_vars(EndScan)
  /\ WF_vars(PullItems) /\ SF_vars(PullItems /\ loop'.at = "pulled")
  /\ WF_vars(PullSucceeds) /\ WF_vars(PullFails)
  /\ WF_vars(ScanTimerExpires) /\ WF_vars(SchedulePull) /\ WF_vars(BecomeHealthy)
  /\ WF_vars(StartWatch)

-----------------------------------------------------------------------------
(* Properties *)

TypeOK ==
  /\ loop.at \in {"select", "scan", "walked", "pull", "pulled", "failed", "stopped"}
  /\ scanTimer \in {"off", "set", "due"}
  /\ pause \in 0..MaxPause
  /\ watch \in {"off", "starting", "on", "failed"}
  /\ watch # "off" => Watcher
  /\ \A c \in Callers : caller[c] \in {"idle", "initial", "request"}

\* Needed items are not forgotten: whenever the loop rests in a healthy folder after the
\* initial scan, with needed items and no error, a pull is scheduled, about to be, or
\* will be retried.
NeedRemembered ==
  loop = Select /\ initial /\ need /\ ~error => pullScheduled \/ pullTimer \/ firstPull \/ received

\* Needed items are pulled in the end.
NeedIsPulled == []<>(~need \/ loop.at = "stopped")

\* Changes on disk are seen by a scan in the end.
ChangesAreSeen == []<>(~dirty \/ loop.at = "stopped")

\* A routine whose request for a scan is made gets an answer, and one that calls Scan too
\* (which waits for the initial scan, and for nothing else).
ScanAnswered == \A c \in Callers : caller[c] = "request" ~> caller[c] = "idle"
ScanReturns == \A c \in Callers : caller[c] = "initial" ~> caller[c] = "idle"
=============================================================================
