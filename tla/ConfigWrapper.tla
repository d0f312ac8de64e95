----------------------------- MODULE ConfigWrapper -----------------------------
(***************************************************************************)
(* The wrapper of the configuration (lib/config/wrapper.go): modifications  *)
(* are queued and applied one by one, subscribers commit each of them       *)
(* before the next, and the file is written a while later.                  *)
(***************************************************************************)
EXTENDS Naturals, Sequences

CONSTANTS
  Modifiers, Subscribers,
  maxModifications,   \* the capacity of the queue
  SaveFails,          \* whether writing the file can fail
  MaxVersions         \* bound on the configurations

VARIABLES
  cfg, file,          \* the configuration in effect and the one on disk, as versions
  queue,
  serve,              \* "select", "wait" for the subscribers, or "stopped"
  saveTimer, saveTimerRunning,
  subs,               \* the subscribers
  commits,            \* calls of CommitConfiguration under way
  modifier,           \* "idle", "queued", or "answered" and free to wait
  leaving,            \* the version whose waiter an Unsubscribe waits for, or 0
  applied             \* the version each subscriber has last seen

vars == <<cfg, file, queue, serve, saveTimer, saveTimerRunning, subs, commits, modifier, leaving, applied>>
saving == <<file, saveTimer, saveTimerRunning>>

Init ==
  /\ cfg = 1 /\ file = 1
  /\ queue = <<>>
  /\ serve = "select"
  /\ saveTimer = FALSE /\ saveTimerRunning = FALSE
  /\ subs = {}
  /\ commits = {}
  /\ modifier = [m \in Modifiers |-> "idle"]
  /\ leaving = [s \in Subscribers |-> 0]
  /\ applied = [s \in Subscribers |-> 0]

-----------------------------------------------------------------------------
(* Callers *)

\* Mutant: one entry too many is taken, and blocks its caller with the lock of nobody.
QueueFull_OffByOne == Len(queue) > maxModifications
QueueFull == Len(queue) = maxModifications

Modify(m) ==
  /\ modifier[m] = "idle"
  /\ ~QueueFull
  /\ queue' = Append(queue, m)
  /\ modifier' = [modifier EXCEPT ![m] = "queued"]
  /\ UNCHANGED <<cfg, serve, saving, subs, commits, leaving, applied>>

\* Whoever waits for the waiter of its modification, or does not.
Forget(m) ==
  /\ modifier[m] = "answered"
  /\ modifier' = [modifier EXCEPT ![m] = "idle"]
  /\ UNCHANGED <<cfg, queue, serve, saving, subs, commits, leaving, applied>>

Subscribe(s) ==
  /\ s \notin subs
  /\ leaving[s] = 0
  /\ subs' = subs \cup {s}
  /\ applied' = [applied EXCEPT ![s] = cfg]
  /\ UNCHANGED <<cfg, queue, serve, saving, commits, modifier, leaving>>

Unsubscribe(s) ==
  /\ s \in subs
  /\ subs' = subs \ {s}
  /\ leaving' = [leaving EXCEPT ![s] = cfg]
  /\ UNCHANGED <<cfg, queue, serve, saving, commits, modifier, applied>>

\* Mutant: the change that is going on is not waited for.
ChangeDone_AtOnce(version) == TRUE
ChangeDone(version) == \A c \in commits : c.to # version

Unsubscribed(s) ==
  /\ leaving[s] # 0
  /\ ChangeDone(leaving[s])
  /\ leaving' = [leaving EXCEPT ![s] = 0]
  /\ UNCHANGED <<cfg, queue, serve, saving, subs, commits, modifier, applied>>

-----------------------------------------------------------------------------
(* The routine of the wrapper *)

StartTimer ==
  /\ saveTimer' = (saveTimer \/ ~saveTimerRunning)
  /\ saveTimerRunning' = TRUE
  /\ UNCHANGED file

\* Mutant: who has a modification rejected gets no answer.
Answer_Accepted(m, accepted) == IF accepted THEN [modifier EXCEPT ![m] = "answered"] ELSE modifier
Answer(m, accepted) == [modifier EXCEPT ![m] = "answered"]

\* A modification changes nothing, is rejected by prepare or a verifier, or comes into
\* effect and is committed by all who have subscribed.
ServeModification ==
  /\ serve = "select"
  /\ queue # <<>>
  /\ queue' = Tail(queue)
  /\ serve' = "wait"
  /\ \/ /\ modifier' = Answer(Head(queue), TRUE)
        /\ UNCHANGED <<cfg, saving, commits>>
     \/ /\ modifier' = Answer(Head(queue), FALSE)
        /\ StartTimer
        /\ UNCHANGED <<cfg, commits>>
     \/ /\ cfg < MaxVersions
        /\ modifier' = Answer(Head(queue), TRUE)
        /\ cfg' = cfg + 1
        /\ commits' = commits \cup {[sub |-> s, from |-> cfg, to |-> cfg + 1] : s \in subs}
        /\ StartTimer
  /\ UNCHANGED <<subs, leaving, applied>>

Commit(c) ==
  /\ commits' = commits \ {c}
  /\ applied' = [applied EXCEPT ![c.sub] = c.to]
  /\ UNCHANGED <<cfg, queue, serve, saving, subs, modifier, leaving>>

\* Mutant: the next modification is not held up by subscribers.
MayContinue_AtOnce == serve = "wait"
MayContinue == serve = "wait" /\ \A c \in commits : c.to # cfg
Continue ==
  /\ MayContinue
  /\ serve' = "select"
  /\ UNCHANGED <<cfg, queue, saving, subs, commits, modifier, leaving, applied>>

Save == file' = cfg \/ (SaveFails /\ UNCHANGED file)
\* Mutant: the timer counts as running after it has fired.
TimerAfterSave_Running == saveTimer' = FALSE /\ UNCHANGED saveTimerRunning
TimerAfterSave == saveTimer' = FALSE /\ saveTimerRunning' = FALSE
ServeSave ==
  /\ serve = "select"
  /\ saveTimer
  /\ Save
  /\ TimerAfterSave
  /\ UNCHANGED <<cfg, queue, serve, subs, commits, modifier, leaving, applied>>

\* The context is done: what is queued stays there.
Stop ==
  /\ serve # "stopped"
  /\ serve' = "stopped"
  /\ Save
  /\ UNCHANGED <<cfg, queue, saveTimer, saveTimerRunning, subs, commits, modifier, leaving, applied>>

Next ==
  \/ \E m \in Modifiers : Modify(m) \/ Forget(m)
  \/ \E s \in Subscribers : Subscribe(s) \/ Unsubscribe(s) \/ Unsubscribed(s)
  \/ \E c \in commits : Commit(c)
  \/ ServeModification \/ Continue \/ ServeSave \/ Stop

Spec == Init /\ [][Next]_vars

\* The routine runs and looks at its queue and its timer; subscribers return.
Commits == \E c \in commits : Commit(c)
FairSpec ==
  /\ Spec
  /\ WF_vars(Continue) /\ WF_vars(Commits)
  /\ SF_vars(ServeModification) /\ SF_vars(ServeSave)
  /\ \A s \in Subscribers : WF_vars(Unsubscribed(s))

-----------------------------------------------------------------------------
(* Properties *)

TypeOK ==
  /\ cfg \in 1..MaxVersions /\ file \in 1..MaxVersions
  /\ Len(queue) <= maxModifications
  /\ \A m \in Modifiers : modifier[m] \in {"idle", "queued", "answered"}

\* A subscriber sees every configuration, each exactly once and in order: it commits from
\* the one it has last seen, and has seen the one in effect before the next change.
EveryVersionSeen ==
  /\ \A c \in commits : c.sub \in subs => c.from = applied[c.sub]
  /\ serve = "select" => \A s \in subs : applied[s] = cfg

\* Once Unsubscribe returns, the subscriber is not called any more.
NoCommitAfterUnsubscribe ==
  \A c \in commits : c.sub \in subs \/ leaving[c.sub] # 0

\* Every modification is answered, unless the wrapper is stopped.
ModifyAnswered == \A m \in Modifiers : modifier[m] = "queued" ~> modifier[m] # "queued" \/ serve = "stopped"

\* Every modification is answered.
ModifyReturns == \A m \in Modifiers : modifier[m] = "queued" ~> modifier[m] # "queued"

\* What is in effect ends up on disk, also when it is stopped right after a change.
FileFollows == <>[](file = cfg)
=============================================================================
