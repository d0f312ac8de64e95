----------------------------- MODULE DialSchedule -----------------------------
(***************************************************************************)
(* When a device is dialled (lib/connections/service.go): the loop of       *)
(* connect and nextDialRegistry, for one device that one connection is      *)
(* enough for. Times are relative to now and counted in the shortest sleep  *)
(* of the loop; a round of dials takes no time.                             *)
(***************************************************************************)
EXTENDS Integers, FiniteSetsExt

CONSTANTS
  Addresses,
  Frequency,         \* RedialFrequency of the dialer for each address
  StdSleep,          \* stdConnectionLoopSleep, also the time of a failed preparation
  CoolDownInterval, CoolDownDelay, CoolDownMaxAttempts

VARIABLES
  entry,       \* the device's entry in nextDialAt
  sleep,       \* what is left of the loop's sleep
  rampup,      \* initialRampup
  connected,
  leaving,     \* a connection is gone, and its goroutine has not said so yet
  dialNow,     \* the device is in dialNowDevices and the loop is called
  \* history
  tried,       \* the addresses of the latest round
  waited,      \* for how long each address has not been tried without a connection
  calm,        \* how long ago the latest connection was lost
  losses,      \* connections lost since it was last calm
  owed,        \* the loop was called because of the first of them
  since,       \* how long ago each address was tried, up to its frequency
  early        \* for each address, tries sooner than that, and the time since the first of them

history == <<tried, waited, calm, losses, owed, since, early>>
vars == <<entry, sleep, rampup, connected, leaving, dialNow, history>>

Long == CoolDownDelay + 1
Capped(n) == Min({n, Long})
Never == [a \in Addresses |-> -1]
NoEntry == [present |-> FALSE, next |-> Never, age |-> Long, attempts |-> 0]

Init ==
  /\ entry = NoEntry
  /\ sleep = 0
  /\ rampup = 1
  /\ connected = FALSE
  /\ leaving = FALSE
  /\ dialNow = FALSE
  /\ tried = {}
  /\ waited = [a \in Addresses |-> 0]
  /\ calm = Long
  /\ losses = 0
  /\ owed = FALSE
  /\ since = Frequency
  /\ early = [a \in Addresses |-> [count |-> 0, age |-> 0]]

\* The first rounds do not look at the times.
Initial == rampup < StdSleep
Due == {a \in Addresses : Initial \/ entry.next[a] <= 0}

\* set, for what is due. Of that, only the usable addresses are dialled.
Scheduled(due, usable) ==
  [entry EXCEPT !.present = @ \/ due # {},
                !.next = [a \in Addresses |-> IF a \in usable THEN Frequency[a]
                                              ELSE IF a \in due THEN StdSleep ELSE entry.next[a]]]

\* sleepDurationAndCleanup: the entry is dropped when nothing is scheduled any more and
\* its attempts are old. (attempts itself is set to 0 only in a copy of the entry.)
Forgiven(e) == e.attempts = 0 \/ e.age > (IF e.attempts >= CoolDownMaxAttempts THEN CoolDownDelay ELSE CoolDownInterval)
Cleaned(e) == IF e.next = Never /\ Forgiven(e) THEN NoEntry ELSE e
\* Mutant: it sleeps until the last address is due.
NextDial_Last(e) == Max({e.next[a] : a \in Addresses} \cup {StdSleep})
NextDial(e) == Min({e.next[a] : a \in {b \in Addresses : e.next[b] >= 0}} \cup {StdSleep})

\* One more try that is sooner, the first one for some time or not.
Again(e) == IF e.count = 0 \/ e.age >= CoolDownInterval THEN [count |-> 1, age |-> 0] ELSE [e EXCEPT !.count = @ + 1]

\* A pass of the loop. With a connection there is nothing to dial.
Round ==
  /\ sleep = 0
  /\ LET due == IF connected THEN {} ELSE Due IN
     \E usable \in SUBSET due :
       LET e == Scheduled(due, usable) IN
       /\ entry' = IF Initial THEN e ELSE Cleaned(e)
       /\ sleep' = Max({1, IF Initial THEN rampup ELSE NextDial(e)})
       /\ rampup' = IF Initial THEN 2 * rampup ELSE rampup
       /\ tried' = due
       /\ waited' = [a \in Addresses |-> IF a \in due THEN 0 ELSE waited[a]]
       /\ since' = [a \in Addresses |-> IF a \in usable THEN 0 ELSE since[a]]
       /\ early' = [a \in Addresses |-> IF a \in usable /\ ~Initial /\ since[a] < Frequency[a]
                                        THEN Again(early[a]) ELSE early[a]]
  /\ owed' = FALSE
  /\ UNCHANGED <<connected, leaving, dialNow, calm, losses>>

\* A dial succeeds, or the other side's does.
Connect ==
  /\ ~connected /\ ~leaving
  /\ connected' = TRUE
  /\ waited' = [a \in Addresses |-> 0]
  /\ UNCHANGED <<entry, sleep, rampup, leaving, dialNow, tried, calm, losses, owed, since, early>>

\* The connection is closed and no longer counted ...
Lose ==
  /\ connected
  /\ connected' = FALSE
  /\ leaving' = TRUE
  /\ calm' = 0
  /\ losses' = IF calm = Long THEN 1 ELSE Min({losses + 1, 2})
  /\ UNCHANGED <<entry, sleep, rampup, dialNow, tried, waited, owed, since, early>>

\* ... and then the loop is called.
Call ==
  /\ leaving
  /\ leaving' = FALSE
  /\ dialNow' = TRUE
  /\ UNCHANGED <<entry, sleep, rampup, connected, history>>

\* redialDevice. What it changes in an entry that exists is lost: r[device] is a copy.
\* Mutant: without looking at the attempts.
Redialled_Always(e) == IF e.present THEN NoEntry ELSE [NoEntry EXCEPT !.present = TRUE, !.age = 0, !.attempts = 1]
Redialled(e) ==
  IF ~e.present THEN [NoEntry EXCEPT !.present = TRUE, !.age = 0, !.attempts = 1]
  ELSE IF e.attempts = 0 \/ e.age < CoolDownInterval THEN e
  ELSE IF e.attempts >= CoolDownMaxAttempts /\ e.age < CoolDownDelay THEN e
  ELSE NoEntry

\* The loop is called while it sleeps.
Wake ==
  /\ sleep > 0
  /\ dialNow
  /\ dialNow' = FALSE
  /\ entry' = Redialled(entry)
  /\ sleep' = 0
  /\ owed' = (losses = 1)
  /\ UNCHANGED <<rampup, connected, leaving, tried, waited, calm, losses, since, early>>

Tick ==
  /\ sleep > 0
  /\ sleep' = sleep - 1
  /\ entry' = [entry EXCEPT !.next = [a \in Addresses |-> Max({@[a] - 1, -1})], !.age = Capped(@ + 1)]
  /\ waited' = [a \in Addresses |-> IF connected THEN 0 ELSE Capped(waited[a] + 1)]
  /\ calm' = Capped(calm + 1)
  /\ since' = [a \in Addresses |-> Min({since[a] + 1, Frequency[a]})]
  /\ early' = [a \in Addresses |-> [early[a] EXCEPT !.age = Capped(@ + 1)]]
  /\ UNCHANGED <<rampup, connected, leaving, dialNow, tried, losses, owed>>

Next == Round \/ Connect \/ Lose \/ Call \/ Wake \/ Tick
Spec == Init /\ [][Next]_vars

-----------------------------------------------------------------------------
(* Properties *)

TypeOK ==
  /\ entry.present \in BOOLEAN
  /\ entry.next \in [Addresses -> Int]
  /\ entry.attempts \in 0..CoolDownMaxAttempts
  /\ ~entry.present => entry = NoEntry
  /\ sleep \in 0..StdSleep
  /\ tried \subseteq Addresses

\* Whatever is forgotten, postponed or cooled down, a device without a connection is
\* dialled at each address as often as the dialer says, give or take a sleep of the loop.
RegularDials == \A a \in Addresses : waited[a] <= Frequency[a] + StdSleep

\* A remote that keeps dropping established connections is not dialled at an address sooner
\* for that more than a few times within the cool-down interval.
NotHammered == \A a \in Addresses : early[a].count <= CoolDownMaxAttempts

\* A device whose connection is lost after a calm time is dialled at once, at every address.
RedialledAtOnce == [][Round /\ owed /\ ~connected => tried' = Addresses]_vars
=============================================================================
