--------------------------------- MODULE Books ---------------------------------
(***************************************************************************)
(* The books that are kept about what other devices are told: the registry  *)
(* of index handlers, the local part of the index database with crashes, and *)
(* the times of dials, each with what it is about.                          *)
(***************************************************************************)
EXTENDS IndexRegistry, FiniteSets

CONSTANTS
  LocalNames, Contents, MaxSeq, MaxFileChanges, MaxCrashes,  \* of the local index
  Addresses, Frequency, StdSleep, CoolDownInterval, CoolDownDelay, CoolDownMaxAttempts   \* of the dials
ASSUME LocalIndexAssumption == IsFiniteSet(LocalNames) /\ MaxSeq \in Nat
\* As the intervals and the limit are in the code: two and five minutes, and three attempts.
ASSUME DialAssumption ==
  /\ Frequency \in [Addresses -> Nat] /\ StdSleep \in Nat \ {0}
  /\ CoolDownInterval \in Nat /\ CoolDownDelay \in Nat /\ CoolDownInterval <= CoolDownDelay
  /\ CoolDownMaxAttempts \in Nat /\ CoolDownMaxAttempts >= 2

VARIABLES
  disk, view, sequence, phase, oldSequence, update, real, sent, given, torn, fileChanges, crashes,
  entry, sleep, rampup, connected, leaving, dialNow, tried, waited, calm, losses, owed, since, early

\* Its crashes are not in the check at start-up.
L == INSTANCE LocalIndex WITH
  Names <- LocalNames, CrashInRepair <- FALSE, MaxChanges <- MaxFileChanges, changes <- fileChanges

D == INSTANCE DialSchedule

-----------------------------------------------------------------------------
(* Properties, as their modules state them *)

\* LocalIndex: what was given out under an index ID and a number stays the same, and what was
\* sent includes every change up to its number, across crashes, because the check at
\* start-up repairs what they leave; and the block map has the blocks of the local files.
LocalIndexRight == L!NoNumberReused /\ L!AllSent /\ L!CheckRepairs /\ L!BlockMapRight

\* DialSchedule: an address is tried as often as its dialer says, and a device whose
\* connections break is not dialled again and again.
DialsRight == D!RegularDials /\ D!NotHammered
=============================================================================
