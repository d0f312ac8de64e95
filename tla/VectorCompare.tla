--------------------------- MODULE VectorCompare ---------------------------
(***************************************************************************)
(* Vector.Compare (lib/protocol/vector.go): a merge of two lists of        *)
(* counters, each sorted by the ID of the device, that looks at the lists  *)
(* from the front and stops as soon as each is newer somewhere.            *)
(***************************************************************************)
EXTENDS VersionVector, Sequences

CONSTANTS
    IDs,     \* short device IDs
    MaxValue,\* bound on the values of counters
    MaxLen   \* bound on the number of counters

ASSUME IDsAssumption == IDs \subseteq Nat
ASSUME BoundsAssumption == MaxValue \in Nat /\ MaxLen \in Nat

VARIABLES
    a, b,   \* the counters of the two vectors
    ai, bi, \* the next ones to look at
    result, \* the relation of what was looked at
    done

vars == <<a, b, ai, bi, result, done>>

Counter == [id : IDs, value : 0..MaxValue]
IsSorted(v) == \A i, j \in 1..Len(v) : i < j => v[i].id < v[j].id
Vectors == {v \in UNION {[1..n -> Counter] : n \in 0..MaxLen} : IsSorted(v)}

\* A vector as a function: the value of a counter that is not there is 0.
Values(v) == [i \in IDs |-> IF \E k \in 1..Len(v) : v[k].id = i
                            THEN v[CHOOSE k \in 1..Len(v) : v[k].id = i].value
                            ELSE 0]

Init ==
    /\ a \in Vectors /\ b \in Vectors
    /\ ai = 1 /\ bi = 1
    /\ result = "Equal"
    /\ done = FALSE

MoreA == ai <= Len(a)
MoreB == bi <= Len(b)

\* Mutant of OnlyA: looks at the end of b only.
OnlyA_AtEnd == MoreA /\ ~MoreB

\* The next counter is the same on both sides, or is missing on one of them.
Both  == MoreA /\ MoreB /\ a[ai].id = b[bi].id
OnlyA == MoreA /\ (MoreB => a[ai].id < b[bi].id)
OnlyB == MoreB /\ (MoreA => b[bi].id < a[ai].id)

AValue == IF Both \/ OnlyA THEN a[ai].value ELSE 0
BValue == IF Both \/ OnlyB THEN b[bi].value ELSE 0

\* Mutant of Newer: forgets what was found before.
Newer_Latest(mine, theirs, greater, lesser, concurrent) ==
    mine > theirs /\ result' = greater /\ UNCHANGED done

\* One side is newer in a counter.
Newer(mine, theirs, greater, lesser, concurrent) ==
    /\ mine > theirs
    /\ \/ result = lesser /\ result' = concurrent /\ done' = TRUE
       \/ result # lesser /\ result' = greater /\ UNCHANGED done

\* One turn of the loop; the return leaves the indexes as they are.
Turn ==
    /\ ~done
    /\ MoreA \/ MoreB
    /\ \/ Newer(AValue, BValue, "Greater", "Lesser", "ConcurrentLesser")
       \/ Newer(BValue, AValue, "Lesser", "Greater", "ConcurrentGreater")
       \/ AValue = BValue /\ UNCHANGED <<result, done>>
    /\ ai' = IF ~done' /\ (Both \/ OnlyA) THEN ai + 1 ELSE ai
    /\ bi' = IF ~done' /\ (Both \/ OnlyB) THEN bi + 1 ELSE bi
    /\ UNCHANGED <<a, b>>

Return ==
    /\ ~done
    /\ ~MoreA /\ ~MoreB
    /\ done' = TRUE
    /\ UNCHANGED <<a, b, ai, bi, result>>

Next == Turn \/ Return
Spec == Init /\ [][Next]_vars
FairSpec == Spec /\ WF_vars(Next)

----------------------------------------------------------------------------
Results == {"Equal", "Greater", "Lesser", "ConcurrentGreater", "ConcurrentLesser"}

TypeOK ==
    /\ a \in Vectors /\ b \in Vectors
    /\ ai \in 1..Len(a) + 1 /\ bi \in 1..Len(b) + 1
    /\ result \in Results
    /\ done \in BOOLEAN

\* The loop, which never looks at a counter twice, returns the relation of the
\* vectors.
CompareIsRight == done => result = Compare(Values(a), Values(b))

\* The loop ends: a turn that does not return takes a counter from a side.
Terminates == <>done

----------------------------------------------------------------------------
(* The loop's invariant: the result is right for the counters that were    *)
(* looked at, and those come before all others.                            *)

Ahead == {i \in IDs : \/ \E k \in ai..Len(a) : a[k].id = i
                      \/ \E k \in bi..Len(b) : b[k].id = i}
Behind == Differing(Values(a), Values(b)) \ Ahead

InOrder ==
    \A i \in Ahead : /\ \A k \in 1..ai - 1 : a[k].id < i
                     /\ \A k \in 1..bi - 1 : b[k].id < i

ResultSoFar ==
    CASE result = "Equal"   -> Behind = {}
      [] result = "Greater" -> /\ \E f \in Behind : \A i \in Behind : f <= i
                               /\ \A i \in Behind : Values(a)[i] > Values(b)[i]
      [] result = "Lesser"  -> /\ \E f \in Behind : \A i \in Behind : f <= i
                               /\ \A i \in Behind : Values(a)[i] < Values(b)[i]
      [] OTHER              -> FALSE

LoopInv ==
    /\ TypeOK
    /\ InOrder
    /\ ~done => ResultSoFar
    /\ CompareIsRight
=============================================================================
