--------------------------- MODULE VersionVector ---------------------------
(***************************************************************************)
(* Version vectors (lib/protocol/vector.go) as what they mean: a value for *)
(* every short device ID, 0 for one without a counter.  VectorCompare      *)
(* shows that the loop over sorted lists of counters computes Compare.     *)
(***************************************************************************)
EXTENDS Integers

Differing(a, b) == {i \in DOMAIN a : a[i] # b[i]}

\* The relation of a to b.  Vectors that are each newer in one counter are
\* concurrent: lesser or greater by the first counter in which they differ.
Compare(a, b) ==
    LET D == Differing(a, b)
        first == CHOOSE i \in D : \A j \in D : i <= j
    IN  CASE D = {}                    -> "Equal"
          [] D # {} /\ \A i \in D : a[i] > b[i] -> "Greater"
          [] D # {} /\ \A i \in D : a[i] < b[i] -> "Lesser"
          [] OTHER -> IF a[first] > b[first] THEN "ConcurrentGreater"
                                             ELSE "ConcurrentLesser"

Equal(a, b) == Compare(a, b) = "Equal"
GreaterEqual(a, b) == Compare(a, b) \in {"Greater", "Equal"}
Concurrent(a, b) == Compare(a, b) \in {"ConcurrentGreater", "ConcurrentLesser"}

\* Without a counter.
IsEmpty(a) == \A i \in DOMAIN a : a[i] = 0
=============================================================================
