-------------------------- MODULE MCPrimaryConnection --------------------------
EXTENDS PrimaryConnection
CONSTANTS a, b
TwoSides == {a, b}
Opposite == [s \in TwoSides |-> IF s = a THEN b ELSE a]
=============================================================================
