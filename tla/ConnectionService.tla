--------------------------- MODULE ConnectionService ---------------------------
(***************************************************************************)
(* Which of the possible connections between two devices stay               *)
(* (lib/connections/service.go): dialling, the early check, the exchange of *)
(* hellos and the accounting of connections on both sides. A connection is  *)
(* named for its route: there is one at a time over each.                   *)
(***************************************************************************)
EXTENDS Integers, FiniteSetsExt

CONSTANTS
  Sides,
  Conns,
  Dialer,          \* the side that dials each connection
  Multi,           \* connections whose dialer AllowsMultiConns
  Priority,        \* of each connection for each side; less is better
  NumConnections,  \* how many connections each side is configured to want
  Threshold,       \* ConnectionPriorityUpgradeThreshold
  MaxFailures      \* bound on connections the network ends

VARIABLES
  step,            \* where each side is with each connection
  down,            \* closed by someone
  closing,         \* connections a side is about to close because of a better one
  wantConnections, \* what the other side said in its latest hello; 0 without connections
  failures

vars == <<step, down, closing, wantConnections, failures>>

Init ==
  /\ step = [s \in Sides |-> [c \in Conns |-> "off"]]
  /\ down = {}
  /\ closing = [s \in Sides |-> {}]
  /\ wantConnections = [s \in Sides |-> 0]
  /\ failures = 0

Peer(s) == CHOOSE t \in Sides : t # s
To(s, c, where) == [step EXCEPT ![s][c] = where]

connections(s) == {c \in Conns : step[s][c] = "added"}
Count(s) == Cardinality(connections(s))
Worst(s) == Max({Priority[s][c] : c \in connections(s)})

Larger(a, b) == IF a < b THEN b ELSE a
Desired(mine, theirs) == IF theirs <= 1 \/ mine = 1 THEN 1 ELSE Larger(mine, theirs)
Enough(s) == Count(s) >= Desired(NumConnections[s], wantConnections[s])

\* dialDevices and resolveDialTargets, for a connection's route.
WorthDialling(s, c) ==
  connections(s) # {} =>
    LET cutoff == Worst(s) - Threshold IN
    /\ Priority[s][c] <= cutoff
    /\ c \in Multi
    /\ ~(Enough(s) /\ Priority[s][c] = cutoff)

\* A route is dialled again after an attempt has ended on both sides.
Over(s, c) == step[s][c] \in {"off", "refused", "removed"}
Dial(c) ==
  /\ \A s \in Sides : Over(s, c)
  /\ WorthDialling(Dialer[c], c)
  /\ step' = [s \in Sides |-> [step[s] EXCEPT ![c] = "arrived"]]
  /\ down' = down \ {c}
  /\ UNCHANGED <<closing, wantConnections, failures>>

\* connectionCheckEarly.
\* Mutant: a better connection is refused as well.
Unwelcome_Any(s, c) == connections(s) # {} /\ Enough(s)
Unwelcome(s, c) == connections(s) # {} /\ Enough(s) /\ Priority[s][c] + Threshold >= Worst(s)

\* handleConns, on each side.
CheckEarly(s, c) ==
  /\ step[s][c] = "arrived"
  /\ \/ /\ Unwelcome(s, c)
        /\ step' = To(s, c, "refused")
        /\ down' = down \cup {c}
     \/ /\ ~Unwelcome(s, c)
        /\ step' = To(s, c, "hello")
        /\ UNCHANGED down
  /\ UNCHANGED <<closing, wantConnections, failures>>

HelloSent(s, c) == step[s][c] \notin {"off", "arrived", "refused"}
ExchangeHello(s, c) ==
  /\ step[s][c] = "hello"
  /\ \/ HelloSent(Peer(s), c) /\ step' = To(s, c, "exchanged")
     \/ c \in down /\ step' = To(s, c, "refused")
  /\ UNCHANGED <<down, closing, wantConnections, failures>>

\* closeWorsePriorityConnectionsLocked, among all connections, the new one included.
\* Mutant: it closes the others of the same priority as well.
Worse_OrEqual(s, c) == {d \in connections(s) : Priority[s][d] >= Priority[s][c] - Threshold}
Worse(s, c) == {d \in connections(s) \cup {c} : Priority[s][d] > Priority[s][c] - Threshold}

\* handleHellos and accountAddedConnection.
Add(s, c) ==
  /\ step[s][c] = "exchanged"
  /\ step' = To(s, c, "added")
  /\ wantConnections' = [wantConnections EXCEPT ![s] = NumConnections[Peer(s)]]
  /\ closing' = [closing EXCEPT ![s] = @ \cup Worse(s, c)]
  /\ UNCHANGED <<down, failures>>

\* A goroutine of closeWorsePriorityConnectionsLocked.
Close(s, c) ==
  /\ c \in closing[s]
  /\ closing' = [closing EXCEPT ![s] = @ \ {c}]
  /\ down' = down \cup {c}
  /\ UNCHANGED <<step, wantConnections, failures>>

\* The end of the connection is seen, and accountRemovedConnection.
\* Mutant: what the other side wants is forgotten with every connection.
Remaining_Forgotten(s, c) == 0
Remaining(s, c) == IF connections(s) = {c} THEN 0 ELSE wantConnections[s]
Remove(s, c) ==
  /\ step[s][c] = "added"
  /\ c \in down
  /\ step' = To(s, c, "removed")
  /\ wantConnections' = [wantConnections EXCEPT ![s] = Remaining(s, c)]
  /\ closing' = [closing EXCEPT ![s] = @ \ {c}]
  /\ UNCHANGED <<down, failures>>

Fail(c) ==
  /\ failures < MaxFailures
  /\ c \notin down
  /\ \E s \in Sides : ~Over(s, c)
  /\ failures' = failures + 1
  /\ down' = down \cup {c}
  /\ UNCHANGED <<step, closing, wantConnections>>

Next ==
  \E c \in Conns :
    \/ Dial(c)
    \/ Fail(c)
    \/ \E s \in Sides : CheckEarly(s, c) \/ ExchangeHello(s, c) \/ Add(s, c) \/ Close(s, c) \/ Remove(s, c)

Spec == Init /\ [][Next]_vars

\* The routines run, and the loop of connect comes to each address again and again.
Step(s, c) == CheckEarly(s, c) \/ ExchangeHello(s, c) \/ Add(s, c) \/ Close(s, c) \/ Remove(s, c)
FairSpec == Spec /\ \A c \in Conns : WF_vars(Dial(c)) /\ \A s \in Sides : WF_vars(Step(s, c))

-----------------------------------------------------------------------------
(* Properties *)

Steps == {"off", "arrived", "hello", "exchanged", "added", "removed", "refused"}
TypeOK ==
  /\ step \in [Sides -> [Conns -> Steps]]
  /\ \A s \in Sides : closing[s] \subseteq connections(s)
  /\ \A s \in Sides : (connections(s) = {}) <=> (wantConnections[s] = 0)
  /\ failures \in 0..MaxFailures

Up == {c \in Conns \ down : \A s \in Sides : step[s][c] = "added"}
Dialled == {c \in Conns : \E s \in Sides : step[s][c] # "off"}
Quiet == ~ENABLED (\E c \in Conns, s \in Sides : Step(s, c))

\* Two devices that dial and accept at the same time, and each close and refuse
\* connections on their own, do not end up without one: unless the network ends them, when
\* all is decided a connection is up if there was an attempt.
Survivor == failures = 0 /\ Dialled # {} /\ Quiet => Up # {}

Best == {c \in Conns : \A s \in Sides, d \in Conns : Priority[s][c] <= Priority[s][d]}

WantedBy(s) == Desired(NumConnections[s], NumConnections[Peer(s)])

\* In the end there are as many connections of the best priority as the devices want, or
\* as there are routes for it. (One of a worse priority that arrived meanwhile may stay.)
BestInTheEnd ==
  <>[](\A s \in Sides : Cardinality(Up \cap Best) >= Min({WantedBy(s), Cardinality(Best)}))
=============================================================================
