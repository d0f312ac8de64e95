--------------------------- MODULE PrimaryConnection ---------------------------
(***************************************************************************)
(* Several connections between two devices, and which of them carries the    *)
(* indexes (model.go): each side promotes its first connection and sends a    *)
(* ClusterConfig on it; a side has its index handlers on the connection on    *)
(* which it got one.                                                          *)
(***************************************************************************)
EXTENDS Naturals, Sequences, SequencesExt, TLC

CONSTANTS
  Sides, Other,     \* two sides
  Conns,            \* connections, each made once
  None,
  Timely,           \* whether ClusterConfigs are handled in the order in which they were sent:
                    \* nothing but the second before each promotion sees to it
  MaxChanges        \* bound on changes of files and of the configuration

VARIABLES
  link,       \* [Conns -> "new", "up" or "down"]
  added,      \* [Sides -> connections that AddConnection was called for]
  conns,      \* deviceConnIDs
  started,    \* connections that read and write
  promoted,   \* promotedConnID
  timer,      \* promotionTimer
  handlers,   \* the connection of the indexHandlerRegistry, or nothing
  wire,       \* [Sides -> [Conns -> messages to that side]]
  index,      \* [Sides -> state of its last changes: "unsent", "sent" or "known"]
  promotions, \* [Sides -> number of ClusterConfigs sent]
  changes

vars == <<link, added, conns, started, promoted, timer, handlers, wire, index, promotions, changes>>
model == <<added, conns, started, promoted, timer, handlers>>

Init ==
  /\ link = [c \in Conns |-> "new"]
  /\ added = [s \in Sides |-> {}]
  /\ conns = [s \in Sides |-> <<>>]
  /\ started = [s \in Sides |-> {}]
  /\ promoted = [s \in Sides |-> None]
  /\ timer = [s \in Sides |-> FALSE]
  /\ handlers = [s \in Sides |-> None]
  /\ wire = [s \in Sides |-> [c \in Conns |-> <<>>]]
  /\ index \in [Sides -> {"unsent", "known"}]
  /\ promotions = [s \in Sides |-> 0]
  /\ changes = 0

Primary(s) == [type |-> "primary", number |-> promotions[s] + 1]
Secondary == [type |-> "secondary", number |-> 0]
Index == [type |-> "index", number |-> 0]
IsPrimary(m) == m.type = "primary"

\* Messages of s on the connections that are up: m[c] is sent on c.
Sent(s, m) ==
  wire' = [wire EXCEPT ![Other[s]] =
             [c \in Conns |-> IF c \in DOMAIN m /\ link[c] = "up" THEN Append(@[c], m[c]) ELSE @[c]]]

-----------------------------------------------------------------------------
Connect(c) ==
  /\ link[c] = "new"
  /\ link' = [link EXCEPT ![c] = "up"]
  /\ UNCHANGED <<model, wire, index, promotions, changes>>

Lose(c) ==
  /\ link[c] = "up"
  /\ link' = [link EXCEPT ![c] = "down"]
  /\ UNCHANGED <<model, wire, index, promotions, changes>>

\* AddConnection schedules a promotion.
AddConnection(s, c) ==
  /\ link[c] # "new" /\ c \notin added[s]
  /\ added' = [added EXCEPT ![s] = @ \cup {c}]
  /\ conns' = [conns EXCEPT ![s] = Append(@, c)]
  /\ timer' = [timer EXCEPT ![s] = TRUE]
  /\ UNCHANGED <<link, started, promoted, handlers, wire, index, promotions, changes>>

\* Mutant: only a connection that is new is promoted.
ToPromote_New(s) == IF Head(conns[s]) \in started[s] THEN {} ELSE {Head(conns[s])}
\* The first connection, if it is not the promoted one.
ToPromote(s) == IF promoted[s] # Head(conns[s]) THEN {Head(conns[s])} ELSE {}

\* promoteConnections: a ClusterConfig on the first, and one that says secondary on the
\* others that are new.
Promote(s) ==
  /\ timer[s]
  /\ timer' = [timer EXCEPT ![s] = FALSE]
  /\ IF conns[s] = <<>> THEN UNCHANGED <<started, promoted, wire, promotions>>
     ELSE LET first == ToPromote(s)
              others == ToSet(Tail(conns[s])) \ started[s]
          IN  /\ promoted' = [promoted EXCEPT ![s] = IF first = {} THEN @ ELSE Head(conns[s])]
              /\ started' = [started EXCEPT ![s] = @ \cup first \cup others]
              /\ Sent(s, [c \in first \cup others |-> IF c \in first THEN Primary(s) ELSE Secondary])
              /\ promotions' = [promotions EXCEPT ![s] = IF first = {} THEN @ ELSE @ + 1]
  /\ UNCHANGED <<link, added, conns, handlers, index, changes>>

\* sendClusterConfig, after a change of the configuration: on the first connection,
\* promoted or not.
ConfigChanges(s) ==
  /\ changes < MaxChanges
  /\ conns[s] # <<>> /\ Head(conns[s]) \in started[s]
  /\ changes' = changes + 1
  /\ Sent(s, [c \in {Head(conns[s])} |-> Primary(s)])
  /\ promotions' = [promotions EXCEPT ![s] = @ + 1]
  /\ UNCHANGED <<link, model, index>>

-----------------------------------------------------------------------------
Take(s, c) == wire' = [wire EXCEPT ![s][c] = Tail(@)]
Readable(s, c) == c \in started[s] /\ c \in ToSet(conns[s]) /\ wire[s][c] # <<>>

\* Mutant: a handler that exists is kept.
HandlersFor_Kept(s, c) == IF handlers[s] = None THEN c ELSE handlers[s]
\* ensureIndexHandler: index handlers on another connection are abandoned.
HandlersFor(s, c) == c

\* ClusterConfig: the new handlers begin with what the other side says that it knows.
ReceiveClusterConfig(s, c) ==
  /\ Readable(s, c) /\ Head(wire[s][c]).type # "index"
  /\ Timely => \A d \in Conns : \A m \in ToSet(wire[s][d]) :
                  IsPrimary(m) => m.number >= Head(wire[s][c]).number
  /\ Take(s, c)
  /\ IF IsPrimary(Head(wire[s][c]))
     THEN /\ handlers' = [handlers EXCEPT ![s] = HandlersFor(s, c)]
          /\ index' = [index EXCEPT ![s] = IF @ = "sent" THEN "unsent" ELSE @]
     ELSE UNCHANGED <<handlers, index>>
  /\ UNCHANGED <<link, added, conns, started, promoted, timer, promotions, changes>>

FilesChange(s) ==
  /\ changes < MaxChanges
  /\ changes' = changes + 1
  /\ index' = [index EXCEPT ![s] = "unsent"]
  /\ UNCHANGED <<link, model, wire, promotions>>

\* The handlers send what is new.
SendIndex(s) ==
  /\ handlers[s] # None /\ index[s] = "unsent"
  /\ link[handlers[s]] = "up"
  /\ index' = [index EXCEPT ![s] = "sent"]
  /\ Sent(s, [c \in {handlers[s]} |-> Index])
  /\ UNCHANGED <<link, model, promotions, changes>>

\* handleIndex: index messages on a connection without handlers end it.
ReceiveIndex(s, c) ==
  /\ Readable(s, c) /\ Head(wire[s][c]).type = "index"
  /\ Take(s, c)
  /\ IF handlers[s] = c
     THEN /\ index' = [index EXCEPT ![Other[s]] = IF @ = "sent" THEN "known" ELSE @]
          /\ UNCHANGED link
     ELSE /\ link' = [link EXCEPT ![c] = "down"]
          /\ UNCHANGED index
  /\ UNCHANGED <<model, promotions, changes>>

\* Mutant: only the loss of the last connection is followed by a promotion.
ToSchedule_Last(s, c) == Len(conns[s]) = 1
\* Whether the loss of c makes another promotion necessary.
ToSchedule(s, c) == promoted[s] = c

\* The list without c, which is in it once.
Without(ids, c) == RemoveAt(ids, CHOOSE i \in DOMAIN ids : ids[i] = c)

\* Closed: a connection that is lost is noticed once it is started.
Closed(s, c) ==
  /\ link[c] = "down" /\ c \in ToSet(conns[s]) /\ c \in started[s]
  /\ conns' = [conns EXCEPT ![s] = Without(@, c)]
  /\ timer' = [timer EXCEPT ![s] = @ \/ ToSchedule(s, c)]
  /\ handlers' = [handlers EXCEPT ![s] = IF promoted[s] = c /\ @ = c THEN None ELSE @]
  /\ promoted' = [promoted EXCEPT ![s] = IF Len(conns[s]) = 1 THEN None ELSE @]
  /\ wire' = [wire EXCEPT ![s][c] = <<>>]
  /\ UNCHANGED <<link, added, started, index, promotions, changes>>

Step(s) ==
  \/ \E c \in Conns : AddConnection(s, c) \/ ReceiveClusterConfig(s, c) \/ ReceiveIndex(s, c) \/ Closed(s, c)
  \/ Promote(s) \/ SendIndex(s)
Next ==
  \/ \E c \in Conns : Connect(c) \/ Lose(c)
  \/ \E s \in Sides, c \in Conns :
       AddConnection(s, c) \/ ReceiveClusterConfig(s, c) \/ ReceiveIndex(s, c) \/ Closed(s, c)
  \/ \E s \in Sides : Promote(s) \/ SendIndex(s) \/ ConfigChanges(s) \/ FilesChange(s)

Spec == Init /\ [][Next]_vars
FairSpec == Spec /\ (\A c \in Conns : WF_vars(Connect(c))) /\ (\A s \in Sides : WF_vars(Step(s)))

-----------------------------------------------------------------------------
(* Properties *)

TypeOK ==
  /\ \A s \in Sides :
       /\ ToSet(conns[s]) \subseteq added[s] /\ started[s] \subseteq added[s]
       /\ IsInjective(conns[s])
       /\ promoted[s] # None => promoted[s] \in started[s]
       /\ handlers[s] \in Conns \cup {None}

\* The first connection of a device is the promoted one, or a promotion is due.
PromotedOrDue ==
  \A s \in Sides : conns[s] # <<>> /\ ~timer[s] =>
    promoted[s] = Head(conns[s]) /\ ToSet(conns[s]) \subseteq started[s]

Quiet ==
  /\ \A s \in Sides : ~timer[s] /\ conns[s] # <<>> /\ \A c \in Conns : wire[s][c] = <<>>
  /\ \A c \in Conns, s \in Sides :
       /\ link[c] = "up" => c \in added[s]
       /\ link[c] = "down" => c \notin ToSet(conns[s])

\* When all is quiet, each side has its handlers on the connection that the other has promoted.
Agreement == Quiet => \A s \in Sides : handlers[s] = promoted[Other[s]]

\* Two devices agree on the connection that carries the indexes.
ConnectionsAgree == PromotedOrDue /\ Agreement

\* "This should be impossible, as an index handler is registered when we send a cluster
\* config, and that is what triggers index sending."
IndexHasHandlers ==
  \A s \in Sides, c \in Conns :
    Readable(s, c) /\ Head(wire[s][c]).type = "index" => handlers[s] = c

\* What changes on one side becomes known to the other, or every connection is gone.
ChangesGetKnown ==
  \A s \in Sides : index[s] # "known" ~> index[s] = "known" \/ \A c \in Conns : link[c] = "down"
=============================================================================
