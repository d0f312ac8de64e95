----------------------------- MODULE RelayServer -----------------------------
(***************************************************************************)
(* The relay server. A device joins over a connection that stays, and is     *)
(* found by its outbox. Another asks for it over a connection of its own;    *)
(* both are invited to a session, with a key each, join it over further      *)
(* connections, and the session hands on what they send until one is gone.   *)
(***************************************************************************)
EXTENDS Naturals, FiniteSets

CONSTANTS
  Conns,     \* connections that speak the protocol, each used once
  Devices,
  Sessions,  \* in the order in which they are made: 1, 2, ...
  None

Sides == {"client", "server"}

VARIABLES
  id,         \* the device of a connection, by its certificate
  at,         \* where the handler of a connection is
  open,       \* connections that are not closed
  read,       \* what the reader of a connection hands to the handler
  joined,     \* connections that have joined
  outboxes,   \* the connection through which a device is found
  asked,      \* the session a connection has asked for, and the outbox of the device it asked for
  sessions,   \* how many there are
  with,       \* the devices of a session, by side
  pending,    \* the keys that can be used: pairs of session and side
  invited,    \* those who got their key
  adding,     \* those who have used their key, and are not added to the session yet
  serving,    \* where a session is
  conns,      \* who is in it
  closed,     \* whose connection the session has closed
  active,     \* sessions that are found by dropSessions
  contested   \* devices that joined twice at a time

vars == <<id, at, open, read, joined, outboxes, asked, sessions, with, pending, invited, adding, serving, conns, closed,
          active, contested>>
protocolVars == <<id, at, open, read, joined, outboxes, asked, contested>>
sessionVars == <<sessions, with, pending, invited, adding, serving, conns, closed, active>>

Messages == {"join"} \cup Devices    \* the name of a device asks for it

Init ==
  /\ id = [c \in Conns |-> None]
  /\ at = [c \in Conns |-> "new"]
  /\ open = {} /\ joined = {}
  /\ read = [c \in Conns |-> None]
  /\ outboxes = [d \in Devices |-> None]
  /\ asked = [c \in Conns |-> None]
  /\ sessions = 0
  /\ with = [s \in Sessions |-> [side \in Sides |-> None]]
  /\ pending = {} /\ invited = {} /\ adding = {} /\ closed = {} /\ active = {}
  /\ serving = [s \in Sessions |-> "new"]
  /\ conns = [s \in Sessions |-> {}]
  /\ contested = {}

-----------------------------------------------------------------------------
(* Protocol connections *)

\* The certificate of a connection says whose it is.
Accept(c) ==
  /\ at[c] = "new"
  /\ \E d \in Devices : id' = [id EXCEPT ![c] = d]
  /\ at' = [at EXCEPT ![c] = "loop"]
  /\ open' = open \cup {c}
  /\ UNCHANGED <<read, joined, outboxes, asked, contested, sessionVars>>

\* messageReader: one message at a time, and an error once the connection is closed.
Read(c) ==
  /\ at[c] \notin {"new", "done"}
  /\ read[c] = None
  /\ IF c \in open THEN \E m \in Messages : read' = [read EXCEPT ![c] = m]
                   ELSE read' = [read EXCEPT ![c] = "error"]
  /\ UNCHANGED <<id, at, open, joined, outboxes, asked, contested, sessionVars>>

Takes(c, m) == at[c] = "loop" /\ read[c] = m /\ read' = [read EXCEPT ![c] = None]

\* A wrong token, a server that is full, or a device that has joined already.
RefuseJoin(c) ==
  /\ Takes(c, "join")
  /\ open' = open \ {c}
  /\ UNCHANGED <<id, at, joined, outboxes, asked, contested, sessionVars>>

\* The outboxes are looked at under one lock and changed under another.
Join(c) ==
  /\ Takes(c, "join")
  /\ outboxes[id[c]] = None
  /\ at' = [at EXCEPT ![c] = "joining"]
  /\ UNCHANGED <<id, open, joined, outboxes, asked, contested, sessionVars>>

Joined(c) ==
  /\ at[c] = "joining"
  /\ at' = [at EXCEPT ![c] = "loop"]
  /\ outboxes' = [outboxes EXCEPT ![id[c]] = c]
  /\ contested' = IF outboxes[id[c]] = None THEN contested ELSE contested \cup {id[c]}
  /\ joined' = joined \cup {c}
  /\ UNCHANGED <<id, open, read, asked, sessionVars>>

\* A device that has not joined is not found.
NotFound(c) ==
  /\ \E d \in Devices : Takes(c, d) /\ outboxes[d] = None
  /\ open' = open \ {c}
  /\ UNCHANGED <<id, at, joined, outboxes, asked, contested, sessionVars>>

\* newSession: a key for each side, and the one who asks is the client; it gets its invitation,
\* if its connection still works.
AskFor(c) ==
  LET s == sessions + 1 IN
  /\ s \in Sessions
  /\ \E d \in Devices :
       /\ Takes(c, d) /\ outboxes[d] # None
       /\ with' = [with EXCEPT ![s] = [client |-> id[c], server |-> d]]
       /\ asked' = [asked EXCEPT ![c] = [session |-> s, outbox |-> outboxes[d]]]
  /\ sessions' = s
  /\ pending' = pending \cup {<<s, side>> : side \in Sides}
  /\ serving' = [serving EXCEPT ![s] = "select"]
  /\ IF c \in open THEN invited' = invited \cup {<<s, "client">>} /\ at' = [at EXCEPT ![c] = "inviting"]
                   ELSE UNCHANGED <<invited, at>>
  /\ UNCHANGED <<id, open, joined, outboxes, contested, adding, conns, closed, active>>

\* The invitation of the server goes through its outbox, if its handler takes it in time.
Invite(c) ==
  /\ at[c] = "inviting"
  /\ at[asked[c].outbox] = "loop"
  /\ invited' = IF asked[c].outbox \in open THEN invited \cup {<<asked[c].session, "server">>} ELSE invited
  /\ at' = [at EXCEPT ![c] = "loop"]
  /\ open' = open \ {c}
  /\ UNCHANGED <<id, read, joined, outboxes, asked, contested, sessions, with, pending, adding, serving, conns, closed,
                 active>>

InviteTimesOut(c) ==
  /\ at[c] = "inviting"
  /\ at' = [at EXCEPT ![c] = "loop"]
  /\ open' = open \ {c}
  /\ UNCHANGED <<id, read, joined, outboxes, asked, contested, sessionVars>>

\* The connection is lost, nothing came for too long, the device did not join in time, or it has
\* no sessions and the server is full.
Lose(c) ==
  /\ c \in open
  /\ open' = open \ {c}
  /\ UNCHANGED <<id, at, read, joined, outboxes, asked, contested, sessionVars>>

InSession(s, d) == \E side \in Sides : with[s][side] = d
\* The reader has failed: the outbox goes, if the connection had joined, with the sessions.
Leaves_Always(c) == TRUE
Leaves(c) == c \in joined
End(c) ==
  /\ Takes(c, "error")
  /\ at' = [at EXCEPT ![c] = "done"]
  /\ open' = open \ {c}
  /\ IF Leaves(c)
     THEN /\ outboxes' = [outboxes EXCEPT ![id[c]] = None]
          /\ closed' = closed \cup {k \in active \X Sides : InSession(k[1], id[c]) /\ k[2] \in conns[k[1]]}
     ELSE UNCHANGED <<outboxes, closed>>
  /\ UNCHANGED <<id, joined, asked, contested, sessions, with, pending, invited, adding, serving, conns, active>>

-----------------------------------------------------------------------------
(* Sessions *)

\* findSession: a key is used once.
Used_Never(s, side) == {}
Used(s, side) == {<<s, side>>}
FindSession(s, side) ==
  /\ <<s, side>> \in invited \cap pending
  /\ pending' = pending \ Used(s, side)
  /\ adding' = adding \cup {<<s, side>>}
  /\ UNCHANGED <<protocolVars, sessions, with, invited, serving, conns, closed, active>>

\* AddConnection hands the connection to the session if it waits for one at that moment, and
\* gives up otherwise.
Waits(s) == serving[s] = "select"
AddConnection(s, side) ==
  /\ <<s, side>> \in adding
  /\ adding' = adding \ {<<s, side>>}
  /\ IF Waits(s)
     THEN /\ conns' = [conns EXCEPT ![s] = @ \cup {side}]
          /\ serving' = [serving EXCEPT ![s] = "added"]
          /\ closed' = closed
     ELSE /\ closed' = closed \cup {<<s, side>>}
          /\ UNCHANGED <<conns, serving>>
  /\ UNCHANGED <<protocolVars, sessions, with, pending, invited, active>>

\* With one connection the session waits for the other; with two it proxies, and is active.
Added(s) ==
  /\ serving[s] = "added"
  /\ serving' = [serving EXCEPT ![s] = IF conns[s] = Sides THEN "proxy" ELSE "select"]
  /\ UNCHANGED <<protocolVars, sessions, with, pending, invited, adding, conns, closed, active>>

Activate(s) ==
  /\ serving[s] = "proxy"
  /\ serving' = [serving EXCEPT ![s] = "active"]
  /\ active' = active \cup {s}
  /\ UNCHANGED <<protocolVars, sessions, with, pending, invited, adding, conns, closed>>

\* It is over when nobody came in time, or when both directions have failed: the keys go, it is
\* active no longer, and its connections are closed.
Over_Left(s) == IF serving[s] = "select" THEN closed ELSE closed \cup {<<s, side>> : side \in conns[s]}
Over(s) == closed \cup {<<s, side>> : side \in conns[s]}
Finish(s) ==
  /\ serving[s] \in {"select", "active"}
  /\ serving' = [serving EXCEPT ![s] = "done"]
  /\ pending' = {k \in pending : k[1] # s}
  /\ active' = active \ {s}
  /\ closed' = Over(s)
  /\ UNCHANGED <<protocolVars, sessions, with, invited, adding, conns>>

-----------------------------------------------------------------------------

Next ==
  \/ \E c \in Conns : \/ Accept(c) \/ Read(c) \/ RefuseJoin(c) \/ Join(c) \/ Joined(c) \/ NotFound(c)
                      \/ AskFor(c) \/ Invite(c) \/ InviteTimesOut(c) \/ Lose(c) \/ End(c)
  \/ \E s \in Sessions : \/ \E side \in Sides : FindSession(s, side) \/ AddConnection(s, side)
                         \/ Added(s) \/ Activate(s) \/ Finish(s)

Spec == Init /\ [][Next]_vars

-----------------------------------------------------------------------------
(* Properties *)

\* A device that has joined is found, as long as its connection is there, if it did not join
\* over two connections at a time.
Found ==
  \A c \in joined : at[c] # "done" /\ id[c] \notin contested => outboxes[id[c]] = c

\* An outbox is that of a connection whose handler still takes what is sent to it.
OutboxIsTaken == \A d \in Devices : outboxes[d] # None => at[outboxes[d]] # "done"

\* Nothing of a session that is over remains: no key that leads to it, no connection that is
\* open, and no entry among the active ones.
NothingRemains ==
  \A s \in Sessions : serving[s] = "done" =>
    /\ \A side \in Sides : <<s, side>> \notin pending
    /\ \A side \in conns[s] : <<s, side>> \in closed
    /\ s \notin active

\* The channel of a session is closed when both sides are there, and a connection that is handed
\* over after that would end the server: nobody can be about to do so.
NoneAfterBoth == \A s \in Sessions : conns[s] = Sides => \A side \in Sides : <<s, side>> \notin adding

RelayRight == Found /\ OutboxIsTaken /\ NothingRemains /\ NoneAfterBoth
=============================================================================
