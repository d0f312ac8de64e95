----------------------------- MODULE Connection -----------------------------
(***************************************************************************)
(* A BEP connection of one device (lib/protocol/protocol.go): the loops     *)
(* that read, dispatch, write and watch, the callers that send, the         *)
(* routines that answer requests, and the closing of it all.  What the      *)
(* remote device sends is arbitrary; the network may fail at any time, and  *)
(* writing to it may take forever.                                          *)
(*                                                                         *)
(* The channels are unbuffered, and every select on them also has a case    *)
(* for the channel `closed`.  Closing that channel wakes all routines that  *)
(* wait in such a select with that case, and a routine that comes to one    *)
(* later finds nobody to meet: no message is handed over after it.          *)
(***************************************************************************)
EXTENDS Naturals, Sequences, FiniteSets

CONSTANTS
  Requesters,  \* calls of Request, each with the ID it is given
  Indexers,    \* calls of Index or IndexUpdate
  Configs,     \* calls of ClusterConfig
  Handlers,    \* routines of handleRequest
  Closers,     \* calls of Close, other than the two below
  Nobody,      \* no process
  MaxReceived, \* bound on the messages read
  MaxPings     \* bound on the pings sent

ASSUME ConnectionAssumption == MaxReceived \in Nat /\ MaxPings \in Nat

VARIABLES
  pc,        \* where each process is
  hand,      \* the message a loop or a sender has in hand
  phase,     \* how far internalClose has come
  mutex,     \* who holds startStopMut
  idxMutex,  \* who holds idxMut
  closing,   \* sendCloseOnce: "free", "busy" or "done"
  ready,     \* the dispatcher has seen a ClusterConfig
  awaiting,  \* the requests that are registered
  answer,    \* the result channel of each request
  received,  \* number of messages read
  wire,      \* what has been written
  timedOut   \* a Close has given up waiting for its message to go out

vars == <<pc, hand, phase, mutex, idxMutex, closing, ready, awaiting, answer,
          received, wire, timedOut>>

Loops == {"reader", "dispatcher", "writer", "pingSender", "pingReceiver"}
\* Close is also called by the model from within a call of the dispatcher, and
\* by the dispatcher's routine when the loop has ended.
CloseCalls == Closers \cup {"callback", "dispatcherEnd"}
Senders == Requesters \cup Indexers \cup Handlers
Procs == Loops \cup Senders \cup Configs \cup CloseCalls

\* Each process is of one kind.
ASSUME DistinctProcesses ==
  /\ Senders \cap (Loops \cup Configs \cup CloseCalls) = {}
  /\ Loops \cap (Configs \cup Closers) = {}
  /\ Requesters \cap (Indexers \cup Handlers) = {} /\ Indexers \cap Handlers = {}

Message(t, p) == [type |-> t, of |-> p]
NoMessage == Message("none", Nobody)
Incoming == {Message(t, Nobody) :
               t \in {"ClusterConfig", "Index", "Request", "Ping", "Close"}}
            \cup {Message("Response", r) : r \in Requesters}

\* Mutant: the awaited requests are gone over before the channel is closed.
Closed_AfterDrain == phase = "told"
Closed == phase \notin {"open", "shut"}
Started == pc["reader"] # "off"

Go(p, where) == pc' = [pc EXCEPT ![p] = where]
GoWith(p, where, m) == Go(p, where) /\ hand' = [hand EXCEPT ![p] = m]
GoFree(p, where) == GoWith(p, where, NoMessage)

Init ==
  /\ pc = [p \in Procs |-> IF p \in Loops THEN "off" ELSE "idle"]
  /\ hand = [p \in Procs |-> NoMessage]
  /\ phase = "open"
  /\ mutex = Nobody
  /\ idxMutex = Nobody
  /\ closing = "free"
  /\ ready = FALSE
  /\ awaiting = {}
  /\ answer = [r \in Requesters |-> "none"]
  /\ received = 0
  /\ wire = <<>>
  /\ timedOut = FALSE

\* Start, which waits for an internalClose that is under way.
Start ==
  /\ ~Started
  /\ mutex = Nobody
  /\ pc' = [p \in Procs |-> CASE p = "reader" -> "read"
                              [] p = "dispatcher" -> "select"
                              [] p = "writer" -> "first"
                              [] p \in {"pingSender", "pingReceiver"} -> "on"
                              [] OTHER -> pc[p]]
  /\ UNCHANGED <<hand, phase, mutex, idxMutex, closing, ready, awaiting, answer,
                 received, wire, timedOut>>

-----------------------------------------------------------------------------
(* Receiving *)

Read ==
  /\ pc["reader"] = "read"
  /\ phase = "open"
  /\ received < MaxReceived
  /\ received' = received + 1
  /\ \E m \in Incoming :
       /\ m.type = "Request" => \E h \in Handlers : pc[h] = "idle"
       /\ GoWith("reader", "offer", m)
  /\ UNCHANGED <<phase, mutex, idxMutex, closing, ready, awaiting, answer, wire, timedOut>>

ReadFails ==
  /\ pc["reader"] = "read"
  /\ Go("reader", "lock")
  /\ UNCHANGED <<hand, phase, mutex, idxMutex, closing, ready, awaiting, answer,
                 received, wire, timedOut>>

\* The reader hands the message over the inbox.
Dispatch ==
  /\ pc["reader"] = "offer" /\ pc["dispatcher"] = "select"
  /\ ~Closed
  /\ pc' = [pc EXCEPT !["reader"] = "read", !["dispatcher"] = "handle"]
  /\ hand' = [hand EXCEPT !["reader"] = NoMessage, !["dispatcher"] = hand["reader"]]
  /\ UNCHANGED <<phase, mutex, idxMutex, closing, ready, awaiting, answer, received, wire, timedOut>>

\* Messages that end the dispatcher: a Close, which here stands for one that is not
\* consistent too, and any that comes before a ClusterConfig.
Refused(m) == \/ m.type = "Close"
              \/ (m.type # "ClusterConfig" /\ ~ready)

HandleRefused ==
  /\ pc["dispatcher"] = "handle"
  /\ Refused(hand["dispatcher"])
  /\ GoFree("dispatcher", "stopped")
  /\ UNCHANGED <<phase, mutex, idxMutex, closing, ready, awaiting, answer,
                 received, wire, timedOut>>

\* The model is called by the dispatcher itself, and keeps it for as long as it takes.
HandleCall ==
  /\ pc["dispatcher"] = "handle"
  /\ ~Refused(hand["dispatcher"])
  /\ hand["dispatcher"].type \in {"ClusterConfig", "Index"}
  /\ ready' = TRUE
  /\ GoFree("dispatcher", "call")
  /\ UNCHANGED <<phase, mutex, idxMutex, closing, awaiting, answer, received, wire, timedOut>>

\* Mutant: Close goes through internalClose itself, not in a routine of its own.
CallReturns_Synchronous ==
  /\ pc["dispatcher"] = "call"
  /\ pc["callback"] \in {"idle", "done"}
  /\ \E next \in {"select", "stopped"} : Go("dispatcher", next)
  /\ UNCHANGED <<hand, phase, mutex, idxMutex, closing, ready, awaiting, answer,
                 received, wire, timedOut>>

CallReturns ==
  /\ pc["dispatcher"] = "call"
  /\ pc["callback"] \notin {"once", "offer", "wait"}
  /\ \E next \in {"select", "stopped"} : Go("dispatcher", next)
  /\ UNCHANGED <<hand, phase, mutex, idxMutex, closing, ready, awaiting, answer,
                 received, wire, timedOut>>

HandlePing ==
  /\ pc["dispatcher"] = "handle"
  /\ ~Refused(hand["dispatcher"])
  /\ hand["dispatcher"].type = "Ping"
  /\ GoFree("dispatcher", "select")
  /\ UNCHANGED <<phase, mutex, idxMutex, closing, ready, awaiting, answer, received,
                 wire, timedOut>>

HandleRequest ==
  /\ pc["dispatcher"] = "handle"
  /\ ~Refused(hand["dispatcher"])
  /\ hand["dispatcher"].type = "Request"
  /\ \E h \in Handlers :
       /\ pc[h] = "idle"
       /\ pc' = [pc EXCEPT !["dispatcher"] = "select", ![h] = "call"]
       /\ hand' = [hand EXCEPT !["dispatcher"] = NoMessage]
  /\ UNCHANGED <<phase, mutex, idxMutex, closing, ready, awaiting, answer, received,
                 wire, timedOut>>

\* Mutant: the request stays registered.
HandleResponse_Kept ==
  /\ pc["dispatcher"] = "handle"
  /\ ~Refused(hand["dispatcher"])
  /\ hand["dispatcher"].type = "Response"
  /\ LET r == hand["dispatcher"].of
     IN answer' = IF r \in awaiting THEN [answer EXCEPT ![r] = "full"] ELSE answer
  /\ GoFree("dispatcher", "select")
  /\ UNCHANGED <<phase, mutex, idxMutex, closing, ready, awaiting, received, wire,
                 timedOut>>

\* A response to a request that is not, or no longer, awaited is dropped.
HandleResponse ==
  /\ pc["dispatcher"] = "handle"
  /\ ~Refused(hand["dispatcher"])
  /\ hand["dispatcher"].type = "Response"
  /\ LET r == hand["dispatcher"].of
     IN  /\ awaiting' = awaiting \ {r}
         /\ answer' = IF r \in awaiting THEN [answer EXCEPT ![r] = "full"] ELSE answer
  /\ GoFree("dispatcher", "select")
  /\ UNCHANGED <<phase, mutex, idxMutex, closing, ready, received, wire, timedOut>>

\* The loops that wait in a select, when `closed` is closed.  The two that only wait
\* for the time to pass do nothing after that, and are left where they are.
LeaveClosed(p) ==
  /\ Closed
  /\ \/ p = "dispatcher" /\ pc[p] = "select" /\ GoFree(p, "stopped")
     \/ p = "reader" /\ pc[p] = "offer" /\ GoFree(p, "done")
     \/ p = "writer" /\ pc[p] \in {"first", "loop"} /\ GoFree(p, "done")
  /\ UNCHANGED <<phase, mutex, idxMutex, closing, ready, awaiting, answer, received,
                 wire, timedOut>>

-----------------------------------------------------------------------------
(* Sending *)

\* Request registers its result channel, and sends.
Request(r) ==
  /\ pc[r] = "idle"
  /\ Started
  /\ awaiting' = awaiting \cup {r}
  /\ answer' = [answer EXCEPT ![r] = "open"]
  /\ GoWith(r, "send", Message("Request", r))
  /\ UNCHANGED <<phase, mutex, idxMutex, closing, ready, received, wire, timedOut>>

\* It waits for the answer.
RequestReturns(r) ==
  /\ pc[r] = "wait"
  /\ \/ answer[r] = "full" /\ Go(r, "answered")
     \/ answer[r] = "closed" /\ Go(r, "failed")
  /\ UNCHANGED <<hand, phase, mutex, idxMutex, closing, ready, awaiting, answer,
                 received, wire, timedOut>>

\* Index and IndexUpdate send one at a time.
Index(x) ==
  /\ pc[x] = "idle"
  /\ Started
  /\ ~Closed
  /\ idxMutex = Nobody
  /\ idxMutex' = x
  /\ GoWith(x, "send", Message("Index", x))
  /\ UNCHANGED <<phase, mutex, closing, ready, awaiting, answer, received, wire,
                 timedOut>>

\* The model has answered a request of the remote, with data or with an error.  Only
\* data come with a channel `done` that tells when they may be given back.
ModelAnswers(h) ==
  /\ pc[h] = "call"
  /\ \E t \in {"Response", "ErrorResponse"} : GoWith(h, "send", Message(t, h))
  /\ UNCHANGED <<phase, mutex, idxMutex, closing, ready, awaiting, answer, received,
                 wire, timedOut>>

\* Mutant: the buffer of a response is given back as soon as the writer has it.
Taken_Released(p) == IF p \in Requesters THEN "wait"
                     ELSE IF hand[p].type = "Response" THEN "release" ELSE "done"
\* Where a sender goes when its message is taken, and when it is not.
Taken(p) == IF p \in Requesters \/ hand[p].type = "Response" THEN "wait"
            ELSE "done"
NotTaken(p) == IF p \in Requesters THEN "failed"
               ELSE IF hand[p].type = "Response" THEN "release" ELSE "done"
UnlockIndex(p) == idxMutex' = IF idxMutex = p THEN Nobody ELSE idxMutex

\* Mutant: the writer takes from the outbox from the start.
MayTake_AtOnce == pc["writer"] \in {"first", "loop"}
\* The select of the writer that takes from the outbox.
MayTake == pc["writer"] = "loop"

Send(p) ==
  /\ pc[p] = "send"
  /\ MayTake
  /\ ~Closed
  /\ pc' = [pc EXCEPT ![p] = Taken(p), !["writer"] = "write"]
  /\ hand' = [hand EXCEPT !["writer"] = hand[p], ![p] = NoMessage]
  /\ UnlockIndex(p)
  /\ UNCHANGED <<phase, mutex, closing, ready, awaiting, answer, received,
                 wire, timedOut>>

SendClosed(p) ==
  /\ pc[p] = "send"
  /\ Closed
  /\ GoFree(p, NotTaken(p))
  /\ UnlockIndex(p)
  /\ UNCHANGED <<phase, mutex, closing, ready, awaiting, answer, received, wire, timedOut>>

\* The context of a call is cancelled while it sends, or waits for its answer.
Cancel(p) ==
  /\ \/ pc[p] = "send"
     \/ p \in Requesters /\ pc[p] = "wait"
  /\ GoFree(p, NotTaken(p))
  /\ UnlockIndex(p)
  /\ UNCHANGED <<phase, mutex, closing, ready, awaiting, answer, received, wire, timedOut>>

ReleaseBuffer(h) ==
  /\ pc[h] = "release"
  /\ Go(h, "done")
  /\ UNCHANGED <<hand, phase, mutex, idxMutex, closing, ready, awaiting, answer,
                 received, wire, timedOut>>

\* ClusterConfig, taken from a channel of its own, first of all messages.
SendConfig(c) ==
  /\ pc[c] = "idle"
  /\ Started
  /\ \/ /\ ~Closed
        /\ pc["writer"] \in {"first", "loop"}
        /\ pc' = [pc EXCEPT ![c] = "done", !["writer"] = "write"]
        /\ hand' = [hand EXCEPT !["writer"] = Message("ClusterConfig", c)]
     \/ Closed /\ Go(c, "done") /\ UNCHANGED hand
  /\ UNCHANGED <<phase, mutex, idxMutex, closing, ready, awaiting, answer, received, wire, timedOut>>

\* A ping, or nothing if nobody takes it before the connection is closed.
Ping ==
  /\ pc["pingSender"] = "on"
  /\ MayTake
  /\ ~Closed
  /\ Cardinality({i \in DOMAIN wire : wire[i].type = "Ping"}) < MaxPings
  /\ GoWith("writer", "write", Message("Ping", "pingSender"))
  /\ UNCHANGED <<phase, mutex, idxMutex, closing, ready, awaiting, answer, received,
                 wire, timedOut>>

\* A response with data is done with when it is written, or has failed to be.
SignalDone(where) ==
  LET m == hand["writer"]
  IN  /\ pc' = [pc EXCEPT !["writer"] = where,
                          ![m.of] = IF m.type = "Response" THEN "release" ELSE @]
      /\ hand' = [hand EXCEPT !["writer"] = NoMessage]

\* After its message has gone out, or has failed to, a Close ends the writer.
AfterClose == hand["writer"].type = "Close"

Write ==
  /\ pc["writer"] = "write"
  /\ phase = "open"
  /\ wire' = Append(wire, hand["writer"])
  /\ SignalDone(IF AfterClose THEN "done" ELSE "loop")
  /\ UNCHANGED <<phase, mutex, idxMutex, closing, ready, awaiting, answer,
                 received, timedOut>>

\* Mutant: a response that cannot be written is not signalled.
WriteFails_Silent ==
  /\ pc["writer"] = "write"
  /\ GoFree("writer", IF AfterClose THEN "done" ELSE "lock")
  /\ UNCHANGED <<phase, mutex, idxMutex, closing, ready, awaiting, answer, received,
                 wire, timedOut>>

WriteFails ==
  /\ pc["writer"] = "write"
  /\ SignalDone(IF AfterClose THEN "done" ELSE "lock")
  /\ UNCHANGED <<phase, mutex, idxMutex, closing, ready, awaiting, answer,
                 received, wire, timedOut>>

-----------------------------------------------------------------------------
(* Closing *)

\* Close(err): by the model from outside, from within a call of the dispatcher, and
\* by the dispatcher's routine when its loop has ended.
MayClose(c) == CASE c = "callback" -> pc["dispatcher"] = "call"
                 [] c = "dispatcherEnd" -> pc["dispatcher"] = "stopped"
                 [] OTHER -> TRUE

\* Mutant: a second call goes on while the first one is sending.
EnterOnce_NoWait(c) ==
  \/ closing = "free" /\ closing' = "busy" /\ Go(c, "offer")
  \/ closing # "free" /\ Go(c, "lock") /\ UNCHANGED closing

\* One call sends the message.  The others wait until that is over, then all of
\* them go on to internalClose, in a routine of its own: "lock" and later is when
\* Close has returned.
EnterOnce(c) ==
  \/ closing = "free" /\ closing' = "busy" /\ Go(c, "offer")
  \/ closing = "busy" /\ pc[c] = "idle" /\ Go(c, "once") /\ UNCHANGED closing
  \/ closing = "done" /\ Go(c, "lock") /\ UNCHANGED closing

Close(c) ==
  /\ pc[c] = "idle"
  /\ MayClose(c)
  /\ EnterOnce(c)
  /\ UNCHANGED <<hand, phase, mutex, idxMutex, ready, awaiting, answer, received, wire, timedOut>>

CloseContinues(c) ==
  /\ pc[c] = "once"
  /\ EnterOnce(c)
  /\ UNCHANGED <<hand, phase, mutex, idxMutex, ready, awaiting, answer, received, wire, timedOut>>

OfferClose(c) ==
  /\ pc[c] = "offer"
  /\ pc["writer"] \in {"first", "loop"}
  /\ ~Closed
  /\ pc' = [pc EXCEPT ![c] = "wait", !["writer"] = "write"]
  /\ hand' = [hand EXCEPT !["writer"] = Message("Close", c)]
  /\ UNCHANGED <<phase, mutex, idxMutex, closing, ready, awaiting, answer, received, wire, timedOut>>

CloseSent(c) ==
  /\ pc[c] = "wait"
  /\ pc["writer"] = "done"
  /\ closing' = "done"
  /\ Go(c, "lock")
  /\ UNCHANGED <<hand, phase, mutex, idxMutex, ready, awaiting, answer, received, wire, timedOut>>

\* Mutant: without a timeout.
CloseGivesUp_Closed(c) ==
  /\ pc[c] \in {"offer", "wait"}
  /\ Closed
  /\ closing' = "done"
  /\ Go(c, "lock")
  /\ UNCHANGED <<hand, phase, mutex, idxMutex, ready, awaiting, answer, received,
                 wire, timedOut>>

\* CloseTimeout, or the channel `closed`.
CloseGivesUp(c) ==
  /\ pc[c] \in {"offer", "wait"}
  /\ closing' = "done"
  /\ timedOut' = (timedOut \/ ~Closed)
  /\ Go(c, "lock")
  /\ UNCHANGED <<hand, phase, mutex, idxMutex, ready, awaiting, answer, received, wire>>

\* pingReceiver has seen nothing for too long.
ReceiveTimeout ==
  /\ pc["pingReceiver"] = "on"
  /\ ~Closed
  /\ Go("pingReceiver", "lock")
  /\ UNCHANGED <<hand, phase, mutex, idxMutex, closing, ready, awaiting, answer,
                 received, wire, timedOut>>

\* internalClose: whoever gets the mutex first goes through the steps of closeOnce,
\* the others find it done.
Shutters == {"reader", "writer", "pingReceiver"} \cup CloseCalls
AfterShut(p) == IF p = "pingReceiver" THEN "on" ELSE "done"

BeginShut(p) ==
  /\ pc[p] = "lock"
  /\ mutex = Nobody
  /\ IF phase = "open"
     THEN mutex' = p /\ phase' = "shut" /\ Go(p, "shutting")
     ELSE Go(p, AfterShut(p)) /\ UNCHANGED <<mutex, phase>>
  /\ UNCHANGED <<hand, idxMutex, closing, ready, awaiting, answer, received,
                 wire, timedOut>>

CloseChannel(p) ==
  /\ pc[p] = "shutting"
  /\ phase = "shut"
  /\ phase' = "closed"
  /\ UNCHANGED <<pc, hand, mutex, idxMutex, closing, ready, awaiting, answer, received, wire, timedOut>>

\* Mutant: the results are made anew, of the awaited requests only.
DrainAwaiting_Anew(p) ==
  /\ pc[p] = "shutting"
  /\ phase = "closed"
  /\ phase' = "drained"
  /\ answer' = [r \in awaiting |-> "closed"]
  /\ awaiting' = {}
  /\ UNCHANGED <<pc, hand, mutex, idxMutex, closing, ready, received, wire, timedOut>>

DrainAwaiting(p) ==
  /\ pc[p] = "shutting"
  /\ phase = "closed"
  /\ phase' = "drained"
  /\ answer' = [r \in Requesters |-> IF r \in awaiting THEN "closed" ELSE answer[r]]
  /\ awaiting' = {}
  /\ UNCHANGED <<pc, hand, mutex, idxMutex, closing, ready, received, wire,
                 timedOut>>

\* Mutant: without waiting for the dispatcher.
TellModel_AtOnce(p) ==
  /\ pc[p] = "shutting"
  /\ phase = "drained"
  /\ phase' = "told"
  /\ mutex' = Nobody
  /\ Go(p, AfterShut(p))
  /\ UNCHANGED <<hand, idxMutex, closing, ready, awaiting, answer, received, wire,
                 timedOut>>

\* A connection that was started is reported closed when its dispatcher has stopped.
TellModel(p) ==
  /\ pc[p] = "shutting"
  /\ phase = "drained"
  /\ Started => pc["dispatcher"] = "stopped"
  /\ phase' = "told"
  /\ mutex' = Nobody
  /\ Go(p, AfterShut(p))
  /\ UNCHANGED <<hand, idxMutex, closing, ready, awaiting, answer, received,
                 wire, timedOut>>

-----------------------------------------------------------------------------
Dispatching == Dispatch \/ HandleRefused \/ HandleCall \/ CallReturns \/ HandlePing
               \/ HandleRequest \/ HandleResponse \/ LeaveClosed("dispatcher")
Shutting(p) == BeginShut(p) \/ CloseChannel(p) \/ DrainAwaiting(p) \/ TellModel(p)
Sending == \/ \E r \in Requesters : Request(r) \/ RequestReturns(r)
           \/ \E x \in Indexers : Index(x)
           \/ \E p \in Requesters \cup Indexers : Cancel(p)
           \/ \E h \in Handlers : ModelAnswers(h) \/ ReleaseBuffer(h)
           \/ \E c \in Configs : SendConfig(c)
           \/ \E p \in Senders : Send(p) \/ SendClosed(p)
           \/ Ping \/ Write \/ WriteFails
Closing == \/ \E c \in CloseCalls :
                Close(c) \/ CloseContinues(c) \/ OfferClose(c) \/ CloseSent(c) \/ CloseGivesUp(c)
           \/ \E p \in Shutters : Shutting(p)
           \/ ReceiveTimeout
Next == Start \/ Read \/ ReadFails \/ Dispatching \/ Sending \/ Closing
        \/ \E p \in {"reader", "writer"} : LeaveClosed(p)

Spec == Init /\ [][Next]_vars

\* Every routine goes on when it can; time passes for a Close that waits.  Nothing is
\* assumed of the remote device, of the of writes that neither succeed nor
\* fail, or of calls nobody makes.
Answering(h) == ModelAnswers(h) \/ SendClosed(h) \/ ReleaseBuffer(h)
Fairness ==
  /\ WF_vars((phase # "open" /\ ReadFails) \/ LeaveClosed("reader"))
  /\ WF_vars(Dispatching)
  /\ WF_vars((phase # "open" /\ WriteFails) \/ LeaveClosed("writer"))
  /\ \A r \in Requesters : WF_vars(RequestReturns(r) \/ SendClosed(r))
  /\ \A x \in Indexers : WF_vars(SendClosed(x))
  /\ \A h \in Handlers : WF_vars(Answering(h))
  /\ \A c \in CloseCalls : WF_vars(CloseContinues(c) \/ CloseSent(c) \/ CloseGivesUp(c))
  /\ WF_vars(Close("dispatcherEnd"))
  /\ \A p \in Shutters : WF_vars(Shutting(p))
FairSpec == Spec /\ Fairness

-----------------------------------------------------------------------------
(* Properties *)

TypeOK ==
  /\ pc \in [Procs -> {"off", "idle", "read", "offer", "select", "handle", "call", "stopped",
                        "first", "loop", "write", "on", "send", "wait", "release", "once",
                        "lock", "shutting", "answered", "failed", "done"}]
  /\ hand \in [Procs -> [type : {"none", "ClusterConfig", "Index", "Request", "Ping", "Close",
                                 "Response", "ErrorResponse"},
                         of : Procs \cup {Nobody}]]
  /\ phase \in {"open", "shut", "closed", "drained", "told"}
  /\ mutex \in Shutters \cup {Nobody}
  /\ idxMutex \in Indexers \cup {Nobody}
  /\ closing \in {"free", "busy", "done"}
  /\ ready \in BOOLEAN
  /\ awaiting \subseteq Requesters
  /\ answer \in [Requesters -> {"none", "open", "full", "closed"}]
  /\ received \in 0..MaxReceived
  /\ \A i \in DOMAIN wire : wire[i].of \in Procs
  /\ timedOut \in BOOLEAN

\* The first message a device sends is its ClusterConfig, or a Close, and none follows
\* a Close: the other side takes anything else for an error (dispatcherLoop).
WireOrder ==
  \A i \in DOMAIN wire :
    /\ i = 1 => wire[i].type \in {"ClusterConfig", "Close"}
    /\ i < Len(wire) => wire[i].type # "Close"

\* A Request that waits for an answer can still get one: it is registered, and
\* internalClose has yet to go over those that are.  One that comes to register
\* after that does not get as far as waiting.
NoForgottenRequest ==
  \A r \in Requesters :
    pc[r] = "wait" /\ answer[r] = "open" => r \in awaiting /\ phase \notin {"drained", "told"}

\* The channel of a registered request is open and empty: handleResponse neither
\* blocks on it, with awaitingMut held, nor sends on or closes a closed channel.
AwaitingOpen == \A r \in awaiting : answer[r] = "open"

\* Once the model has been told that the connection is closed it gets no more calls
\* from the dispatcher, also if the connection is started after that.
NoCallAfterClosed == phase = "told" => pc["dispatcher"] \notin {"handle", "call"}

\* A call of Close does not shut the connection before the Close message is out,
\* unless that takes too long.
CloseIsSent ==
  \A c \in CloseCalls :
    pc[c] = "shutting" /\ ~timedOut => pc["writer"] = "done"

\* The buffer of a response is given back only when the writer is done with it.
BufferInUse ==
  pc["writer"] = "write" /\ hand["writer"].type = "Response" => pc[hand["writer"].of] = "wait"

\* What is on the wire is in order, is not changed while it is written, and has the Close
\* message on it before the connection is shut.
WireRight == WireOrder /\ BufferInUse /\ CloseIsSent

\* Nobody waits for an answer that cannot come any more, and an answer finds the one who
\* waits for it.
RequestsRight == NoForgottenRequest /\ AwaitingOpen

\* To those who use it, the connection is one of ConnectionSpec.
Link == IF phase = "told" THEN "told" ELSE IF phase = "drained" THEN "down" ELSE "up"
Caller == [r \in Requesters |-> IF pc[r] = "idle" THEN "out"
                               ELSE IF pc[r] \in {"send", "wait"} THEN "in" ELSE pc[r]]
InModel == pc["dispatcher"] \in {"handle", "call"}
Abstract == INSTANCE ConnectionSpec WITH link <- Link, result <- answer, caller <- Caller, busy <- InModel
KeepsPromise == Abstract!Spec

\* Closing comes to its end, with the model told, although the loops that close wait
\* for the dispatcher, which may be in a call that closes the connection.
EndIsTold == (phase # "open" \/ pc["dispatcher"] = "stopped") ~> (phase = "told")

\* Close returns, also from within a call of the dispatcher and with a writer that is
\* stuck.
CloseReturns ==
  LET inside == {"once", "offer", "wait"}
  IN  \A c \in CloseCalls : (pc[c] \in inside) ~> (pc[c] \notin inside)

\* After the close nobody is left waiting, and all buffers are given back.
AllReleased ==
  \A p \in Requesters \cup Indexers \cup Handlers :
    (Closed /\ pc[p] \notin {"idle", "answered", "failed", "done"})
      ~> (pc[p] \in {"answered", "failed", "done"})

\* A close comes to its end, whoever calls it and from where, and releases everyone.
ClosingEnds == EndIsTold /\ AllReleased
=============================================================================
