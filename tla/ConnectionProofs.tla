---------------------------- MODULE ConnectionProofs ----------------------------
(***************************************************************************)
(* Proofs about Connection, for any number of calls, messages and pings: no  *)
(* request is forgotten, and the connection is, as far as steps go, one of    *)
(* ConnectionSpec.  Then about PrimaryConnection, for any number of           *)
(* connections between two devices: if ClusterConfigs are handled in the      *)
(* order in which they were sent, both sides agree on the one that carries    *)
(* the indexes.                                                             *)
(***************************************************************************)
EXTENDS Connection, Promotion, SequenceTheorems, TLAPS

Places == {"off", "idle", "read", "offer", "select", "handle", "call", "stopped", "first", "loop",
           "write", "on", "send", "wait", "release", "once", "lock", "shutting", "answered", "failed", "done"}
Messages == [type : {"none", "ClusterConfig", "Index", "Request", "Ping", "Close", "Response", "ErrorResponse"},
             of : Procs \cup {Nobody}]

\* What each process and each request can be.
Shape ==
  /\ pc \in [Procs -> Places]
  /\ hand \in [Procs -> Messages]
  /\ phase \in {"open", "shut", "closed", "drained", "told"}
  /\ awaiting \in SUBSET Requesters
  /\ answer \in [Requesters -> {"none", "open", "full", "closed"}]

\* A response is that of a handler, also when the writer has it.
Responses ==
  /\ \A p \in Senders : pc[p] = "send" /\ hand[p].type = "Response" => p \in Handlers /\ hand[p].of = p
  /\ hand["writer"].type = "Response" => hand["writer"].of \in Handlers

\* Until the awaited requests have been gone over, those are the ones with an open result;
\* after that nobody waits for one.
Registered ==
  /\ AwaitingOpen
  /\ phase \notin {"drained", "told"} => \A r \in Requesters : answer[r] = "open" => r \in awaiting
  /\ phase \in {"drained", "told"} => \A r \in Requesters : pc[r] = "wait" => answer[r] # "open"

\* The loops start together, and the dispatcher is out of the model for good when it is told.
Told ==
  /\ pc["reader"] = "off" => pc["dispatcher"] = "off"
  /\ NoCallAfterClosed

IInv == Shape /\ Responses /\ Registered /\ Told

USE DEF Go, GoWith, GoFree, Message, NoMessage, Closed, Started

\* The processes of each kind.
LEMMA Kinds ==
  /\ Loops \subseteq Procs /\ Senders \subseteq Procs /\ Configs \subseteq Procs /\ CloseCalls \subseteq Procs
  /\ Requesters \subseteq Senders /\ Handlers \subseteq Senders /\ Indexers \subseteq Senders
  /\ Shutters \subseteq Procs
  BY DEF Procs, Loops, Senders, CloseCalls, Shutters

\* The invariant holds before the connection is started.
LEMMA InitInv == Init => IInv
<1> SUFFICES ASSUME Init PROVE IInv
  OBVIOUS
<1> USE Kinds DEF Init
<1>1. Shape
  BY DEF Shape, Places, Messages
<1>2. Responses
  BY DistinctProcesses DEF Responses, Loops
<1>3. Registered
  BY DEF Registered, AwaitingOpen
<1>4. Told
  BY DEF Told, NoCallAfterClosed, Loops
<1> QED
  BY <1>1, <1>2, <1>3, <1>4 DEF IInv

\* The writer has done with a message, written or not: the handler it was of, if any, may
\* release its buffer.
LEMMA DoneKeeps ==
  ASSUME NEW where \in Places, IInv, where \notin {"send", "wait", "off"}, pc["writer"] = "write",
         SignalDone(where), UNCHANGED <<phase, awaiting, answer, received>>
  PROVE  IInv'
<1> DEFINE m == hand["writer"]
<1>1. /\ "writer" \in Procs /\ "writer" \notin Senders
      /\ "reader" \in Procs /\ "dispatcher" \in Procs /\ "reader" \notin Handlers /\ "dispatcher" \notin Handlers
  BY Kinds, DistinctProcesses DEF Procs, Loops
<1>2. /\ pc \in [Procs -> Places] /\ hand \in [Procs -> Messages]
      /\ m.type = "Response" => m.of \in Handlers
  BY DEF IInv, Shape, Responses
<1>3. /\ pc' \in [Procs -> Places]
      /\ \A p \in Procs : p # "writer" => pc'[p] = pc[p] \/ (pc'[p] = "release" /\ p \in Handlers)
  <2>1. CASE m.type = "Response"
    <3>1. m.of \in Handlers /\ m.of \in Procs /\ m.of # "writer"
      BY <1>1, <1>2, <2>1, Kinds
    <3>2. pc' = [pc EXCEPT !["writer"] = where, ![m.of] = "release"]
      BY <2>1 DEF SignalDone
    <3>3. "release" \in Places
      BY DEF Places
    <3> HIDE DEF m
    <3> QED
      BY <1>1, <1>2, <3>1, <3>2, <3>3
  <2>2. CASE m.type # "Response"
    <3>1. pc' = [pc EXCEPT !["writer"] = where, ![m.of] = @]
      BY <2>2 DEF SignalDone
    <3> HIDE DEF m
    <3> QED
      BY <1>1, <1>2, <3>1
  <2> QED
    BY <2>1, <2>2
<1>4. /\ hand' \in [Procs -> Messages] /\ hand'["writer"] = NoMessage
      /\ \A p \in Procs : p # "writer" => hand'[p] = hand[p]
  <2>1. NoMessage \in Messages
    BY DEF Messages
  <2> QED
    BY <1>1, <1>2, <2>1 DEF SignalDone
<1>5. Shape'
  BY <1>3, <1>4 DEF IInv, Shape
<1>6. Responses'
  BY <1>1, <1>3, <1>4, Kinds DEF IInv, Responses
<1>7. Registered'
  BY <1>3, <1>1, Kinds DEF IInv, Registered, AwaitingOpen
<1>8. Told'
  BY <1>1, <1>3 DEF IInv, Told, NoCallAfterClosed
<1> QED
  BY <1>5, <1>6, <1>7, <1>8 DEF IInv

\* Every step keeps it.
LEMMA StepInv == IInv /\ [Next]_vars => IInv'
<1> SUFFICES ASSUME IInv, [Next]_vars PROVE IInv'
  OBVIOUS
<1> USE Kinds, DistinctProcesses DEF IInv, Shape, Responses, Registered, AwaitingOpen, Told, NoCallAfterClosed, Places, Messages, Loops, CloseCalls
<1>1. CASE Start
  BY <1>1 DEF Start
<1>2. CASE Read
  BY <1>2 DEF Read, Incoming
<1>3. CASE ReadFails
  BY <1>3 DEF ReadFails
<1>4. CASE Dispatch
  <2>1. Shape'
    BY <1>4 DEF Dispatch
  <2>2. Responses'
    BY <1>4 DEF Dispatch
  <2>3. Registered' /\ Told'
    BY <1>4 DEF Dispatch
  <2> QED
    BY <2>1, <2>2, <2>3
<1>5. CASE HandleRefused
  BY <1>5 DEF HandleRefused, Refused
<1>6. CASE HandleCall
  BY <1>6 DEF HandleCall, Refused
<1>7. CASE CallReturns
  BY <1>7 DEF CallReturns
<1>8. CASE HandlePing
  BY <1>8 DEF HandlePing
<1>9. CASE HandleRequest
  BY <1>9 DEF HandleRequest
<1>10. CASE HandleResponse
  BY <1>10 DEF HandleResponse
<1>11. CASE LeaveClosed("dispatcher")
  BY <1>11 DEF LeaveClosed
<1>12. CASE \E r \in Requesters : Request(r)
  BY <1>12 DEF Request
<1>13. CASE \E r \in Requesters : RequestReturns(r)
  BY <1>13 DEF RequestReturns
<1>14. CASE \E x \in Indexers : Index(x)
  BY <1>14 DEF Index
<1>15. CASE \E p \in Requesters \cup Indexers : Cancel(p)
  BY <1>15 DEF Cancel, NotTaken
<1>16. CASE \E h \in Handlers : ModelAnswers(h)
  BY <1>16 DEF ModelAnswers
<1>17. CASE \E h \in Handlers : ReleaseBuffer(h)
  BY <1>17 DEF ReleaseBuffer
<1>18. CASE \E c \in Configs : SendConfig(c)
  BY <1>18 DEF SendConfig
<1>19. CASE \E p \in Senders : Send(p)
  BY <1>19 DEF Send, Taken, MayTake
<1>20. CASE \E p \in Senders : SendClosed(p)
  BY <1>20 DEF SendClosed, NotTaken
<1>21. CASE Ping
  BY <1>21 DEF Ping, MayTake
<1>22. CASE Write
  <2>1. (IF AfterClose THEN "done" ELSE "loop") \in Places \ {"send", "wait", "off"}
    BY DEF Places
  <2> QED
    BY <1>22, <2>1, DoneKeeps DEF Write
<1>23. CASE WriteFails
  <2>1. (IF AfterClose THEN "done" ELSE "lock") \in Places \ {"send", "wait", "off"}
    BY DEF Places
  <2> QED
    BY <1>23, <2>1, DoneKeeps DEF WriteFails
<1>24. CASE \E c \in CloseCalls : Close(c)
  BY <1>24 DEF Close, EnterOnce
<1>25. CASE \E c \in CloseCalls : CloseContinues(c)
  BY <1>25 DEF CloseContinues, EnterOnce
<1>26. CASE \E c \in CloseCalls : OfferClose(c)
  BY <1>26 DEF OfferClose
<1>27. CASE \E c \in CloseCalls : CloseSent(c)
  BY <1>27 DEF CloseSent
<1>28. CASE \E c \in CloseCalls : CloseGivesUp(c)
  BY <1>28 DEF CloseGivesUp
<1>29. CASE \E p \in Shutters : BeginShut(p)
  BY <1>29 DEF BeginShut, AfterShut
<1>30. CASE \E p \in Shutters : CloseChannel(p)
  BY <1>30 DEF CloseChannel
<1>31. CASE \E p \in Shutters : DrainAwaiting(p)
  BY <1>31 DEF DrainAwaiting
<1>32. CASE \E p \in Shutters : TellModel(p)
  BY <1>32 DEF TellModel, AfterShut
<1>33. CASE ReceiveTimeout
  BY <1>33 DEF ReceiveTimeout
<1>34. CASE \E p \in {"reader", "writer"} : LeaveClosed(p)
  BY <1>34 DEF LeaveClosed
<1>35. CASE UNCHANGED vars
  BY <1>35 DEF vars
<1> QED
  BY <1>1, <1>2, <1>3, <1>4, <1>5, <1>6, <1>7, <1>8, <1>9, <1>10, <1>11, <1>12, <1>13, <1>14, <1>15, <1>16, <1>17, <1>18, <1>19, <1>20, <1>21, <1>22, <1>23, <1>24, <1>25, <1>26, <1>27, <1>28, <1>29, <1>30, <1>31, <1>32, <1>33, <1>34, <1>35
     DEF Next, Dispatching, Sending, Closing, Shutting

\* A Request that waits for an answer can still get one, whatever is sent, answered,
\* cancelled or closed at the same time, and handleResponse finds its channel open.
THEOREM RequestsAreRight == Spec => []RequestsRight
<1>1. IInv => RequestsRight
  BY Kinds DEF IInv, Shape, Registered, AwaitingOpen, RequestsRight, NoForgottenRequest
<1> QED
  BY <1>1, InitInv, StepInv, PTL DEF Spec

\* Once the model has been told that the connection is closed, the dispatcher does not call it.
THEOREM NothingAfterClosed == Spec => []NoCallAfterClosed
<1>1. IInv => NoCallAfterClosed
  BY DEF IInv, Told
<1> QED
  BY <1>1, InitInv, StepInv, PTL DEF Spec

-----------------------------------------------------------------------------
(* What is written *)

\* The writer begins with a ClusterConfig or a Close, and is at its end after a Close.
Wired ==
  /\ wire \in Seq(Messages)
  /\ pc["reader"] = "off" => pc["writer"] = "off"
  /\ pc["writer"] \in {"off", "first"} => wire = <<>>
  /\ pc["writer"] = "loop" => wire # <<>>
  /\ pc["writer"] = "write" /\ wire = <<>> => hand["writer"].type \in {"ClusterConfig", "Close"}
  /\ pc["writer"] \in {"first", "loop", "write"} => \A i \in DOMAIN wire : wire[i].type # "Close"
  /\ WireOrder

\* A call of Close goes on when its message is out, when it took too long, or when the
\* connection is shut already.
Sent ==
  /\ timedOut \in BOOLEAN /\ closing \in {"free", "busy", "done"}
  /\ closing = "done" => timedOut \/ pc["writer"] = "done" \/ phase # "open"
  /\ \A c \in CloseCalls : pc[c] = "lock" => timedOut \/ pc["writer"] = "done" \/ phase # "open"
  /\ \A c \in CloseCalls : pc[c] = "shutting" => timedOut \/ pc["writer"] = "done"

WInv == IInv /\ Wired /\ BufferInUse /\ Sent

\* What a step other than Write does to the writer: it starts, takes a message, from which
\* only a ClusterConfig or a Close can be the first, or stops.
WriterMoves ==
  /\ wire' = wire
  /\ pc'["reader"] = "off" => pc["reader"] = "off" /\ pc'["writer"] = pc["writer"]
  /\ \/ pc'["writer"] = pc["writer"] /\ hand'["writer"] = hand["writer"]
     \/ pc["writer"] = "off" /\ pc'["writer"] = "first"
     \/ /\ pc["writer"] \in {"first", "loop"} /\ pc'["writer"] = "write"
        /\ pc["writer"] = "first" => hand'["writer"].type \in {"ClusterConfig", "Close"}
     \/ pc'["writer"] \in {"lock", "shutting", "done"}

\* What is on the wire and in the writer's buffer changes only where the writer runs.
LEMMA WriterStep == WInv /\ [Next]_vars => WriterMoves \/ Write
<1> SUFFICES ASSUME WInv, [Next]_vars PROVE WriterMoves \/ Write
  OBVIOUS
<1>0. Shape /\ (pc["reader"] = "off" => pc["writer"] = "off")
  BY DEF WInv, IInv, Wired
<1> USE Kinds, DistinctProcesses, <1>0 DEF Shape, Places, Messages, Loops, CloseCalls, WriterMoves
<1>1. CASE Start
  BY <1>1 DEF Start
<1>2. CASE Read
  BY <1>2 DEF Read, Incoming
<1>3. CASE ReadFails
  BY <1>3 DEF ReadFails
<1>4. CASE Dispatch
  BY <1>4 DEF Dispatch
<1>5. CASE HandleRefused
  BY <1>5 DEF HandleRefused, Refused
<1>6. CASE HandleCall
  BY <1>6 DEF HandleCall, Refused
<1>7. CASE CallReturns
  BY <1>7 DEF CallReturns
<1>8. CASE HandlePing
  BY <1>8 DEF HandlePing
<1>9. CASE HandleRequest
  BY <1>9 DEF HandleRequest
<1>10. CASE HandleResponse
  BY <1>10 DEF HandleResponse
<1>11. CASE LeaveClosed("dispatcher")
  BY <1>11 DEF LeaveClosed
<1>12. CASE \E r \in Requesters : Request(r)
  BY <1>12 DEF Request
<1>13. CASE \E r \in Requesters : RequestReturns(r)
  BY <1>13 DEF RequestReturns
<1>14. CASE \E x \in Indexers : Index(x)
  BY <1>14 DEF Index
<1>15. CASE \E p \in Requesters \cup Indexers : Cancel(p)
  BY <1>15 DEF Cancel, NotTaken
<1>16. CASE \E h \in Handlers : ModelAnswers(h)
  BY <1>16 DEF ModelAnswers
<1>17. CASE \E h \in Handlers : ReleaseBuffer(h)
  BY <1>17 DEF ReleaseBuffer
<1>18. CASE \E c \in Configs : SendConfig(c)
  BY <1>18 DEF SendConfig
<1>19. CASE \E p \in Senders : Send(p)
  BY <1>19 DEF Send, Taken, MayTake
<1>20. CASE \E p \in Senders : SendClosed(p)
  BY <1>20 DEF SendClosed, NotTaken
<1>21. CASE Ping
  BY <1>21 DEF Ping, MayTake
<1>22. CASE Write
  BY <1>22
<1>23. CASE WriteFails
  BY <1>23 DEF WriteFails, SignalDone, AfterClose
<1>24. CASE \E c \in CloseCalls : Close(c)
  BY <1>24 DEF Close, EnterOnce
<1>25. CASE \E c \in CloseCalls : CloseContinues(c)
  BY <1>25 DEF CloseContinues, EnterOnce
<1>26. CASE \E c \in CloseCalls : OfferClose(c)
  BY <1>26 DEF OfferClose
<1>27. CASE \E c \in CloseCalls : CloseSent(c)
  BY <1>27 DEF CloseSent
<1>28. CASE \E c \in CloseCalls : CloseGivesUp(c)
  BY <1>28 DEF CloseGivesUp
<1>29. CASE \E p \in Shutters : BeginShut(p)
  BY <1>29 DEF BeginShut, AfterShut
<1>30. CASE \E p \in Shutters : CloseChannel(p)
  BY <1>30 DEF CloseChannel
<1>31. CASE \E p \in Shutters : DrainAwaiting(p)
  BY <1>31 DEF DrainAwaiting
<1>32. CASE \E p \in Shutters : TellModel(p)
  BY <1>32 DEF TellModel, AfterShut
<1>33. CASE ReceiveTimeout
  BY <1>33 DEF ReceiveTimeout
<1>34. CASE \E p \in {"reader", "writer"} : LeaveClosed(p)
  BY <1>34 DEF LeaveClosed
<1>35. CASE UNCHANGED vars
  BY <1>35 DEF vars
<1> QED
  BY <1>1, <1>2, <1>3, <1>4, <1>5, <1>6, <1>7, <1>8, <1>9, <1>10, <1>11, <1>12, <1>13, <1>14, <1>15, <1>16, <1>17, <1>18, <1>19, <1>20, <1>21, <1>22, <1>23, <1>24, <1>25, <1>26, <1>27, <1>28, <1>29, <1>30, <1>31, <1>32, <1>33, <1>34, <1>35
     DEF Next, Dispatching, Sending, Closing, Shutting


\* Messages go out in order.
LEMMA WiredStep == WInv /\ [Next]_vars => Wired'
<1> SUFFICES ASSUME WInv, [Next]_vars PROVE Wired'
  OBVIOUS
<1>1. CASE WriterMoves
  <2>1. Wired
    BY DEF WInv
  <2>2. wire' = wire /\ (pc'["reader"] = "off" => pc'["writer"] = "off")
    BY <1>1, <2>1 DEF WriterMoves, Wired
  <2>3. WireOrder'
    BY <2>1, <2>2 DEF Wired, WireOrder
  <2> QED
    BY <1>1, <2>1, <2>2, <2>3 DEF WriterMoves, Wired
<1>2. CASE Write
  <2> DEFINE m == hand["writer"]
  <2>1. /\ wire \in Seq(Messages) /\ m \in Messages /\ wire' = Append(wire, m)
        /\ pc["writer"] = "write" /\ pc["reader"] # "off"
        /\ \A i \in DOMAIN wire : wire[i].type # "Close"
        /\ wire = <<>> => m.type \in {"ClusterConfig", "Close"}
        /\ \A i \in DOMAIN wire : i = 1 => wire[i].type \in {"ClusterConfig", "Close"}
    BY <1>2, Kinds DEF Write, WInv, IInv, Shape, Wired, WireOrder, Loops
  <2>2. /\ Len(wire) \in Nat /\ Len(wire') = Len(wire) + 1 /\ DOMAIN wire = 1..Len(wire) /\ DOMAIN wire' = 1..Len(wire')
        /\ wire'[Len(wire) + 1] = m /\ \A i \in DOMAIN wire : wire'[i] = wire[i]
        /\ wire' \in Seq(Messages) /\ (Len(wire) = 0 => wire = <<>>)
    BY <2>1
  <2>3. WireOrder'
    <3> SUFFICES ASSUME NEW i \in DOMAIN wire'
                 PROVE  /\ i = 1 => wire'[i].type \in {"ClusterConfig", "Close"}
                        /\ i < Len(wire') => wire'[i].type # "Close"
      BY DEF WireOrder
    <3>1. CASE i = Len(wire) + 1
      BY <2>1, <2>2, <3>1
    <3>2. CASE i \in DOMAIN wire
      BY <2>1, <2>2, <3>2
    <3> QED
      BY <2>2, <3>1, <3>2
  <2>4. /\ pc'["writer"] = IF m.type = "Close" THEN "done" ELSE "loop"
        /\ pc'["reader"] # "off"
    BY <1>2, <2>1, Kinds, DistinctProcesses
    DEF Write, SignalDone, AfterClose, WInv, IInv, Shape, Responses, Loops
  <2>5. m.type # "Close" => \A i \in DOMAIN wire' : wire'[i].type # "Close"
    <3> SUFFICES ASSUME m.type # "Close", NEW i \in DOMAIN wire' PROVE wire'[i].type # "Close"
      OBVIOUS
    <3>1. i = Len(wire) + 1 \/ i \in DOMAIN wire
      BY <2>2
    <3> QED
      BY <2>1, <2>2, <3>1
  <2> QED
    BY <2>2, <2>3, <2>4, <2>5 DEF Wired
<1> QED
  BY <1>1, <1>2, WriterStep

\* The writer keeps the one whose buffer it writes waiting.
LEMMA BufferStep == WInv /\ [Next]_vars => BufferInUse'
<1> SUFFICES ASSUME WInv, [Next]_vars PROVE BufferInUse'
  OBVIOUS
<1> USE Kinds, DistinctProcesses DEF WInv, IInv, Shape, Responses, Told, Places, Messages, Loops, CloseCalls, BufferInUse
<1>1. CASE Start
  BY <1>1 DEF Start
<1>2. CASE Read
  BY <1>2 DEF Read, Incoming
<1>3. CASE ReadFails
  BY <1>3 DEF ReadFails
<1>4. CASE Dispatch
  BY <1>4 DEF Dispatch
<1>5. CASE HandleRefused
  BY <1>5 DEF HandleRefused, Refused
<1>6. CASE HandleCall
  BY <1>6 DEF HandleCall, Refused
<1>7. CASE CallReturns
  BY <1>7 DEF CallReturns
<1>8. CASE HandlePing
  BY <1>8 DEF HandlePing
<1>9. CASE HandleRequest
  BY <1>9 DEF HandleRequest
<1>10. CASE HandleResponse
  BY <1>10 DEF HandleResponse
<1>11. CASE LeaveClosed("dispatcher")
  BY <1>11 DEF LeaveClosed
<1>12. CASE \E r \in Requesters : Request(r)
  BY <1>12 DEF Request
<1>13. CASE \E r \in Requesters : RequestReturns(r)
  BY <1>13 DEF RequestReturns
<1>14. CASE \E x \in Indexers : Index(x)
  BY <1>14 DEF Index
<1>15. CASE \E p \in Requesters \cup Indexers : Cancel(p)
  BY <1>15 DEF Cancel, NotTaken
<1>16. CASE \E h \in Handlers : ModelAnswers(h)
  BY <1>16 DEF ModelAnswers
<1>17. CASE \E h \in Handlers : ReleaseBuffer(h)
  BY <1>17 DEF ReleaseBuffer
<1>18. CASE \E c \in Configs : SendConfig(c)
  BY <1>18 DEF SendConfig
<1>19. CASE \E p \in Senders : Send(p)
  BY <1>19 DEF Send, Taken, MayTake
<1>20. CASE \E p \in Senders : SendClosed(p)
  BY <1>20 DEF SendClosed, NotTaken
<1>21. CASE Ping
  BY <1>21 DEF Ping, MayTake
<1>22. CASE Write
  BY <1>22 DEF Write, SignalDone, AfterClose
<1>23. CASE WriteFails
  BY <1>23 DEF WriteFails, SignalDone, AfterClose
<1>24. CASE \E c \in CloseCalls : Close(c)
  BY <1>24 DEF Close, EnterOnce
<1>25. CASE \E c \in CloseCalls : CloseContinues(c)
  BY <1>25 DEF CloseContinues, EnterOnce
<1>26. CASE \E c \in CloseCalls : OfferClose(c)
  BY <1>26 DEF OfferClose
<1>27. CASE \E c \in CloseCalls : CloseSent(c)
  BY <1>27 DEF CloseSent
<1>28. CASE \E c \in CloseCalls : CloseGivesUp(c)
  <2>1. /\ UNCHANGED <<hand, phase, awaiting, answer, received, wire>>
        /\ \E c \in CloseCalls : pc' = [pc EXCEPT ![c] = "lock"]
    BY <1>28 DEF CloseGivesUp
  <2> QED
    BY <2>1
<1>29. CASE \E p \in Shutters : BeginShut(p)
  BY <1>29 DEF BeginShut, AfterShut
<1>30. CASE \E p \in Shutters : CloseChannel(p)
  BY <1>30 DEF CloseChannel
<1>31. CASE \E p \in Shutters : DrainAwaiting(p)
  BY <1>31 DEF DrainAwaiting
<1>32. CASE \E p \in Shutters : TellModel(p)
  BY <1>32 DEF TellModel, AfterShut
<1>33. CASE ReceiveTimeout
  BY <1>33 DEF ReceiveTimeout
<1>34. CASE \E p \in {"reader", "writer"} : LeaveClosed(p)
  BY <1>34 DEF LeaveClosed
<1>35. CASE UNCHANGED vars
  BY <1>35 DEF vars
<1> QED
  BY <1>1, <1>2, <1>3, <1>4, <1>5, <1>6, <1>7, <1>8, <1>9, <1>10, <1>11, <1>12, <1>13, <1>14, <1>15, <1>16, <1>17, <1>18, <1>19, <1>20, <1>21, <1>22, <1>23, <1>24, <1>25, <1>26, <1>27, <1>28, <1>29, <1>30, <1>31, <1>32, <1>33, <1>34, <1>35
     DEF Next, Dispatching, Sending, Closing, Shutting

\* Shutting waits for the Close message.
LEMMA SentStep == WInv /\ [Next]_vars => Sent'
<1> SUFFICES ASSUME WInv, [Next]_vars PROVE Sent'
  OBVIOUS
<1> USE Kinds, DistinctProcesses DEF WInv, IInv, Shape, Responses, Told, Places, Messages, Loops, CloseCalls, Sent, Wired
<1>1. CASE Start
  BY <1>1 DEF Start
<1>2. CASE Read
  BY <1>2 DEF Read, Incoming
<1>3. CASE ReadFails
  BY <1>3 DEF ReadFails
<1>4. CASE Dispatch
  BY <1>4 DEF Dispatch
<1>5. CASE HandleRefused
  BY <1>5 DEF HandleRefused, Refused
<1>6. CASE HandleCall
  BY <1>6 DEF HandleCall, Refused
<1>7. CASE CallReturns
  BY <1>7 DEF CallReturns
<1>8. CASE HandlePing
  BY <1>8 DEF HandlePing
<1>9. CASE HandleRequest
  BY <1>9 DEF HandleRequest
<1>10. CASE HandleResponse
  BY <1>10 DEF HandleResponse
<1>11. CASE LeaveClosed("dispatcher")
  BY <1>11 DEF LeaveClosed
<1>12. CASE \E r \in Requesters : Request(r)
  BY <1>12 DEF Request
<1>13. CASE \E r \in Requesters : RequestReturns(r)
  BY <1>13 DEF RequestReturns
<1>14. CASE \E x \in Indexers : Index(x)
  BY <1>14 DEF Index
<1>15. CASE \E p \in Requesters \cup Indexers : Cancel(p)
  BY <1>15 DEF Cancel, NotTaken
<1>16. CASE \E h \in Handlers : ModelAnswers(h)
  BY <1>16 DEF ModelAnswers
<1>17. CASE \E h \in Handlers : ReleaseBuffer(h)
  BY <1>17 DEF ReleaseBuffer
<1>18. CASE \E c \in Configs : SendConfig(c)
  BY <1>18 DEF SendConfig
<1>19. CASE \E p \in Senders : Send(p)
  BY <1>19 DEF Send, Taken, MayTake
<1>20. CASE \E p \in Senders : SendClosed(p)
  BY <1>20 DEF SendClosed, NotTaken
<1>21. CASE Ping
  BY <1>21 DEF Ping, MayTake
<1>22. CASE Write
  BY <1>22 DEF Write, SignalDone, AfterClose
<1>23. CASE WriteFails
  BY <1>23 DEF WriteFails, SignalDone, AfterClose
<1>24. CASE \E c \in CloseCalls : Close(c)
  BY <1>24 DEF Close, EnterOnce
<1>25. CASE \E c \in CloseCalls : CloseContinues(c)
  BY <1>25 DEF CloseContinues, EnterOnce
<1>26. CASE \E c \in CloseCalls : OfferClose(c)
  BY <1>26 DEF OfferClose
<1>27. CASE \E c \in CloseCalls : CloseSent(c)
  BY <1>27 DEF CloseSent
<1>28. CASE \E c \in CloseCalls : CloseGivesUp(c)
  <2>1. PICK c \in CloseCalls : CloseGivesUp(c)
    BY <1>28
  <2>2. /\ closing' = "done" /\ phase' = phase /\ timedOut' \in BOOLEAN
        /\ timedOut' \/ phase # "open"
        /\ timedOut => timedOut'
    BY <2>1 DEF CloseGivesUp
  <2>3. /\ c # "writer" /\ pc'["writer"] = pc["writer"]
        /\ \A d \in CloseCalls : d # c => pc'[d] = pc[d]
        /\ pc'[c] = "lock"
    BY <2>1 DEF CloseGivesUp
  <2> QED
    BY <2>2, <2>3
<1>29. CASE \E p \in Shutters : BeginShut(p)
  BY <1>29 DEF BeginShut, AfterShut
<1>30. CASE \E p \in Shutters : CloseChannel(p)
  BY <1>30 DEF CloseChannel
<1>31. CASE \E p \in Shutters : DrainAwaiting(p)
  BY <1>31 DEF DrainAwaiting
<1>32. CASE \E p \in Shutters : TellModel(p)
  BY <1>32 DEF TellModel, AfterShut
<1>33. CASE ReceiveTimeout
  BY <1>33 DEF ReceiveTimeout
<1>34. CASE \E p \in {"reader", "writer"} : LeaveClosed(p)
  BY <1>34 DEF LeaveClosed
<1>35. CASE UNCHANGED vars
  BY <1>35 DEF vars
<1> QED
  BY <1>1, <1>2, <1>3, <1>4, <1>5, <1>6, <1>7, <1>8, <1>9, <1>10, <1>11, <1>12, <1>13, <1>14, <1>15, <1>16, <1>17, <1>18, <1>19, <1>20, <1>21, <1>22, <1>23, <1>24, <1>25, <1>26, <1>27, <1>28, <1>29, <1>30, <1>31, <1>32, <1>33, <1>34, <1>35
     DEF Next, Dispatching, Sending, Closing, Shutting

\* Nothing is on the wire at the start.
LEMMA InitWire == Init => WInv
<1> SUFFICES ASSUME Init PROVE WInv
  OBVIOUS
<1>1. IInv
  BY InitInv
<1>2. Wired
  BY Kinds DEF Init, Wired, WireOrder, Loops, Procs
<1>3. BufferInUse /\ Sent
  BY Kinds, DistinctProcesses DEF Init, BufferInUse, Sent, Loops, CloseCalls
<1> QED
  BY <1>1, <1>2, <1>3 DEF WInv

\* The first message on the wire is a ClusterConfig or a Close and nothing follows a Close;
\* no buffer is given back while it is written; and no call of Close shuts the connection
\* before its message is out, unless that takes too long.
THEOREM WireIsRight == Spec => []WireRight
<1>1. WInv => WireRight
  BY DEF WInv, Wired, Sent, WireRight, CloseIsSent
<1>2. WInv /\ [Next]_vars => WInv'
  BY StepInv, WiredStep, BufferStep, SentStep DEF WInv
<1> QED
  BY <1>1, <1>2, InitWire, PTL DEF Spec

-----------------------------------------------------------------------------
(* The refinement *)

\* Initial states map to initial states of ConnectionSpec.
LEMMA InitRefines == Init => Abstract!Init
<1> SUFFICES ASSUME Init PROVE Abstract!Init
  OBVIOUS
<1> QED
  BY Kinds, DistinctProcesses DEF Init, Abstract!Init, Link, Caller, InModel, Loops

\* Every step maps to one of ConnectionSpec, or to none.
LEMMA StepRefines == IInv /\ [Next]_vars => [Abstract!Next]_(Abstract!vars)
<1> SUFFICES ASSUME IInv, [Next]_vars PROVE [Abstract!Next]_(Abstract!vars)
  OBVIOUS
<1> USE Kinds, DistinctProcesses DEF IInv, Shape, Responses, Registered, AwaitingOpen, Told, NoCallAfterClosed, Places, Messages, Loops, CloseCalls, Abstract!vars, Link, Caller, InModel
<1>1. CASE Start
  BY <1>1 DEF Start
<1>2. CASE Read
  BY <1>2 DEF Read, Incoming
<1>3. CASE ReadFails
  BY <1>3 DEF ReadFails
<1>4. CASE Dispatch
  BY <1>4 DEF Dispatch, Abstract!Next, Abstract!BeginMessage
<1>5. CASE HandleRefused
  BY <1>5 DEF HandleRefused, Refused, Abstract!Next, Abstract!EndMessage
<1>6. CASE HandleCall
  BY <1>6 DEF HandleCall, Refused
<1>7. CASE CallReturns
  BY <1>7 DEF CallReturns, Abstract!Next, Abstract!EndMessage
<1>8. CASE HandlePing
  BY <1>8 DEF HandlePing, Abstract!Next, Abstract!EndMessage
<1>9. CASE HandleRequest
  BY <1>9 DEF HandleRequest, Abstract!Next, Abstract!EndMessage
<1>10. CASE HandleResponse
  <2> DEFINE r == hand["dispatcher"].of
  <2>1. UNCHANGED <<Link, Caller>> /\ InModel /\ InModel' = FALSE
    BY <1>10 DEF HandleResponse
  <2>2. CASE r \in awaiting
    <3>1. r \in Requesters /\ answer[r] = "open" /\ answer' = [answer EXCEPT ![r] = "full"]
      BY <1>10, <2>2 DEF HandleResponse
    <3>2. Abstract!EndMessage
      <4> HIDE DEF r, Link, Caller, InModel
      <4> QED
        BY <2>1, <3>1 DEF Abstract!EndMessage
    <3> QED
      BY <3>2 DEF Abstract!Next
  <2>3. CASE r \notin awaiting
    <3>1. answer' = answer
      BY <1>10, <2>3 DEF HandleResponse
    <3> QED
      BY <2>1, <3>1 DEF Abstract!Next, Abstract!EndMessage
  <2> QED
    BY <2>2, <2>3
<1>11. CASE LeaveClosed("dispatcher")
  BY <1>11 DEF LeaveClosed
<1>12. CASE \E r \in Requesters : Request(r)
  <2>1. PICK r \in Requesters : Request(r)
    BY <1>12
  <2>2. UNCHANGED <<Link, InModel>> /\ Caller[r] = "out" /\ answer' = [answer EXCEPT ![r] = "open"]
    BY <2>1 DEF Request
  <2>3. Caller' = [Caller EXCEPT ![r] = "in"]
    BY <2>1 DEF Request
  <2> QED
    BY <2>2, <2>3 DEF Abstract!Next, Abstract!Ask
<1>13. CASE \E r \in Requesters : RequestReturns(r)
  <2>1. PICK r \in Requesters : RequestReturns(r)
    BY <1>13
  <2>2. UNCHANGED <<Link, InModel, answer>> /\ Caller[r] = "in"
    BY <2>1 DEF RequestReturns
  <2>3. \/ answer[r] = "full" /\ Caller' = [Caller EXCEPT ![r] = "answered"]
        \/ Caller' = [Caller EXCEPT ![r] = "failed"]
    <3>1. CASE answer[r] = "full" /\ Go(r, "answered")
      BY <3>1
    <3>2. CASE answer[r] = "closed" /\ Go(r, "failed")
      BY <3>2
    <3> QED
      BY <2>1, <3>1, <3>2 DEF RequestReturns
  <2> QED
    BY <2>2, <2>3 DEF Abstract!Next, Abstract!Return, Abstract!Answered, Abstract!Failed
<1>14. CASE \E x \in Indexers : Index(x)
  BY <1>14 DEF Index
<1>15. CASE \E p \in Requesters \cup Indexers : Cancel(p)
  <2>1. PICK p \in Requesters \cup Indexers : Cancel(p)
    BY <1>15
  <2>2. UNCHANGED <<Link, InModel, answer>>
    BY <2>1 DEF Cancel, NotTaken
  <2>3. CASE p \in Requesters
    <3>1. Caller[p] = "in" /\ pc' = [pc EXCEPT ![p] = "failed"]
      <4>1. NotTaken(p) = "failed"
        BY <2>3 DEF NotTaken
      <4>2. pc[p] \in {"send", "wait"} /\ pc' = [pc EXCEPT ![p] = NotTaken(p)]
        BY <2>1 DEF Cancel
      <4> QED
        BY <2>3, <4>1, <4>2
    <3>2. Caller' = [Caller EXCEPT ![p] = "failed"]
      BY <2>3, <3>1
    <3> QED
      BY <2>2, <2>3, <3>1, <3>2 DEF Abstract!Next, Abstract!Return, Abstract!Failed
  <2>4. CASE p \notin Requesters
    BY <2>1, <2>2, <2>4 DEF Cancel, NotTaken
  <2> QED
    BY <2>3, <2>4
<1>16. CASE \E h \in Handlers : ModelAnswers(h)
  BY <1>16 DEF ModelAnswers
<1>17. CASE \E h \in Handlers : ReleaseBuffer(h)
  BY <1>17 DEF ReleaseBuffer
<1>18. CASE \E c \in Configs : SendConfig(c)
  BY <1>18 DEF SendConfig
<1>19. CASE \E p \in Senders : Send(p)
  BY <1>19 DEF Send, Taken, MayTake
<1>20. CASE \E p \in Senders : SendClosed(p)
  <2>1. PICK p \in Senders : SendClosed(p)
    BY <1>20
  <2>2. UNCHANGED <<Link, InModel, answer>>
    BY <2>1 DEF SendClosed, NotTaken
  <2>3. CASE p \in Requesters
    <3>1. Caller[p] = "in" /\ Caller' = [Caller EXCEPT ![p] = "failed"]
      BY <2>1, <2>3 DEF SendClosed, NotTaken
    <3> QED
      BY <2>2, <2>3, <3>1 DEF Abstract!Next, Abstract!Return, Abstract!Failed
  <2>4. CASE p \notin Requesters
    BY <2>1, <2>2, <2>4 DEF SendClosed, NotTaken
  <2> QED
    BY <2>3, <2>4
<1>21. CASE Ping
  BY <1>21 DEF Ping, MayTake
<1>22. CASE Write
  BY <1>22 DEF Write, SignalDone
<1>23. CASE WriteFails
  BY <1>23 DEF WriteFails, SignalDone
<1>24. CASE \E c \in CloseCalls : Close(c)
  BY <1>24 DEF Close, EnterOnce
<1>25. CASE \E c \in CloseCalls : CloseContinues(c)
  BY <1>25 DEF CloseContinues, EnterOnce
<1>26. CASE \E c \in CloseCalls : OfferClose(c)
  BY <1>26 DEF OfferClose
<1>27. CASE \E c \in CloseCalls : CloseSent(c)
  BY <1>27 DEF CloseSent
<1>28. CASE \E c \in CloseCalls : CloseGivesUp(c)
  BY <1>28 DEF CloseGivesUp
<1>29. CASE \E p \in Shutters : BeginShut(p)
  <2>1. PICK p \in Shutters : BeginShut(p)
    BY <1>29
  <2>2. p \notin Requesters
    BY DEF Shutters
  <2> QED
    BY <2>1, <2>2 DEF BeginShut, AfterShut
<1>30. CASE \E p \in Shutters : CloseChannel(p)
  BY <1>30 DEF CloseChannel
<1>31. CASE \E p \in Shutters : DrainAwaiting(p)
  BY <1>31 DEF DrainAwaiting, Abstract!Next, Abstract!GoDown
<1>32. CASE \E p \in Shutters : TellModel(p)
  <2>1. PICK p \in Shutters : TellModel(p)
    BY <1>32
  <2>2. p \notin Requesters /\ p # "dispatcher"
    BY DEF Shutters
  <2>3. UNCHANGED <<Caller, InModel, answer>> /\ ~InModel
    BY <2>1, <2>2 DEF TellModel, AfterShut
  <2>4. Link = "down" /\ Link' = "told"
    BY <2>1 DEF TellModel
  <2> QED
    BY <2>3, <2>4 DEF Abstract!Next, Abstract!Tell
<1>33. CASE ReceiveTimeout
  BY <1>33 DEF ReceiveTimeout
<1>34. CASE \E p \in {"reader", "writer"} : LeaveClosed(p)
  BY <1>34 DEF LeaveClosed
<1>35. CASE UNCHANGED vars
  BY <1>35 DEF vars
<1> QED
  BY <1>1, <1>2, <1>3, <1>4, <1>5, <1>6, <1>7, <1>8, <1>9, <1>10, <1>11, <1>12, <1>13, <1>14, <1>15, <1>16, <1>17, <1>18, <1>19, <1>20, <1>21, <1>22, <1>23, <1>24, <1>25, <1>26, <1>27, <1>28, <1>29, <1>30, <1>31, <1>32, <1>33, <1>34, <1>35
     DEF Next, Dispatching, Sending, Closing, Shutting

\* The steps of the connection are steps of ConnectionSpec: a request gets at most one
\* result, all that are open are closed with the connection, messages are handled one
\* after the other, and the model is told of the end once, when no call of it is left.
THEOREM PromiseIsKept == Spec => Abstract!Safety
<1> QED
  BY InitInv, StepInv, InitRefines, StepRefines, PTL DEF Spec, Abstract!Safety

-----------------------------------------------------------------------------
(* Several connections, and which of them carries the indexes *)

Announcement == [type : {"primary", "secondary", "index"}, number : Nat]

TypeInv ==
  /\ link \in [Conns -> {"new", "up", "down"}]
  /\ added \in [Sides -> SUBSET Conns] /\ started \in [Sides -> SUBSET Conns]
  /\ conns \in [Sides -> Seq(Conns)]
  /\ promoted \in [Sides -> Conns \cup {None}] /\ handlers \in [Sides -> Conns \cup {None}]
  /\ timer \in [Sides -> BOOLEAN]
  /\ wires \in [Sides -> [Conns -> Seq(Announcement)]]
  /\ promotions \in [Sides -> Nat]

\* The list has connections that were added, each once, and no other was promoted; the promoted
\* one is the first, if it is still in the list.
Injective(ids) == \A i, j \in 1..Len(ids) : ids[i] = ids[j] => i = j
Listed(s) ==
  /\ P!ToSet(conns[s]) \subseteq added[s] /\ Injective(conns[s])
  /\ promoted[s] \in started[s] \cup {None} /\ started[s] \subseteq added[s]
  /\ promoted[s] \in P!ToSet(conns[s]) => promoted[s] = Head(conns[s])
  /\ \A c \in added[s] : link[c] # "new"

\* The promoted connection of s is its first.
Leads(s) == conns[s] # <<>> /\ promoted[s] = Head(conns[s])

Due(s) == conns[s] # <<>> /\ ~timer[s] => promoted[s] = Head(conns[s]) /\ P!ToSet(conns[s]) \subseteq started[s]

\* Messages of s that are on their way on c.
OnWay(s, c) == P!ToSet(wires[Other[s]][c])
Numbered(s) == \A c \in Conns : \A m \in OnWay(s, c) : m.number <= promotions[s]

\* Where the last ClusterConfig of s went that says primary: on the promoted connection, which is
\* lost, has it on its way, or carries the handlers of the other side, and none that is older is left.
Arrives(s) ==
  Leads(s) =>
    /\ \A c \in Conns : \A m \in OnWay(s, c) : P!IsPrimary(m) /\ m.number = promotions[s] => c = promoted[s]
    /\ \/ link[promoted[s]] = "down"
       \/ \E m \in OnWay(s, promoted[s]) : P!IsPrimary(m) /\ m.number = promotions[s]
       \/ /\ handlers[Other[s]] = promoted[s]
          /\ \A c \in Conns : \A m \in OnWay(s, c) : P!IsPrimary(m) => m.number = promotions[s]

Agreeing == TypeInv /\ \A s \in Sides : Listed(s) /\ Due(s) /\ Numbered(s) /\ Arrives(s)

-----------------------------------------------------------------------------
(* Lists *)

\* Of a list with one more at its end: the elements, the head, and that each is in it once.
LEMMA AppendIs ==
    ASSUME NEW S, NEW q \in Seq(S), NEW m \in S
    PROVE  /\ Append(q, m) \in Seq(S) /\ Append(q, m) # <<>>
           /\ P!ToSet(Append(q, m)) = P!ToSet(q) \cup {m}
           /\ q # <<>> => Head(Append(q, m)) = Head(q)
           /\ q = <<>> => Head(Append(q, m)) = m
<1> DEFINE a == Append(q, m)
<1>1. a \in Seq(S) /\ Len(a) = Len(q) + 1 /\ a[Len(q) + 1] = m /\ Len(q) \in Nat
  OBVIOUS
<1>2. \A i \in 1..Len(q) : a[i] = q[i]
  OBVIOUS
<1>3. q = <<>> <=> Len(q) = 0
  OBVIOUS
<1>4. q # <<>> => Head(q) = q[1]
  OBVIOUS
<1>5. DOMAIN a = 1..(Len(q) + 1) /\ DOMAIN q = 1..Len(q)
  BY <1>1
<1> HIDE DEF a
<1>6. a # <<>>
  <2>1. Len(a) # 0
    BY <1>1
  <2> QED
    BY <2>1
<1>7. P!ToSet(a) = P!ToSet(q) \cup {m}
  BY <1>1, <1>2, <1>5 DEF P!ToSet
<1>8. q # <<>> => 1 \in 1..Len(q)
  BY <1>1, <1>3
<1>9. Head(a) = a[1]
  BY <1>1, <1>6
<1>10. (q # <<>> => Head(a) = Head(q)) /\ (q = <<>> => Head(a) = m)
  BY <1>1, <1>2, <1>3, <1>4, <1>8, <1>9
<1> QED
  BY <1>1, <1>6, <1>7, <1>10 DEF a

\* Of a list without its head: the elements are those of the list, but for one.
LEMMA TailIs ==
    ASSUME NEW S, NEW q \in Seq(S), q # <<>>
    PROVE  Tail(q) \in Seq(S) /\ Head(q) \in S /\ P!ToSet(q) = {Head(q)} \cup P!ToSet(Tail(q))
<1> DEFINE t == Tail(q)
<1>1. t \in Seq(S) /\ Head(q) \in S /\ Len(t) = Len(q) - 1 /\ Head(q) = q[1] /\ Len(q) \in Nat
  OBVIOUS
<1>2. \A i \in 1..Len(t) : t[i] = q[i + 1]
  OBVIOUS
<1>3. DOMAIN t = 1..Len(t) /\ DOMAIN q = 1..Len(q)
  OBVIOUS
<1>4. Len(q) # 0
  OBVIOUS
<1> HIDE DEF t
<1>5. \A i \in 1..Len(q) : i # 1 => i - 1 \in 1..Len(t) /\ t[i - 1] = q[i]
  BY <1>1, <1>2
<1>6. \A i \in 1..Len(t) : i + 1 \in 1..Len(q)
  BY <1>1
<1>7. 1 \in 1..Len(q)
  BY <1>1, <1>4
<1>8. \A x \in P!ToSet(q) : x = q[1] \/ x \in P!ToSet(t)
  BY <1>3, <1>5 DEF P!ToSet
<1>9. q[1] \in P!ToSet(q) /\ \A x \in P!ToSet(t) : x \in P!ToSet(q)
  BY <1>2, <1>3, <1>6, <1>7 DEF P!ToSet
<1> QED
  BY <1>1, <1>8, <1>9 DEF t

\* A list has the elements of its set, and is empty when the set is.
LEMMA ListIs ==
    ASSUME NEW S, NEW q \in Seq(S)
    PROVE  /\ P!ToSet(q) \subseteq S /\ (q # <<>> => Head(q) \in P!ToSet(q))
           /\ q = <<>> <=> P!ToSet(q) = {}
           /\ P!ToSet(<<>>) = {}
<1>1. DOMAIN q = 1..Len(q) /\ Len(q) \in Nat /\ (q = <<>> <=> Len(q) = 0) /\ (q # <<>> => Head(q) = q[1])
  OBVIOUS
<1>2. \A i \in 1..Len(q) : q[i] \in S
  OBVIOUS
<1>3. q # <<>> => 1 \in 1..Len(q)
  BY <1>1
<1>4. P!ToSet(<<>>) = {}
  BY DEF P!ToSet
<1> QED
  BY <1>1, <1>2, <1>3, <1>4 DEF P!ToSet

\* What is left of a list without one of its elements: the others, in their order.
LEMMA WithoutIs ==
    ASSUME NEW ids \in Seq(Conns), Injective(ids), NEW c \in P!ToSet(ids)
    PROVE  LET w == P!Without(ids, c)
           IN  /\ w \in Seq(Conns) /\ Injective(w) /\ P!ToSet(w) = P!ToSet(ids) \ {c}
               /\ Head(ids) # c => w # <<>> /\ Head(w) = Head(ids)
               /\ Len(ids) = 1 => w = <<>>
<1> DEFINE n == Len(ids)
           k == CHOOSE i \in DOMAIN ids : ids[i] = c
           a == SubSeq(ids, 1, k - 1)
           b == SubSeq(ids, k + 1, n)
           w == a \o b
<1>1. n \in Nat /\ DOMAIN ids = 1..n /\ \A i \in 1..n : ids[i] \in Conns
  OBVIOUS
<1>2. k \in 1..n /\ ids[k] = c
  BY <1>1 DEF P!ToSet
<1>3. P!Without(ids, c) = w
  BY DEF P!Without, P!RemoveAt
<1> HIDE DEF k, n
<1>4. a \in Seq(Conns) /\ Len(a) = k - 1 /\ \A i \in 1..(k - 1) : a[i] = ids[i]
  BY <1>1, <1>2 DEF n
<1>5. b \in Seq(Conns) /\ Len(b) = n - k /\ \A i \in 1..(n - k) : b[i] = ids[k + i]
  <2>1. n \in Int /\ k + 1 \in Int /\ \A i \in (k + 1)..n : ids[i] \in Conns
    BY <1>1, <1>2
  <2>2. /\ b \in Seq(Conns) /\ Len(b) = IF k + 1 <= n THEN n - (k + 1) + 1 ELSE 0
        /\ \A i \in 1..(n - (k + 1) + 1) : b[i] = ids[(k + 1) + i - 1]
    BY <2>1, SubSeqProperties
  <2> HIDE DEF a, b
  <2>3. n - (k + 1) + 1 = n - k /\ (IF k + 1 <= n THEN n - (k + 1) + 1 ELSE 0) = n - k
    BY <1>1, <1>2
  <2>4. Len(b) = n - k /\ \A i \in 1..(n - k) : b[i] = ids[(k + 1) + i - 1]
    BY <2>2, <2>3
  <2>5. \A i \in 1..(n - k) : (k + 1) + i - 1 = k + i
    BY <1>1, <1>2
  <2> QED
    BY <2>2, <2>4, <2>5
<1> HIDE DEF a, b
<1>6. w \in Seq(Conns) /\ Len(w) = n - 1
  <2>1. w \in Seq(Conns) /\ Len(w) = Len(a) + Len(b)
    BY <1>4, <1>5, ConcatProperties
  <2>2. (k - 1) + (n - k) = n - 1
    BY <1>1, <1>2
  <2> QED
    BY <1>4, <1>5, <2>1, <2>2
<1>7. \A i \in 1..(n - 1) : w[i] = IF i < k THEN ids[i] ELSE ids[i + 1]
  <2> SUFFICES ASSUME NEW i \in 1..(n - 1) PROVE w[i] = IF i < k THEN ids[i] ELSE ids[i + 1]
    OBVIOUS
  <2>1. CASE i < k
    <3>1. i \in 1..(k - 1)
      BY <1>1, <1>2, <2>1
    <3>2. w[i] = a[i]
      BY <1>1, <1>2, <1>4, <1>5, <3>1
    <3> QED
      BY <1>4, <2>1, <3>1, <3>2
  <2>2. CASE ~(i < k)
    <3>1. i - (k - 1) \in 1..(n - k) /\ k + (i - (k - 1)) = i + 1
      BY <1>1, <1>2, <2>2
    <3>2. w[i] = b[i - (k - 1)]
      BY <1>1, <1>2, <1>4, <1>5, <2>2, <3>1
    <3> QED
      BY <1>5, <2>2, <3>1, <3>2
  <2> QED
    BY <2>1, <2>2
<1> HIDE DEF w
<1>8. \A i, j \in 1..n : ids[i] = ids[j] => i = j
  BY DEF Injective, n
<1>9. DOMAIN w = 1..(n - 1)
  BY <1>6
<1>10. Injective(w)
  <2> SUFFICES ASSUME NEW i \in 1..(n - 1), NEW j \in 1..(n - 1), w[i] = w[j] PROVE i = j
    BY <1>6 DEF Injective
  <2> DEFINE i1 == IF i < k THEN i ELSE i + 1
             j1 == IF j < k THEN j ELSE j + 1
  <2>1. i1 \in 1..n /\ j1 \in 1..n
    BY <1>1, <1>2
  <2>2. ids[i1] = ids[j1]
    BY <1>7
  <2>3. i1 = j1
    BY <1>8, <2>1, <2>2
  <2> QED
    BY <1>1, <1>2, <2>3
<1>11. P!ToSet(w) = P!ToSet(ids) \ {c}
  <2>1. \A i \in 1..(n - 1) : w[i] \in P!ToSet(ids) \ {c}
    <3> SUFFICES ASSUME NEW i \in 1..(n - 1) PROVE w[i] \in P!ToSet(ids) \ {c}
      OBVIOUS
    <3> DEFINE i1 == IF i < k THEN i ELSE i + 1
    <3>1. i1 \in 1..n /\ i1 # k
      BY <1>1, <1>2
    <3>2. w[i] = ids[i1]
      BY <1>7
    <3> QED
      BY <1>1, <1>2, <1>8, <3>1, <3>2 DEF P!ToSet
  <2>2. ASSUME NEW x \in P!ToSet(ids) \ {c} PROVE x \in P!ToSet(w)
    <3>1. PICK i \in 1..n : ids[i] = x
      BY <1>1 DEF P!ToSet
    <3>2. i # k
      BY <1>2, <2>2, <3>1
    <3> DEFINE i1 == IF i < k THEN i ELSE i - 1
    <3>3. i1 \in 1..(n - 1) /\ (IF i1 < k THEN i1 ELSE i1 + 1) = i
      BY <1>1, <1>2, <3>2
    <3>4. w[i1] = ids[i]
      BY <1>7, <3>3
    <3> QED
      BY <1>9, <3>1, <3>3, <3>4 DEF P!ToSet
  <2> QED
    BY <1>9, <2>1, <2>2 DEF P!ToSet
<1>12. ASSUME Head(ids) # c PROVE w # <<>> /\ Head(w) = Head(ids)
  <2>1. Head(ids) = ids[1]
    BY <1>1, <1>2 DEF n
  <2>2. k # 1
    BY <1>2, <1>12, <2>1
  <2>3. 1 \in 1..(n - 1) /\ 1 < k
    BY <1>1, <1>2, <2>2
  <2>4. w[1] = ids[1]
    BY <1>7, <2>3
  <2>5. Len(w) # 0
    BY <1>1, <1>2, <1>6, <2>3
  <2>6. w # <<>>
    BY <2>5
  <2>7. Head(w) = w[1]
    BY <1>6, <2>6
  <2> QED
    BY <2>1, <2>4, <2>6, <2>7
<1>13. n = 1 => w = <<>>
  BY <1>6
<1> QED
  BY <1>3, <1>6, <1>10, <1>11, <1>12, <1>13 DEF n

-----------------------------------------------------------------------------
(* Messages *)

\* What is sent arrives behind the rest, on connections that are up.
LEMMA SentIs ==
    ASSUME TypeInv, NEW s \in Sides, NEW m, \A c \in (DOMAIN m) \cap Conns : m[c] \in Announcement, P!Sent(s, m)
    PROVE  /\ wires' \in [Sides -> [Conns -> Seq(Announcement)]]
           /\ \A t \in Sides, c \in Conns :
                P!ToSet(wires'[t][c]) = IF t = Other[s] /\ c \in DOMAIN m /\ link[c] = "up"
                                     THEN P!ToSet(wires[t][c]) \cup {m[c]} ELSE P!ToSet(wires[t][c])
<1> DEFINE o == Other[s]
           w == [c \in Conns |-> IF c \in DOMAIN m /\ link[c] = "up" THEN Append(wires[o][c], m[c]) ELSE wires[o][c]]
<1>1. o \in Sides /\ wires \in [Sides -> [Conns -> Seq(Announcement)]]
  BY SidesAssumption DEF TypeInv
<1>2. wires' = [wires EXCEPT ![o] = w]
  BY <1>1 DEF P!Sent
<1>3. \A c \in Conns : wires[o][c] \in Seq(Announcement)
  BY <1>1
<1>4. \A c \in Conns : c \in DOMAIN m => /\ Append(wires[o][c], m[c]) \in Seq(Announcement)
                                         /\ P!ToSet(Append(wires[o][c], m[c])) = P!ToSet(wires[o][c]) \cup {m[c]}
  BY <1>3, AppendIs
<1>5. w \in [Conns -> Seq(Announcement)]
  BY <1>3, <1>4
<1>6. \A c \in Conns : P!ToSet(w[c]) = IF c \in DOMAIN m /\ link[c] = "up" THEN P!ToSet(wires[o][c]) \cup {m[c]}
                                                                        ELSE P!ToSet(wires[o][c])
  BY <1>4
<1> HIDE DEF w
<1>7. wires' \in [Sides -> [Conns -> Seq(Announcement)]]
  BY <1>1, <1>2, <1>5
<1>8. \A t \in Sides, c \in Conns : wires'[t][c] = IF t = o THEN w[c] ELSE wires[t][c]
  BY <1>1, <1>2
<1> QED
  BY <1>6, <1>7, <1>8

\* What is taken is the first.
LEMMA TakeIs ==
    ASSUME TypeInv, NEW s \in Sides, NEW c \in Conns, P!Take(s, c), wires[s][c] # <<>>
    PROVE  /\ wires' \in [Sides -> [Conns -> Seq(Announcement)]]
           /\ Head(wires[s][c]) \in Announcement
           /\ P!ToSet(wires[s][c]) = {Head(wires[s][c])} \cup P!ToSet(wires'[s][c])
           /\ \A t \in Sides, d \in Conns : t # s \/ d # c => wires'[t][d] = wires[t][d]
<1>1. wires \in [Sides -> [Conns -> Seq(Announcement)]] /\ wires[s][c] \in Seq(Announcement)
  BY DEF TypeInv
<1>2. Tail(wires[s][c]) \in Seq(Announcement) /\ Head(wires[s][c]) \in Announcement
      /\ P!ToSet(wires[s][c]) = {Head(wires[s][c])} \cup P!ToSet(Tail(wires[s][c]))
  BY <1>1, TailIs
<1> DEFINE rest == Tail(wires[s][c])
<1>3. wires' = [wires EXCEPT ![s][c] = rest]
  BY DEF P!Take
<1> HIDE DEF rest
<1>4. rest \in Seq(Announcement)
  BY <1>2 DEF rest
<1>5. wires' \in [Sides -> [Conns -> Seq(Announcement)]]
  BY <1>1, <1>3, <1>4
<1>6. wires'[s][c] = rest
  BY <1>1, <1>3
<1>7. \A t \in Sides, d \in Conns : t # s \/ d # c => wires'[t][d] = wires[t][d]
  BY <1>1, <1>3
<1> QED
  BY <1>2, <1>5, <1>6, <1>7 DEF rest

-----------------------------------------------------------------------------
(* What a step leaves as it is *)

\* A side goes on to agree if what it promoted, and the messages that say so, remain.
LEMMA ArrivesKept ==
    ASSUME NEW s \in Sides, Listed(s), Arrives(s), Leads(s)' => Leads(s) /\ promoted'[s] = promoted[s],
           promotions'[s] = promotions[s],
           \A c \in Conns : link[c] = "down" => link'[c] = "down",
           conns[s] \in Seq(Conns),
           \/ handlers'[Other[s]] = handlers[Other[s]]
           \/ link[handlers[Other[s]]] = "down" /\ handlers[Other[s]] \in Conns,
           \A c \in Conns : \A m \in OnWay(s, c)' : P!IsPrimary(m) => m \in OnWay(s, c),
           \A c \in Conns : link[c] # "down" => \A m \in OnWay(s, c) : P!IsPrimary(m) => m \in OnWay(s, c)'
    PROVE  Arrives(s)'
<1> SUFFICES ASSUME Leads(s)'
             PROVE  /\ \A c \in Conns : \A m \in OnWay(s, c)' : P!IsPrimary(m) /\ m.number = promotions[s] => c = promoted[s]
                    /\ \/ link'[promoted[s]] = "down"
                       \/ \E m \in OnWay(s, promoted[s])' : P!IsPrimary(m) /\ m.number = promotions[s]
                       \/ /\ handlers'[Other[s]] = promoted[s]
                          /\ \A c \in Conns : \A m \in OnWay(s, c)' : P!IsPrimary(m) => m.number = promotions[s]
  BY DEF Arrives, P!IsPrimary
<1>1. Leads(s)
  OBVIOUS
<1>2. promoted[s] \in Conns
  BY <1>1, ListIs DEF Leads
<1> QED
  BY <1>1, <1>2 DEF Arrives

\* Lists are as they were, and no connection is new again.
LEMMA ListsKept ==
    ASSUME Agreeing, UNCHANGED <<added, conns, started, promoted>>, \A c \in Conns : link[c] # "new" => link'[c] # "new"
    PROVE  \A s \in Sides : Listed(s)' /\ (Leads(s)' <=> Leads(s)) /\ conns[s] \in Seq(Conns)
<1> SUFFICES ASSUME NEW s \in Sides PROVE Listed(s)' /\ (Leads(s)' <=> Leads(s)) /\ conns[s] \in Seq(Conns)
  OBVIOUS
<1>1. added[s] \subseteq Conns /\ conns[s] \in Seq(Conns) /\ Listed(s)
  BY DEF Agreeing, TypeInv
<1> QED
  BY <1>1 DEF Listed, Leads, Injective

\* At first there is no connection and no message.
LEMMA InitHolds == P!Init => Agreeing
<1> SUFFICES ASSUME P!Init PROVE Agreeing
  OBVIOUS
<1>1. \A s \in Sides : conns[s] = <<>> /\ promoted[s] = None /\ added[s] = {} /\ started[s] = {} /\ promotions[s] = 0
  BY DEF P!Init
<1>2. \A s \in Sides, c \in Conns : wires[s][c] = <<>>
  BY DEF P!Init
<1>3. TypeInv
  <2>1. conns \in [Sides -> Seq(Conns)] /\ wires \in [Sides -> [Conns -> Seq(Announcement)]]
    BY DEF P!Init
  <2> QED
    BY <2>1 DEF P!Init, TypeInv
<1>4. P!ToSet(<<>>) = {}
  BY DEF P!ToSet
<1>5. \A s \in Sides : Listed(s)
  BY <1>1, <1>4 DEF Listed, Injective
<1>6. \A s \in Sides, c \in Conns : OnWay(s, c) = {}
  BY <1>2, <1>4, SidesAssumption DEF OnWay
<1> QED
  BY <1>1, <1>3, <1>5, <1>6 DEF Agreeing, Due, Numbered, Arrives, Leads

\* A connection is made, or lost.
LEMMA LinkKeeps == ASSUME Agreeing, NEW c \in Conns, P!Connect(c) \/ P!Lose(c) PROVE Agreeing'
<1>1. /\ UNCHANGED <<added, conns, started, promoted, timer, handlers, wires, promotions>>
      /\ link' \in [Conns -> {"new", "up", "down"}]
      /\ \A d \in Conns : (link[d] = "down" => link'[d] = "down") /\ (link[d] # "new" => link'[d] # "new")
  BY DEF P!Connect, P!Lose, P!model, Agreeing, TypeInv
<1>2. TypeInv'
  BY <1>1 DEF Agreeing, TypeInv
<1>3. \A s \in Sides : Listed(s)' /\ (Leads(s)' <=> Leads(s)) /\ conns[s] \in Seq(Conns)
  BY <1>1, ListsKept
<1>4. \A s \in Sides : Arrives(s)'
  BY <1>1, <1>3, ArrivesKept DEF Agreeing, OnWay
<1>5. \A s \in Sides : Due(s)' /\ Numbered(s)'
  BY <1>1 DEF Agreeing, Due, Numbered, OnWay
<1> QED
  BY <1>2, <1>3, <1>4, <1>5 DEF Agreeing

\* A new connection goes to the end of the list, and a promotion is due.
LEMMA AddConnectionKeeps == ASSUME Agreeing, NEW s \in Sides, NEW c \in Conns, P!AddConnection(s, c) PROVE Agreeing'
<1>1. /\ link[c] # "new" /\ c \notin added[s]
      /\ added' = [added EXCEPT ![s] = added[s] \cup {c}]
      /\ conns' = [conns EXCEPT ![s] = Append(conns[s], c)]
      /\ timer' = [timer EXCEPT ![s] = TRUE]
      /\ UNCHANGED <<link, started, promoted, handlers, wires, promotions>>
  BY DEF P!AddConnection, Agreeing, TypeInv
<1>2. TypeInv /\ Listed(s) /\ conns[s] \in Seq(Conns)
  BY DEF Agreeing, TypeInv
<1>3. /\ Append(conns[s], c) \in Seq(Conns) /\ P!ToSet(Append(conns[s], c)) = P!ToSet(conns[s]) \cup {c}
      /\ Append(conns[s], c) # <<>>
      /\ conns[s] # <<>> => Head(Append(conns[s], c)) = Head(conns[s])
      /\ conns[s] = <<>> => Head(Append(conns[s], c)) = c
  BY <1>2, AppendIs
<1>4. TypeInv'
  BY <1>1, <1>2, <1>3 DEF TypeInv
<1>5. \A t \in Sides : t # s => conns'[t] = conns[t] /\ added'[t] = added[t] /\ timer'[t] = timer[t]
  BY <1>1, <1>2 DEF TypeInv
<1>6. conns'[s] = Append(conns[s], c) /\ added'[s] = added[s] \cup {c} /\ timer'[s] = TRUE
  BY <1>1, <1>2 DEF TypeInv
<1>7. Injective(Append(conns[s], c))
  <2> DEFINE q == conns[s]
             a == Append(conns[s], c)
  <2>1. Len(q) \in Nat /\ Len(a) = Len(q) + 1 /\ a[Len(q) + 1] = c /\ \A i \in 1..Len(q) : a[i] = q[i]
    BY <1>2
  <2>2. \A i \in 1..Len(q) : q[i] # c
    BY <1>1, <1>2 DEF Listed, P!ToSet
  <2>3. \A i, j \in 1..Len(q) : q[i] = q[j] => i = j
    BY <1>2 DEF Listed, Injective
  <2> HIDE DEF q, a
  <2>4. \A i \in 1..Len(a) : i \in 1..Len(q) \/ i = Len(q) + 1
    BY <2>1
  <2>5. Injective(a)
    BY <2>1, <2>2, <2>3, <2>4 DEF Injective
  <2> QED
    BY <2>5 DEF a
<1>8. promoted[s] # c /\ (conns[s] = <<>> => promoted[s] \notin P!ToSet(conns[s]))
  BY <1>1, <1>2, SidesAssumption, ListIs DEF Listed
<1>9. P!ToSet(conns[s]) # {} => conns[s] # <<>>
  BY <1>2, ListIs
<1>10. Listed(s)'
  <2> DEFINE a == Append(conns[s], c)
  <2> HIDE DEF a
  <2>1. conns'[s] = a /\ Injective(a) /\ P!ToSet(a) = P!ToSet(conns[s]) \cup {c} /\ (conns[s] # <<>> => Head(a) = Head(conns[s]))
    BY <1>3, <1>6, <1>7 DEF a
  <2> QED
    BY <1>1, <1>2, <1>6, <1>8, <1>9, <2>1 DEF Listed, Injective
<1>11. Leads(s)' => Leads(s)
  BY <1>1, <1>3, <1>6, <1>8 DEF Leads
<1>12. \A t \in Sides : t # s => Listed(t)' /\ (Leads(t)' => Leads(t))
  BY <1>1, <1>5 DEF Agreeing, Listed, Leads, Injective
<1>13. \A t \in Sides : Arrives(t)'
  <2> SUFFICES ASSUME NEW t \in Sides PROVE Arrives(t)'
    OBVIOUS
  <2>1. conns[t] \in Seq(Conns) /\ Listed(t) /\ Arrives(t)
    BY DEF Agreeing, TypeInv
  <2>2. Leads(t)' => Leads(t)
    BY <1>11, <1>12
  <2>3. \A d \in Conns : OnWay(t, d)' = OnWay(t, d)
    BY <1>1 DEF OnWay
  <2> QED
    BY <1>1, <2>1, <2>2, <2>3, ArrivesKept
<1>14. \A t \in Sides : Due(t)' /\ Numbered(t)'
  BY <1>1, <1>5, <1>6 DEF Agreeing, Due, Numbered, OnWay
<1> QED
  BY <1>4, <1>10, <1>12, <1>13, <1>14 DEF Agreeing

\* Messages of one side only are sent.
LEMMA OtherSideKept ==
    ASSUME NEW s \in Sides, NEW t \in Sides, t # s,
           \A u \in Sides, c \in Conns : u # Other[s] => P!ToSet(wires'[u][c]) = P!ToSet(wires[u][c])
    PROVE  \A c \in Conns : OnWay(t, c)' = OnWay(t, c)
  BY SidesAssumption DEF OnWay

\* A message says primary, with the next number, on the first connection.
LEMMA PrimarySent ==
    ASSUME Agreeing, NEW s \in Sides, NEW h \in Conns, NEW m, P!Sent(s, m), link[h] # "new", link' = link,
           h \in DOMAIN m, m[h] = P!Primary(s), \A c \in (DOMAIN m) \cap Conns : c # h => m[c] = P!Secondary,
           promotions'[s] = promotions[s] + 1, Leads(s)' => promoted'[s] = h
    PROVE  /\ wires' \in [Sides -> [Conns -> Seq(Announcement)]]
           /\ Numbered(s)' /\ Arrives(s)'
           /\ \A u \in Sides, c \in Conns : u # Other[s] => P!ToSet(wires'[u][c]) = P!ToSet(wires[u][c])
<1>1. TypeInv /\ promotions[s] \in Nat /\ Numbered(s) /\ Other[s] \in Sides /\ link[h] \in {"up", "down"}
  BY SidesAssumption DEF Agreeing, TypeInv
<1>2. \A c \in (DOMAIN m) \cap Conns : m[c] \in Announcement
  <2>1. P!Primary(s) \in Announcement /\ P!Secondary \in Announcement
    BY <1>1 DEF P!Primary, P!Secondary, Announcement
  <2> QED
    BY <2>1
<1>3. /\ wires' \in [Sides -> [Conns -> Seq(Announcement)]]
      /\ \A t \in Sides, c \in Conns :
           P!ToSet(wires'[t][c]) = IF t = Other[s] /\ c \in DOMAIN m /\ link[c] = "up"
                                THEN P!ToSet(wires[t][c]) \cup {m[c]} ELSE P!ToSet(wires[t][c])
  BY <1>1, <1>2, SentIs
<1>4. /\ \A c \in Conns : OnWay(s, c)' \subseteq OnWay(s, c) \cup (IF c = h THEN {P!Primary(s)} ELSE {P!Secondary})
      /\ link[h] = "up" => P!Primary(s) \in OnWay(s, h)'
  BY <1>1, <1>3 DEF OnWay
<1>5. P!Primary(s).number = promotions[s] + 1 /\ P!IsPrimary(P!Primary(s)) /\ P!Secondary.number = 0 /\ ~P!IsPrimary(P!Secondary)
  BY DEF P!Primary, P!Secondary, P!IsPrimary
<1>6. \A c \in Conns : \A x \in OnWay(s, c) : x.number \in Nat /\ x.number <= promotions[s]
  <2>1. \A c \in Conns : wires[Other[s]][c] \in Seq(Announcement)
    BY <1>1 DEF TypeInv
  <2>2. \A c \in Conns : OnWay(s, c) \subseteq Announcement
    BY <2>1, ListIs DEF OnWay
  <2> QED
    BY <1>1, <2>2 DEF Numbered, Announcement
<1>7. Numbered(s)'
  <2> SUFFICES ASSUME NEW c \in Conns, NEW x \in OnWay(s, c)' PROVE x.number <= promotions[s] + 1
    BY DEF Numbered
  <2> HIDE DEF P!Primary, P!Secondary
  <2>1. x \in OnWay(s, c) \/ x = P!Primary(s) \/ x = P!Secondary
    BY <1>4
  <2> QED
    BY <1>1, <1>5, <1>6, <2>1
<1>8. Arrives(s)'
  <2> SUFFICES ASSUME Leads(s)'
               PROVE  /\ \A c \in Conns : \A x \in OnWay(s, c)' : P!IsPrimary(x) /\ x.number = promotions[s] + 1 => c = h
                      /\ link[h] = "down" \/ \E x \in OnWay(s, h)' : P!IsPrimary(x) /\ x.number = promotions[s] + 1
    BY DEF Arrives, P!IsPrimary
  <2>1. ASSUME NEW c \in Conns, NEW x \in OnWay(s, c)', P!IsPrimary(x), x.number = promotions[s] + 1 PROVE c = h
    <3>1. x \notin OnWay(s, c)
      BY <1>1, <1>6, <2>1
    <3> QED
      BY <1>4, <1>5, <2>1, <3>1
  <2>2. link[h] = "down" \/ \E x \in OnWay(s, h)' : P!IsPrimary(x) /\ x.number = promotions[s] + 1
    BY <1>1, <1>4, <1>5
  <2> QED
    BY <2>1, <2>2
<1> QED
  BY <1>3, <1>7, <1>8

\* Messages that do not say primary change nothing.
LEMMA OthersSent ==
    ASSUME Agreeing, NEW s \in Sides, NEW m, P!Sent(s, m), \A c \in (DOMAIN m) \cap Conns : m[c] \in {P!Secondary, P!Index}
    PROVE  /\ wires' \in [Sides -> [Conns -> Seq(Announcement)]]
           /\ \A t \in Sides, c \in Conns :
                /\ \A x \in OnWay(t, c)' : P!IsPrimary(x) => x \in OnWay(t, c)
                /\ \A x \in OnWay(t, c) : x \in OnWay(t, c)'
                /\ \A x \in OnWay(t, c)' : x \in OnWay(t, c) \/ x.number = 0
<1>1. P!Secondary \in Announcement /\ P!Index \in Announcement /\ P!Secondary.number = 0 /\ P!Index.number = 0
      /\ ~P!IsPrimary(P!Secondary) /\ ~P!IsPrimary(P!Index)
  BY DEF P!Secondary, P!Index, Announcement, P!IsPrimary
<1>2. \A c \in (DOMAIN m) \cap Conns : m[c] \in Announcement
  BY <1>1
<1>3. /\ wires' \in [Sides -> [Conns -> Seq(Announcement)]]
      /\ \A t \in Sides, c \in Conns :
           P!ToSet(wires'[t][c]) = IF t = Other[s] /\ c \in DOMAIN m /\ link[c] = "up"
                                THEN P!ToSet(wires[t][c]) \cup {m[c]} ELSE P!ToSet(wires[t][c])
  BY <1>2, SentIs DEF Agreeing
<1>4. \A t \in Sides, c \in Conns : /\ OnWay(t, c) \subseteq OnWay(t, c)'
                                   /\ OnWay(t, c)' \subseteq OnWay(t, c) \cup {P!Secondary, P!Index}
  <2> SUFFICES ASSUME NEW t \in Sides, NEW c \in Conns
               PROVE  /\ P!ToSet(wires[Other[t]][c]) \subseteq P!ToSet(wires'[Other[t]][c])
                      /\ P!ToSet(wires'[Other[t]][c]) \subseteq P!ToSet(wires[Other[t]][c]) \cup {P!Secondary, P!Index}
    BY DEF OnWay
  <2>1. Other[t] \in Sides
    BY SidesAssumption
  <2>2. \/ P!ToSet(wires'[Other[t]][c]) = P!ToSet(wires[Other[t]][c])
        \/ c \in DOMAIN m /\ P!ToSet(wires'[Other[t]][c]) = P!ToSet(wires[Other[t]][c]) \cup {m[c]}
    BY <1>3, <2>1
  <2> QED
    BY <2>2
<1> QED
  BY <1>1, <1>3, <1>4

-----------------------------------------------------------------------------
(* The steps of a side *)

\* A promotion makes the first connection the promoted one, with a ClusterConfig on it that
\* is newer than any other, or finds it promoted and leaves it.
LEMMA PromoteKeeps == ASSUME Agreeing, NEW s \in Sides, P!Promote(s) PROVE Agreeing'
<1> DEFINE first == P!ToPromote(s)
           others == P!ToSet(Tail(conns[s])) \ started[s]
           h == Head(conns[s])
           m == [c \in first \cup others |-> IF c \in first THEN P!Primary(s) ELSE P!Secondary]
<1>1. /\ UNCHANGED <<link, added, conns, handlers>> /\ timer' = [timer EXCEPT ![s] = FALSE]
  BY DEF P!Promote
<1>2. TypeInv /\ Listed(s) /\ conns[s] \in Seq(Conns) /\ started[s] \subseteq Conns
  BY DEF Agreeing, TypeInv
<1>3. \A t \in Sides : timer'[t] = IF t = s THEN FALSE ELSE timer[t]
  BY <1>1, <1>2 DEF TypeInv
<1>4. CASE conns[s] = <<>>
  <2>1. UNCHANGED <<started, promoted, wires, promotions>>
    BY <1>4 DEF P!Promote
  <2>2. TypeInv'
    BY <1>1, <1>2, <2>1 DEF TypeInv
  <2>3. \A t \in Sides : Listed(t)' /\ (Leads(t)' <=> Leads(t)) /\ conns[t] \in Seq(Conns)
    BY <1>1, <2>1, ListsKept
  <2>4. \A t \in Sides : Arrives(t)'
    BY <1>1, <2>1, <2>3, ArrivesKept DEF Agreeing, OnWay
  <2>5. \A t \in Sides : Due(t)' /\ Numbered(t)'
    BY <1>1, <1>3, <1>4, <2>1 DEF Agreeing, Due, Numbered, OnWay
  <2> QED
    BY <2>2, <2>3, <2>4, <2>5 DEF Agreeing
<1>5. CASE conns[s] # <<>>
  <2>1. /\ promoted' = [promoted EXCEPT ![s] = IF first = {} THEN promoted[s] ELSE h]
        /\ started' = [started EXCEPT ![s] = started[s] \cup first \cup others]
        /\ P!Sent(s, m)
        /\ promotions' = [promotions EXCEPT ![s] = IF first = {} THEN promotions[s] ELSE promotions[s] + 1]
    BY <1>2, <1>5 DEF P!Promote, TypeInv
  <2>2. h \in Conns /\ h \in P!ToSet(conns[s]) /\ P!ToSet(conns[s]) \subseteq Conns
        /\ P!ToSet(conns[s]) = {h} \cup P!ToSet(Tail(conns[s])) /\ h \in added[s] /\ link[h] # "new"
    BY <1>2, <1>5, ListIs, TailIs DEF Listed
  <2>3. h \notin P!ToSet(Tail(conns[s]))
    <3>1. Len(Tail(conns[s])) = Len(conns[s]) - 1 /\ h = conns[s][1] /\ Len(conns[s]) \in Nat
          /\ \A i \in 1..(Len(conns[s]) - 1) : Tail(conns[s])[i] = conns[s][i + 1]
      BY <1>2, <1>5
    <3>2. DOMAIN Tail(conns[s]) = 1..(Len(conns[s]) - 1)
      BY <1>2, <1>5
    <3>3. \A i, j \in 1..Len(conns[s]) : conns[s][i] = conns[s][j] => i = j
      BY <1>2 DEF Listed, Injective
    <3>4. \A i \in 1..(Len(conns[s]) - 1) : conns[s][i + 1] # conns[s][1]
      BY <3>1, <3>3
    <3> QED
      BY <3>1, <3>2, <3>4 DEF P!ToSet
  <2>4. first = (IF promoted[s] # h THEN {h} ELSE {}) /\ others \subseteq Conns
    BY <2>2 DEF P!ToPromote
  <2>5. promoted'[s] = h /\ started'[s] = started[s] \cup first \cup others
    BY <1>2, <2>1, <2>4 DEF TypeInv
  <2>6. \A t \in Sides : t # s => promoted'[t] = promoted[t] /\ started'[t] = started[t] /\ promotions'[t] = promotions[t]
    BY <1>2, <2>1 DEF TypeInv
  <2>7. promotions' \in [Sides -> Nat]
    BY <1>2, <2>1 DEF TypeInv
  <2>8. promoted' \in [Sides -> Conns \cup {None}] /\ started' \in [Sides -> SUBSET Conns]
    BY <1>2, <2>1, <2>2, <2>4 DEF TypeInv
  <2>9. timer' \in [Sides -> BOOLEAN]
    BY <1>1, <1>2 DEF TypeInv
  <2>10. Listed(s)' /\ Leads(s)'
    <3>1. h \in started'[s] /\ started'[s] \subseteq added[s]
      BY <1>2, <2>2, <2>4, <2>5, SidesAssumption DEF Listed
    <3> QED
      BY <1>1, <1>2, <1>5, <2>2, <2>5, <3>1 DEF Listed, Leads, Injective
  <2>11. \A t \in Sides : t # s => Listed(t)' /\ (Leads(t)' <=> Leads(t))
    BY <1>1, <2>6 DEF Agreeing, Listed, Leads, Injective
  <2>12. Due(s)'
    <3>1. h \in started'[s]
      BY <2>2, <2>5, <2>10, SidesAssumption DEF Listed
    <3>2. P!ToSet(conns[s]) \subseteq started'[s]
      BY <2>2, <2>5, <3>1
    <3> QED
      BY <1>1, <2>5, <3>2 DEF Due
  <2>13. \A t \in Sides : t # s => Due(t)'
    BY <1>1, <1>3, <2>6 DEF Agreeing, Due
  <2>14. CASE first = {}
    <3>1. \A c \in (DOMAIN m) \cap Conns : m[c] \in {P!Secondary, P!Index}
      BY <2>14
    <3> HIDE DEF m
    <3>2. /\ wires' \in [Sides -> [Conns -> Seq(Announcement)]]
          /\ \A t \in Sides, c \in Conns :
               /\ \A x \in OnWay(t, c)' : P!IsPrimary(x) => x \in OnWay(t, c)
               /\ \A x \in OnWay(t, c) : x \in OnWay(t, c)'
               /\ \A x \in OnWay(t, c)' : x \in OnWay(t, c) \/ x.number = 0
      BY <2>1, <3>1, OthersSent
    <3>3. \A t \in Sides : promotions'[t] = promotions[t] /\ promotions[t] \in Nat
      BY <1>2, <2>1, <2>6, <2>14 DEF TypeInv
    <3>4. \A t \in Sides : Numbered(t)'
      <4> SUFFICES ASSUME NEW t \in Sides, NEW c \in Conns, NEW x \in OnWay(t, c)' PROVE x.number <= promotions[t]
        BY <3>3 DEF Numbered
      <4>1. x \in OnWay(t, c) \/ x.number = 0
        BY <3>2
      <4> QED
        BY <3>3, <4>1 DEF Agreeing, Numbered
    <3>5. Leads(s) /\ promoted'[s] = promoted[s]
      BY <1>5, <2>4, <2>5, <2>14 DEF Leads
    <3>6. \A t \in Sides : Arrives(t)'
      <4> SUFFICES ASSUME NEW t \in Sides PROVE Arrives(t)'
        OBVIOUS
      <4>1. conns[t] \in Seq(Conns) /\ Listed(t) /\ Arrives(t)
        BY DEF Agreeing, TypeInv
      <4>2. Leads(t)' => Leads(t) /\ promoted'[t] = promoted[t]
        BY <2>6, <2>11, <3>5
      <4> QED
        BY <1>1, <3>2, <3>3, <4>1, <4>2, ArrivesKept
    <3>7. TypeInv'
      BY <1>1, <1>2, <2>7, <2>8, <2>9, <3>2 DEF TypeInv
    <3> QED
      BY <2>10, <2>11, <2>12, <2>13, <3>4, <3>6, <3>7 DEF Agreeing
  <2>15. CASE first = {h}
    <3>1. h \in DOMAIN m /\ m[h] = P!Primary(s) /\ \A c \in (DOMAIN m) \cap Conns : c # h => m[c] = P!Secondary
      BY <2>15
    <3> HIDE DEF m
    <3>2. promotions'[s] = promotions[s] + 1
      BY <1>2, <2>1, <2>15 DEF TypeInv
    <3>3. /\ wires' \in [Sides -> [Conns -> Seq(Announcement)]]
          /\ Numbered(s)' /\ Arrives(s)'
          /\ \A u \in Sides, c \in Conns : u # Other[s] => P!ToSet(wires'[u][c]) = P!ToSet(wires[u][c])
      BY <1>1, <2>1, <2>2, <2>5, <3>1, <3>2, PrimarySent
    <3>4. ASSUME NEW t \in Sides, t # s PROVE Numbered(t)' /\ Arrives(t)'
      <4>1. \A c \in Conns : OnWay(t, c)' = OnWay(t, c)
        BY <3>3, <3>4, OtherSideKept
      <4>2. conns[t] \in Seq(Conns) /\ Listed(t) /\ Arrives(t) /\ Numbered(t)
        BY DEF Agreeing, TypeInv
      <4>3. promoted'[t] = promoted[t] /\ promotions'[t] = promotions[t] /\ (Leads(t)' <=> Leads(t))
        BY <2>6, <2>11, <3>4
      <4>4. Numbered(t)'
        BY <4>1, <4>2, <4>3 DEF Numbered
      <4> QED
        BY <1>1, <4>1, <4>2, <4>3, <4>4, ArrivesKept
    <3>5. TypeInv'
      BY <1>1, <1>2, <2>7, <2>8, <2>9, <3>3 DEF TypeInv
    <3> QED
      BY <2>10, <2>11, <2>12, <2>13, <3>3, <3>4, <3>5 DEF Agreeing
  <2> QED
    BY <2>4, <2>14, <2>15
<1> QED
  BY <1>4, <1>5

\* A ClusterConfig after a change goes to the first connection. If that is the promoted one,
\* the last ClusterConfig is on its way there; if not, the side does not lead.
LEMMA ConfigChangesKeeps == ASSUME Agreeing, NEW s \in Sides, P!ConfigChanges(s) PROVE Agreeing'
<1> DEFINE h == Head(conns[s])
           m == [c \in {h} |-> P!Primary(s)]
<1>1. /\ UNCHANGED <<link, added, conns, started, promoted, timer, handlers>>
      /\ conns[s] # <<>> /\ P!Sent(s, m)
      /\ promotions' = [promotions EXCEPT ![s] = promotions[s] + 1]
  BY DEF P!ConfigChanges, P!model, Agreeing, TypeInv
<1>2. TypeInv /\ Listed(s) /\ conns[s] \in Seq(Conns)
  BY DEF Agreeing, TypeInv
<1>3. h \in Conns /\ link[h] # "new"
  BY <1>1, <1>2, ListIs DEF Listed
<1>4. h \in DOMAIN m /\ m[h] = P!Primary(s) /\ \A c \in (DOMAIN m) \cap Conns : c # h => m[c] = P!Secondary
  OBVIOUS
<1>5. \A t \in Sides : promotions'[t] = IF t = s THEN promotions[t] + 1 ELSE promotions[t]
  BY <1>1, <1>2 DEF TypeInv
<1>6. \A t \in Sides : Listed(t)' /\ (Leads(t)' <=> Leads(t)) /\ conns[t] \in Seq(Conns)
  BY <1>1, ListsKept
<1>7. Leads(s)' => promoted'[s] = h
  BY <1>1 DEF Leads
<1> HIDE DEF m
<1>8. /\ wires' \in [Sides -> [Conns -> Seq(Announcement)]]
      /\ Numbered(s)' /\ Arrives(s)'
      /\ \A u \in Sides, c \in Conns : u # Other[s] => P!ToSet(wires'[u][c]) = P!ToSet(wires[u][c])
  BY <1>1, <1>3, <1>4, <1>5, <1>7, PrimarySent
<1>9. ASSUME NEW t \in Sides, t # s PROVE Numbered(t)' /\ Arrives(t)'
  <2>1. \A c \in Conns : OnWay(t, c)' = OnWay(t, c)
    BY <1>8, <1>9, OtherSideKept
  <2>2. Listed(t) /\ Arrives(t) /\ Numbered(t)
    BY DEF Agreeing
  <2>3. Numbered(t)'
    BY <1>5, <1>9, <2>1, <2>2 DEF Numbered
  <2> QED
    BY <1>1, <1>5, <1>6, <1>9, <2>1, <2>2, <2>3, ArrivesKept
<1>10. TypeInv'
  <2>1. promotions' \in [Sides -> Nat]
    BY <1>1, <1>2 DEF TypeInv
  <2> QED
    BY <1>1, <1>2, <1>8, <2>1 DEF TypeInv
<1>11. \A t \in Sides : Due(t)'
  BY <1>1 DEF Agreeing, Due
<1> QED
  BY <1>6, <1>8, <1>9, <1>10, <1>11 DEF Agreeing

\* What s reads comes from the other side.
LEMMA TakenIs ==
    ASSUME Agreeing, NEW s \in Sides, NEW c \in Conns, P!Take(s, c), wires[s][c] # <<>>
    PROVE  /\ wires' \in [Sides -> [Conns -> Seq(Announcement)]] /\ Head(wires[s][c]) \in OnWay(Other[s], c)
           /\ \A t \in Sides, d \in Conns :
                /\ OnWay(t, d)' \subseteq OnWay(t, d)
                /\ \A m \in OnWay(t, d) : m \in OnWay(t, d)' \/ (t = Other[s] /\ d = c /\ m = Head(wires[s][c]))
<1>1. /\ wires' \in [Sides -> [Conns -> Seq(Announcement)]]
      /\ P!ToSet(wires[s][c]) = {Head(wires[s][c])} \cup P!ToSet(wires'[s][c])
      /\ \A t \in Sides, d \in Conns : t # s \/ d # c => wires'[t][d] = wires[t][d]
  BY TakeIs DEF Agreeing
<1>2. Other[s] \in Sides /\ Other[Other[s]] = s
  BY SidesAssumption
<1>3. Head(wires[s][c]) \in OnWay(Other[s], c)
  BY <1>1, <1>2 DEF OnWay
<1>4. ASSUME NEW t \in Sides, NEW d \in Conns
      PROVE  /\ OnWay(t, d)' \subseteq OnWay(t, d)
             /\ \A m \in OnWay(t, d) : m \in OnWay(t, d)' \/ (t = Other[s] /\ d = c /\ m = Head(wires[s][c]))
  <2>1. Other[t] \in Sides /\ (Other[t] = s => t = Other[s])
    BY SidesAssumption
  <2>2. CASE Other[t] = s /\ d = c
    BY <1>1, <2>1, <2>2 DEF OnWay
  <2>3. CASE ~(Other[t] = s /\ d = c)
    BY <1>1, <2>1, <2>3 DEF OnWay
  <2> QED
    BY <2>2, <2>3
<1> QED
  BY <1>1, <1>3, <1>4

\* A ClusterConfig is taken by the other side. If it is the last one it came on the promoted
\* connection, and so do the handlers; as none that is older was taken after it, none is left.
\* If it is not the last, the last one is still on its way.
LEMMA ReceiveClusterConfigKeeps ==
    ASSUME Agreeing, Timely, NEW s \in Sides, NEW c \in Conns, P!ReceiveClusterConfig(s, c) PROVE Agreeing'
<1> DEFINE o == Other[s]
           k == Head(wires[s][c])
<1>1. /\ UNCHANGED <<link, added, conns, started, promoted, timer, promotions>>
      /\ wires[s][c] # <<>> /\ P!Take(s, c)
      /\ handlers' = IF P!IsPrimary(k) THEN [handlers EXCEPT ![s] = c] ELSE handlers
      /\ \A d \in Conns : \A m \in P!ToSet(wires[s][d]) : P!IsPrimary(m) => m.number >= k.number
  BY DEF P!ReceiveClusterConfig, P!Readable, P!HandlersFor
<1>2. /\ wires' \in [Sides -> [Conns -> Seq(Announcement)]] /\ k \in OnWay(o, c)
      /\ \A t \in Sides, d \in Conns :
           /\ OnWay(t, d)' \subseteq OnWay(t, d)
           /\ \A m \in OnWay(t, d) : m \in OnWay(t, d)' \/ (t = o /\ d = c /\ m = k)
  BY <1>1, TakenIs
<1>3. TypeInv /\ o \in Sides /\ Other[o] = s
  BY SidesAssumption DEF Agreeing
<1>4. TypeInv'
  BY <1>1, <1>2, <1>3 DEF TypeInv
<1>5. \A t \in Sides : Listed(t)' /\ (Leads(t)' <=> Leads(t)) /\ conns[t] \in Seq(Conns)
  BY <1>1, ListsKept
<1>6. \A t \in Sides : Due(t)' /\ Numbered(t)'
  BY <1>1, <1>2 DEF Agreeing, Due, Numbered
<1>7. \A t \in Sides : t # o => Arrives(t)'
  <2> SUFFICES ASSUME NEW t \in Sides, t # o PROVE Arrives(t)'
    OBVIOUS
  <2>1. Other[t] \in Sides /\ Other[t] # s
    BY SidesAssumption
  <2>2. handlers'[Other[t]] = handlers[Other[t]]
    BY <1>1, <1>3, <2>1 DEF TypeInv
  <2>3. \A d \in Conns : OnWay(t, d)' = OnWay(t, d)
    BY <1>2
  <2> QED
    BY <1>1, <1>5, <2>2, <2>3, ArrivesKept DEF Agreeing
<1>8. CASE ~P!IsPrimary(k)
  <2>1. \A d \in Conns : \A m \in OnWay(o, d) : P!IsPrimary(m) => m \in OnWay(o, d)'
    BY <1>2, <1>3, <1>8
  <2>2. Arrives(o)'
    BY <1>1, <1>2, <1>3, <1>5, <1>8, <2>1, ArrivesKept DEF Agreeing
  <2> QED
    BY <1>4, <1>5, <1>6, <1>7, <2>2 DEF Agreeing
<1>9. CASE P!IsPrimary(k)
  <2>1. handlers'[s] = c
    BY <1>1, <1>3, <1>9 DEF TypeInv
  <2> SUFFICES ASSUME Leads(o)
               PROVE  /\ \A d \in Conns : \A m \in OnWay(o, d)' : P!IsPrimary(m) /\ m.number = promotions[o] => d = promoted[o]
                      /\ \/ link[promoted[o]] = "down"
                         \/ \E m \in OnWay(o, promoted[o])' : P!IsPrimary(m) /\ m.number = promotions[o]
                         \/ /\ handlers'[s] = promoted[o]
                            /\ \A d \in Conns : \A m \in OnWay(o, d)' : P!IsPrimary(m) => m.number = promotions[o]
    <3>1. Arrives(o)'
      BY <1>1, <1>3, <1>5 DEF Arrives, P!IsPrimary
    <3> QED
      BY <1>3, <1>4, <1>5, <1>6, <1>7, <3>1 DEF Agreeing
  <2>2. /\ \A d \in Conns : \A m \in OnWay(o, d) : P!IsPrimary(m) /\ m.number = promotions[o] => d = promoted[o]
        /\ \/ link[promoted[o]] = "down"
           \/ \E m \in OnWay(o, promoted[o]) : P!IsPrimary(m) /\ m.number = promotions[o]
           \/ /\ handlers[s] = promoted[o]
              /\ \A d \in Conns : \A m \in OnWay(o, d) : P!IsPrimary(m) => m.number = promotions[o]
    BY <1>3 DEF Agreeing, Arrives
  <2>3. promoted[o] \in Conns
    BY <1>3, <1>5, ListIs DEF Leads
  <2>4. \A d \in Conns : \A m \in OnWay(o, d) : m \in Announcement /\ m.number <= promotions[o]
    <3>1. \A d \in Conns : wires[s][d] \in Seq(Announcement)
      BY <1>3 DEF TypeInv
    <3>2. \A d \in Conns : OnWay(o, d) \subseteq Announcement
      BY <1>3, <3>1, ListIs DEF OnWay
    <3> QED
      BY <1>3, <3>2 DEF Agreeing, Numbered
  <2>5. CASE k.number = promotions[o]
    <3>1. c = promoted[o]
      BY <1>2, <1>9, <2>2, <2>5
    <3>2. ASSUME NEW d \in Conns, NEW m \in OnWay(o, d)', P!IsPrimary(m) PROVE m.number = promotions[o]
      <4>1. m \in OnWay(o, d)
        BY <1>2, <1>3, <3>2
      <4>2. m.number >= promotions[o]
        BY <1>1, <1>3, <2>5, <3>2, <4>1 DEF OnWay
      <4>3. m.number \in Nat /\ promotions[o] \in Nat /\ m.number <= promotions[o]
        BY <1>3, <2>4, <4>1 DEF Announcement, TypeInv
      <4> QED
        BY <4>2, <4>3
    <3> QED
      BY <1>2, <1>3, <2>1, <2>2, <3>1, <3>2
  <2>6. CASE k.number # promotions[o]
    <3>1. ASSUME NEW m \in OnWay(o, promoted[o]), P!IsPrimary(m), m.number = promotions[o]
          PROVE  m \in OnWay(o, promoted[o])'
      <4>1. m # k
        BY <2>6, <3>1
      <4>2. \A x \in OnWay(o, promoted[o]) : x \in OnWay(o, promoted[o])' \/ x = k
        BY <1>1, <1>2, <1>3, <2>3
      <4> QED
        BY <4>1, <4>2
    <3>2. ~(\A d \in Conns : \A m \in OnWay(o, d) : P!IsPrimary(m) => m.number = promotions[o])
      BY <1>2, <1>9, <2>6
    <3>3. link[promoted[o]] = "down" \/ \E m \in OnWay(o, promoted[o])' : P!IsPrimary(m) /\ m.number = promotions[o]
      BY <2>2, <3>1, <3>2
    <3> QED
      BY <1>2, <1>3, <2>2, <3>3
  <2> QED
    BY <2>5, <2>6
<1> QED
  BY <1>8, <1>9

\* Files change without the connections.
LEMMA FilesChangeKeeps == ASSUME Agreeing, NEW s \in Sides, P!FilesChange(s) PROVE Agreeing'
<1>1. UNCHANGED <<link, added, conns, started, promoted, timer, handlers, wires, promotions>>
  BY DEF P!FilesChange, P!model
<1>2. TypeInv'
  BY <1>1 DEF Agreeing, TypeInv
<1>3. \A t \in Sides : Listed(t)' /\ (Leads(t)' <=> Leads(t)) /\ conns[t] \in Seq(Conns)
  BY <1>1, ListsKept
<1>4. \A t \in Sides, c \in Conns : OnWay(t, c)' = OnWay(t, c)
  BY <1>1 DEF OnWay
<1>5. \A t \in Sides : Due(t)' /\ Numbered(t)'
  BY <1>1, <1>4 DEF Agreeing, Due, Numbered
<1>6. \A t \in Sides : Arrives(t)'
  BY <1>1, <1>3, <1>4, ArrivesKept DEF Agreeing
<1> QED
  BY <1>2, <1>3, <1>5, <1>6 DEF Agreeing

\* Index messages are no ClusterConfigs.
LEMMA SendIndexKeeps == ASSUME Agreeing, NEW s \in Sides, P!SendIndex(s) PROVE Agreeing'
<1> DEFINE m == [c \in {handlers[s]} |-> P!Index]
<1>1. UNCHANGED <<link, added, conns, started, promoted, timer, handlers, promotions>> /\ P!Sent(s, m)
  BY DEF P!SendIndex, P!model
<1>2. \A c \in (DOMAIN m) \cap Conns : m[c] \in {P!Secondary, P!Index}
  OBVIOUS
<1> HIDE DEF m
<1>3. /\ wires' \in [Sides -> [Conns -> Seq(Announcement)]]
      /\ \A t \in Sides, c \in Conns :
           /\ \A x \in OnWay(t, c)' : P!IsPrimary(x) => x \in OnWay(t, c)
           /\ \A x \in OnWay(t, c) : x \in OnWay(t, c)'
           /\ \A x \in OnWay(t, c)' : x \in OnWay(t, c) \/ x.number = 0
  BY <1>1, <1>2, OthersSent
<1>4. TypeInv'
  BY <1>1, <1>3 DEF Agreeing, TypeInv
<1>5. \A t \in Sides : Listed(t)' /\ (Leads(t)' <=> Leads(t)) /\ conns[t] \in Seq(Conns)
  BY <1>1, ListsKept
<1>6. \A t \in Sides : Arrives(t)'
  BY <1>1, <1>3, <1>5, ArrivesKept DEF Agreeing
<1>7. \A t \in Sides : Due(t)'
  BY <1>1 DEF Agreeing, Due
<1>8. \A t \in Sides : Numbered(t)'
  <2> SUFFICES ASSUME NEW t \in Sides, NEW c \in Conns, NEW x \in OnWay(t, c)' PROVE x.number <= promotions[t]
    BY <1>1 DEF Numbered
  <2>1. x \in OnWay(t, c) \/ x.number = 0
    BY <1>3
  <2>2. promotions[t] \in Nat
    BY DEF Agreeing, TypeInv
  <2> QED
    BY <2>1, <2>2 DEF Agreeing, Numbered
<1> QED
  BY <1>4, <1>5, <1>6, <1>7, <1>8 DEF Agreeing

\* An index message is taken, which may end its connection.
LEMMA ReceiveIndexKeeps == ASSUME Agreeing, NEW s \in Sides, NEW c \in Conns, P!ReceiveIndex(s, c) PROVE Agreeing'
<1> DEFINE k == Head(wires[s][c])
<1>1. /\ UNCHANGED <<added, conns, started, promoted, timer, handlers, promotions>>
      /\ wires[s][c] # <<>> /\ P!Take(s, c) /\ k.type = "index"
      /\ link' = link \/ link' = [link EXCEPT ![c] = "down"]
  BY DEF P!ReceiveIndex, P!Readable, P!model
<1>2. /\ wires' \in [Sides -> [Conns -> Seq(Announcement)]]
      /\ \A t \in Sides, d \in Conns :
           /\ OnWay(t, d)' \subseteq OnWay(t, d)
           /\ \A m \in OnWay(t, d) : m \in OnWay(t, d)' \/ (t = Other[s] /\ d = c /\ m = k)
  BY <1>1, TakenIs
<1>3. ~P!IsPrimary(k)
  BY <1>1 DEF P!IsPrimary
<1>4. link' \in [Conns -> {"new", "up", "down"}] /\ \A d \in Conns : /\ link[d] = "down" => link'[d] = "down"
                                                                    /\ link[d] # "new" => link'[d] # "new"
  BY <1>1 DEF Agreeing, TypeInv
<1>5. TypeInv'
  BY <1>1, <1>2, <1>4 DEF Agreeing, TypeInv
<1>6. \A t \in Sides : Listed(t)' /\ (Leads(t)' <=> Leads(t)) /\ conns[t] \in Seq(Conns)
  BY <1>1, <1>4, ListsKept
<1>7. \A t \in Sides, d \in Conns : \A m \in OnWay(t, d) : P!IsPrimary(m) => m \in OnWay(t, d)'
  BY <1>2, <1>3
<1>8. \A t \in Sides : Arrives(t)'
  BY <1>1, <1>2, <1>4, <1>6, <1>7, ArrivesKept DEF Agreeing
<1>9. \A t \in Sides : Due(t)' /\ Numbered(t)'
  BY <1>1, <1>2 DEF Agreeing, Due, Numbered
<1> QED
  BY <1>5, <1>6, <1>8, <1>9 DEF Agreeing

\* A connection that is lost leaves the list. If it was the promoted one, a promotion is due;
\* if not, the promoted one remains the first.
LEMMA ClosedKeeps == ASSUME Agreeing, NEW s \in Sides, NEW c \in Conns, P!Closed(s, c) PROVE Agreeing'
<1> DEFINE o == Other[s]
           w == P!Without(conns[s], c)
<1>1. /\ link[c] = "down" /\ c \in P!ToSet(conns[s])
      /\ conns' = [conns EXCEPT ![s] = w]
      /\ timer' = [timer EXCEPT ![s] = timer[s] \/ promoted[s] = c]
      /\ handlers' = [handlers EXCEPT ![s] = IF promoted[s] = c /\ handlers[s] = c THEN None ELSE handlers[s]]
      /\ promoted' = [promoted EXCEPT ![s] = IF Len(conns[s]) = 1 THEN None ELSE promoted[s]]
      /\ wires' = [wires EXCEPT ![s][c] = <<>>]
      /\ UNCHANGED <<link, added, started, promotions>>
  BY DEF P!Closed, P!ToSchedule, Agreeing, TypeInv
<1>2. TypeInv /\ Listed(s) /\ Due(s) /\ conns[s] \in Seq(Conns) /\ o \in Sides /\ Other[o] = s
  BY SidesAssumption DEF Agreeing, TypeInv
<1>3. /\ w \in Seq(Conns) /\ Injective(w) /\ P!ToSet(w) = P!ToSet(conns[s]) \ {c}
      /\ Head(conns[s]) # c => w # <<>> /\ Head(w) = Head(conns[s])
      /\ Len(conns[s]) = 1 => w = <<>>
  BY <1>1, <1>2, WithoutIs DEF Listed
<1> HIDE DEF w
<1>4. /\ conns'[s] = w /\ timer'[s] = (timer[s] \/ promoted[s] = c)
      /\ promoted'[s] = (IF Len(conns[s]) = 1 THEN None ELSE promoted[s])
      /\ handlers'[s] = (IF promoted[s] = c /\ handlers[s] = c THEN None ELSE handlers[s])
      /\ \A t \in Sides \ {s} : /\ conns'[t] = conns[t] /\ timer'[t] = timer[t]
                              /\ promoted'[t] = promoted[t] /\ handlers'[t] = handlers[t]
  BY <1>1, <1>2 DEF TypeInv
<1>5. \A t \in Sides, d \in Conns : wires'[t][d] = IF t = s /\ d = c THEN <<>> ELSE wires[t][d]
  BY <1>1, <1>2 DEF TypeInv
<1>6. TypeInv'
  <2>1. wires' \in [Sides -> [Conns -> Seq(Announcement)]]
    <3>1. <<>> \in Seq(Announcement)
      OBVIOUS
    <3> QED
      BY <1>1, <1>2, <3>1 DEF TypeInv
  <2>2. conns' \in [Sides -> Seq(Conns)] /\ timer' \in [Sides -> BOOLEAN]
    BY <1>1, <1>2, <1>3 DEF TypeInv
  <2>3. promoted' \in [Sides -> Conns \cup {None}]
    <3> DEFINE p == IF Len(conns[s]) = 1 THEN None ELSE promoted[s]
    <3>1. promoted' = [promoted EXCEPT ![s] = p] /\ p \in Conns \cup {None}
      BY <1>1, <1>2 DEF TypeInv
    <3> HIDE DEF p
    <3> QED
      BY <1>2, <3>1 DEF TypeInv
  <2>4. handlers' \in [Sides -> Conns \cup {None}]
    <3> DEFINE h == IF promoted[s] = c /\ handlers[s] = c THEN None ELSE handlers[s]
    <3>1. handlers' = [handlers EXCEPT ![s] = h] /\ h \in Conns \cup {None}
      BY <1>1, <1>2 DEF TypeInv
    <3> HIDE DEF h
    <3> QED
      BY <1>2, <3>1 DEF TypeInv
  <2> QED
    BY <1>1, <1>2, <2>1, <2>2, <2>3, <2>4 DEF TypeInv
<1>7. P!ToSet(w) # {} => w # <<>>
  BY <1>3, ListIs
<1>8. Listed(s)'
  <2>1. promoted'[s] \in P!ToSet(w) => promoted'[s] = Head(w)
    <3> SUFFICES ASSUME promoted'[s] \in P!ToSet(w) PROVE promoted'[s] = Head(w)
      OBVIOUS
    <3>1. promoted'[s] \in Conns
      BY <1>3, ListIs
    <3>2. promoted'[s] = promoted[s]
      <4>1. promoted'[s] # None
        BY <3>1, SidesAssumption
      <4>2. promoted'[s] = IF Len(conns[s]) = 1 THEN None ELSE promoted[s]
        BY <1>4
      <4> QED
        BY <4>1, <4>2
    <3>3. promoted[s] = Head(conns[s]) /\ promoted[s] # c
      BY <1>2, <1>3, <3>2 DEF Listed
    <3> QED
      BY <1>3, <3>2, <3>3
  <2> QED
    BY <1>1, <1>2, <1>3, <1>4, <2>1 DEF Listed
<1>9. \A t \in Sides : t # s => Listed(t)' /\ (Leads(t)' <=> Leads(t)) /\ Due(t)'
  BY <1>1, <1>4 DEF Agreeing, Listed, Leads, Injective, Due
<1>10. Leads(s)' => Leads(s) /\ promoted'[s] = promoted[s]
  <2> SUFFICES ASSUME w # <<>>, promoted'[s] = Head(w) PROVE Leads(s) /\ promoted'[s] = promoted[s]
    BY <1>4 DEF Leads
  <2>1. promoted'[s] \in P!ToSet(w) /\ promoted'[s] = promoted[s]
    <3>1. Head(w) \in P!ToSet(w)
      BY <1>3, ListIs
    <3>2. Len(conns[s]) # 1
      BY <1>3
    <3>3. promoted'[s] = IF Len(conns[s]) = 1 THEN None ELSE promoted[s]
      BY <1>4
    <3> QED
      BY <3>1, <3>2, <3>3
  <2>2. promoted[s] \in P!ToSet(conns[s])
    BY <1>3, <2>1
  <2>3. conns[s] # <<>>
    BY <1>2, <2>2, ListIs
  <2> QED
    BY <1>2, <2>1, <2>2, <2>3 DEF Leads, Listed
<1>11. Due(s)'
  <2> SUFFICES ASSUME w # <<>>, ~timer[s], promoted[s] # c
               PROVE  promoted'[s] = Head(w) /\ P!ToSet(w) \subseteq started[s]
    BY <1>1, <1>4 DEF Due
  <2>1. conns[s] # <<>>
    BY <1>1, <1>2, ListIs
  <2>2. promoted[s] = Head(conns[s]) /\ P!ToSet(conns[s]) \subseteq started[s]
    BY <1>2, <2>1 DEF Due
  <2>3. Head(w) = Head(conns[s]) /\ P!ToSet(w) \subseteq started[s]
    BY <1>3, <2>2
  <2>4. promoted'[s] = IF Len(conns[s]) = 1 THEN None ELSE promoted[s]
    BY <1>4
  <2>5. Len(conns[s]) # 1
    BY <1>3
  <2> QED
    BY <2>2, <2>3, <2>4, <2>5
<1>12. P!ToSet(<<>>) = {}
  BY DEF P!ToSet
<1>13. \A t \in Sides, d \in Conns : OnWay(t, d)' = IF t = o /\ d = c THEN {} ELSE OnWay(t, d)
  <2> SUFFICES ASSUME NEW t \in Sides, NEW d \in Conns
               PROVE  P!ToSet(wires'[Other[t]][d]) = IF t = o /\ d = c THEN {} ELSE P!ToSet(wires[Other[t]][d])
    BY DEF OnWay
  <2>1. Other[t] \in Sides /\ (Other[t] = s <=> t = o)
    BY SidesAssumption
  <2> QED
    BY <1>5, <1>12, <2>1
<1>14. \A t \in Sides : Numbered(t)'
  BY <1>1, <1>13 DEF Agreeing, Numbered
<1>15. \A t \in Sides : Arrives(t)'
  <2> SUFFICES ASSUME NEW t \in Sides PROVE Arrives(t)'
    OBVIOUS
  <2>1. conns[t] \in Seq(Conns) /\ Listed(t) /\ Arrives(t) /\ Other[t] \in Sides
    BY SidesAssumption DEF Agreeing, TypeInv
  <2>2. Leads(t)' => Leads(t) /\ promoted'[t] = promoted[t]
    BY <1>4, <1>9, <1>10
  <2>3. \/ handlers'[Other[t]] = handlers[Other[t]]
        \/ link[handlers[Other[t]]] = "down" /\ handlers[Other[t]] \in Conns
    BY <1>1, <1>4, <2>1
  <2>4. /\ \A d \in Conns : \A m \in OnWay(t, d)' : P!IsPrimary(m) => m \in OnWay(t, d)
        /\ \A d \in Conns : link[d] # "down" => \A m \in OnWay(t, d) : P!IsPrimary(m) => m \in OnWay(t, d)'
    BY <1>1, <1>13
  <2> QED
    BY <1>1, <2>1, <2>2, <2>3, <2>4, ArrivesKept
<1> QED
  BY <1>6, <1>8, <1>9, <1>11, <1>14, <1>15 DEF Agreeing

\* So every step preserves the invariant, as long as ClusterConfigs are handled in their order.
LEMMA NextKeeps == ASSUME Timely PROVE Agreeing /\ [P!Next]_(P!vars) => Agreeing'
<1> SUFFICES ASSUME Agreeing, [P!Next]_(P!vars) PROVE Agreeing'
  OBVIOUS
<1>1. CASE \E c \in Conns : P!Connect(c) \/ P!Lose(c)
  BY <1>1, LinkKeeps
<1>2. CASE \E s \in Sides, c \in Conns : P!AddConnection(s, c)
  BY <1>2, AddConnectionKeeps
<1>3. CASE \E s \in Sides, c \in Conns : P!ReceiveClusterConfig(s, c)
  BY <1>3, ReceiveClusterConfigKeeps
<1>4. CASE \E s \in Sides, c \in Conns : P!ReceiveIndex(s, c)
  BY <1>4, ReceiveIndexKeeps
<1>5. CASE \E s \in Sides, c \in Conns : P!Closed(s, c)
  BY <1>5, ClosedKeeps
<1>6. CASE \E s \in Sides : P!Promote(s)
  BY <1>6, PromoteKeeps
<1>7. CASE \E s \in Sides : P!SendIndex(s)
  BY <1>7, SendIndexKeeps
<1>8. CASE \E s \in Sides : P!ConfigChanges(s)
  BY <1>8, ConfigChangesKeeps
<1>9. CASE \E s \in Sides : P!FilesChange(s)
  BY <1>9, FilesChangeKeeps
<1>10. CASE UNCHANGED P!vars
  BY <1>10 DEF P!vars, Agreeing, TypeInv, Listed, Due, Numbered, Arrives, Leads, OnWay, Injective
<1> QED
  BY <1>1, <1>2, <1>3, <1>4, <1>5, <1>6, <1>7, <1>8, <1>9, <1>10 DEF P!Next

\* In the invariant is what is to be shown: when all is quiet, nothing is on its way or lost.
LEMMA InvariantSuffices == Agreeing => ConnectionsAgree
<1> SUFFICES ASSUME Agreeing PROVE ConnectionsAgree
  OBVIOUS
<1>1. P!PromotedOrDue
  BY DEF Agreeing, Due, P!PromotedOrDue
<1>2. ASSUME P!Quiet, NEW s \in Sides PROVE handlers[s] = promoted[Other[s]]
  <2> DEFINE o == Other[s]
  <2>1. o \in Sides /\ Other[o] = s /\ conns[o] \in Seq(Conns)
    BY SidesAssumption DEF Agreeing, TypeInv
  <2>2. ~timer[o] /\ conns[o] # <<>>
    BY <1>2, <2>1 DEF P!Quiet
  <2>3. Leads(o)
    BY <2>1, <2>2 DEF Agreeing, Due, Leads
  <2>4. promoted[o] \in Conns /\ promoted[o] \in P!ToSet(conns[o])
    BY <2>1, <2>3, ListIs DEF Leads
  <2>5. link[promoted[o]] # "down"
    BY <1>2, <2>1, <2>4 DEF P!Quiet
  <2>6. P!ToSet(<<>>) = {}
    BY DEF P!ToSet
  <2>7. \A c \in Conns : OnWay(o, c) = {}
    BY <1>2, <2>1, <2>6 DEF P!Quiet, OnWay
  <2> QED
    BY <2>1, <2>3, <2>4, <2>5, <2>7 DEF Agreeing, Arrives
<1> QED
  BY <1>1, <1>2 DEF ConnectionsAgree, P!ConnectionsAgree, P!Agreement

\* Across connections that come, are lost and are promoted in any order, with changes of the
\* configuration that send further ClusterConfigs: when both sides are at rest, each has its index
\* handlers on the connection that the other has promoted, if ClusterConfigs that say primary are
\* handled in the order in which they were sent; and a first connection is promoted, or that is due.
THEOREM SidesAgree == ASSUME Timely PROVE P!Spec => []ConnectionsAgree
<1>1. P!Init => Agreeing
  BY InitHolds
<1>2. Agreeing /\ [P!Next]_(P!vars) => Agreeing'
  BY NextKeeps
<1>3. Agreeing => ConnectionsAgree
  BY InvariantSuffices
<1> QED
  BY <1>1, <1>2, <1>3, PTL DEF P!Spec
=============================================================================
