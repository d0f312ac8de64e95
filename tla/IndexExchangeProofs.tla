------------------------ MODULE IndexExchangeProofs ------------------------
(* Proofs about IndexExchange, for every value of its constants.           *)
EXTENDS IndexExchange, TLAPS

----------------------------------------------------------------------------
(* Types.                                                                  *)

\* No entry is an entry too, and the empty index is an index.
LEMMA EntryTypes ==
    /\ NoEntry \in Entry
    /\ NoEntries \in [Files -> Entry]
<1>1. NoEntry \in Entry
  BY DEF NoEntry, Entry
<1> QED
  BY <1>1 DEF NoEntries

\* What the sender is in each of its states.
LEMMA SenderTypes ==
    /\ SenderOff \in Sender
    /\ \A s \in Nat : SenderAt(s) \in Sender
<1>1. SenderOff \in Sender
  BY EntryTypes DEF SenderOff, Sender
<1> QED
  BY <1>1 DEF SenderAt, Sender

\* What is not there has its type too.
LEMMA EmptyTypes ==
    /\ <<>> \in Seq(Message)
    /\ {} \in SUBSET Files /\ {} \in SUBSET Claim
    /\ NoMsg \in Handled("idle")
  BY DEF Handled

\* What R has in hand at each place of its handler, by the kind of the message.
LEMMA HandledTypes ==
    /\ \A m \in Handled("setID") : m \in ClusterConfigMessage
    /\ \A m \in Handled("apply") : m \in IndexMessage
    /\ \A m \in Handled("drop") \cup Handled("resetSeq") : m \in Message
    /\ \A m \in Message : m \in Handled("drop") /\ m \in Handled("resetSeq")
    /\ \A m \in ClusterConfigMessage : m \in Handled("setID")
    /\ \A m \in IndexMessage : m \in Handled("apply")
    /\ \A m \in Message : m.type = "cc" => m \in ClusterConfigMessage
    /\ \A m \in Message : m.type # "cc" => m \in IndexMessage
<1>1. /\ \A m \in Message : m.type = "cc" => m \in ClusterConfigMessage
      /\ \A m \in Message : m.type # "cc" => m \in IndexMessage
  BY DEF Message, ClusterConfigMessage, IndexMessage
<1> QED
  BY <1>1 DEF Handled

\* What S makes of a snapshot is an index message.
LEMMA IndexMsgType ==
    ASSUME NEW snap \in [Files -> Entry], NEW type \in {"index", "update"},
           NEW since \in Nat, NEW upto \in Nat
    PROVE  IndexMsg(type, since, upto, snap) \in IndexMessage
<1> DEFINE ents == [f \in Files |-> IF since < snap[f].seq /\ snap[f].seq <= upto
                                   THEN snap[f] ELSE NoEntry]
<1>1. ents \in [Files -> Entry]
  BY EntryTypes
<1> QED
  BY <1>1 DEF IndexMsg, IndexMessage

\* A message lists files.
LEMMA ListedType == \A m : Listed(m) \subseteq Files
  BY DEF Listed

\* No step makes a variable lose its type.
LEMMA TypeStep == TypeOK /\ [Next]_vars => TypeOK'
<1> SUFFICES ASSUME TypeOK, [Next]_vars PROVE TypeOK'
  OBVIOUS
<1> USE DEF TypeOK
<1>1. ASSUME NEW f \in Files, NEW v \in Vals, LocalChange(f, v)
      PROVE  TypeOK'
  <2>1. local' \in [Files -> Entry] /\ localSeq' \in Nat
    BY <1>1 DEF LocalChange, Entry
  <2> QED
    BY <1>1, <2>1 DEF LocalChange, rVars, claimVars
<1>2. CASE ResetIndex
  <2>1. indexID' \in Nat \ {0}
    BY <1>2 DEF ResetIndex
  <2> QED
    BY <1>2, <2>1, EntryTypes DEF ResetIndex, rVars, claimVars
<1>3. ASSUME NEW c \in claims, StartSender(c) PROVE TypeOK'
  <2>1. StartSequence(c) \in Nat
    BY DEF StartSequence, Claim
  <2> QED
    BY <1>3, <2>1, SenderTypes DEF StartSender, sVars, rVars
<1>4. CASE StartRound
  <2>1. sender' \in Sender
    BY <1>4 DEF StartRound, Sender
  <2> QED
    BY <1>4, <2>1 DEF StartRound, sVars, rVars, claimVars
<1>5. CASE SendBatch
  <2>1. PICK last \in Files :
          LET upto  == sender.snap[last].seq
              batch == IndexMsg(IF sender.initial THEN "index" ELSE "update",
                                sender.pos, upto, sender.snap)
          IN  /\ toR' = Append(toR, batch)
              /\ sender' = IF \E f \in Files : sender.snap[f].seq > upto
                           THEN [sender EXCEPT !.pos = upto, !.initial = FALSE]
                           ELSE SenderAt(upto)
    BY <1>5 DEF SendBatch
  <2> DEFINE upto  == sender.snap[last].seq
             type  == IF sender.initial THEN "index" ELSE "update"
             batch == IndexMsg(type, sender.pos, upto, sender.snap)
  <2>2. sender.snap \in [Files -> Entry] /\ upto \in Nat /\ sender.pos \in Nat
    BY DEF Sender, Entry
  <2>3. batch \in Message
    BY <2>2, IndexMsgType DEF Message
  <2>4. sender' \in Sender
    BY <2>1, <2>2, SenderTypes DEF Sender
  <2>5. toR' \in Seq(Message)
    BY <2>1, <2>3
  <2> QED
    BY <1>5, <2>4, <2>5 DEF SendBatch, sVars, rVars, claimVars
<1>6. CASE Connect
  <2>1. <<ClusterConfigMsg(indexID)>> \in Seq(Message)
    BY DEF ClusterConfigMsg, Message, ClusterConfigMessage
  <2>2. claims' \in SUBSET Claim
    BY <1>6 DEF Connect, Claim
  <2> QED
    BY <1>6, <2>1, <2>2 DEF Connect, sVars, rVars, NoCC
<1>7. CASE Disconnect
  BY <1>7, SenderTypes, EmptyTypes
  DEF Disconnect, LoseConnection, sVars, rVars
<1>8. CASE ReadIndexID
  BY <1>8 DEF ReadIndexID, sVars, rVars
<1>9. CASE ReadMaxSequence
  <2>1. claims' \in SUBSET Claim
    BY <1>9 DEF ReadMaxSequence, Claim
  <2> QED
    BY <1>9, <2>1 DEF ReadMaxSequence, sVars, rVars
<1>10. CASE ReceiveClusterConfig
  <2>1. Head(toR) \in Message /\ Tail(toR) \in Seq(Message)
    BY <1>10 DEF ReceiveClusterConfig, TakeMessage
  <2>2. pc' \in {"idle", "drop"} /\ msg' \in Handled(pc')
    BY <1>10, <2>1, HandledTypes DEF ReceiveClusterConfig, TakeMessage
  <2> QED
    BY <1>10, <2>1, <2>2
    DEF ReceiveClusterConfig, TakeMessage, sVars, claimVars
<1>11. CASE ReceiveIndex
  <2>1. Head(toR) \in Message /\ Tail(toR) \in Seq(Message)
    BY <1>11 DEF ReceiveIndex, TakeMessage
  <2>2. pc' \in {"apply", "drop"} /\ msg' \in Handled(pc')
    BY <1>11, <2>1, HandledTypes DEF ReceiveIndex, TakeMessage
  <2> QED
    BY <1>11, <2>1, <2>2, ListedType
    DEF ReceiveIndex, TakeMessage, sVars, claimVars
<1>12. CASE DropSome
  <2>1. view' \in [Files -> Entry]
    BY <1>12, EntryTypes DEF DropSome
  <2> QED
    BY <1>12, <2>1 DEF DropSome, sVars, claimVars
<1>13. CASE DropFiles
  <2>1. msg' \in Handled(pc')
    BY <1>13, HandledTypes DEF DropFiles
  <2> QED
    BY <1>13, <2>1, EntryTypes DEF DropFiles, sVars, claimVars
<1>14. CASE ResetSequence
  <2>1. msg' \in Handled(pc')
    BY <1>14, HandledTypes DEF ResetSequence
  <2> QED
    BY <1>14, <2>1 DEF ResetSequence, sVars, claimVars
<1>15. CASE SetIndexID
  <2>1. remoteID' \in Nat
    BY <1>15, HandledTypes DEF SetIndexID, ClusterConfigMessage
  <2> QED
    BY <1>15, <2>1, EmptyTypes DEF SetIndexID, Done, sVars, claimVars
<1>16. CASE ApplyEntry
  <2>1. PICK f \in todo :
          /\ todo' = todo \ {f}
          /\ \/ UNCHANGED <<view, memSeq, remote, diskSeq>>
             \/ /\ view' = [view EXCEPT ![f] = msg.ents[f]]
                /\ memSeq' = Larger(memSeq, msg.ents[f].seq)
                /\ Flush \/ UNCHANGED <<remote, diskSeq>>
    BY <1>16 DEF ApplyEntry
  <2>2. msg.ents[f] \in Entry
    BY <1>16, HandledTypes DEF ApplyEntry, IndexMessage
  <2>3. view' \in [Files -> Entry]
    BY <2>1, <2>2
  <2>4. memSeq' \in Nat
    BY <2>1, <2>2 DEF Larger, Entry
  <2> QED
    BY <1>16, <2>1, <2>3, <2>4 DEF ApplyEntry, Flush, sVars, claimVars
<1>17. CASE FlushAtBlockList
  <2>1. PICK f \in todo : memSeq' = Larger(memSeq, msg.ents[f].seq)
    BY <1>17 DEF FlushAtBlockList
  <2>2. msg.ents[f] \in Entry
    BY <1>17, HandledTypes DEF FlushAtBlockList, IndexMessage
  <2>3. memSeq' \in Nat
    BY <2>1, <2>2 DEF Larger, Entry
  <2> QED
    BY <1>17, <2>3 DEF FlushAtBlockList, Flush, sVars, claimVars
<1>18. CASE CommitBatch
  BY <1>18, EmptyTypes DEF CommitBatch, Done, sVars, claimVars
<1>19. CASE Crash
  BY <1>19, SenderTypes, EmptyTypes DEF Crash, Done, LoseConnection, sVars
<1>20. CASE DropDeltaIndexIDs
  BY <1>20 DEF DropDeltaIndexIDs, sVars, claimVars
<1>21. CASE UNCHANGED vars
  BY <1>21 DEF vars, sVars, rVars, claimVars
<1> QED
  BY <1>1, <1>2, <1>3, <1>4, <1>5, <1>6, <1>7, <1>8, <1>9, <1>10, <1>11,
     <1>12, <1>13, <1>14, <1>15, <1>16, <1>17, <1>18, <1>19, <1>20, <1>21
  DEF Next, SenderStep, ReceiverStep, Environment

\* The initial state is type correct.
LEMMA InitialTypes == Init => TypeOK
<1> SUFFICES ASSUME Init PROVE TypeOK
  OBVIOUS
<1>1. msg \in Handled(pc) /\ toR \in Seq(Message) /\ claims \in SUBSET Claim
  BY EmptyTypes DEF Init
<1>2. sender \in Sender /\ up \in BOOLEAN
  BY SenderTypes DEF Init
<1>3. {local, remote, view} \subseteq [Files -> Entry]
  BY EntryTypes DEF Init
<1> QED
  BY <1>1, <1>2, <1>3 DEF Init, TypeOK

\* Every variable keeps its type: sequence numbers and IDs stay natural
\* numbers, entries stay entries, in S, in R and in every message.
THEOREM TypeCorrect == Spec => []TypeOK
  BY InitialTypes, TypeStep, PTL DEF Spec

----------------------------------------------------------------------------
(* The inductive invariant: facts about its parts.                         *)

\* The fields of an index message.
LEMMA IndexMessageTypes ==
    \A m \in IndexMessage :
        /\ m.type \in {"index", "update"} /\ IsIndex(m)
        /\ m.since \in Nat /\ m.upto \in Nat
        /\ m.ents \in [Files -> Entry]
        /\ \A f \in Files : m.ents[f] \in Entry /\ m.ents[f].seq \in Nat
  BY DEF IndexMessage, Entry, IsIndex

\* What is on its way to R, and in its hand, are messages.
LEMMA MessageTypes ==
    ASSUME TypeOK
    PROVE  /\ \A i \in 1..Len(toR) :
                /\ toR[i] \in Message
                /\ IsIndex(toR[i]) => toR[i] \in IndexMessage
                /\ ~IsIndex(toR[i]) => toR[i].type = "cc"
           /\ pc # "idle" => msg \in Message
           /\ pc # "idle" /\ IsIndex(msg) => msg \in IndexMessage
           /\ pc # "idle" /\ ~IsIndex(msg) => msg \in ClusterConfigMessage
           /\ pc = "apply" => IsIndex(msg)
           /\ pc = "setID" => msg.type = "cc"
           /\ pc = "idle" <=> msg = NoMsg
<1>1. \A m \in Message : /\ IsIndex(m) => m \in IndexMessage
                         /\ ~IsIndex(m) => m.type = "cc" /\ m \in ClusterConfigMessage
                         /\ m # NoMsg
  BY DEF Message, IndexMessage, ClusterConfigMessage, IsIndex, NoMsg
<1>2. \A i \in 1..Len(toR) : toR[i] \in Message
  BY DEF TypeOK
<1>3. /\ pc \in {"idle", "drop", "resetSeq", "setID", "apply"}
      /\ msg \in Handled(pc)
  BY DEF TypeOK
<1>4. /\ pc # "idle" => msg \in Message
      /\ pc = "apply" => msg \in IndexMessage
      /\ pc = "setID" => msg \in ClusterConfigMessage
      /\ pc = "idle" => msg = NoMsg
  BY <1>3 DEF Handled, Message
<1>5. pc = "setID" => msg.type = "cc"
  BY <1>4 DEF ClusterConfigMessage
<1>6. pc = "apply" => IsIndex(msg)
  BY <1>4, IndexMessageTypes
<1> QED
  BY <1>1, <1>2, <1>4, <1>5, <1>6

\* The numbers that are compared are natural numbers.
LEMMA NumberTypes ==
    ASSUME TypeOK
    PROVE  /\ \A f \in Files : /\ local[f].seq \in Nat /\ view[f].seq \in Nat
                               /\ remote[f].seq \in Nat
                               /\ sender.snap[f].seq \in Nat
           /\ sender.prev \in Nat /\ sender.pos \in Nat
           /\ SenderLevel \in Nat
           /\ localSeq \in Nat /\ memSeq \in Nat /\ diskSeq \in Nat
           /\ indexID \in Nat /\ remoteID \in Nat
<1>1. sender.prev \in Nat /\ sender.pos \in Nat /\ sender.snap \in [Files -> Entry]
      /\ sender.round \in BOOLEAN
  BY DEF TypeOK, Sender
<1> QED
  BY <1>1 DEF TypeOK, Entry, SenderLevel

\* Where the next index message starts is a number S has reached.
LEMMA NextSinceBound ==
    ASSUME TypeOK, SenderInv, ChannelInv
    PROVE  NextSince \in Nat /\ NextSince <= localSeq
<1>1. CASE \E i \in 1..Len(toR) : IsIndex(toR[i])
  <2>1. PICK i \in 1..Len(toR) : IsIndex(toR[i])
    BY <1>1
  <2>2. toR \in Seq(Message) /\ Len(toR) \in Nat
    BY DEF TypeOK
  <2>3. 1 \in 1..Len(toR)
    BY <2>1, <2>2
  <2>4. ~IsIndex(toR[1]) => 2 \in 1..Len(toR)
    BY <2>1, <2>2
  <2>5. \A k \in 1..Len(toR) : toR[k].type = "cc" => k = 1
    BY DEF ChannelInv
  <2>6. ~IsIndex(toR[1]) => IsIndex(toR[2])
    BY <2>4, <2>5, MessageTypes
  <2>7. PICK k \in 1..Len(toR) : IsIndex(toR[k]) /\ NextSince = toR[k].since
    BY <2>1, <2>3, <2>4, <2>6 DEF NextSince
  <2>8. Complete(toR[k]) /\ toR[k] \in IndexMessage
    BY <2>7, MessageTypes DEF ChannelInv
  <2> QED
    BY <2>7, <2>8, IndexMessageTypes, NumberTypes DEF Complete
<1>2. CASE ~\E i \in 1..Len(toR) : IsIndex(toR[i])
  BY <1>2, NumberTypes DEF NextSince, SenderInv
<1> QED
  BY <1>1, <1>2

----------------------------------------------------------------------------
(* The inductive invariant: one lemma per action.                          *)

\* A message has all that S has up to its number also after a change at S, which gets a new number.
LEMMA CompleteKept ==
    ASSUME TypeOK, IndexInv, NEW f \in Files, NEW v \in Vals,
           LocalChange(f, v), NEW m \in IndexMessage, Complete(m)
    PROVE  Complete(m)'
<1>1. \A g \in Files : local[g] \in Entry /\ m.ents[g] \in Entry
  BY DEF TypeOK, IndexMessage
<1>2. local' = [local EXCEPT ![f] = [val |-> v, seq |-> localSeq + 1]]
      /\ localSeq' = localSeq + 1 /\ localSeq \in Nat
  BY DEF LocalChange, TypeOK
<1>3. \A g \in Files : g # f => local'[g] = local[g]
  BY <1>2 DEF TypeOK
<1>4. local'[f] = [val |-> v, seq |-> localSeq + 1]
  BY <1>2 DEF TypeOK
<1>5. m.since \in Nat /\ m.upto \in Nat
  BY DEF IndexMessage
<1> QED
  BY <1>1, <1>2, <1>3, <1>4, <1>5 DEF Complete, Distinct, Entry

\* A change of a file of S keeps the invariant.
LEMMA LocalChangeKeeps ==
    ASSUME IInv, TypeOK', NEW f \in Files, NEW v \in Vals, LocalChange(f, v)
    PROVE  IInv'
<1> USE DEF IInv
<1>1. local' = [local EXCEPT ![f] = [val |-> v, seq |-> localSeq + 1]]
      /\ localSeq' = localSeq + 1 /\ localSeq \in Nat
      /\ UNCHANGED <<indexID, sender, rVars, up, conns, toR, claimVars>>
  BY DEF LocalChange, TypeOK
<1>2. local'[f] = [val |-> v, seq |-> localSeq + 1]
      /\ \A g \in Files : g # f => local'[g] = local[g]
  BY <1>1 DEF TypeOK
<1>3. \A g \in Files : /\ local[g].seq \in Nat /\ local'[g].seq \in Nat
                       /\ local'[g].seq >= local[g].seq
  BY <1>1, <1>2, NumberTypes DEF IndexInv
<1>4. ASSUME NEW r, NEW k \in Nat, k <= localSeq, Knows(r, k)
      PROVE  Knows(r, k)'
  BY <1>1, <1>2, <1>4 DEF Knows
<1>5. IndexInv'
  BY <1>1, <1>2, <1>3 DEF IndexInv, Distinct
<1>6. SenderInv'
  <2>1. SenderLevel' = SenderLevel
    BY <1>1 DEF SenderLevel
  <2>2. ASSUME sender.round PROVE
            \A g, h \in Files :
               local'[g].seq <= sender.snap[h].seq => sender.snap[g] = local'[g]
    BY <1>1, <1>2, <1>3, <2>2, NumberTypes DEF SenderInv, IndexInv
  <2>3. ASSUME sender.round PROVE
            \A g \in Files : sender.snap[g].seq <= local'[g].seq
    BY <1>3, <2>3, NumberTypes DEF SenderInv
  <2> QED
    BY <1>1, <2>1, <2>2, <2>3, NumberTypes DEF SenderInv, Distinct
<1>7. ChannelInv'
  BY <1>1, CompleteKept, HandledTypes DEF ChannelInv, IsIndex, SenderLevel, TypeOK
<1>8. ReadyInv'
  <2>1. NextSince' = NextSince /\ Handling' = Handling
    BY <1>1 DEF NextSince, IsIndex, SenderLevel, Handling, rVars
  <2>2. Knows(view, NextSince) => Knows(view, NextSince)'
    BY <1>1, <1>2, <2>1, NextSinceBound DEF Knows, rVars
  <2> QED
    BY <1>1, <2>1, <2>2 DEF ReadyInv, rVars
<1>9. ClaimInv'
  BY <1>1 DEF ClaimInv, claimVars, rVars, Handling
<1>10. HandlingInv'
  <2>1. Handling => msg \in IndexMessage
    BY MessageTypes DEF Handling
  <2>2. Handling /\ Complete(msg) => Complete(msg)'
    BY <1>1, <2>1, CompleteKept DEF rVars
  <2> QED
    BY <1>1, <2>2 DEF HandlingInv, Handling, IsIndex, Listed, rVars
<1>11. StoreInv'
  <2>1. Knows(remote, diskSeq) /\ diskSeq <= localSeq => Knows(remote, diskSeq)'
    BY <1>1, <1>2, NumberTypes DEF Knows, rVars
  <2>2. ASSUME pc = "apply", remoteID = indexID
        PROVE  \A g \in Files \ todo :
                 local'[g].seq \in 1..msg.upto => view[g].val = local'[g].val
    <3>1. msg \in IndexMessage /\ Complete(msg)
      BY <2>2, MessageTypes DEF HandlingInv, Handling
    <3>2. msg.upto \in Nat /\ msg.upto <= localSeq
      BY <3>1, IndexMessageTypes DEF Complete
    <3> QED
      BY <1>1, <1>2, <2>2, <3>2 DEF StoreInv
  <2> QED
    BY <1>1, <2>1, <2>2, NumberTypes DEF StoreInv, rVars, Listed
<1> QED
  BY <1>5, <1>6, <1>7, <1>8, <1>9, <1>10, <1>11

\* A new database of S keeps the invariant.
LEMMA ResetIndexKeeps ==
    ASSUME IInv, TypeOK', ResetIndex PROVE IInv'
<1> USE DEF IInv
<1>1. /\ ~up /\ indexID' = indexID + 1
      /\ UNCHANGED <<sender, rVars, up, conns, toR, claimVars>>
  BY DEF ResetIndex
<1>2. /\ sender = SenderOff /\ toR = <<>> /\ claims = {}
      /\ remoteID <= indexID /\ remoteID # indexID'
  BY <1>1, NumberTypes DEF SenderInv, ChannelInv, ClaimInv, HandlingInv
<1>3. \/ local' = NoEntries /\ localSeq' = 0
      \/ local' = local /\ localSeq' = localSeq
  BY SMT DEF ResetIndex
<1>4. IndexInv'
  BY <1>3 DEF IndexInv, Distinct, NoEntries, NoEntry
<1>5. SenderInv'
  BY <1>1, <1>2, <1>3, NumberTypes DEF SenderInv, SenderLevel, SenderOff
<1>6. ChannelInv' /\ ClaimInv' /\ ReadyInv'
  BY <1>1, <1>2, NumberTypes
  DEF ChannelInv, ClaimInv, ReadyInv, SenderOff, claimVars
<1>7. HandlingInv'
  <2>1. Handling' = Handling
    BY <1>1 DEF Handling, IsIndex, rVars
  <2>2. msg.type = "cc" => msg.id <= indexID'
    <3>1. CASE pc = "idle"
      BY <3>1, MessageTypes DEF NoMsg
    <3>2. CASE pc # "idle"
      BY <1>1, <3>2, NumberTypes, MessageTypes
      DEF HandlingInv, IsIndex, ClusterConfigMessage
    <3> QED
      BY <3>1, <3>2
  <2> QED
    BY <1>1, <1>2, <2>1, <2>2, NumberTypes DEF HandlingInv, Listed, rVars
<1>8. StoreInv'
  BY <1>1, <1>2, NumberTypes DEF StoreInv, rVars
<1> QED
  BY <1>4, <1>5, <1>6, <1>7, <1>8

\* The start of the sender keeps it: it takes what R has claimed.
LEMMA StartSenderKeeps ==
    ASSUME IInv, TypeOK', NEW c \in claims, StartSender(c) PROVE IInv'
<1> USE DEF IInv
<1>1. /\ up /\ claims' = claims \ {c} /\ sender' = SenderAt(StartSequence(c))
      /\ UNCHANGED <<sVars, rVars, up, conns, toR, ccID, resends>>
  BY DEF StartSender
<1>2. /\ ~sender.on /\ ~Handling /\ claims' = {} /\ ccID = NoCC
      /\ \A i \in 1..Len(toR) : ~IsIndex(toR[i])
  BY <1>1 DEF ClaimInv, ChannelInv
<1>3. pc # "apply" /\ remote = view /\ diskSeq = memSeq
  BY <1>2, MessageTypes DEF Handling, StoreInv
<1>4. /\ StartSequence(c) \in Nat /\ StartSequence(c) <= localSeq
      /\ remoteID = indexID => StartSequence(c) = memSeq
      /\ remoteID # indexID => StartSequence(c) = 0
  <2>1. c.seq \in Nat /\ c.id \in Nat
    BY DEF TypeOK, Claim
  <2> QED
    BY <2>1, NumberTypes DEF StartSequence, ClaimInv, StoreInv
<1>5. /\ sender'.on /\ ~sender'.round /\ SenderLevel' = StartSequence(c)
      /\ NextSince' = StartSequence(c)
  BY <1>1, <1>2 DEF SenderAt, SenderOff, SenderLevel, NextSince, IsIndex
<1>6. IndexInv' /\ StoreInv'
  BY <1>1 DEF IndexInv, StoreInv, Distinct, Knows, Listed, sVars, rVars
<1>7. SenderInv'
  BY <1>1, <1>4, <1>5 DEF SenderInv, sVars
<1>8. ChannelInv'
  BY <1>1, <1>2 DEF ChannelInv, IsIndex, sVars
<1>9. ClaimInv'
  BY <1>1, <1>2 DEF ClaimInv
<1>10. ReadyInv'
  <2>1. Handling' = Handling
    BY <1>1 DEF Handling, IsIndex, rVars
  <2>2. remoteID = indexID => Knows(view, StartSequence(c))
    BY <1>3, <1>4 DEF StoreInv
  <2> QED
    BY <1>1, <1>2, <1>4, <1>5, <2>1, <2>2, NumberTypes DEF ReadyInv, Knows, sVars, rVars
<1>11. HandlingInv'
  BY <1>1, <1>2, <1>5 DEF HandlingInv, Handling, IsIndex, Listed, Complete,
                          Distinct, sVars, rVars
<1> QED
  BY <1>6, <1>7, <1>8, <1>9, <1>10, <1>11

\* The start of a round keeps it.
LEMMA StartRoundKeeps ==
    ASSUME IInv, TypeOK', StartRound PROVE IInv'
<1> USE DEF IInv
<1>1. /\ sender.on /\ ~sender.round
      /\ sender' = [sender EXCEPT !.round = TRUE, !.pos = sender.prev,
                        !.initial = (sender.prev = 0), !.snap = local]
      /\ UNCHANGED <<sVars, rVars, up, conns, toR, claimVars>>
  BY DEF StartRound
<1>2. /\ sender'.on /\ sender'.round /\ sender'.pos = sender.prev
      /\ sender'.initial = (sender.prev = 0) /\ sender'.snap = local
  BY <1>1 DEF TypeOK, Sender
<1>3. SenderLevel' = SenderLevel /\ SenderLevel = sender.prev
  BY <1>1, <1>2 DEF SenderLevel
<1>4. NextSince' = NextSince /\ Handling' = Handling
  BY <1>1, <1>3 DEF NextSince, IsIndex, Handling, rVars
<1>5. IndexInv' /\ StoreInv'
  BY <1>1 DEF IndexInv, StoreInv, Distinct, Knows, Listed, sVars, rVars
<1>6. SenderInv'
  <2>1. Distinct(local) /\ SenderLevel <= localSeq
    BY DEF IndexInv, SenderInv
  <2>2. local' = local /\ localSeq' = localSeq /\ up' = up /\ up
    BY <1>1 DEF sVars, SenderInv
  <2>3. sender'.initial <=> sender'.pos = 0
    BY <1>2
  <2>4. Distinct(sender.snap)'
    BY <1>2, <2>1 DEF Distinct
  <2>5. /\ \A f \in Files : sender'.snap[f].seq <= local'[f].seq
        /\ \A f, g \in Files : local'[f].seq <= sender'.snap[g].seq
                              => sender'.snap[f] = local'[f]
    BY <1>2, <2>2, NumberTypes
  <2> QED
    BY <1>2, <1>3, <2>1, <2>2, <2>3, <2>4, <2>5 DEF SenderInv
<1>7. ChannelInv'
  BY <1>1, <1>2, <1>3 DEF ChannelInv, IsIndex, Complete, Distinct, sVars
<1>8. ClaimInv'
  BY <1>1, <1>2 DEF ClaimInv, claimVars
<1>9. ReadyInv'
  BY <1>1, <1>2, <1>4 DEF ReadyInv, Knows, sVars, rVars
<1>10. HandlingInv'
  BY <1>1, <1>2, <1>4 DEF HandlingInv, Handling, IsIndex, Listed, Complete,
                          Distinct, sVars, rVars
<1> QED
  BY <1>5, <1>6, <1>7, <1>8, <1>9, <1>10

\* A batch that is sent keeps it, whether it is the last of its round or not.
LEMMA SendBatchKeeps ==
    ASSUME IInv, TypeOK', SendBatch PROVE IInv'
<1> USE DEF IInv
<1>1. PICK last \in Files :
        LET u     == sender.snap[last].seq
            batch == IndexMsg(IF sender.initial THEN "index" ELSE "update",
                              sender.pos, u, sender.snap)
        IN  /\ u > sender.pos
            /\ toR' = Append(toR, batch)
            /\ sender' = IF \E f \in Files : sender.snap[f].seq > u
                         THEN [sender EXCEPT !.pos = u, !.initial = FALSE]
                         ELSE SenderAt(u)
  BY DEF SendBatch
<1> DEFINE u    == sender.snap[last].seq
           type == IF sender.initial THEN "index" ELSE "update"
           m    == IndexMsg(type, sender.pos, u, sender.snap)
<1>2. /\ sender.round /\ UNCHANGED <<sVars, rVars, up, conns, claimVars>>
      /\ local' = local /\ localSeq' = localSeq /\ indexID' = indexID
      /\ view' = view /\ memSeq' = memSeq /\ remoteID' = remoteID
      /\ pc' = pc /\ msg' = msg /\ todo' = todo /\ claims' = claims
  BY DEF SendBatch, sVars, rVars, claimVars
<1>3. /\ sender.snap \in [Files -> Entry] /\ sender.pos \in Nat /\ u \in Nat
      /\ u > sender.pos /\ sender.on /\ up
      /\ sender.initial <=> sender.pos = 0
      /\ SenderLevel = sender.pos
  <2>1. sender.on
    BY <1>2 DEF SenderInv, SenderOff
  <2> QED
    BY <1>1, <1>2, <2>1, NumberTypes DEF TypeOK, Sender, SenderInv, SenderLevel
<1>4. m \in IndexMessage /\ IsIndex(m)
  BY <1>3, IndexMsgType, IndexMessageTypes
<1>5. /\ m.type = type /\ m.since = sender.pos /\ m.upto = u
      /\ m.ents = [f \in Files |->
            IF sender.pos < sender.snap[f].seq /\ sender.snap[f].seq <= u
            THEN sender.snap[f] ELSE NoEntry]
  BY DEF IndexMsg
<1>6. Complete(m)
  <2>1. m.upto <= localSeq
    BY <1>2, <1>3, <1>5, NumberTypes DEF SenderInv, IndexInv
  <2>2. m.type = "index" <=> m.since = 0
    BY <1>3, <1>5
  <2>3. Distinct(m.ents)
    BY <1>2, <1>5, NumberTypes DEF Distinct, SenderInv, NoEntry
  <2>4. ASSUME NEW f \in Files
        PROVE  /\ m.ents[f].seq > 0 => m.ents[f].seq \in m.since + 1 .. m.upto
               /\ m.ents[f].seq <= local[f].seq
               /\ local[f].seq \in m.since + 1 .. m.upto => m.ents[f] = local[f]
    BY <1>2, <1>3, <1>5, NumberTypes DEF SenderInv, NoEntry
  <2> QED
    BY <1>3, <1>5, <2>1, <2>2, <2>3, <2>4 DEF Complete
<1>7. /\ sender'.on /\ SenderLevel' = u
      /\ sender'.round => /\ ~sender'.initial /\ sender'.pos = u
                          /\ sender'.snap = sender.snap
  <2>1. CASE \E f \in Files : sender.snap[f].seq > u
    <3>1. sender' = [sender EXCEPT !.pos = u, !.initial = FALSE]
      BY <1>1, <2>1
    <3> QED
      BY <1>2, <1>3, <3>1 DEF SenderLevel, TypeOK, Sender
  <2>2. CASE ~\E f \in Files : sender.snap[f].seq > u
    <3>1. sender' = SenderAt(u)
      BY <1>1, <2>2
    <3> QED
      BY <3>1 DEF SenderLevel, SenderAt, SenderOff
  <2> QED
    BY <2>1, <2>2
<1>8. /\ toR' = Append(toR, m) /\ toR \in Seq(Message) /\ Len(toR) \in Nat
      /\ Len(toR') = Len(toR) + 1 /\ toR'[Len(toR) + 1] = m
      /\ \A i \in 1..Len(toR) : toR'[i] = toR[i]
  BY <1>1, <1>4 DEF TypeOK, Message
<1>9. \A x : Complete(x)' <=> Complete(x)
  BY <1>2 DEF Complete, Distinct
<1>10. (\A i \in 1..Len(toR) : ~IsIndex(toR[i])) => Len(toR) <= 1
  <2> SUFFICES ASSUME \A i \in 1..Len(toR) : ~IsIndex(toR[i]), Len(toR) > 1
               PROVE  FALSE
    BY <1>8
  <2>1. 2 \in 1..Len(toR)
    BY <1>8
  <2> QED
    BY <2>1, MessageTypes DEF ChannelInv
<1>11. NextSince' = NextSince
  <2>1. CASE \E i \in 1..Len(toR) : IsIndex(toR[i])
    <3>1. 1 \in 1..Len(toR) /\ (~IsIndex(toR[1]) => 2 \in 1..Len(toR))
      BY <1>8, <2>1
    <3>2. \E i \in 1..Len(toR') : IsIndex(toR'[i])
      BY <1>8, <2>1
    <3> QED
      BY <1>8, <2>1, <3>1, <3>2 DEF NextSince, IsIndex
  <2>2. CASE \A i \in 1..Len(toR) : ~IsIndex(toR[i])
    <3>1. NextSince = sender.pos
      BY <1>3, <2>2 DEF NextSince
    <3>2. Len(toR) = 0 \/ (Len(toR) = 1 /\ ~IsIndex(toR'[1]))
      <4>1. Len(toR) \in Nat /\ Len(toR) <= 1
        BY <1>8, <1>10, <2>2
      <4>2. Len(toR) = 1 => 1 \in 1..Len(toR)
        OBVIOUS
      <4>3. Len(toR) = 1 => toR'[1] = toR[1] /\ ~IsIndex(toR[1])
        BY <1>8, <2>2, <4>2
      <4>4. \A n \in Nat : n <= 1 => n = 0 \/ n = 1
        OBVIOUS
      <4> QED
        BY <4>1, <4>3, <4>4
    <3>3. Len(toR) + 1 \in 1..Len(toR') /\ IsIndex(toR'[Len(toR) + 1])
      BY <1>4, <1>8
    <3> QED
      BY <1>4, <1>5, <1>8, <3>1, <3>2, <3>3 DEF NextSince, IsIndex
  <2> QED
    BY <2>1, <2>2
<1>12. Handling' = Handling
  BY <1>2 DEF Handling, IsIndex
<1>13. IndexInv' /\ StoreInv'
  BY <1>2 DEF IndexInv, StoreInv, Distinct, Knows, Listed, sVars, rVars
<1>14. SenderInv'
  <2>1. u <= localSeq
    BY <1>5, <1>6 DEF Complete
  <2> QED
    BY <1>2, <1>3, <1>7, <2>1 DEF SenderInv, Distinct
<1>15. ChannelInv'
  <2> SUFFICES ASSUME NEW i \in 1..Len(toR')
               PROVE  /\ toR'[i].type = "cc" => i = 1 /\ toR'[i].id = indexID
                      /\ IsIndex(toR'[i]) => Complete(toR'[i])
                      /\ IsIndex(toR'[i]) /\ i < Len(toR')
                         => toR'[i + 1].since = toR'[i].upto
                      /\ IsIndex(toR'[i]) /\ i = Len(toR') => toR'[i].upto = u
    BY <1>2, <1>3, <1>7, <1>9 DEF ChannelInv, IsIndex
  <2>1. CASE i <= Len(toR)
    <3>1. i \in 1..Len(toR) /\ toR'[i] = toR[i] /\ i # Len(toR')
      BY <1>8, <2>1
    <3>2. i < Len(toR) => i + 1 \in 1..Len(toR)
      BY <1>8, <3>1
    <3>3. IsIndex(toR[i]) => toR'[i + 1].since = toR[i].upto
      BY <1>3, <1>5, <1>8, <3>1, <3>2 DEF ChannelInv
    <3> QED
      BY <3>1, <3>3 DEF ChannelInv, IsIndex
  <2>2. CASE i = Len(toR) + 1
    <3>1. toR'[i] = m /\ ~(i < Len(toR'))
      BY <1>8, <2>2
    <3>2. m.type # "cc"
      BY <1>5
    <3> QED
      BY <1>5, <1>6, <3>1, <3>2
  <2> QED
    BY <1>8, <2>1, <2>2
<1>16. ClaimInv'
  BY <1>2, <1>3, <1>12 DEF ClaimInv, claimVars
<1>17. ReadyInv'
  BY <1>2, <1>3, <1>11, <1>12 DEF ReadyInv, Knows
<1>18. HandlingInv'
  <2>1. Handling => \A i \in 1..Len(toR') : IsIndex(toR'[i])
    BY <1>4, <1>8 DEF HandlingInv, IsIndex
  <2>2. (\A i \in 1..Len(toR') : IsIndex(toR'[i]))
        => \A i \in 1..Len(toR) : IsIndex(toR[i])
    BY <1>8 DEF IsIndex
  <2> QED
    BY <1>2, <1>7, <1>9, <1>12, <2>1, <2>2
    DEF HandlingInv, Handling, IsIndex, Listed
<1> QED
  BY <1>13, <1>14, <1>15, <1>16, <1>17, <1>18

\* A new connection keeps it.
LEMMA ConnectKeeps ==
    ASSUME IInv, TypeOK', Connect PROVE IInv'
<1> USE DEF IInv
<1>1. /\ ~up /\ pc = "idle" /\ up'
      /\ toR' = <<ClusterConfigMsg(indexID)>>
      /\ claims' = {[n |-> 0, id |-> remoteID, seq |-> memSeq]}
      /\ ccID' = NoCC
      /\ UNCHANGED <<sVars, sender, rVars>>
  BY DEF Connect
<1>2. /\ ~sender.on /\ sender = SenderOff /\ msg = NoMsg
      /\ remote = view /\ diskSeq = memSeq
  BY <1>1, MessageTypes DEF SenderInv, StoreInv
<1>3. Len(toR') = 1 /\ toR'[1].type = "cc" /\ toR'[1].id = indexID
  BY <1>1 DEF ClusterConfigMsg
<1>4. ~IsIndex(toR'[1])
  BY <1>3 DEF IsIndex
<1>5. IndexInv' /\ StoreInv'
  BY <1>1 DEF IndexInv, StoreInv, Distinct, Knows, Listed, sVars, rVars
<1>6. SenderInv' /\ ReadyInv'
  BY <1>1, <1>2 DEF SenderInv, ReadyInv, SenderLevel, SenderOff, Distinct, sVars
<1>7. ChannelInv'
  BY <1>1, <1>3, <1>4 DEF ChannelInv, IsIndex, sVars
<1>8. ~Handling'
  BY <1>1, <1>2 DEF Handling, rVars
<1>9. ClaimInv'
  BY <1>1, <1>2, <1>8 DEF ClaimInv, sVars, rVars
<1>10. HandlingInv'
  BY <1>1, <1>2, <1>3, <1>4, <1>8 DEF HandlingInv, IsIndex, NoMsg, sVars, rVars
<1> QED
  BY <1>5, <1>6, <1>7, <1>9, <1>10

\* Losing the connection empties everything that belongs to it.
LEMMA LostConnection ==
    ASSUME LoseConnection
    PROVE  /\ ~up' /\ toR' = <<>> /\ claims' = {} /\ ccID' = NoCC
           /\ sender' = SenderOff /\ ~sender'.on /\ ~sender'.round
           /\ SenderLevel' = 0
  BY DEF LoseConnection, SenderOff, SenderLevel

\* A lost connection keeps it.
LEMMA DisconnectKeeps ==
    ASSUME IInv, TypeOK', Disconnect PROVE IInv'
<1> USE DEF IInv
<1>1. LoseConnection /\ UNCHANGED <<sVars, rVars, conns>>
  BY DEF Disconnect
<1>2. IndexInv' /\ StoreInv'
  BY <1>1 DEF IndexInv, StoreInv, Distinct, Knows, Listed, sVars, rVars
<1>3. SenderInv' /\ ReadyInv' /\ ChannelInv' /\ ClaimInv'
  BY <1>1, LostConnection, NumberTypes
  DEF SenderInv, ReadyInv, ChannelInv, ClaimInv, sVars
<1>4. HandlingInv'
  BY <1>1, LostConnection
  DEF HandlingInv, Handling, IsIndex, Complete, Distinct, Listed, sVars, rVars
<1> QED
  BY <1>2, <1>3, <1>4

\* A crash keeps it: R claims what its disk says.
LEMMA CrashKeeps ==
    ASSUME IInv, TypeOK', Crash PROVE IInv'
<1> USE DEF IInv
<1>1. /\ LoseConnection /\ UNCHANGED <<sVars, remote, diskSeq, remoteID, conns>>
      /\ view' = remote /\ memSeq' = diskSeq
      /\ pc' = "idle" /\ msg' = NoMsg
  BY DEF Crash, Done
<1>2. IndexInv'
  BY <1>1 DEF IndexInv, Distinct, sVars
<1>3. SenderInv' /\ ReadyInv' /\ ChannelInv' /\ ClaimInv'
  BY <1>1, LostConnection, NumberTypes
  DEF SenderInv, ReadyInv, ChannelInv, ClaimInv, sVars
<1>4. HandlingInv'
  BY <1>1, LostConnection DEF HandlingInv, Handling, NoMsg, sVars
<1>5. StoreInv'
  BY <1>1, NumberTypes DEF StoreInv, Knows, sVars
<1> QED
  BY <1>2, <1>3, <1>4, <1>5

\* The drop of the index IDs keeps it.
LEMMA DropDeltaIndexIDsKeeps ==
    ASSUME IInv, TypeOK', DropDeltaIndexIDs PROVE IInv'
<1> USE DEF IInv
<1>1. /\ ~up /\ pc = "idle" /\ remoteID' = 0
      /\ UNCHANGED <<sVars, sender, remote, diskSeq, view, memSeq, pc, msg, todo,
                     up, conns, toR, claimVars>>
  BY DEF DropDeltaIndexIDs
<1>2. indexID # 0 /\ ~sender.on /\ claims = {} /\ toR = <<>>
  BY <1>1 DEF TypeOK, SenderInv, ClaimInv, ChannelInv
<1>3. IndexInv' /\ SenderInv' /\ ChannelInv' /\ ClaimInv' /\ ReadyInv'
  BY <1>1, <1>2
  DEF IndexInv, SenderInv, SenderLevel, ChannelInv, ClaimInv, ReadyInv, Distinct,
      sVars, claimVars
<1>4. HandlingInv' /\ StoreInv'
  BY <1>1, <1>2, NumberTypes, MessageTypes
  DEF HandlingInv, Handling, StoreInv, NoMsg, sVars
<1> QED
  BY <1>3, <1>4

\* Taking a message leaves the rest of the channel in place.
LEMMA TakenMessage ==
    ASSUME IInv, TakeMessage
    PROVE  /\ up /\ pc = "idle" /\ ~Handling
           /\ toR \in Seq(Message) /\ 1 \in 1..Len(toR) /\ Head(toR) = toR[1]
           /\ Head(toR) \in Message
           /\ toR' = Tail(toR) /\ Len(toR') = Len(toR) - 1 /\ Len(toR) \in Nat
           /\ \A i \in 1..Len(toR') : /\ i + 1 \in 1..Len(toR)
                                      /\ toR'[i] = toR[i + 1]
                                      /\ IsIndex(toR'[i])
           /\ \A i \in 1..Len(toR) : i > 1 => IsIndex(toR[i])
           /\ ChannelInv'
           /\ UNCHANGED <<sVars, sender, remote, diskSeq, remoteID, view, memSeq,
                          up, conns, claimVars>>
           /\ IndexInv' /\ SenderInv' /\ SenderLevel' = SenderLevel
<1> USE DEF IInv
<1>1. /\ up /\ pc = "idle" /\ toR # <<>> /\ toR' = Tail(toR)
      /\ UNCHANGED <<sVars, sender, remote, diskSeq, remoteID, view, memSeq, up,
                     conns, claimVars>>
  BY DEF TakeMessage
<1>2. /\ toR \in Seq(Message) /\ 1 \in 1..Len(toR) /\ Head(toR) = toR[1]
      /\ Head(toR) \in Message /\ Len(toR) \in Nat /\ Len(toR') = Len(toR) - 1
      /\ \A i \in 1..Len(toR') : i + 1 \in 1..Len(toR) /\ toR'[i] = toR[i + 1]
  BY <1>1 DEF TypeOK
<1>3. \A i \in 1..Len(toR) : i > 1 => IsIndex(toR[i])
  BY MessageTypes DEF ChannelInv
<1>4. \A i \in 1..Len(toR') : IsIndex(toR'[i])
  <2> SUFFICES ASSUME NEW i \in 1..Len(toR') PROVE IsIndex(toR[i + 1])
    BY <1>2
  <2>1. i + 1 \in 1..Len(toR) /\ i + 1 > 1
    BY <1>2
  <2> QED
    BY <1>3, <2>1
<1>5. /\ local' = local /\ localSeq' = localSeq /\ indexID' = indexID
      /\ sender' = sender /\ up' = up
  BY <1>1 DEF sVars
<1>6. SenderLevel' = SenderLevel
  BY <1>5 DEF SenderLevel
<1>7. IndexInv' /\ SenderInv'
  BY <1>5, <1>6 DEF IndexInv, SenderInv, Distinct
<1>8. ChannelInv'
  <2> SUFFICES ASSUME NEW i \in 1..Len(toR')
               PROVE  /\ sender.on /\ Complete(toR'[i]) /\ toR'[i].type # "cc"
                      /\ i < Len(toR') => toR'[i + 1].since = toR'[i].upto
                      /\ i = Len(toR') => toR'[i].upto = SenderLevel
    BY <1>1, <1>5, <1>6 DEF ChannelInv, IsIndex, Complete, Distinct
  <2>1. i + 1 \in 1..Len(toR) /\ toR'[i] = toR[i + 1] /\ IsIndex(toR[i + 1])
    BY <1>2, <1>4
  <2>2. toR'[i].type # "cc"
    BY <2>1 DEF IsIndex
  <2>3. i < Len(toR') => i + 1 < Len(toR) /\ toR'[i + 1] = toR[i + 2]
    BY <1>2
  <2>4. i = Len(toR') => i + 1 = Len(toR)
    BY <1>2
  <2> QED
    BY <1>2, <2>1, <2>2, <2>3, <2>4 DEF ChannelInv
<1> QED
  BY <1>1, <1>2, <1>3, <1>4, <1>6, <1>7, <1>8 DEF Handling

\* A ClusterConfig that is received keeps it.
LEMMA ReceiveClusterConfigKeeps ==
    ASSUME IInv, TypeOK', ReceiveClusterConfig PROVE IInv'
<1> USE DEF IInv
<1>1. /\ TakeMessage /\ Head(toR).type = "cc"
      /\ \/ Head(toR).id = remoteID /\ UNCHANGED <<pc, msg>>
         \/ Head(toR).id # remoteID /\ pc' = "drop" /\ msg' = Head(toR)
      /\ UNCHANGED todo
  BY DEF ReceiveClusterConfig
<1>2. /\ up /\ up' /\ pc = "idle" /\ ~Handling
      /\ local' = local /\ localSeq' = localSeq /\ indexID' = indexID
      /\ sender' = sender /\ remote' = remote /\ diskSeq' = diskSeq
      /\ remoteID' = remoteID /\ view' = view /\ memSeq' = memSeq
      /\ claims' = claims /\ ccID' = ccID
  BY <1>1, TakenMessage DEF sVars, claimVars
<1>3. Head(toR).id = indexID /\ ~IsIndex(toR[1]) /\ toR[1].type = "cc"
  BY <1>1, TakenMessage DEF ChannelInv, IsIndex
<1>4. ~Handling' /\ (pc' = "idle" => remoteID = indexID /\ msg' = NoMsg)
      /\ pc' \in {"idle", "drop"}
  BY <1>1, <1>2, <1>3, TakenMessage, MessageTypes DEF Handling, IsIndex
<1>5. NextSince' = NextSince
  <2>1. CASE Len(toR) = 1
    BY <1>1, <1>3, <2>1, TakenMessage DEF NextSince
  <2>2. CASE Len(toR) > 1
    <3>1. 2 \in 1..Len(toR) /\ IsIndex(toR[2]) /\ 1 \in 1..Len(toR')
          /\ toR'[1] = toR[2]
      BY <1>1, <2>2, TakenMessage
    <3> QED
      BY <1>3, <3>1 DEF NextSince
  <2> QED
    BY <1>1, <2>1, <2>2, TakenMessage
<1>6. ReadyInv'
  BY <1>2, <1>4, <1>5 DEF ReadyInv, Knows
<1>7. ClaimInv'
  BY <1>2, <1>4 DEF ClaimInv
<1>8. HandlingInv'
  <2>1. pc' = "drop" => msg' = Head(toR) /\ Head(toR).id # remoteID
    BY <1>1, <1>2
  <2>2. pc' = "drop" => remoteID < msg'.id /\ msg'.id = indexID /\ msg'.type = "cc"
    BY <1>1, <1>3, <2>1, NumberTypes DEF HandlingInv
  <2> QED
    BY <1>2, <1>4, <2>2, NumberTypes DEF HandlingInv, NoMsg
<1>9. StoreInv'
  <2>1. pc' = "drop" => remoteID # indexID
    BY <1>1, <1>2, <1>3
  <2> QED
    BY <1>2, <1>4, <2>1 DEF StoreInv, Knows
<1> QED
  BY <1>1, <1>6, <1>7, <1>8, <1>9, TakenMessage

\* An index message that is received keeps it.
LEMMA ReceiveIndexKeeps ==
    ASSUME IInv, TypeOK', ReceiveIndex PROVE IInv'
<1> USE DEF IInv
<1> DEFINE m == Head(toR)
<1>1. /\ TakeMessage /\ m.type \in {"index", "update"}
      /\ pc' = IF m.type = "index" THEN "drop" ELSE "apply"
      /\ msg' = m /\ todo' = Listed(m)
  BY DEF ReceiveIndex
<1>2. /\ up /\ up' /\ pc = "idle" /\ ~Handling
      /\ local' = local /\ localSeq' = localSeq /\ indexID' = indexID
      /\ sender' = sender /\ remote' = remote /\ diskSeq' = diskSeq
      /\ remoteID' = remoteID /\ view' = view /\ memSeq' = memSeq
      /\ claims' = claims /\ ccID' = ccID
      /\ m = toR[1] /\ 1 \in 1..Len(toR)
  BY <1>1, TakenMessage DEF sVars, claimVars
<1>3. IsIndex(m) /\ m \in IndexMessage /\ Complete(m) /\ sender.on
  BY <1>1, <1>2, MessageTypes DEF ChannelInv, IsIndex
<1>4. m.since \in Nat /\ m.upto \in Nat /\ \A f \in Files : m.ents[f].seq \in Nat
  BY <1>3, IndexMessageTypes
<1>5. \A i \in 1..Len(toR) : IsIndex(toR[i])
  <2>1. \A i \in 1..Len(toR) : i = 1 \/ i > 1
    OBVIOUS
  <2> QED
    BY <1>1, <1>2, <1>3, <2>1, TakenMessage
<1>6. remoteID = indexID
  BY <1>2, <1>5 DEF HandlingInv
<1>7. NextSince = m.since /\ Knows(view, m.since) /\ memSeq <= m.since
  <2>1. NextSince = m.since
    BY <1>2, <1>3 DEF NextSince
  <2> QED
    BY <1>2, <1>3, <1>6, <2>1 DEF ReadyInv
<1>8. Handling' /\ pc' \in {"drop", "apply"}
  BY <1>1, <1>3 DEF Handling, IsIndex
<1>9. NextSince' = m.upto
  <2>1. CASE Len(toR) = 1
    BY <1>1, <1>2, <1>3, <2>1, TakenMessage DEF NextSince, ChannelInv
  <2>2. CASE Len(toR) > 1
    <3>1. 1 \in 1..Len(toR') /\ toR'[1] = toR[2] /\ IsIndex(toR'[1])
      BY <1>1, <2>2, TakenMessage
    <3>2. toR[2].since = m.upto
      BY <1>2, <1>3, <2>2 DEF ChannelInv
    <3> QED
      BY <3>1, <3>2 DEF NextSince
  <2> QED
    BY <1>1, <2>1, <2>2, TakenMessage
<1>10. ReadyInv'
  BY <1>1, <1>8, <1>9 DEF ReadyInv
<1>11. ClaimInv'
  BY <1>2, <1>3 DEF ClaimInv
<1>12. HandlingInv'
  <2>1. Complete(msg)'
    BY <1>1, <1>2, <1>3 DEF Complete, Distinct
  <2> QED
    BY <1>1, <1>2, <1>3, <1>6, <1>8, <2>1, TakenMessage DEF HandlingInv, IsIndex, Listed
<1>13. StoreInv'
  <2>1. remote = view /\ diskSeq = memSeq
    BY <1>2 DEF StoreInv
  <2>2. pc' = "drop" => memSeq = 0
    BY <1>1, <1>3, <1>4, <1>7, NumberTypes DEF Complete
  <2>3. pc' = "apply" =>
            /\ memSeq <= m.upto
            /\ \A f \in Listed(m) : m.ents[f].seq > memSeq
            /\ \A f \in Files \ Listed(m) :
                local[f].seq \in 1..m.upto => view[f].val = local[f].val
    BY <1>3, <1>4, <1>7, NumberTypes DEF Complete, Listed, Knows
  <2> QED
    BY <1>1, <1>2, <1>6, <1>8, <2>1, <2>2, <2>3 DEF StoreInv, Knows, Listed
<1> QED
  BY <1>1, <1>10, <1>11, <1>12, <1>13, TakenMessage

\* A database operation of R leaves S and the connection alone.
LEMMA DatabaseStep ==
    ASSUME IInv, UNCHANGED <<sVars, sender, up, toR, claimVars>>
    PROVE  /\ IndexInv' /\ SenderInv' /\ ChannelInv'
           /\ NextSince' = NextSince /\ SenderLevel' = SenderLevel
           /\ local' = local /\ localSeq' = localSeq /\ indexID' = indexID
           /\ sender' = sender /\ up' = up /\ toR' = toR
           /\ claims' = claims /\ ccID' = ccID
<1> USE DEF IInv
<1>1. /\ local' = local /\ localSeq' = localSeq /\ indexID' = indexID
      /\ sender' = sender /\ up' = up /\ toR' = toR
      /\ claims' = claims /\ ccID' = ccID
  BY DEF sVars, claimVars
<1>2. SenderLevel' = SenderLevel
  BY <1>1 DEF SenderLevel
<1>3. NextSince' = NextSince
  BY <1>1, <1>2 DEF NextSince, IsIndex
<1>4. IndexInv' /\ SenderInv'
  BY <1>1, <1>2 DEF IndexInv, SenderInv, Distinct
<1>5. ChannelInv'
  BY <1>1, <1>2 DEF ChannelInv, IsIndex, Complete, Distinct
<1> QED
  BY <1>1, <1>2, <1>3, <1>4, <1>5

\* Dropping is on behalf of a full Index, or of a ClusterConfig with an index
\* ID that is not on file yet.
LEMMA DroppingFor ==
    ASSUME IInv, pc \in {"drop", "resetSeq"}
    PROVE  \/ Handling /\ msg \in IndexMessage /\ msg.type = "index"
           \/ ~Handling /\ msg.type = "cc" /\ remoteID # indexID
<1>1. pc # "idle" /\ msg.type # "update"
  BY DEF IInv, HandlingInv
<1>2. msg \in Message
  BY DEF IInv, TypeOK, Handled
<1>3. CASE msg \in IndexMessage
  BY <1>1, <1>3 DEF Handling, IsIndex, IndexMessage
<1>4. CASE msg \in ClusterConfigMessage
  <2>1. msg.type = "cc" /\ msg.id \in Nat
    BY <1>4 DEF ClusterConfigMessage
  <2>2. remoteID < msg.id /\ msg.id <= indexID
    BY <2>1 DEF IInv, HandlingInv
  <2>3. remoteID \in Nat /\ indexID \in Nat
    BY DEF IInv, TypeOK
  <2> QED
    BY <2>1, <2>2, <2>3 DEF Handling, IsIndex
<1> QED
  BY <1>2, <1>3, <1>4 DEF Message

\* The drop of some files of S at R keeps it.
LEMMA DropSomeKeeps ==
    ASSUME IInv, TypeOK', DropSome PROVE IInv'
<1> USE DEF IInv
<1>1. /\ pc = "drop" /\ pc' = pc /\ msg' = msg /\ todo' = todo
      /\ remoteID' = remoteID /\ memSeq' = memSeq /\ diskSeq' = memSeq
      /\ remote' = view'
      /\ UNCHANGED <<sVars, sender, up, toR, claimVars>>
  BY DEF DropSome
<1>2. Handling' = Handling
  BY <1>1 DEF Handling, IsIndex
<1>3. remoteID = indexID => memSeq = 0
  BY <1>1 DEF StoreInv
<1>4. ReadyInv'
  <2>1. remoteID = indexID => Handling
    BY <1>1, DroppingFor
  <2> QED
    BY <1>1, <1>2, <2>1, DatabaseStep DEF ReadyInv, SenderInv
<1>5. ClaimInv'
  BY <1>1, <1>2, DatabaseStep DEF ClaimInv
<1>6. HandlingInv'
  BY <1>1, <1>2, DatabaseStep DEF HandlingInv, Complete, Distinct, Listed, IsIndex
<1>7. StoreInv'
  BY <1>1, <1>3, DatabaseStep, NumberTypes DEF StoreInv, Knows
<1> QED
  BY <1>1, <1>4, <1>5, <1>6, <1>7, DatabaseStep

\* The end of the drop keeps it.
LEMMA DropFilesKeeps ==
    ASSUME IInv, TypeOK', DropFiles PROVE IInv'
<1> USE DEF IInv
<1>1. /\ pc = "drop" /\ pc' = "resetSeq" /\ msg' = msg /\ todo' = todo
      /\ remoteID' = remoteID /\ memSeq' = memSeq /\ diskSeq' = memSeq
      /\ remote' = NoEntries /\ view' = NoEntries
      /\ UNCHANGED <<sVars, sender, up, toR, claimVars>>
  BY DEF DropFiles
<1>2. Handling' = Handling
  BY <1>1 DEF Handling, IsIndex
<1>3. remoteID = indexID => memSeq = 0
  BY <1>1 DEF StoreInv
<1>4. ReadyInv'
  <2>1. remoteID = indexID => Handling
    BY <1>1, DroppingFor
  <2> QED
    BY <1>1, <1>2, <2>1, DatabaseStep DEF ReadyInv, SenderInv
<1>5. ClaimInv'
  BY <1>1, <1>2, DatabaseStep DEF ClaimInv
<1>6. HandlingInv'
  BY <1>1, <1>2, DatabaseStep, MessageTypes
  DEF HandlingInv, Complete, Distinct, Listed, IsIndex
<1>7. StoreInv'
  BY <1>1, <1>3, DatabaseStep, NumberTypes DEF StoreInv, Knows
<1> QED
  BY <1>1, <1>4, <1>5, <1>6, <1>7, DatabaseStep

\* The reset of the sequence that R has on record keeps it.
LEMMA ResetSequenceKeeps ==
    ASSUME IInv, TypeOK', ResetSequence PROVE IInv'
<1> USE DEF IInv
<1>1. /\ pc = "resetSeq" /\ pc' = IF msg.type = "cc" THEN "setID" ELSE "apply"
      /\ msg' = msg /\ todo' = todo /\ memSeq' = 0 /\ diskSeq' = 0
      /\ remote' = remote /\ view' = view /\ remoteID' = remoteID
      /\ UNCHANGED <<sVars, sender, up, toR, claimVars>>
  BY DEF ResetSequence
<1>2. Handling' = Handling
  BY <1>1 DEF Handling, IsIndex
<1>3. view = NoEntries /\ remote = NoEntries
  BY <1>1 DEF HandlingInv, StoreInv
<1>4. ReadyInv'
  <2>1. remoteID = indexID => Handling
    BY <1>1, DroppingFor
  <2> QED
    BY <1>1, <1>2, <2>1, DatabaseStep DEF ReadyInv, SenderInv
<1>5. ClaimInv'
  <2>1. claims # {} => remoteID # indexID
    BY <1>1, DroppingFor DEF ClaimInv
  <2> QED
    BY <1>1, <1>2, <2>1, DatabaseStep DEF ClaimInv
<1>6. HandlingInv'
  BY <1>1, <1>2, <1>3, DatabaseStep, MessageTypes
  DEF HandlingInv, Complete, Distinct, Listed, IsIndex
<1>7. StoreInv'
  <2>1. ASSUME pc' = "apply", remoteID = indexID
        PROVE  /\ msg \in IndexMessage /\ Complete(msg) /\ msg.type = "index"
               /\ todo = Listed(msg)
    BY <1>1, <2>1, DroppingFor DEF HandlingInv
  <2>2. ASSUME pc' = "apply", remoteID = indexID
        PROVE  /\ 0 <= msg.upto
               /\ \A f \in todo : msg.ents[f].seq > 0
               /\ \A f \in Files \ todo :
                    local[f].seq \in 1..msg.upto => view[f].val = local[f].val
    BY <2>1, <2>2, IndexMessageTypes, NumberTypes DEF Complete, Listed
  <2>3. Knows(remote, 0)
    BY NumberTypes DEF Knows
  <2>4. pc' # "apply" => remote = view
    BY <1>3
  <2> QED
    BY <1>1, <2>1, <2>2, <2>3, <2>4, DatabaseStep, NumberTypes
    DEF StoreInv, Knows, Listed
<1> QED
  BY <1>1, <1>4, <1>5, <1>6, <1>7, DatabaseStep

\* A new index ID that R stores keeps it.
LEMMA SetIndexIDKeeps ==
    ASSUME IInv, TypeOK', SetIndexID PROVE IInv'
<1> USE DEF IInv
<1>1. /\ pc = "setID" /\ pc' = "idle" /\ msg' = NoMsg /\ remoteID' = msg.id
      /\ remote' = remote /\ view' = view
      /\ memSeq' = memSeq /\ diskSeq' = diskSeq
      /\ UNCHANGED <<sVars, sender, up, toR, claimVars>>
  BY DEF SetIndexID, Done
<1>2. /\ view = NoEntries /\ remote = view /\ memSeq = 0 /\ diskSeq = 0
      /\ remoteID < msg.id /\ msg.id <= indexID /\ (up => msg.id = indexID)
      /\ remoteID # indexID
  <2>1. msg.type = "cc" /\ msg \in ClusterConfigMessage
    BY <1>1, MessageTypes DEF IsIndex
  <2> QED
    BY <1>1, <2>1, NumberTypes DEF HandlingInv, StoreInv, ClusterConfigMessage
<1>3. ~Handling /\ ~Handling'
  BY <1>1, MessageTypes DEF Handling, IsIndex
<1>4. ReadyInv'
  <2>1. sender.on => up /\ NextSince = 0
    BY <1>2, <1>3 DEF ReadyInv, SenderInv
  <2> QED
    BY <1>1, <1>2, <1>3, <2>1, DatabaseStep, NumberTypes DEF ReadyInv, Knows
<1>5. ClaimInv'
  BY <1>1, <1>2, <1>3, DatabaseStep DEF ClaimInv
<1>6. HandlingInv'
  BY <1>1, <1>2, <1>3, DatabaseStep, NumberTypes DEF HandlingInv, NoMsg
<1>7. StoreInv'
  BY <1>1, <1>2, DatabaseStep, NumberTypes DEF StoreInv, Knows
<1> QED
  BY <1>1, <1>4, <1>5, <1>6, <1>7, DatabaseStep

\* A batch that R commits keeps it.
LEMMA CommitBatchKeeps ==
    ASSUME IInv, TypeOK', CommitBatch PROVE IInv'
<1> USE DEF IInv
<1>1. /\ pc = "apply" /\ todo = {} /\ pc' = "idle" /\ msg' = NoMsg
      /\ remoteID' = remoteID /\ view' = view /\ memSeq' = memSeq
      /\ remote' = view /\ diskSeq' = memSeq
      /\ UNCHANGED <<sVars, sender, up, toR, claimVars>>
  BY DEF CommitBatch, Done
<1>2. Handling /\ ~Handling' /\ msg \in IndexMessage
  BY <1>1, MessageTypes DEF Handling
<1>3. remoteID = indexID =>
        Knows(view, msg.upto) /\ memSeq <= msg.upto /\ Knows(view, memSeq)
  <2>1. msg.upto \in Nat
    BY <1>2, IndexMessageTypes
  <2> QED
    BY <1>1, <2>1, NumberTypes DEF StoreInv, Knows
<1>4. ReadyInv'
  BY <1>1, <1>2, <1>3, DatabaseStep DEF ReadyInv, HandlingInv, SenderInv, Knows
<1>5. ClaimInv'
  BY <1>1, <1>2, DatabaseStep DEF ClaimInv
<1>6. HandlingInv'
  BY <1>1, <1>2, DatabaseStep DEF HandlingInv, NoMsg
<1>7. StoreInv'
  BY <1>1, <1>3, DatabaseStep, NumberTypes DEF StoreInv, Knows
<1> QED
  BY <1>1, <1>4, <1>5, <1>6, <1>7, DatabaseStep


\* The entries of an index message are stored in the order of their numbers,
\* so what is stored never runs ahead of what is claimed.
LEMMA ApplyEntryKeeps ==
    ASSUME IInv, TypeOK', ApplyEntry PROVE IInv'
<1> USE DEF IInv
<1>1. /\ pc = "apply" /\ pc' = pc /\ msg' = msg /\ remoteID' = remoteID
      /\ UNCHANGED <<sVars, sender, up, toR, claimVars>>
  BY DEF ApplyEntry
<1>2. PICK f \in todo :
        /\ IsNext(f)
        /\ todo' = todo \ {f}
        /\ \/ Unchanged(f) /\ UNCHANGED <<view, memSeq, remote, diskSeq>>
           \/ /\ ~Unchanged(f)
              /\ view' = [view EXCEPT ![f] = msg.ents[f]]
              /\ memSeq' = Larger(memSeq, msg.ents[f].seq)
              /\ Flush \/ UNCHANGED <<remote, diskSeq>>
  BY DEF ApplyEntry
<1>3. Handling /\ Handling' /\ msg \in IndexMessage
  BY <1>1, MessageTypes, HandledTypes DEF Handling, IsIndex, TypeOK, IndexMessage
<1>4. ReadyInv'
  BY <1>1, <1>3, DatabaseStep DEF ReadyInv
<1>5. ClaimInv'
  BY <1>1, <1>3, DatabaseStep DEF ClaimInv
<1>6. HandlingInv'
  BY <1>1, <1>3, DatabaseStep
  DEF HandlingInv, Handling, Complete, Distinct, IsIndex
<1>7. f \in Files /\ \A g \in Files : msg.ents[g].seq \in Nat
  BY <1>2, <1>3, IndexMessageTypes DEF TypeOK
<1>8. ASSUME remoteID = indexID
      PROVE  /\ memSeq <= msg.upto /\ diskSeq <= memSeq /\ msg.upto <= localSeq
             /\ Knows(remote, diskSeq)
             /\ todo \subseteq Listed(msg)
             /\ \A g \in todo : /\ msg.ents[g].seq > memSeq
                                /\ msg.ents[g].seq <= msg.upto
                                /\ msg.ents[g] = local[g]
                                   \/ local[g].seq \notin 1..msg.upto
                                /\ msg.ents[g].seq <= local[g].seq
                                /\ g # f => msg.ents[g].seq > msg.ents[f].seq
             /\ \A g \in Files \ todo :
                  local[g].seq \in 1..msg.upto => view[g].val = local[g].val
  <2>1. Complete(msg)
    BY <1>3, <1>8 DEF HandlingInv
  <2>2. /\ memSeq <= msg.upto /\ diskSeq <= memSeq /\ Knows(remote, diskSeq)
        /\ todo \subseteq Listed(msg)
        /\ \A g \in todo : msg.ents[g].seq > memSeq
        /\ \A g \in Files \ todo :
              local[g].seq \in 1..msg.upto => view[g].val = local[g].val
    BY <1>1, <1>8 DEF StoreInv
  <2>3. ASSUME NEW g \in todo
        PROVE  /\ msg.ents[g].seq <= msg.upto
               /\ msg.ents[g] = local[g] \/ local[g].seq \notin 1..msg.upto
               /\ msg.ents[g].seq <= local[g].seq
    <3>1. g \in Files /\ msg.ents[g].seq > 0
      BY <2>2 DEF Listed
    <3>2. /\ msg.ents[g].seq \in msg.since + 1 .. msg.upto
          /\ msg.ents[g].seq <= local[g].seq
          /\ local[g].seq \in msg.since + 1 .. msg.upto => msg.ents[g] = local[g]
      BY <2>1, <3>1 DEF Complete
    <3> QED
      BY <1>3, <3>1, <3>2, IndexMessageTypes, NumberTypes
  <2>4. ASSUME NEW g \in todo, g # f PROVE msg.ents[g].seq > msg.ents[f].seq
    <3>1. g \in Files /\ msg.ents[g].seq > 0
      BY <2>2 DEF Listed
    <3>2. msg.ents[f].seq <= msg.ents[g].seq
      BY <1>2 DEF IsNext
    <3>3. msg.ents[g].seq # msg.ents[f].seq
      BY <1>7, <2>1, <2>4, <3>1 DEF Complete, Distinct
    <3> QED
      BY <1>7, <3>1, <3>2, <3>3
  <2> QED
    BY <2>1, <2>2, <2>3, <2>4 DEF Complete
<1>9. CASE Unchanged(f) /\ UNCHANGED <<view, memSeq, remote, diskSeq>>
  <2>1. ASSUME remoteID = indexID, local[f].seq \in 1..msg.upto
        PROVE  view[f].val = local[f].val
    BY <1>8, <1>9, <2>1 DEF Unchanged
  <2>2. StoreInv'
    BY <1>1, <1>2, <1>8, <1>9, <2>1, DatabaseStep, NumberTypes
    DEF StoreInv, Knows, Listed
  <2> QED
    BY <1>1, <1>4, <1>5, <1>6, <2>2, DatabaseStep
<1>10. CASE /\ view' = [view EXCEPT ![f] = msg.ents[f]]
            /\ memSeq' = Larger(memSeq, msg.ents[f].seq)
            /\ Flush \/ UNCHANGED <<remote, diskSeq>>
  <2>1. /\ view'[f] = msg.ents[f]
        /\ \A g \in Files : g # f => view'[g] = view[g]
    BY <1>7, <1>10 DEF TypeOK
  <2>2. ASSUME remoteID = indexID
        PROVE  /\ memSeq' = msg.ents[f].seq /\ memSeq < memSeq'
               /\ memSeq' <= msg.upto /\ memSeq' <= localSeq
    BY <1>7, <1>8, <1>10, <2>2, <1>3, IndexMessageTypes, NumberTypes DEF Larger
  <2>3. ASSUME remoteID = indexID, NEW g \in Files \ todo',
               local[g].seq \in 1..msg.upto
        PROVE  view'[g].val = local[g].val
    BY <1>2, <1>8, <2>1, <2>3
  <2>4. ASSUME remoteID = indexID PROVE Knows(view', memSeq')
    <3> SUFFICES ASSUME NEW g \in Files, local[g].seq \in 1..memSeq'
                 PROVE  view'[g].val = local[g].val
      BY <1>1, DatabaseStep DEF Knows
    <3>1. g \notin todo'
      BY <1>2, <1>7, <1>8, <2>2, <2>4, NumberTypes
    <3>2. local[g].seq \in 1..msg.upto
      BY <1>3, <1>7, <2>2, <2>4, IndexMessageTypes, NumberTypes
    <3> QED
      BY <2>3, <2>4, <3>1, <3>2
  <2>5. ASSUME remoteID = indexID
        PROVE  /\ diskSeq' <= memSeq'
               /\ \A g \in Files :
                    local[g].seq \in 1..diskSeq' => remote'[g].val = local[g].val
    <3>1. CASE Flush
      BY <2>4, <2>2, <2>5, <1>7, <3>1, NumberTypes DEF Flush, Knows
    <3>2. CASE UNCHANGED <<remote, diskSeq>>
      BY <1>7, <1>8, <2>2, <2>5, <3>2, NumberTypes DEF Knows
    <3> QED
      BY <1>10, <3>1, <3>2
  <2>6. ASSUME remoteID = indexID
        PROVE  /\ todo' \subseteq Listed(msg)
               /\ \A g \in todo' : msg.ents[g].seq > memSeq'
    BY <1>2, <1>8, <2>2, <2>6
  <2>7. StoreInv'
    BY <1>1, <2>2, <2>3, <2>5, <2>6, DatabaseStep DEF StoreInv, Knows, Listed
  <2> QED
    BY <1>1, <1>4, <1>5, <1>6, <2>7, DatabaseStep
<1> QED
  BY <1>2, <1>9, <1>10

----------------------------------------------------------------------------
(* The invariant and what follows from it.                                 *)

\* The initial state satisfies the invariant.
LEMMA InitialIInv == Init => IInv
<1> SUFFICES ASSUME Init, TypeOK PROVE IInv
  BY InitialTypes
<1> USE DEF Init
<1>1. \A f \in Files : local[f].seq = 0 /\ local[f] = NoEntry
  BY DEF NoEntries, NoEntry
<1>2. IndexInv
  BY <1>1 DEF IndexInv, Distinct
<1>3. SenderInv /\ SenderLevel = 0
  BY DEF SenderInv, SenderLevel, SenderOff
<1>4. ChannelInv /\ ClaimInv
  BY DEF ChannelInv, ClaimInv
<1>5. ReadyInv
  BY DEF ReadyInv, SenderOff
<1>6. HandlingInv
  BY DEF HandlingInv, Handling, NoMsg
<1>7. StoreInv
  BY DEF StoreInv
<1> QED
  BY <1>2, <1>3, <1>4, <1>5, <1>6, <1>7 DEF IInv

\* A step that changes nothing keeps it.
LEMMA StutterKeeps == ASSUME IInv, UNCHANGED vars PROVE IInv'
<1>1. UNCHANGED <<sVars, sender, up, toR, claimVars>>
  BY DEF vars
<1>2. /\ remote' = remote /\ diskSeq' = diskSeq /\ remoteID' = remoteID
      /\ view' = view /\ memSeq' = memSeq /\ pc' = pc /\ msg' = msg
      /\ todo' = todo
  BY DEF vars, rVars
<1>3. TypeOK'
  BY TypeStep DEF IInv
<1>4. Handling' = Handling
  BY <1>2 DEF Handling, IsIndex
<1>5. ReadyInv' /\ ClaimInv'
  BY <1>1, <1>2, <1>4, DatabaseStep DEF IInv, ReadyInv, ClaimInv, Knows
<1>6. HandlingInv'
  BY <1>1, <1>2, <1>4, DatabaseStep
  DEF IInv, HandlingInv, Complete, Distinct, IsIndex, Listed
<1>7. StoreInv'
  BY <1>1, <1>2, DatabaseStep DEF IInv, StoreInv, Knows, Listed
<1> QED
  BY <1>1, <1>3, <1>5, <1>6, <1>7, DatabaseStep DEF IInv

\* R's connections carry one ClusterConfig, and no block list is as large as a
\* write batch.
Restriction == MaxResends = 0 /\ "blocklist" \notin CrashWindows

\* Every step keeps it.
LEMMA Inductive ==
    ASSUME Restriction, IInv, [Next]_vars PROVE IInv'
<1>1. TypeOK'
  BY TypeStep DEF IInv
<1>2. ASSUME NEW f \in Files, NEW v \in Vals, LocalChange(f, v) PROVE IInv'
  BY <1>1, <1>2, LocalChangeKeeps
<1>3. ASSUME NEW c \in claims, StartSender(c) PROVE IInv'
  BY <1>1, <1>3, StartSenderKeeps
<1>4. CASE ResetIndex
  BY <1>1, <1>4, ResetIndexKeeps
<1>5. CASE StartRound
  BY <1>1, <1>5, StartRoundKeeps
<1>6. CASE SendBatch
  BY <1>1, <1>6, SendBatchKeeps
<1>7. CASE Connect
  BY <1>1, <1>7, ConnectKeeps
<1>8. CASE Disconnect
  BY <1>1, <1>8, DisconnectKeeps
<1>9. ~ReadIndexID
  BY DEF ReadIndexID, Restriction, IInv, TypeOK
<1>10. ~ReadMaxSequence
  BY DEF ReadMaxSequence, IInv, ClaimInv
<1>11. CASE ReceiveClusterConfig
  BY <1>1, <1>11, ReceiveClusterConfigKeeps
<1>12. CASE ReceiveIndex
  BY <1>1, <1>12, ReceiveIndexKeeps
<1>13. CASE DropSome
  BY <1>1, <1>13, DropSomeKeeps
<1>14. CASE DropFiles
  BY <1>1, <1>14, DropFilesKeeps
<1>15. CASE ResetSequence
  BY <1>1, <1>15, ResetSequenceKeeps
<1>16. CASE SetIndexID
  BY <1>1, <1>16, SetIndexIDKeeps
<1>17. CASE ApplyEntry
  BY <1>1, <1>17, ApplyEntryKeeps
<1>18. ~FlushAtBlockList
  BY DEF FlushAtBlockList, Restriction
<1>19. CASE CommitBatch
  BY <1>1, <1>19, CommitBatchKeeps
<1>20. CASE Crash
  BY <1>1, <1>20, CrashKeeps
<1>21. CASE DropDeltaIndexIDs
  BY <1>1, <1>21, DropDeltaIndexIDsKeeps
<1>22. CASE UNCHANGED vars
  BY <1>22, StutterKeeps
<1> QED
  BY <1>2, <1>3, <1>4, <1>5, <1>6, <1>7, <1>8, <1>9, <1>10, <1>11, <1>12,
     <1>13, <1>14, <1>15, <1>16, <1>17, <1>18, <1>19, <1>20, <1>21, <1>22
  DEF Next, SenderStep, ReceiverStep, Environment

\* The numbers along the exchange fit together without a gap, in every
\* behaviour with one ClusterConfig from R on each connection.
THEOREM ExchangeInvariant ==
    ASSUME Restriction PROVE Spec => []IInv
<1>1. IInv /\ [Next]_vars => IInv'
  BY Inductive
<1> QED
  BY <1>1, InitialIInv, PTL DEF Spec

\* Whatever is lost, and wherever R crashes: when S relies on the pair of index
\* ID and sequence number that R has on disk, it leaves out nothing that R
\* misses.
THEOREM ClaimsAreSound ==
    ASSUME Restriction PROVE Spec => []DurableClaimSound
<1>1. IInv => DurableClaimSound
  BY DEF IInv, StoreInv, DurableClaimSound
<1> QED
  BY <1>1, ExchangeInvariant, PTL

----------------------------------------------------------------------------
(* Numbers grow on their way, whatever crashes.                             *)

\* What each variable is that a step leaves alone.
LEMMA Unfolded ==
    /\ UNCHANGED sVars => local' = local /\ localSeq' = localSeq /\ indexID' = indexID
    /\ UNCHANGED rVars => /\ remote' = remote /\ diskSeq' = diskSeq /\ remoteID' = remoteID
                          /\ view' = view /\ memSeq' = memSeq /\ pc' = pc /\ msg' = msg
                          /\ todo' = todo
  BY DEF sVars, rVars

\* Where there is nothing there are no numbers, and a sender begins outside of a round.
LEMMA EmptyNumbers ==
    /\ \A f \in Files : NoEntries[f].seq = 0
    /\ NoEntry.seq = 0
    /\ ~SenderOff.round
    /\ \A n \in Nat : ~SenderAt(n).round
  BY DEF NoEntries, NoEntry, SenderOff, SenderAt

\* The numbers of what R handles and of what is on its way.
LEMMA MessageNumbers ==
    ASSUME TypeOK
    PROVE  /\ \A i \in 1..Len(toR) : IsIndex(toR[i]) => \A f \in Files : toR[i].ents[f].seq \in Nat
           /\ Handling => \A f \in Files : msg.ents[f].seq \in Nat
  BY MessageTypes, IndexMessageTypes DEF Handling

\* S goes on: its numbers grow, and a round has what S has.
LEMMA SenderStepAny ==
    ASSUME AnyInv, TypeOK', UNCHANGED <<rVars, up, toR, indexID>>,
           \A f \in Files : local[f].seq <= local'[f].seq /\ local'[f].seq <= localSeq',
           localSeq <= localSeq',
           ~up => sender' = SenderOff,
           sender'.round => \/ sender' = sender
                            \/ sender'.snap = local /\ local' = local
    PROVE  AnyInv'
<1> USE DEF AnyInv
<1>1. TypeOK /\ AnySender /\ AnyChannel /\ AnyHandling /\ AnyStore
  OBVIOUS
<1>0. /\ \A f \in Files : local[f].seq \in Nat /\ local'[f].seq \in Nat /\ view[f].seq \in Nat
                            /\ sender.snap[f].seq \in Nat
      /\ localSeq \in Nat /\ localSeq' \in Nat /\ memSeq \in Nat /\ diskSeq \in Nat
  BY NumberTypes DEF TypeOK, Entry
<1>2. ASSUME NEW e, \A f \in Files : e[f].seq \in Nat, Behind(e)
      PROVE  /\ \A f \in Files : e[f].seq <= local'[f].seq
             /\ sender'.round => \A f \in Files : e[f].seq <= sender'.snap[f].seq
  BY <1>0, <1>2 DEF Behind
<1>3. AnySender'
  <2>1. sender'.round => \A f \in Files : sender'.snap[f].seq <= local'[f].seq
    BY <1>0, <1>1 DEF AnySender
  <2>2. ~up' => toR' = <<>>
    BY <1>1 DEF AnySender
  <2> QED
    BY <2>1, <2>2 DEF AnySender
<1>4. AnyChannel'
  BY <1>2, MessageNumbers DEF AnyChannel, Behind, Before, IsIndex
<1>5. AnyHandling'
  BY <1>2, Unfolded, MessageNumbers DEF AnyHandling, Handling, Behind, Before, IsIndex
<1>6. AnyStore'
  <2>1. remoteID' = indexID' => memSeq' <= localSeq' /\ diskSeq' <= localSeq'
    BY <1>0, <1>1, Unfolded DEF AnyStore
  <2>2. remoteID' = indexID' => Behind(view)'
    BY <1>0, <1>1, <1>2, Unfolded DEF AnyStore, Behind
  <2> QED
    BY <1>1, <2>1, <2>2, Unfolded DEF AnyStore, Before, IsIndex
<1> QED
  BY <1>3, <1>4, <1>5, <1>6

\* The weaker invariant, for any crashes: a change of a file of S keeps it.
LEMMA LocalChangeAny ==
    ASSUME AnyInv, TypeOK', NEW f \in Files, NEW v \in Vals, LocalChange(f, v)
    PROVE  AnyInv'
<1>1. /\ local' = [local EXCEPT ![f] = [val |-> v, seq |-> localSeq + 1]]
      /\ localSeq' = localSeq + 1 /\ UNCHANGED <<indexID, sender, rVars, up, toR>>
  BY DEF LocalChange
<1>2. \A g \in Files : local[g].seq <= local'[g].seq /\ local'[g].seq <= localSeq'
  BY <1>1, NumberTypes DEF AnyInv, AnySender, TypeOK
<1> QED
  BY <1>1, <1>2, NumberTypes, SenderStepAny DEF AnyInv, AnySender

\* The start of the sender keeps it.
LEMMA StartSenderAny ==
    ASSUME AnyInv, TypeOK', NEW c \in claims, StartSender(c) PROVE AnyInv'
<1>1. StartSequence(c) \in Nat
  BY DEF StartSequence, Claim, AnyInv, TypeOK
<1> QED
  BY <1>1, EmptyNumbers, NumberTypes, Unfolded, SenderStepAny DEF StartSender, AnyInv, AnySender

\* The start of a round keeps it.
LEMMA StartRoundAny ==
    ASSUME AnyInv, TypeOK', StartRound PROVE AnyInv'
<1>1. sender' = [sender EXCEPT !.round = TRUE, !.pos = sender.prev,
                               !.initial = (sender.prev = 0), !.snap = local]
      /\ sender.on /\ UNCHANGED <<sVars, rVars, up, toR>>
  BY DEF StartRound
<1>2. sender'.snap = local
  BY <1>1 DEF AnyInv, TypeOK, Sender
<1>3. up
  BY <1>1 DEF AnyInv, AnySender, SenderOff
<1> QED
  BY <1>1, <1>2, <1>3, NumberTypes, Unfolded, SenderStepAny DEF AnyInv, AnySender

\* A new database of S keeps it.
LEMMA ResetIndexAny ==
    ASSUME AnyInv, TypeOK', ResetIndex PROVE AnyInv'
<1>1. /\ ~up /\ indexID' = indexID + 1
      /\ (local' = NoEntries /\ localSeq' = 0) \/ UNCHANGED <<local, localSeq>>
      /\ UNCHANGED <<sender, rVars, up, toR>>
  BY DEF ResetIndex
<1>2. sender = SenderOff /\ toR = <<>> /\ remoteID' < indexID' /\ indexID \in Nat /\ remoteID \in Nat
  BY <1>1, Unfolded, NumberTypes DEF AnyInv, AnySender, AnyHandling
<1>3. AnySender' /\ AnyChannel'
  BY <1>1, <1>2, EmptyNumbers, NumberTypes DEF AnyInv, AnySender, AnyChannel
<1>4. AnyHandling'
  <2>1. msg.type = "cc" => msg.id \in Nat
    BY NumberTypes, MessageTypes DEF AnyInv, IsIndex, NoMsg, ClusterConfigMessage
  <2> QED
    BY <1>1, <1>2, <2>1, Unfolded DEF AnyInv, AnyHandling, Handling, IsIndex
<1>5. AnyStore'
  BY <1>1, <1>2, Unfolded DEF AnyInv, AnyStore
<1> QED
  BY <1>3, <1>4, <1>5 DEF AnyInv

\* A batch that is sent keeps it.
LEMMA SendBatchAny ==
    ASSUME AnyInv, TypeOK', SendBatch PROVE AnyInv'
<1> USE DEF AnyInv
<1>1. PICK last \in Files :
        LET u     == sender.snap[last].seq
            batch == IndexMsg(IF sender.initial THEN "index" ELSE "update",
                              sender.pos, u, sender.snap)
        IN  /\ toR' = Append(toR, batch)
            /\ sender' = IF \E f \in Files : sender.snap[f].seq > u
                         THEN [sender EXCEPT !.pos = u, !.initial = FALSE]
                         ELSE SenderAt(u)
  BY DEF SendBatch
<1> DEFINE u    == sender.snap[last].seq
           type == IF sender.initial THEN "index" ELSE "update"
           m    == IndexMsg(type, sender.pos, u, sender.snap)
           Later(e) == /\ \A f \in Files : e[f].seq <= local'[f].seq
                       /\ sender'.round => \A f \in Files : e[f].seq <= sender'.snap[f].seq
<1>2. /\ sender.round /\ UNCHANGED <<sVars, rVars, up>> /\ toR' = Append(toR, m)
      /\ toR \in Seq(Message) /\ Len(toR) \in Nat
  BY <1>1 DEF SendBatch, TypeOK
<1>3. IsIndex(m) /\ m.ents = [f \in Files |-> IF sender.pos < sender.snap[f].seq /\ sender.snap[f].seq <= u
                                             THEN sender.snap[f] ELSE NoEntry]
  BY DEF IndexMsg, IsIndex
<1>4. up
  BY <1>2 DEF AnySender, SenderOff
<1>5. \A f \in Files : m.ents[f].seq = 0 \/ m.ents[f].seq = sender.snap[f].seq
  BY <1>3, EmptyNumbers
<1>6. sender'.round => sender'.snap = sender.snap
  <2>1. [sender EXCEPT !.pos = u, !.initial = FALSE].snap = sender.snap
    BY DEF TypeOK, Sender
  <2> QED
    BY <1>1, <2>1, EmptyNumbers, NumberTypes
<1>7. /\ Len(toR') = Len(toR) + 1 /\ toR'[Len(toR) + 1] = m
      /\ \A i \in 1..Len(toR') : i # Len(toR) + 1 => i \in 1..Len(toR) /\ toR'[i] = toR[i]
  BY <1>2
<1>8. ASSUME NEW e, Behind(e) PROVE Later(e) /\ Before(e, m)
  BY <1>2, <1>5, <1>6, <1>8, Unfolded DEF Behind, Before
<1>9. Later(m.ents)
  <2>1. \A f \in Files : m.ents[f].seq <= sender.snap[f].seq /\ m.ents[f].seq <= local[f].seq
    <3> SUFFICES ASSUME NEW f \in Files
                 PROVE  m.ents[f].seq <= sender.snap[f].seq /\ m.ents[f].seq <= local[f].seq
      OBVIOUS
    <3>1. sender.snap[f].seq \in Nat /\ local[f].seq \in Nat
      BY NumberTypes
    <3>2. sender.snap[f].seq <= local[f].seq
      BY <1>2 DEF AnySender
    <3>3. m.ents[f].seq = 0 \/ m.ents[f].seq = sender.snap[f].seq
      BY <1>5
    <3> HIDE DEF m
    <3> QED
      BY <3>1, <3>2, <3>3
  <2> QED
    BY <1>2, <1>6, <2>1, Unfolded
<1>10. AnySender'
  BY <1>2, <1>4, <1>6, Unfolded DEF AnySender
<1>11. AnyChannel'
  <2> SUFFICES ASSUME NEW i \in 1..Len(toR')
               PROVE  /\ toR'[i].type = "cc" => i = 1 /\ toR'[i].id = indexID
                      /\ IsIndex(toR'[i]) =>
                          /\ Later(toR'[i].ents)
                          /\ \A j \in 1..Len(toR') : i < j => Before(toR'[i].ents, toR'[j])
    <3>1. local' = local /\ indexID' = indexID
      BY <1>2, Unfolded
    <3> HIDE DEF m
    <3> QED
      BY <3>1 DEF AnyChannel, Behind
  <2>1. CASE i = Len(toR) + 1
    <3>1. \A j \in 1..Len(toR') : ~(i < j)
      BY <1>2, <1>7, <2>1
    <3> QED
      BY <1>3, <1>7, <1>9, <2>1, <3>1 DEF IsIndex
  <2>2. CASE i # Len(toR) + 1
    <3>1. i \in 1..Len(toR) /\ toR'[i] = toR[i]
      BY <1>7, <2>2
    <3>2. \A j \in 1..Len(toR') : i < j => (j \in 1..Len(toR) /\ toR'[j] = toR[j]) \/ toR'[j] = m
      BY <1>7
    <3>3. IsIndex(toR[i]) => Later(toR[i].ents) /\ Before(toR[i].ents, m)
      BY <1>8, <3>1 DEF AnyChannel
    <3> QED
      BY <3>1, <3>2, <3>3 DEF AnyChannel
  <2> QED
    BY <2>1, <2>2
<1>0. /\ local' = local /\ localSeq' = localSeq /\ indexID' = indexID /\ up' = up
      /\ UNCHANGED <<remote, diskSeq, remoteID, view, memSeq, pc, msg, todo>>
  BY <1>2, Unfolded
<1> HIDE DEF m, Later
<1>12. AnyHandling'
  <2>1. pc # "idle" => \A i \in 1..Len(toR') : IsIndex(toR'[i])
    BY <1>3, <1>7 DEF AnyHandling
  <2>2. Handling /\ remoteID = indexID => Behind(msg.ents)' /\ \A i \in 1..Len(toR') : Before(msg.ents, toR'[i])
    <3> SUFFICES ASSUME Handling, remoteID = indexID
                 PROVE  Behind(msg.ents)' /\ \A i \in 1..Len(toR') : Before(msg.ents, toR'[i])
      OBVIOUS
    <3>1. Behind(msg.ents) /\ \A i \in 1..Len(toR) : Before(msg.ents, toR[i])
      BY DEF AnyHandling
    <3>2. Later(msg.ents) /\ Before(msg.ents, m)
      BY <1>8, <3>1
    <3> QED
      BY <1>0, <1>7, <3>1, <3>2 DEF Behind, Later
  <2>3. (\A i \in 1..Len(toR') : IsIndex(toR'[i])) => \A i \in 1..Len(toR) : IsIndex(toR[i])
    <3>1. \A i \in 1..Len(toR) : i \in 1..Len(toR') /\ toR'[i] = toR[i]
      BY <1>2, <1>7
    <3> QED
      BY <3>1
  <2>4. Handling' = Handling
    BY <1>0 DEF Handling
  <2> QED
    BY <1>0, <1>4, <2>1, <2>2, <2>3, <2>4 DEF AnyHandling
<1>13. AnyStore'
  <2>1. remoteID = indexID => Behind(view)' /\ \A i \in 1..Len(toR') : IsIndex(toR'[i]) => Before(view, toR'[i])
    <3> SUFFICES ASSUME remoteID = indexID
                 PROVE  Behind(view)' /\ \A i \in 1..Len(toR') : IsIndex(toR'[i]) => Before(view, toR'[i])
      OBVIOUS
    <3>1. Behind(view) /\ \A i \in 1..Len(toR) : IsIndex(toR[i]) => Before(view, toR[i])
      BY DEF AnyStore
    <3>2. Later(view) /\ Before(view, m)
      BY <1>8, <3>1
    <3> QED
      BY <1>0, <1>7, <3>1, <3>2 DEF Behind, Later
  <2> QED
    BY <1>0, <2>1 DEF AnyStore
<1> QED
  BY <1>10, <1>11, <1>12, <1>13

\* A new connection keeps it.
LEMMA ConnectAny ==
    ASSUME AnyInv, TypeOK', Connect PROVE AnyInv'
<1>1. /\ ~up /\ pc = "idle" /\ toR' = <<ClusterConfigMsg(indexID)>>
      /\ UNCHANGED <<sVars, sender, rVars>>
  BY DEF Connect
<1>2. sender = SenderOff /\ toR = <<>> /\ msg = NoMsg
  BY <1>1, MessageTypes DEF AnyInv, AnySender
<1>3. Len(toR') = 1 /\ toR'[1].type = "cc" /\ toR'[1].id = indexID /\ ~IsIndex(toR'[1])
  BY <1>1 DEF ClusterConfigMsg, IsIndex
<1>4. AnySender' /\ AnyChannel'
  BY <1>1, <1>2, <1>3, EmptyNumbers, Unfolded, NumberTypes DEF AnyInv, AnySender, AnyChannel, Connect, IsIndex
<1>5. AnyHandling'
  BY <1>1, <1>2, <1>3, Unfolded DEF AnyInv, AnyHandling, Handling, IsIndex, NoMsg
<1>6. AnyStore'
  BY <1>1, <1>2, <1>3, Unfolded DEF AnyInv, AnyStore, Behind, IsIndex
<1> QED
  BY <1>4, <1>5, <1>6 DEF AnyInv

\* A lost connection keeps it.
LEMMA DisconnectAny ==
    ASSUME AnyInv, TypeOK', Disconnect PROVE AnyInv'
<1>1. ~up' /\ toR' = <<>> /\ sender' = SenderOff /\ UNCHANGED <<sVars, rVars>>
  BY DEF Disconnect, LoseConnection
<1>2. AnySender' /\ AnyChannel'
  BY <1>1, EmptyNumbers, Unfolded DEF AnyInv, AnySender, AnyChannel
<1>3. AnyHandling' /\ AnyStore'
  BY <1>1, EmptyNumbers, Unfolded DEF AnyInv, AnyHandling, AnyStore, Handling, Behind, IsIndex
<1> QED
  BY <1>2, <1>3 DEF AnyInv

\* A crash of either side keeps it.
LEMMA CrashAny ==
    ASSUME AnyInv, TypeOK', Crash PROVE AnyInv'
<1>1. /\ ~up' /\ toR' = <<>> /\ sender' = SenderOff /\ pc' = "idle" /\ msg' = NoMsg
      /\ UNCHANGED <<sVars, remote, diskSeq, remoteID>> /\ view' = remote /\ memSeq' = diskSeq
  BY DEF Crash, LoseConnection, Done
<1>2. AnySender' /\ AnyChannel'
  BY <1>1, EmptyNumbers, Unfolded DEF AnyInv, AnySender, AnyChannel
<1>3. AnyHandling'
  BY <1>1, Unfolded DEF AnyInv, AnyHandling, Handling, NoMsg
<1>4. \A f \in Files : remote[f].seq <= view[f].seq
  BY NumberTypes DEF AnyInv, AnyStore
<1>5. AnyStore'
  BY <1>1, <1>4, EmptyNumbers, NumberTypes, Unfolded DEF AnyInv, AnyStore, Behind
<1> QED
  BY <1>2, <1>3, <1>5 DEF AnyInv

\* The drop of the index IDs keeps it.
LEMMA DropDeltaIndexIDsAny ==
    ASSUME AnyInv, TypeOK', DropDeltaIndexIDs PROVE AnyInv'
<1>1. /\ ~up /\ pc = "idle" /\ remoteID' = 0 /\ toR = <<>> /\ indexID \in Nat \ {0} /\ indexID' = indexID
      /\ UNCHANGED <<sVars, sender, remote, diskSeq, view, memSeq, pc, msg, todo, up, toR>>
  BY Unfolded DEF DropDeltaIndexIDs, AnyInv, AnySender, TypeOK
<1>2. AnySender' /\ AnyChannel'
  BY <1>1, Unfolded DEF AnyInv, AnySender, AnyChannel
<1>3. AnyHandling' /\ AnyStore'
  BY <1>1 DEF AnyInv, AnyHandling, AnyStore, Handling
<1> QED
  BY <1>2, <1>3 DEF AnyInv

\* What R does as it takes a message, whichever it is.
LEMMA TakenAny ==
    ASSUME AnyInv, TakeMessage
    PROVE  /\ up /\ pc = "idle" /\ msg = NoMsg /\ UNCHANGED <<sVars, sender, up>>
           /\ UNCHANGED <<remote, diskSeq, remoteID, view, memSeq>>
           /\ 1 \in 1..Len(toR) /\ Head(toR) = toR[1] /\ Head(toR) \in Message
           /\ \A i \in 1..Len(toR') : /\ i + 1 \in 1..Len(toR) /\ toR'[i] = toR[i + 1]
                                      /\ IsIndex(toR'[i])
           /\ ~IsIndex(Head(toR)) => Head(toR).type = "cc" /\ Head(toR).id = indexID
           /\ IsIndex(Head(toR)) => Head(toR).type # "cc" /\ remoteID = indexID
           /\ AnySender' /\ AnyChannel'
<1> USE DEF AnyInv
<1>1. /\ up /\ pc = "idle" /\ toR # <<>> /\ toR' = Tail(toR) /\ toR \in Seq(Message)
      /\ UNCHANGED <<sVars, sender, remote, diskSeq, remoteID, view, memSeq, up>>
  BY DEF TakeMessage, TypeOK
<1>2. /\ 1 \in 1..Len(toR) /\ Head(toR) = toR[1] /\ Head(toR) \in Message
      /\ Len(toR) \in Nat /\ Len(toR') = Len(toR) - 1
      /\ \A i \in 1..Len(toR') : i + 1 \in 1..Len(toR) /\ toR'[i] = toR[i + 1]
  BY <1>1
<1>3. \A i \in 1..Len(toR) : i > 1 => IsIndex(toR[i])
  BY MessageTypes DEF AnyChannel
<1>4. \A i \in 1..Len(toR') : IsIndex(toR[i + 1])
  <2> SUFFICES ASSUME NEW i \in 1..Len(toR') PROVE IsIndex(toR[i + 1])
    OBVIOUS
  <2>1. i + 1 \in 1..Len(toR) /\ i + 1 > 1
    BY <1>2
  <2> QED
    BY <1>3, <2>1
<1>5. IsIndex(Head(toR)) => Head(toR).type # "cc" /\ \A i \in 1..Len(toR) : IsIndex(toR[i])
  <2>1. \A i \in 1..Len(toR) : i = 1 \/ i > 1
    BY <1>2
  <2> QED
    BY <1>2, <1>3, <2>1 DEF IsIndex
<1>6. IsIndex(Head(toR)) => remoteID = indexID
  BY <1>1, <1>5 DEF AnyHandling
<1>7. ~IsIndex(Head(toR)) => Head(toR).type = "cc" /\ Head(toR).id = indexID
  BY <1>2, MessageTypes DEF AnyChannel
<1>8. msg = NoMsg
  BY <1>1, MessageTypes
<1>9. AnySender'
  BY <1>1, Unfolded DEF AnySender
<1>10. AnyChannel'
  <2>1. ASSUME NEW i \in 1..Len(toR')
        PROVE  /\ toR'[i].type # "cc"
               /\ Behind(toR[i + 1].ents)
               /\ \A j \in 1..Len(toR') : i < j => Before(toR'[i].ents, toR'[j])
    <3>1. i + 1 \in 1..Len(toR) /\ IsIndex(toR[i + 1]) /\ toR'[i] = toR[i + 1]
      BY <1>2, <1>4
    <3>2. \A j \in 1..Len(toR') : i < j => i + 1 < j + 1 /\ j + 1 \in 1..Len(toR) /\ toR'[j] = toR[j + 1]
      BY <1>2
    <3> QED
      BY <3>1, <3>2 DEF AnyChannel, IsIndex
  <2> QED
    BY <1>1, <1>2, <2>1, Unfolded DEF AnyChannel, Behind, Before
<1> QED
  BY <1>1, <1>2, <1>4, <1>5, <1>6, <1>7, <1>8, <1>9, <1>10

\* A ClusterConfig that is received keeps it.
LEMMA ReceiveClusterConfigAny ==
    ASSUME AnyInv, TypeOK', ReceiveClusterConfig PROVE AnyInv'
<1>1. /\ TakeMessage /\ Head(toR).type = "cc"
      /\ \/ Head(toR).id = remoteID /\ UNCHANGED <<pc, msg>>
         \/ Head(toR).id # remoteID /\ pc' = "drop" /\ msg' = Head(toR)
  BY DEF ReceiveClusterConfig
<1>2. ~IsIndex(Head(toR)) /\ Head(toR).id = indexID /\ msg'.type \in {"cc", "none"}
  BY <1>1, TakenAny DEF IsIndex, NoMsg
<1>3. AnyHandling'
  BY <1>1, <1>2, TakenAny, Unfolded, NumberTypes DEF AnyInv, AnyHandling, Handling, IsIndex, NoMsg
<1>4. AnyStore'
  <2>1. \A i \in 1..Len(toR') : IsIndex(toR'[i]) => \E k \in 1..Len(toR) : toR'[i] = toR[k] /\ IsIndex(toR[k])
    BY <1>1, TakenAny
  <2>2. /\ pc = "idle" /\ pc' \in {"idle", "drop"}
        /\ UNCHANGED <<local, localSeq, indexID, sender, remote, diskSeq, remoteID, view, memSeq>>
    BY <1>1, TakenAny, Unfolded
  <2>3. remoteID = indexID => \A i \in 1..Len(toR') : IsIndex(toR'[i]) => Before(view, toR'[i])
    BY <2>1 DEF AnyInv, AnyStore
  <2> QED
    BY <2>2, <2>3 DEF AnyInv, AnyStore, Behind
<1> QED
  BY <1>1, <1>3, <1>4, TakenAny DEF AnyInv

\* An index message that is received keeps it.
LEMMA ReceiveIndexAny ==
    ASSUME AnyInv, TypeOK', ReceiveIndex PROVE AnyInv'
<1>1. /\ TakeMessage /\ IsIndex(Head(toR)) /\ msg' = Head(toR) /\ todo' = Listed(Head(toR))
      /\ pc' \in {"drop", "apply"}
  BY DEF ReceiveIndex, IsIndex
<1>2. remoteID = indexID /\ Behind(toR[1].ents) /\ Before(view, toR[1])
  BY <1>1, TakenAny DEF AnyInv, AnyChannel, AnyStore
<1>3. \A i \in 1..Len(toR') : \E k \in 1..Len(toR) : 1 < k /\ toR'[i] = toR[k] /\ IsIndex(toR[k])
  <2> SUFFICES ASSUME NEW i \in 1..Len(toR') PROVE \E k \in 1..Len(toR) : 1 < k /\ toR'[i] = toR[k] /\ IsIndex(toR[k])
    OBVIOUS
  <2>1. i + 1 \in 1..Len(toR) /\ toR'[i] = toR[i + 1] /\ IsIndex(toR'[i])
    BY <1>1, TakenAny
  <2>2. 1 < i + 1
    BY <2>1
  <2> QED
    BY <2>1, <2>2
<1>4. AnyHandling'
  <2>1. \A i \in 1..Len(toR') : Before(toR[1].ents, toR'[i])
    BY <1>1, <1>3, TakenAny DEF AnyInv, AnyChannel
  <2> QED
    BY <1>1, <1>2, <2>1, TakenAny, Unfolded DEF AnyInv, AnyHandling, Handling, Behind, Before, IsIndex
<1>5. AnyStore'
  <2>1. \A f \in todo' : view[f].seq <= msg'.ents[f].seq
    BY <1>1, <1>2, TakenAny DEF Listed, Before
  <2>2. remote = view
    BY <1>1, TakenAny DEF AnyInv, AnyStore
  <2>3. \A f \in Files : remote[f].seq <= view[f].seq
    BY <2>2, NumberTypes DEF AnyInv
  <2> QED
    <3>1. UNCHANGED <<local, localSeq, indexID, sender, remote, diskSeq, remoteID, view, memSeq>>
      BY <1>1, TakenAny, Unfolded
    <3>2. remoteID = indexID => \A i \in 1..Len(toR') : IsIndex(toR'[i]) => Before(view, toR'[i])
      BY <1>3 DEF AnyInv, AnyStore
    <3> QED
      BY <1>1, <2>1, <2>2, <2>3, <3>1, <3>2 DEF AnyInv, AnyStore, Behind
<1> QED
  BY <1>1, <1>4, <1>5, TakenAny DEF AnyInv

\* R's database changes, and nothing else.
LEMMA DatabaseStepAny ==
    ASSUME AnyInv, TypeOK', UNCHANGED <<sVars, sender, up, toR>>
    PROVE  AnySender' /\ AnyChannel'
  BY Unfolded DEF AnyInv, AnySender, AnyChannel, Behind, Before, IsIndex

\* The drop of some files keeps it.
LEMMA DropSomeAny ==
    ASSUME AnyInv, TypeOK', DropSome PROVE AnyInv'
<1>1. PICK D \in SUBSET Files : view' = [f \in Files |-> IF f \in D THEN NoEntry ELSE view[f]]
  BY DEF DropSome
<1>2. /\ pc = "drop" /\ pc' = pc /\ msg' = msg /\ remoteID' = remoteID /\ memSeq' = memSeq
      /\ remote' = view' /\ diskSeq' = memSeq /\ UNCHANGED <<sVars, sender, up, toR>>
  BY DEF DropSome
<1>3. \A f \in Files : view'[f].seq <= view[f].seq /\ view'[f].seq \in Nat /\ view[f].seq \in Nat
  BY <1>1, EmptyNumbers, NumberTypes DEF AnyInv
<1>4. AnyHandling'
  BY <1>2, Unfolded DEF AnyInv, AnyHandling, Handling, Behind, Before, IsIndex
<1>5. ASSUME NEW m, Before(view, m), \A f \in Files : m.ents[f].seq \in Nat PROVE Before(view', m)
  BY <1>3, <1>5 DEF Before
<1>6. Behind(view) => Behind(view)'
  <2>1. local' = local /\ sender' = sender
    BY <1>2, Unfolded
  <2>2. \A f \in Files : local[f].seq \in Nat /\ sender.snap[f].seq \in Nat
    BY NumberTypes DEF AnyInv
  <2> QED
    BY <1>3, <2>1, <2>2 DEF Behind
<1>7. AnyStore'
  BY <1>2, <1>5, <1>6, MessageNumbers, Unfolded DEF AnyInv, AnyStore, IsIndex
<1> QED
  BY <1>2, <1>4, <1>7, DatabaseStepAny DEF AnyInv

\* The end of the drop keeps it.
LEMMA DropFilesAny ==
    ASSUME AnyInv, TypeOK', DropFiles PROVE AnyInv'
<1>1. /\ view' = NoEntries /\ remote' = NoEntries /\ diskSeq' = memSeq /\ memSeq' = memSeq
      /\ pc = "drop" /\ pc' = "resetSeq" /\ msg' = msg /\ remoteID' = remoteID
      /\ UNCHANGED <<sVars, sender, up, toR>>
  BY DEF DropFiles
<1>2. AnyHandling'
  BY <1>1, Unfolded DEF AnyInv, AnyHandling, Handling, Behind, Before, IsIndex
<1>3. AnyStore'
  BY <1>1, EmptyNumbers, MessageNumbers, NumberTypes, Unfolded
  DEF AnyInv, AnyStore, Behind, Before, IsIndex
<1> QED
  BY <1>1, <1>2, <1>3, DatabaseStepAny DEF AnyInv

\* The reset of the sequence keeps it.
LEMMA ResetSequenceAny ==
    ASSUME AnyInv, TypeOK', ResetSequence PROVE AnyInv'
<1>1. /\ memSeq' = 0 /\ diskSeq' = 0 /\ pc = "resetSeq" /\ msg' = msg /\ remoteID' = remoteID
      /\ pc' = IF msg.type = "cc" THEN "setID" ELSE "apply"
      /\ view' = view /\ remote' = remote /\ todo' = todo /\ UNCHANGED <<sVars, sender, up, toR>>
  BY DEF ResetSequence
<1>2. view = NoEntries /\ remote = NoEntries
  BY <1>1 DEF AnyInv, AnyStore
<1>3. AnyHandling'
  BY <1>1, Unfolded DEF AnyInv, AnyHandling, Handling, Behind, Before, IsIndex
<1>4. AnyStore'
  <2>1. pc' = "apply" => \A f \in todo' : f \in Files /\ 0 <= msg'.ents[f].seq
    <3> SUFFICES ASSUME pc' = "apply" PROVE \A f \in todo' : f \in Files /\ 0 <= msg'.ents[f].seq
      OBVIOUS
    <3>1. msg' \in IndexMessage /\ todo' \subseteq Files
      BY HandledTypes DEF TypeOK
    <3> QED
      BY <3>1, IndexMessageTypes
  <2> QED
    BY <1>1, <1>2, <2>1, EmptyNumbers, NumberTypes, Unfolded
    DEF AnyInv, AnyStore, Behind, Before, IsIndex
<1> QED
  BY <1>1, <1>3, <1>4, DatabaseStepAny DEF AnyInv

\* A new index ID that R stores keeps it.
LEMMA SetIndexIDAny ==
    ASSUME AnyInv, TypeOK', SetIndexID PROVE AnyInv'
<1>1. /\ pc = "setID" /\ remoteID' = msg.id /\ pc' = "idle" /\ msg' = NoMsg
      /\ UNCHANGED <<sVars, sender, remote, diskSeq, view, memSeq, up, toR>>
  BY DEF SetIndexID, Done
<1>2. /\ view = NoEntries /\ memSeq = 0 /\ diskSeq = 0 /\ msg.type = "cc"
      /\ \A i \in 1..Len(toR) : IsIndex(toR[i])
      /\ remote = view
  BY <1>1, MessageTypes DEF AnyInv, AnyStore, AnyHandling
<1>3. AnyHandling'
  BY <1>1, <1>2, Unfolded DEF AnyInv, AnyHandling, Handling, NoMsg, IsIndex
<1>4. AnyStore'
  BY <1>1, <1>2, EmptyNumbers, MessageNumbers, NumberTypes, Unfolded
  DEF AnyInv, AnyStore, AnySender, Behind, Before, IsIndex
<1> QED
  BY <1>1, <1>3, <1>4, DatabaseStepAny DEF AnyInv

\* An entry that is applied is newer than what R has, and older than what is on its way.
LEMMA AppliedAny ==
    ASSUME AnyInv, pc = "apply", NEW f \in todo
    PROVE  /\ f \in Files /\ Handling /\ msg.ents[f].seq \in Nat
           /\ view[f].seq <= msg.ents[f].seq
           /\ remoteID = indexID => /\ msg.ents[f].seq <= localSeq
                                    /\ Larger(memSeq, msg.ents[f].seq) <= localSeq
<1> USE DEF AnyInv
<1>1. f \in Files /\ Handling
  BY MessageTypes DEF TypeOK, Handling
<1>2. msg.ents[f].seq \in Nat
  BY <1>1, MessageNumbers
<1>3. remoteID = indexID => msg.ents[f].seq <= localSeq /\ memSeq <= localSeq
  BY <1>1, <1>2, NumberTypes DEF AnyHandling, AnyStore, AnySender, Behind
<1> QED
  BY <1>1, <1>2, <1>3 DEF AnyStore, Larger

\* An entry that is applied to the batch keeps it.
LEMMA ApplyEntryAny ==
    ASSUME AnyInv, TypeOK', ApplyEntry PROVE AnyInv'
<1>1. /\ pc = "apply" /\ pc' = pc /\ msg' = msg /\ remoteID' = remoteID
      /\ UNCHANGED <<sVars, sender, up, toR>>
  BY DEF ApplyEntry
<1>2. PICK f \in todo :
        /\ todo' = todo \ {f}
        /\ \/ UNCHANGED <<view, memSeq, remote, diskSeq>>
           \/ /\ view' = [view EXCEPT ![f] = msg.ents[f]]
              /\ memSeq' = Larger(memSeq, msg.ents[f].seq)
              /\ (remote' = view' /\ diskSeq' = memSeq') \/ UNCHANGED <<remote, diskSeq>>
  BY DEF ApplyEntry, Flush
<1>3. AnyHandling'
  BY <1>1, Unfolded DEF AnyInv, AnyHandling, Handling, Behind, Before, IsIndex
<1>4. CASE UNCHANGED <<view, memSeq, remote, diskSeq>>
  <2>1. AnyStore'
    BY <1>1, <1>2, <1>4, Unfolded DEF AnyInv, AnyStore, Behind, Before, IsIndex
  <2> QED
    BY <1>1, <1>3, <2>1, DatabaseStepAny DEF AnyInv
<1>5. CASE /\ view' = [view EXCEPT ![f] = msg.ents[f]]
           /\ memSeq' = Larger(memSeq, msg.ents[f].seq)
           /\ (remote' = view' /\ diskSeq' = memSeq') \/ UNCHANGED <<remote, diskSeq>>
  <2>1. \A g \in Files : view'[g] = IF g = f THEN msg.ents[f] ELSE view[g]
    BY <1>5 DEF AnyInv, TypeOK
  <2>2. remoteID = indexID => memSeq' <= localSeq /\ diskSeq' <= localSeq
    BY <1>1, <1>5, AppliedAny DEF AnyInv, AnyStore
  <2>3. remoteID = indexID => Behind(view)'
    BY <1>1, <2>1, AppliedAny, Unfolded DEF AnyInv, AnyStore, AnyHandling, Behind
  <2>4. remoteID = indexID => \A i \in 1..Len(toR) : IsIndex(toR[i]) => Before(view', toR[i])
    BY <1>1, <2>1, AppliedAny DEF AnyInv, AnyStore, AnyHandling, Before
  <2>5. \A g \in Files : /\ view'[g].seq \in Nat /\ view[g].seq <= view'[g].seq
                         /\ view[g].seq \in Nat /\ remote[g].seq \in Nat
    BY <1>1, <2>1, AppliedAny, NumberTypes DEF AnyInv
  <2>6. \A g \in Files : remote'[g].seq <= view'[g].seq
    <3>1. \A g \in Files : remote[g].seq <= view[g].seq
      BY <1>1 DEF AnyInv, AnyStore
    <3>2. CASE remote' = view'
      BY <2>5, <3>2
    <3>3. CASE remote' = remote
      BY <2>5, <3>1, <3>3
    <3> QED
      BY <1>5, <3>2, <3>3
  <2>7. \A g \in todo' : view'[g].seq <= msg.ents[g].seq
    BY <1>1, <1>2, <2>1, AppliedAny
  <2>8. AnyStore'
    BY <1>1, <2>2, <2>3, <2>4, <2>6, <2>7, Unfolded DEF AnyStore, IsIndex
  <2> QED
    BY <1>1, <1>3, <2>8, DatabaseStepAny DEF AnyInv
<1> QED
  BY <1>2, <1>4, <1>5

\* A flush in the middle of a batch keeps it.
LEMMA FlushAtBlockListAny ==
    ASSUME AnyInv, TypeOK', FlushAtBlockList PROVE AnyInv'
<1>1. /\ pc = "apply" /\ pc' = pc /\ msg' = msg /\ remoteID' = remoteID /\ view' = view
      /\ remote' = view /\ diskSeq' = memSeq' /\ todo' = todo /\ UNCHANGED <<sVars, sender, up, toR>>
  BY DEF FlushAtBlockList, Flush
<1>2. PICK f \in todo : memSeq' = Larger(memSeq, msg.ents[f].seq)
  BY DEF FlushAtBlockList
<1>3. AnyHandling'
  BY <1>1, Unfolded DEF AnyInv, AnyHandling, Handling, Behind, Before, IsIndex
<1>4. AnyStore'
  <2>1. remoteID = indexID => memSeq' <= localSeq
    BY <1>1, <1>2, AppliedAny
  <2>2. \A g \in Files : remote'[g].seq <= view[g].seq
    BY <1>1, NumberTypes DEF AnyInv
  <2>3. local' = local /\ localSeq' = localSeq /\ indexID' = indexID /\ sender' = sender
    BY <1>1, Unfolded
  <2> QED
    BY <1>1, <2>1, <2>2, <2>3 DEF AnyInv, AnyStore, Behind
<1> QED
  BY <1>1, <1>3, <1>4, DatabaseStepAny DEF AnyInv

\* A batch that R commits keeps it.
LEMMA CommitBatchAny ==
    ASSUME AnyInv, TypeOK', CommitBatch PROVE AnyInv'
<1>1. /\ pc = "apply" /\ pc' = "idle" /\ msg' = NoMsg /\ remoteID' = remoteID /\ view' = view
      /\ memSeq' = memSeq /\ remote' = view /\ diskSeq' = memSeq /\ UNCHANGED <<sVars, sender, up, toR>>
  BY DEF CommitBatch, Done
<1>2. AnyHandling'
  BY <1>1, MessageTypes, Unfolded DEF AnyInv, AnyHandling, Handling, NoMsg, IsIndex
<1>3. AnyStore'
  BY <1>1, Unfolded DEF AnyInv, AnyStore, Behind, Before, IsIndex
<1> QED
  BY <1>1, <1>2, <1>3, DatabaseStepAny DEF AnyInv

\* The initial state satisfies it.
LEMMA InitialAny == Init => AnyInv
<1> SUFFICES ASSUME Init, TypeOK PROVE AnyInv
  BY InitialTypes
<1> USE DEF Init
<1>1. AnySender /\ AnyChannel /\ AnyHandling
  BY EmptyNumbers DEF AnySender, AnyChannel, AnyHandling, Handling, NoMsg
<1>2. AnyStore
  BY DEF AnyStore
<1> QED
  BY <1>1, <1>2 DEF AnyInv

\* Every step keeps it.
LEMMA InductiveAny == AnyInv /\ [Next]_vars => AnyInv'
<1> SUFFICES ASSUME AnyInv, [Next]_vars PROVE AnyInv'
  OBVIOUS
<1>1. TypeOK'
  BY TypeStep DEF AnyInv
<1>2. ASSUME NEW f \in Files, NEW v \in Vals, LocalChange(f, v) PROVE AnyInv'
  BY <1>1, <1>2, LocalChangeAny
<1>3. ASSUME NEW c \in claims, StartSender(c) PROVE AnyInv'
  BY <1>1, <1>3, StartSenderAny
<1>4. CASE ReadIndexID \/ ReadMaxSequence \/ UNCHANGED vars
  <2>1. UNCHANGED <<sVars, sender, rVars, up, toR>>
    BY <1>4 DEF ReadIndexID, ReadMaxSequence, vars
  <2> QED
    BY <1>1, <2>1, NumberTypes, Unfolded, SenderStepAny DEF AnyInv, AnySender
<1> QED
  BY <1>1, <1>2, <1>3, <1>4, ResetIndexAny, StartRoundAny, SendBatchAny, ConnectAny, DisconnectAny, CrashAny,
     DropDeltaIndexIDsAny, ReceiveClusterConfigAny, ReceiveIndexAny, DropSomeAny, DropFilesAny, ResetSequenceAny,
     SetIndexIDAny, ApplyEntryAny, FlushAtBlockListAny, CommitBatchAny
  DEF Next, SenderStep, ReceiverStep, Environment

\* Entries on disk are only replaced by later ones, in every step.
LEMMA LaterEntries ==
    ASSUME AnyInv, AnyInv', [Next]_vars, pc = "apply", NEW f \in Files
    PROVE  remote'[f].seq >= remote[f].seq
<1>1. remote[f].seq \in Nat /\ view[f].seq \in Nat /\ remote[f].seq <= view[f].seq
  BY NumberTypes DEF AnyInv, AnyStore
<1>2. CASE UNCHANGED remote
  BY <1>1, <1>2
<1>3. CASE remote' = view
  BY <1>1, <1>3
<1>4. CASE ApplyEntry
  <2>1. PICK g \in todo : \/ remote' = remote
                          \/ remote' = [view EXCEPT ![g] = msg.ents[g]]
    BY <1>4 DEF ApplyEntry, Flush
  <2>2. CASE remote' = [view EXCEPT ![g] = msg.ents[g]]
    <3>1. remote'[f] = IF f = g THEN msg.ents[g] ELSE view[f]
      BY <2>2 DEF AnyInv, TypeOK
    <3> QED
      BY <1>1, <3>1, AppliedAny
  <2> QED
    BY <1>2, <2>1, <2>2
<1>5. remote' = remote \/ remote' = view \/ ApplyEntry
  BY Unfolded
  DEF Next, SenderStep, ReceiverStep, Environment, LocalChange, StartSender, ResetIndex, StartRound, SendBatch,
      ReadIndexID, ReadMaxSequence, Connect, Disconnect, TakeMessage, ReceiveClusterConfig, ReceiveIndex, DropSome,
      DropFiles, ResetSequence, SetIndexID, FlushAtBlockList, Flush, CommitBatch, Crash, DropDeltaIndexIDs, vars, rVars
<1> QED
  BY <1>2, <1>3, <1>4, <1>5

\* Whatever crashes, in whatever state of R's database, and however many
\* ClusterConfigs R sends: R never claims more of S's index than there is, so
\* that newIndexHandler's check for a database gone back in time never takes a
\* full transfer for nothing.
THEOREM NeverClaimsAhead == Spec => []NeverAhead
<1>1. AnyInv => NeverAhead
  BY DEF AnyInv, AnyStore, NeverAhead
<1> QED
  BY <1>1, InitialAny, InductiveAny, PTL DEF Spec

AnyCrashSafe == []NeverAhead /\ NoStaleEntry

\* Nor does R, in any of these cases, replace an entry by an older one: the
\* entries of a message are later than those R has, also when S starts again
\* from a claim that is out of date.
THEOREM SafeInAnyCrash == Spec => AnyCrashSafe
<1>1. AnyInv /\ AnyInv' /\ [Next]_vars => [\A f \in Files : pc = "apply" => remote'[f].seq >= remote[f].seq]_vars
  BY LaterEntries
<1> QED
  BY <1>1, NeverClaimsAhead, InitialAny, InductiveAny, PTL DEF Spec, AnyCrashSafe, NoStaleEntry
=============================================================================
