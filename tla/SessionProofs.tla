--------------------------- MODULE SessionProofs ---------------------------
(***************************************************************************)
(* Proofs about Session, for any table of queries, any inverter codes and  *)
(* any bounds on its faults and on packets under way: type correctness,    *)
(* that a conversation implements the abstract poll, that a sound inverter *)
(* is polled completely, and that a poll is finite unless the inverter     *)
(* goes on with packets that nobody asked for.                             *)
(***************************************************************************)
EXTENDS Session, TLAPS

(***************************************************************************)
(* The type invariant is not inductive: that a batch answers its own       *)
(* request needs to be known of every packet that may still be received.   *)
(***************************************************************************)

\* Requests that carry a query carry its number in step.
SoundRequests ==
  {r \in Requests : r.kind = "query" => r.query \in Queries /\ r.tag = r.query + 3}

\* A packet with the control byte of a query answers the request for it.
SoundL2s == {l \in L2s : \A q \in Queries : l.ctrl1 = RCtrl[q] => l.req = q + 3}
SoundPackets == [cmd : Nat, ok : BOOLEAN, l2 : SoundL2s]

\* The packet number keeps step with the place in the conversation.
InStep ==
  /\ pc \notin Final => query \in Queries
  /\ pc \notin Final \cup {"ask", "answer"} => query = 1
  /\ pc \in {"hello", "cmd10", "cmd5"} => l2_packet_send_count = 1
  /\ pc = "identify" => l2_packet_send_count = 2
  /\ pc = "connected" => l2_packet_send_count = 3
  /\ pc = "login" => l2_packet_send_count = 4
  /\ pc = "ask" => l2_packet_send_count = query + 3
  /\ pc = "answer" => l2_packet_send_count = query + 4

SoundTypes ==
  /\ pc \in Points
  /\ query \in 1 .. NQ + 1
  /\ recv_pl2 \in SoundL2s
  /\ data_vector \in Seq(Batches)
  /\ l2_packet_send_count \in Nat
  /\ model \in Models \cup {NoModel}
  /\ h2d \in Seq(SoundRequests)
  /\ d2h \in Seq(SoundPackets)
  /\ code \in DeviceCodes
  /\ acquainted \in BOOLEAN
  /\ admitted \in BOOLEAN
  /\ linkUp \in BOOLEAN
  /\ faults \in 0 .. MaxFaults

IInv == SoundTypes /\ InStep

----------------------------------------------------------------------------
(* The parts of a packet.                                                  *)

\* The cleared packet is sound, because no query has control byte 0.
LEMMA ClearedSound == Cleared \in SoundL2s
  BY ConstantsAssumption DEF Cleared, L2, SoundL2s, L2s, Queries

\* A packet without a sound Level-2 packet in it is sound.
LEMMA PlainSound ==
  ASSUME NEW cmd \in Nat PROVE Plain(cmd) \in SoundPackets
  BY ClearedSound DEF Plain, Packet, SoundPackets

\* An answer to a sound request is sound, because r_ctrl1 is injective.
LEMMA AnswerSound ==
  ASSUME NEW r \in SoundRequests, NEW len \in Nat, code \in DeviceCodes
  PROVE  Answer(r, len) \in SoundPackets
<1>1. code \in Nat
  BY ConstantsAssumption
<1>2. CASE r.kind = "query" /\ admitted
  <2>1. r.query \in Queries /\ r.tag = r.query + 3 /\ r.tag \in Nat
    BY <1>2 DEF SoundRequests, Requests
  <2>2. L2(r.tag, RCtrl[r.query], len, code) \in SoundL2s
    BY <1>1, <2>1, ConstantsAssumption DEF L2, SoundL2s, L2s
  <2> QED
    BY <1>2, <2>2 DEF Answer, Packet, SoundPackets, LEVEL2
<1>3. CASE ~(r.kind = "query" /\ admitted)
  <2>1. r.tag \in Nat
    BY DEF SoundRequests, Requests
  <2>2. L2(r.tag, 0, 0, code) \in SoundL2s
    BY <1>1, <2>1, ConstantsAssumption DEF L2, SoundL2s, L2s
  <2> QED
    BY <1>3, <2>2 DEF Answer, Packet, SoundPackets, LEVEL2
<1> QED
  BY <1>2, <1>3

\* A complete answer has a length.
LEMMA LenOfType ==
  ASSUME NEW r \in SoundRequests PROVE LenOf(r) \in Nat
  BY ConstantsAssumption DEF LenOf, SoundRequests, Queries

\* What a sound inverter says is sound, ...
LEMMA ReplySound ==
  ASSUME NEW r \in SoundRequests, code \in DeviceCodes
  PROVE  Reply(r) \in Seq(SoundPackets)
<1>1. Plain(10) \in SoundPackets /\ Plain(5) \in SoundPackets
  BY PlainSound
<1>2. Answer(r, LenOf(r)) \in SoundPackets
  BY AnswerSound, LenOfType
<1> QED
  BY <1>1, <1>2 DEF Reply

\* ... and so is what a faulty one says.
LEMMA MisreplySound ==
  ASSUME NEW r \in SoundRequests, code \in DeviceCodes,
         NEW packets \in Misreplies(r)
  PROVE  packets \in Seq(SoundPackets)
<1>1. Plain(LEVEL2) \in SoundPackets
  BY PlainSound DEF LEVEL2
<1>2. Answer(r, LenOf(r)) \in SoundPackets
  BY AnswerSound, LenOfType
<1>3. Answer(r, 0) \in SoundPackets
  BY AnswerSound
<1>4. CASE packets \in {<<>>, <<Plain(LEVEL2)>>,
                        <<Answer(r, LenOf(r)), Answer(r, LenOf(r))>>, <<Answer(r, 0)>>}
  <2>1. <<>> \in Seq(SoundPackets)
    OBVIOUS
  <2>2. <<Plain(LEVEL2)>> \in Seq(SoundPackets)
    BY <1>1
  <2>3. <<Answer(r, LenOf(r)), Answer(r, LenOf(r))>> \in Seq(SoundPackets)
    BY <1>2
  <2>4. <<Answer(r, 0)>> \in Seq(SoundPackets)
    BY <1>3
  <2> QED
    BY <1>4, <2>1, <2>2, <2>3, <2>4
<1>5. CASE r.kind = "query" /\ packets \in {<<Answer(r, len)>> : len \in ShortLens[r.query]}
  <2>1. PICK len \in ShortLens[r.query] : packets = <<Answer(r, len)>>
    BY <1>5
  <2>2. len \in Nat
    BY <1>5, <2>1, ConstantsAssumption DEF SoundRequests
  <2>3. Answer(r, len) \in SoundPackets
    BY <2>2, AnswerSound
  <2> QED
    BY <2>1, <2>3
<1> QED
  BY <1>4, <1>5 DEF Misreplies

\* What a read leaves in recv_pl2 is sound.
LEMMA ReceivedSound ==
  ASSUME SoundTypes, d2h # <<>> PROVE Received \in SoundL2s
<1>1. Head(d2h) \in SoundPackets
  BY DEF SoundTypes
<1> QED
  BY <1>1 DEF Received, SoundTypes, SoundPackets

\* Values are kept only of an answer with the control byte of the query.
LEMMA ParsedOwn ==
  ASSUME NEW q \in Queries, NEW l \in SoundL2s, Parsed(q, l) # {}
  PROVE  /\ l.req = q + 3
         /\ Parsed(q, l) \subseteq 1 .. Len(ReachOf[q])
         /\ Batch(q, l) \in Batches
<1>1. l.ctrl1 = RCtrl[q]
  BY DEF Parsed
<1>2. l.req = q + 3 /\ l.req \in Nat
  BY <1>1 DEF SoundL2s, L2s
<1>3. DOMAIN ReachOf[q] = 1 .. Len(ReachOf[q])
  BY ConstantsAssumption
<1>4. Len(ReachOf[q]) \in Nat
  BY ConstantsAssumption
<1>5. Parsed(q, l) \subseteq 1 .. Len(ReachOf[q])
  BY <1>3 DEF Parsed
<1>6. Parsed(q, l) \in SUBSET Nat
  BY <1>4, <1>5
<1> QED
  BY <1>2, <1>5, <1>6 DEF Batch, Batches

----------------------------------------------------------------------------
(* The inductive invariant.                                                *)

\* A conversation starts sound.
LEMMA InitSound == Init => IInv
<1> SUFFICES ASSUME Init PROVE IInv
  OBVIOUS
<1>1. <<>> \in Seq(Batches) /\ <<>> \in Seq(SoundRequests) /\ <<>> \in Seq(SoundPackets)
  OBVIOUS
<1>2. NQ \in Nat \ {0} /\ MaxFaults \in Nat
  BY ConstantsAssumption
<1>3. /\ data_vector \in Seq(Batches)
      /\ h2d \in Seq(SoundRequests)
      /\ d2h \in Seq(SoundPackets)
  BY <1>1 DEF Init
<1>4. pc \in Points /\ query \in 1 .. NQ + 1
  BY <1>2 DEF Init, Points
<1>5. /\ recv_pl2 \in SoundL2s
      /\ l2_packet_send_count \in Nat
      /\ model \in Models \cup {NoModel}
      /\ code \in DeviceCodes
  BY ClearedSound DEF Init
<1>6. acquainted \in BOOLEAN /\ admitted \in BOOLEAN /\ linkUp \in BOOLEAN
  BY Zenon DEF Init
<1>7. faults \in 0 .. MaxFaults
  BY <1>2 DEF Init
<1>8. InStep
  BY <1>2 DEF Init, InStep, Final, Queries
<1> QED
  BY <1>3, <1>4, <1>5, <1>6, <1>7, <1>8 DEF IInv, SoundTypes

\* A request that is transmitted keeps the requests under way sound.
LEMMA TransmitSound ==
  ASSUME NEW r \in SoundRequests, h2d \in Seq(SoundRequests), Transmit(r)
  PROVE  h2d' \in Seq(SoundRequests)
  BY DEF Transmit

\* A read takes one sound packet away.
LEMMA ReadSound ==
  ASSUME SoundTypes, Read
  PROVE  d2h' \in Seq(SoundPackets) /\ Received \in SoundL2s
  BY ReceivedSound DEF SoundTypes, Read

\* Whatever sound packets the inverter says, the channel stays sound.
LEMMA SaySound ==
  ASSUME d2h \in Seq(SoundPackets), NEW packets \in Seq(SoundPackets), Say(packets)
  PROVE  d2h' \in Seq(SoundPackets)
  BY DEF Say

\* Every step of the program keeps the invariant.
LEMMA HostSound == IInv /\ Host => IInv'
<1> SUFFICES ASSUME IInv, Host PROVE IInv'
  OBVIOUS
<1> USE DEF IInv, Points, Waiting, Waits, Final, device
<1>0. NQ \in Nat \ {0} /\ SoundTypes /\ InStep
  BY ConstantsAssumption
<1>1. CASE BtConnect
  BY <1>0, <1>1 DEF BtConnect, SoundTypes, InStep
<1>2. CASE Skip
  <2>1. d2h' \in Seq(SoundPackets) /\ recv_pl2' \in SoundL2s
    BY <1>0, <1>2, ReadSound DEF Skip
  <2> QED
    BY <1>0, <1>2, <2>1 DEF Skip, SoundTypes, InStep
<1>3. CASE GotHello
  <2>1. d2h' \in Seq(SoundPackets)
    BY <1>0, <1>3, ReadSound DEF GotHello, Awaited
  <2>2. Request("hello", 0, 0) \in SoundRequests
    BY DEF Request, SoundRequests, Requests
  <2>3. h2d' \in Seq(SoundRequests)
    BY <1>0, <1>3, <2>2, TransmitSound DEF GotHello, SoundTypes
  <2> QED
    BY <1>0, <1>3, <2>1, <2>3 DEF GotHello, Awaited, SoundTypes, InStep
<1>4. CASE GotCmd10
  <2>1. d2h' \in Seq(SoundPackets)
    BY <1>0, <1>4, ReadSound DEF GotCmd10, Awaited
  <2> QED
    BY <1>0, <1>4, <2>1 DEF GotCmd10, Awaited, SoundTypes, InStep
<1>5. CASE GotCmd5
  <2>1. d2h' \in Seq(SoundPackets)
    BY <1>0, <1>5, ReadSound DEF GotCmd5, Awaited
  <2>2. Request("identify", 0, l2_packet_send_count) \in SoundRequests
    BY <1>0 DEF Request, SoundRequests, Requests, SoundTypes
  <2>3. h2d' \in Seq(SoundRequests)
    BY <1>0, <1>5, <2>2, TransmitSound DEF GotCmd5, SendL2, SoundTypes
  <2> QED
    BY <1>0, <1>5, <2>1, <2>3 DEF GotCmd5, Awaited, SendL2, SoundTypes, InStep
<1>6. CASE GotIdentity
  <2>1. d2h' \in Seq(SoundPackets) /\ Received \in SoundL2s
    BY <1>0, <1>6, ReadSound DEF GotIdentity, Awaited
  <2>2. Request("logoff", 0, l2_packet_send_count) \in SoundRequests
    BY <1>0 DEF Request, SoundRequests, Requests, SoundTypes
  <2>3. h2d' \in Seq(SoundRequests)
    BY <1>0, <1>6, <2>2, TransmitSound DEF GotIdentity, SendL2, SoundTypes
  <2>4. model' \in Models \cup {NoModel}
    <3>1. Received.code \in DeviceCodes \cup {0}
      BY <2>1 DEF SoundL2s, L2s
    <3>2. Lookup(Received.code) \in Models \cup {NoModel}
      BY <3>1, ConstantsAssumption
    <3> QED
      BY <1>0, <1>6, <3>2 DEF GotIdentity, ModelAfter, SoundTypes
  <2> QED
    BY <1>0, <1>6, <2>1, <2>3, <2>4
       DEF GotIdentity, Awaited, SendL2, SoundTypes, InStep
<1>7. CASE Login
  <2>1. Request("login", 0, l2_packet_send_count) \in SoundRequests
    BY <1>0 DEF Request, SoundRequests, Requests, SoundTypes
  <2>2. h2d' \in Seq(SoundRequests)
    BY <1>0, <1>7, <2>1, TransmitSound DEF Login, SendL2, SoundTypes
  <2> QED
    BY <1>0, <1>7, <2>2, ClearedSound DEF Login, SendL2, SoundTypes, InStep
<1>8. CASE GotLogin
  <2>1. d2h' \in Seq(SoundPackets)
    BY <1>0, <1>8, ReadSound DEF GotLogin, Awaited
  <2> QED
    BY <1>0, <1>8, <2>1, ClearedSound DEF GotLogin, Awaited, SoundTypes, InStep
<1>9. CASE Ask
  <2>1. Request("query", query, l2_packet_send_count) \in SoundRequests
    BY <1>0, <1>9 DEF Ask, Request, SoundRequests, Requests, SoundTypes, InStep, Queries
  <2>2. h2d' \in Seq(SoundRequests)
    BY <1>0, <1>9, <2>1, TransmitSound DEF Ask, SendL2, SoundTypes
  <2> QED
    BY <1>0, <1>9, <2>2 DEF Ask, SendL2, SoundTypes, InStep, Queries
<1>10. CASE GotAnswer
  <2>1. d2h' \in Seq(SoundPackets) /\ Received \in SoundL2s
    BY <1>0, <1>10, ReadSound DEF GotAnswer, Awaited
  <2>2. query \in Queries
    BY <1>0, <1>10 DEF GotAnswer, Awaited, InStep
  <2>3. data_vector' \in Seq(Batches)
    BY <1>0, <1>10, <2>1, <2>2, ParsedOwn DEF GotAnswer, SoundTypes
  <2>4. l2_packet_send_count = query + 4
    BY <1>0, <1>10 DEF GotAnswer, Awaited, InStep
  <2> QED
    BY <1>0, <1>10, <2>1, <2>2, <2>3, <2>4 DEF GotAnswer, Awaited, SoundTypes, InStep, Queries
<1>11. CASE Timeout
  <2>1. faults' \in 0 .. MaxFaults
    BY <1>0, <1>11, ConstantsAssumption DEF Timeout, SoundTypes
  <2> QED
    BY <1>0, <1>11, <2>1 DEF Timeout, SoundTypes, InStep
<1> QED
  BY <1>1, <1>2, <1>3, <1>4, <1>5, <1>6, <1>7, <1>8, <1>9, <1>10, <1>11 DEF Host

\* Every step of the inverter and of the link keeps the invariant.
LEMMA DeviceSound ==
  ASSUME IInv, Inverter \/ Chatter \/ Misrespond \/ LinkLoss
  PROVE  IInv'
<1> USE DEF IInv, host, device
<1>0. /\ SoundTypes /\ InStep
      /\ d2h \in Seq(SoundPackets) /\ h2d \in Seq(SoundRequests)
      /\ code \in DeviceCodes
      /\ acquainted \in BOOLEAN /\ admitted \in BOOLEAN
      /\ MaxFaults \in Nat
  BY ConstantsAssumption DEF SoundTypes
<1>1. ASSUME UNCHANGED host PROVE InStep'
  BY <1>0, <1>1 DEF InStep
<1>2. ASSUME Hear
      PROVE  h2d' \in Seq(SoundRequests) /\ Head(h2d) \in SoundRequests
  BY <1>0, <1>2 DEF Hear
<1>3. CASE Greet
  <2>1. <<Plain(BROADCAST)>> \in Seq(SoundPackets)
    BY PlainSound DEF BROADCAST
  <2>2. d2h' \in Seq(SoundPackets)
    BY <1>0, <1>3, <2>1, SaySound DEF Greet
  <2> QED
    BY <1>0, <1>1, <1>3, <2>2 DEF Greet, SoundTypes
<1>4. CASE Respond
  <2>1. d2h' \in Seq(SoundPackets)
    BY <1>0, <1>2, <1>4, ReplySound, SaySound DEF Respond
  <2>2. acquainted' \in BOOLEAN
    BY <1>4, Zenon DEF Respond
  <2> QED
    BY <1>0, <1>1, <1>2, <1>4, <2>1, <2>2 DEF Respond, SoundTypes
<1>5. CASE Chatter
  <2>1. PICK cmd \in {BROADCAST, CMD12} : Say(<<Plain(cmd)>>)
    BY <1>5 DEF Chatter
  <2>2. <<Plain(cmd)>> \in Seq(SoundPackets)
    BY PlainSound DEF BROADCAST, CMD12
  <2>3. d2h' \in Seq(SoundPackets)
    BY <1>0, <2>1, <2>2, SaySound
  <2> QED
    BY <1>0, <1>1, <1>5, <2>3 DEF Chatter, SoundTypes
<1>6. CASE Misrespond
  <2>1. PICK packets \in Misreplies(Head(h2d)) : Say(packets)
    BY <1>6 DEF Misrespond
  <2>2. packets \in Seq(SoundPackets)
    BY <1>0, <1>2, <1>6, MisreplySound DEF Misrespond
  <2>3. d2h' \in Seq(SoundPackets)
    BY <1>0, <2>1, <2>2, SaySound
  <2>4. acquainted' \in BOOLEAN /\ admitted' \in BOOLEAN
    BY <1>0, <1>6, Zenon DEF Misrespond
  <2> QED
    BY <1>0, <1>1, <1>2, <1>6, <2>3, <2>4 DEF Misrespond, SoundTypes
<1>7. CASE LinkLoss
  <2>1. <<>> \in Seq(SoundRequests)
    OBVIOUS
  <2> QED
    BY <1>0, <1>1, <1>7, <2>1 DEF LinkLoss, SoundTypes
<1> QED
  BY <1>3, <1>4, <1>5, <1>6, <1>7 DEF Inverter

\* So every state of every conversation is sound.
LEMMA Soundness == Spec => []IInv
<1>1. ASSUME IInv, [Next]_vars PROVE IInv'
  <2>1. CASE Host
    BY <1>1, <2>1, HostSound
  <2>2. CASE Inverter \/ Chatter \/ Misrespond \/ LinkLoss
    BY <1>1, <2>2, DeviceSound
  <2>3. CASE UNCHANGED vars
    BY <1>1, <2>3 DEF vars, host, device, IInv, SoundTypes, InStep
  <2> QED
    BY <1>1, <2>1, <2>2, <2>3 DEF Next, Idle
<1> QED
  BY InitSound, <1>1, PTL DEF Spec

\* Every variable of a conversation keeps its type, whatever is received.
THEOREM TypeCorrect == Spec => []TypeOK
<1>1. SoundPackets \subseteq Packets /\ SoundRequests \subseteq Requests
  BY DEF SoundPackets, Packets, SoundRequests, SoundL2s
<1>2. Seq(SoundPackets) \subseteq Seq(Packets) /\ Seq(SoundRequests) \subseteq Seq(Requests)
  BY <1>1
<1>3. IInv => TypeOK
  BY <1>2 DEF IInv, SoundTypes, TypeOK, SoundL2s
<1> QED
  BY Soundness, <1>3, PTL

----------------------------------------------------------------------------
(* The conversation implements the poll.                                   *)

\* in_smadata2plus_connect, _login and _get_values, with the reads under
\* them, work the queries off in order and keep only values from the answer
\* to a query's own request, whatever the inverter sends.
THEOREM SessionImplementsPoll == Spec => ImplementsPoll
<1> DEFINE Mapped == <<query, data_vector, pc \in Final>>
<1>1. Init => P!Init
  BY DEF Init, P!Init, Final
<1>2. ASSUME IInv, Next PROVE P!Next \/ UNCHANGED Mapped
  <2> USE DEF Final, Waiting, Waits
  <2>1. CASE GotAnswer
    <3>1. query \in Queries /\ Received \in SoundL2s /\ pc = "answer"
      BY <1>2, <2>1, ReadSound DEF IInv, InStep, GotAnswer, Awaited
    <3>2. query' = query + 1 /\ (pc' \in Final) \in BOOLEAN /\ ~(pc \in Final)
      BY <2>1, <3>1 DEF GotAnswer
    <3>3. CASE Parsed(query, Received) = {}
      <4>1. P!Miss
        BY <2>1, <3>1, <3>2, <3>3 DEF GotAnswer, P!Miss, Queries
      <4> QED
        BY <3>2, <4>1 DEF P!Next
    <3>4. CASE Parsed(query, Received) # {}
      <4> DEFINE values == Parsed(query, Received)
                 Count == [q \in Queries |-> Len(ReachOf[q])]
      <4>1. /\ Received.req = query + 3
            /\ values \subseteq 1 .. Len(ReachOf[query])
            /\ values # {}
        BY <3>1, <3>4, ParsedOwn
      <4>2. Count[query] = Len(ReachOf[query])
        BY <3>1
      <4>3. Batch(query, Received) = P!Batch(query, values)
        BY <3>1, <4>1 DEF Batch, P!Batch
      <4>4. data_vector' = Append(data_vector, P!Batch(query, values))
        BY <2>1, <3>4, <4>3 DEF GotAnswer
      <4>5. P!Keep
        <5>1. query \in 1 .. NQ /\ query' = query + 1
          BY <3>1, <3>2 DEF Queries
        <5> HIDE DEF values
        <5>2. values \in (SUBSET (1 .. Len(ReachOf[query]))) \ {{}}
          BY <4>1
        <5>3. \E v \in (SUBSET (1 .. Count[query])) \ {{}} :
                 data_vector' = Append(data_vector, P!Batch(query, v))
          BY <4>2, <4>4, <5>2
        <5> QED
          BY <5>1, <5>3, Zenon DEF P!Keep
      <4> QED
        BY <3>2, <4>5 DEF P!Next
    <3> QED
      BY <3>3, <3>4
  <2>2. CASE Timeout
    BY <2>2 DEF Timeout, P!Next, P!Stop
  <2>3. CASE BtConnect \/ GotHello \/ GotCmd10 \/ GotCmd5 \/ GotIdentity \/ GotLogin
    <3>1. CASE BtConnect
      BY <3>1 DEF BtConnect
    <3>2. CASE GotHello
      BY <3>2 DEF GotHello, Awaited
    <3>3. CASE GotCmd10
      BY <3>3 DEF GotCmd10, Awaited
    <3>4. CASE GotCmd5
      BY <3>4 DEF GotCmd5, Awaited
    <3>5. CASE GotIdentity
      BY <3>5 DEF GotIdentity, Awaited
    <3>6. CASE GotLogin
      BY <3>6 DEF GotLogin, Awaited
    <3> QED
      BY <2>3, <3>1, <3>2, <3>3, <3>4, <3>5, <3>6
  <2>4. CASE Skip \/ Login \/ Ask
    BY <2>4 DEF Skip, Login, Ask
  <2>5. CASE Inverter \/ Chatter \/ Misrespond \/ LinkLoss \/ Idle
    BY <2>5 DEF Inverter, Greet, Respond, Chatter, Misrespond, LinkLoss, Idle,
                vars, host
  <2> QED
    BY <1>2, <2>1, <2>2, <2>3, <2>4, <2>5 DEF Next, Host
<1>3. ASSUME IInv, [Next]_vars PROVE [P!Next]_(P!vars)
  <2>1. UNCHANGED vars => UNCHANGED Mapped
    BY DEF vars, host
  <2> QED
    BY <1>2, <1>3, <2>1 DEF P!vars
<1> QED
  BY <1>1, <1>3, Soundness, PTL DEF Spec, ImplementsPoll, P!Spec

----------------------------------------------------------------------------
(* A sound inverter is polled completely.                                  *)

\* The requests that are answered with a Level-2 packet.
Asks(r) == r.kind \in {"identify", "login", "query"}
Level2(packet) == packet.cmd = LEVEL2

NoAsks(h) == \A i \in DOMAIN h : ~Asks(h[i])
NoLevel2(d) == \A i \in DOMAIN d : ~Level2(d[i])

\* Of a sound inverter no more than one Level-2 answer is ever due: it is on
\* its way, or the request for it is.
OneAsk(h) == \A i, j \in DOMAIN h : Asks(h[i]) /\ Asks(h[j]) => i = j
OneLevel2(d) == \A i, j \in DOMAIN d : Level2(d[i]) /\ Level2(d[j]) => i = j
OneDue == OneAsk(h2d) /\ OneLevel2(d2h) /\ (NoAsks(h2d) \/ NoLevel2(d2h))

\* None is due where the program does not wait for one.
NoneDue ==
  pc \notin {"identify", "login", "answer", "exit"} => NoAsks(h2d) /\ NoLevel2(d2h)

\* While an answer is waited for, it is the complete answer to the query.
CompleteAnswer(q) ==
  Packet(LEVEL2, TRUE, L2(q + 3, RCtrl[q], FullLen[q], code))

AsksOnly(h, r) == \A i \in DOMAIN h : Asks(h[i]) => h[i] = r
Level2Only(d, packet) == \A i \in DOMAIN d : Level2(d[i]) => d[i] = packet

AnswerDue ==
  pc = "answer" =>
    /\ AsksOnly(h2d, Request("query", query, query + 3))
    /\ Level2Only(d2h, CompleteAnswer(query))

\* So far every query was answered in full.
FullBatch(q) == [query |-> q, answers |-> q + 3, values |-> DOMAIN ReachOf[q]]

FullSoFar ==
  /\ data_vector = [q \in 1 .. query - 1 |-> FullBatch(q)]
  /\ pc = "done" => query = NQ + 1

InTurn == OneDue /\ NoneDue /\ AnswerDue /\ FullSoFar
CInv == faults = 0 => InTurn /\ admitted

\* Taking a packet out of its channel; if it holds a Level-2 packet, it was the
\* only one.
LEMMA TailOfPackets ==
  ASSUME NEW S, NEW d \in Seq(S), d # <<>>, NEW t, t = Tail(d)
  PROVE  /\ NoLevel2(d) => NoLevel2(t)
         /\ OneLevel2(d) => OneLevel2(t)
         /\ OneLevel2(d) /\ Level2(Head(d)) => NoLevel2(t)
         /\ \A packet : Level2Only(d, packet) => Level2Only(t, packet)
<1>1. /\ Len(d) \in Nat /\ DOMAIN d = 1 .. Len(d) /\ 1 \in DOMAIN d
      /\ DOMAIN t = 1 .. Len(d) - 1 /\ Head(d) = d[1]
      /\ \A i \in DOMAIN t : i + 1 \in DOMAIN d /\ i + 1 # 1 /\ t[i] = d[i + 1]
  OBVIOUS
<1> QED BY <1>1 DEF NoLevel2, OneLevel2, Level2Only

\* The same for a request.
LEMMA TailOfRequests ==
  ASSUME NEW S, NEW h \in Seq(S), h # <<>>, NEW t, t = Tail(h)
  PROVE  /\ NoAsks(h) => NoAsks(t)
         /\ OneAsk(h) => OneAsk(t)
         /\ OneAsk(h) /\ Asks(Head(h)) => NoAsks(t)
         /\ ~NoAsks(t) => ~NoAsks(h)
         /\ \A r : AsksOnly(h, r) => AsksOnly(t, r)
<1>1. /\ Len(h) \in Nat /\ DOMAIN h = 1 .. Len(h) /\ 1 \in DOMAIN h
      /\ DOMAIN t = 1 .. Len(h) - 1 /\ Head(h) = h[1]
      /\ \A i \in DOMAIN t : i + 1 \in DOMAIN h /\ i + 1 # 1 /\ t[i] = h[i + 1]
  OBVIOUS
<1> QED BY <1>1 DEF NoAsks, OneAsk, AsksOnly

\* One more request under way.
LEMMA MoreRequests ==
  ASSUME NEW S, NEW h \in Seq(S), NEW r, NEW t, t = Append(h, r) \/ t = h
  PROVE  /\ NoAsks(h) => OneAsk(t) /\ AsksOnly(t, r)
         /\ NoAsks(h) /\ ~Asks(r) => NoAsks(t)
<1>1. CASE t = h
  BY <1>1 DEF NoAsks, OneAsk, AsksOnly
<1>2. CASE t = Append(h, r)
  <2>1. /\ Len(h) \in Nat /\ DOMAIN h = 1 .. Len(h) /\ DOMAIN t = 1 .. Len(h) + 1
        /\ \A i \in DOMAIN t :
             (i = Len(h) + 1 /\ t[i] = r) \/ (i \in DOMAIN h /\ t[i] = h[i])
    BY <1>2
  <2> QED BY <2>1 DEF NoAsks, OneAsk, AsksOnly
<1> QED BY <1>1, <1>2

\* More packets under way, none of which holds a Level-2 packet.
LEMMA MorePackets ==
  ASSUME NEW S, NEW d \in Seq(S), NEW e \in Seq(S), NoLevel2(e), NEW t, t = d \o e
  PROVE  /\ NoLevel2(d) => NoLevel2(t)
         /\ OneLevel2(d) => OneLevel2(t)
         /\ \A packet : Level2Only(d, packet) => Level2Only(t, packet)
<1>1. /\ Len(d) \in Nat /\ Len(e) \in Nat
      /\ DOMAIN d = 1 .. Len(d) /\ DOMAIN e = 1 .. Len(e)
      /\ DOMAIN t = 1 .. Len(d) + Len(e)
      /\ \A i \in DOMAIN t : t[i] = IF i <= Len(d) THEN d[i] ELSE e[i - Len(d)]
  OBVIOUS
<1>2. \A i \in DOMAIN t : Level2(t[i]) => i \in DOMAIN d /\ t[i] = d[i]
  <2> SUFFICES ASSUME NEW i \in DOMAIN t, Level2(t[i]) PROVE i \in DOMAIN d /\ t[i] = d[i]
    OBVIOUS
  <2>1. CASE i <= Len(d)
    BY <1>1, <2>1
  <2>2. CASE ~(i <= Len(d))
    <3>1. i - Len(d) \in DOMAIN e /\ t[i] = e[i - Len(d)]
      BY <1>1, <2>2
    <3> QED BY <3>1 DEF NoLevel2
  <2> QED BY <2>1, <2>2
<1> QED BY <1>2 DEF NoLevel2, OneLevel2, Level2Only

\* The one Level-2 packet that is due.
LEMMA OneMorePacket ==
  ASSUME NEW S, NEW d \in Seq(S), NoLevel2(d), NEW packet \in S,
         NEW t, t = d \o <<packet>>
  PROVE  OneLevel2(t) /\ Level2Only(t, packet)
<1>1. /\ Len(d) \in Nat /\ DOMAIN d = 1 .. Len(d) /\ DOMAIN t = 1 .. Len(d) + 1
      /\ \A i \in DOMAIN t :
           (i = Len(d) + 1 /\ t[i] = packet) \/ (i \in DOMAIN d /\ t[i] = d[i])
  OBVIOUS
<1> QED BY <1>1 DEF NoLevel2, OneLevel2, Level2Only

\* A conversation starts with nothing due.
LEMMA InitInTurn == Init => CInv
<1> SUFFICES ASSUME Init PROVE InTurn
  BY DEF CInv, Init
<1>1. OneDue /\ NoneDue /\ AnswerDue
  BY DEF Init, OneDue, NoneDue, AnswerDue, OneAsk, OneLevel2, NoAsks, NoLevel2
<1>2. [q \in 1 .. query - 1 |-> FullBatch(q)] = <<>>
  BY DEF Init
<1>3. FullSoFar
  BY <1>2 DEF Init, FullSoFar
<1> QED BY <1>1, <1>3 DEF InTurn

\* A complete answer brings every value of its query.
LEMMA ParsedFully ==
  ASSUME NEW q \in Queries
  PROVE  /\ Parsed(q, CompleteAnswer(q).l2) = DOMAIN ReachOf[q]
         /\ DOMAIN ReachOf[q] # {}
         /\ Batch(q, CompleteAnswer(q).l2) = FullBatch(q)
<1>1. /\ CompleteAnswer(q).l2.ctrl1 = RCtrl[q]
      /\ CompleteAnswer(q).l2.len = FullLen[q]
      /\ CompleteAnswer(q).l2.req = q + 3
  BY DEF CompleteAnswer, Packet, L2
<1>2. ReachOf[q] \in Seq(Nat) /\ FullLen[q] \in Nat /\ ReachOf[q] # <<>>
  BY ConstantsAssumption, AnswersAssumption
<1>3. \A v \in DOMAIN ReachOf[q] : FullLen[q] >= ReachOf[q][v]
  BY <1>2, AnswersAssumption
<1>4. Parsed(q, CompleteAnswer(q).l2) = DOMAIN ReachOf[q]
  BY <1>1, <1>3 DEF Parsed
<1>5. DOMAIN ReachOf[q] # {}
  <2>1. \A s \in Seq(Nat) : s # <<>> => 1 \in DOMAIN s
    OBVIOUS
  <2> QED BY <1>2, <2>1
<1> QED BY <1>1, <1>4, <1>5 DEF Batch, FullBatch

\* Every step of the program keeps to its turn.
LEMMA HostInTurn ==
  ASSUME IInv, InTurn, Host
  PROVE  InTurn'
<1> USE DEF device, Points, Waiting, Waits, Final
<1>0. /\ SoundTypes /\ InStep /\ OneDue /\ NoneDue /\ AnswerDue /\ FullSoFar
      /\ d2h \in Seq(SoundPackets) /\ h2d \in Seq(SoundRequests)
      /\ query \in 1 .. NQ + 1 /\ NQ \in Nat \ {0}
  BY ConstantsAssumption DEF IInv, InTurn, SoundTypes
<1> HIDE DEF SoundTypes
<1>a. ASSUME Read
      PROVE  /\ NoLevel2(d2h) => NoLevel2(d2h')
             /\ OneLevel2(d2h')
             /\ Level2(Head(d2h)) => NoLevel2(d2h')
             /\ \A packet : Level2Only(d2h, packet) => Level2Only(d2h', packet)
  BY <1>0, <1>a, TailOfPackets DEF Read, OneDue
<1>b. ASSUME NEW r, Transmit(r)
      PROVE  /\ NoAsks(h2d) => OneAsk(h2d') /\ AsksOnly(h2d', r)
             /\ NoAsks(h2d) /\ ~Asks(r) => NoAsks(h2d')
  <2>1. h2d' = Append(h2d, r) \/ h2d' = h2d
    BY <1>b DEF Transmit
  <2> QED BY <1>0, <2>1, MoreRequests
<1>c. ASSUME NoAsks(h2d'), NoLevel2(d2h'),
             FullSoFar'
      PROVE  InTurn'
  BY <1>c DEF InTurn, OneDue, NoneDue, AnswerDue, OneAsk, OneLevel2, NoAsks, NoLevel2,
              AsksOnly, Level2Only
<1>d. ASSUME data_vector' = data_vector, query' = query, pc' # "done"
      PROVE  FullSoFar'
  BY <1>0, <1>d DEF FullSoFar, FullBatch
<1>1. CASE BtConnect
  <2>1. NoAsks(h2d') /\ NoLevel2(d2h')
    BY <1>0, <1>1 DEF BtConnect, NoneDue
  <2> QED BY <1>1, <1>c, <1>d, <2>1 DEF BtConnect
<1>2. CASE Skip
  <2>1. Read /\ h2d' = h2d /\ pc' = pc /\ query' = query /\ code' = code
    BY <1>2 DEF Skip
  <2>2. OneDue'
    BY <1>0, <1>a, <2>1 DEF OneDue
  <2>3. NoneDue'
    BY <1>0, <1>a, <2>1 DEF NoneDue
  <2>4. AnswerDue'
    BY <1>0, <1>a, <2>1 DEF AnswerDue, CompleteAnswer
  <2>5. FullSoFar'
    BY <1>2, <1>d DEF Skip, Read
  <2> QED BY <2>2, <2>3, <2>4, <2>5 DEF InTurn
<1>3. CASE GotHello
  <2>1. Read /\ pc = "hello" /\ Transmit(Request("hello", 0, 0))
    BY <1>3 DEF GotHello, Awaited
  <2>2. ~Asks(Request("hello", 0, 0))
    BY DEF Asks, Request
  <2>3. NoAsks(h2d') /\ NoLevel2(d2h')
    BY <1>0, <1>a, <1>b, <2>1, <2>2 DEF NoneDue
  <2> QED BY <1>3, <1>c, <1>d, <2>3 DEF GotHello
<1>4. CASE GotCmd10
  <2>1. Read /\ pc = "cmd10" /\ h2d' = h2d
    BY <1>4 DEF GotCmd10, Awaited
  <2>2. NoAsks(h2d') /\ NoLevel2(d2h')
    BY <1>0, <1>a, <2>1 DEF NoneDue
  <2> QED BY <1>4, <1>c, <1>d, <2>2 DEF GotCmd10
<1>5. CASE GotCmd5
  <2> DEFINE r == Request("identify", 0, l2_packet_send_count)
  <2>1. Read /\ pc = "cmd5" /\ Transmit(r) /\ pc' = "identify"
    BY <1>5 DEF GotCmd5, Awaited, SendL2
  <2>2. OneAsk(h2d') /\ NoLevel2(d2h')
    BY <1>0, <1>a, <1>b, <2>1 DEF NoneDue
  <2>3. FullSoFar'
    BY <1>5, <1>d DEF GotCmd5
  <2> QED
    BY <1>a, <2>1, <2>2, <2>3 DEF InTurn, OneDue, NoneDue, AnswerDue
<1>6. CASE GotIdentity
  <2> DEFINE r == Request("logoff", 0, l2_packet_send_count)
  <2>1. Read /\ pc = "identify" /\ Transmit(r) /\ Level2(Head(d2h))
    BY <1>6 DEF GotIdentity, Awaited, SendL2, Level2
  <2>2. ~Asks(r)
    BY DEF Asks, Request
  <2>3. NoAsks(h2d)
    BY <1>0, <2>1 DEF OneDue, NoLevel2, Read
  <2>4. NoAsks(h2d') /\ NoLevel2(d2h')
    BY <1>a, <1>b, <2>1, <2>2, <2>3
  <2> QED BY <1>6, <1>c, <1>d, <2>4 DEF GotIdentity
<1>7. CASE Login
  <2> DEFINE r == Request("login", 0, l2_packet_send_count)
  <2>1. pc = "connected" /\ Transmit(r) /\ pc' = "login" /\ d2h' = d2h
    BY <1>7 DEF Login, SendL2
  <2>2. OneAsk(h2d') /\ NoLevel2(d2h') /\ OneLevel2(d2h')
    BY <1>0, <1>b, <2>1 DEF NoneDue, OneDue
  <2>3. FullSoFar'
    BY <1>7, <1>d DEF Login
  <2> QED BY <2>1, <2>2, <2>3 DEF InTurn, OneDue, NoneDue, AnswerDue
<1>8. CASE GotLogin
  <2>1. Read /\ pc = "login" /\ h2d' = h2d /\ Level2(Head(d2h))
    BY <1>8 DEF GotLogin, Awaited, Level2
  <2>2. NoAsks(h2d)
    BY <1>0, <2>1 DEF OneDue, NoLevel2, Read
  <2>3. NoAsks(h2d') /\ NoLevel2(d2h')
    BY <1>a, <2>1, <2>2
  <2> QED BY <1>8, <1>c, <1>d, <2>3 DEF GotLogin
<1>9. CASE Ask
  <2> DEFINE r == Request("query", query, query + 3)
  <2>1. /\ pc = "ask" /\ l2_packet_send_count = query + 3 /\ pc' = "answer"
        /\ d2h' = d2h /\ query' = query
    BY <1>0, <1>9 DEF Ask, InStep
  <2>2. Transmit(r)
    BY <1>9, <2>1 DEF Ask, SendL2
  <2>3. OneAsk(h2d') /\ AsksOnly(h2d', r) /\ NoLevel2(d2h') /\ OneLevel2(d2h')
    BY <1>0, <1>b, <2>1, <2>2 DEF NoneDue, OneDue
  <2>4. FullSoFar'
    BY <1>9, <1>d DEF Ask
  <2> QED
    BY <2>1, <2>3, <2>4 DEF InTurn, OneDue, NoneDue, AnswerDue, Level2Only, NoLevel2
<1>10. CASE GotAnswer
  <2> DEFINE l == CompleteAnswer(query).l2
  <2>1. /\ Read /\ pc = "answer" /\ h2d' = h2d /\ Level2(Head(d2h))
        /\ query \in Queries /\ query' = query + 1
        /\ pc' = IF query = NQ THEN "done" ELSE "ask"
    BY <1>0, <1>10 DEF GotAnswer, Awaited, Level2, InStep
  <2>2. Head(d2h) = CompleteAnswer(query)
    <3>1. 1 \in DOMAIN d2h /\ Head(d2h) = d2h[1]
      BY <1>0, <2>1 DEF Read
    <3> QED BY <1>0, <2>1, <3>1 DEF AnswerDue, Level2Only
  <2>3. Received = l
    BY <2>1, <2>2 DEF Received, CompleteAnswer, Packet
  <2>4. data_vector' = Append(data_vector, FullBatch(query))
    BY <1>10, <2>1, <2>3, ParsedFully DEF GotAnswer
  <2>5. FullSoFar'
    <3>1. data_vector = [q \in 1 .. query - 1 |-> FullBatch(q)]
      BY <1>0 DEF FullSoFar
    <3>2. data_vector' = [q \in 1 .. query |-> FullBatch(q)]
      BY <2>1, <2>4, <3>1 DEF Queries
    <3>3. (query + 1) - 1 = query
      BY <2>1 DEF Queries
    <3> QED BY <2>1, <3>2, <3>3 DEF FullSoFar, FullBatch
  <2>6. NoAsks(h2d)
    BY <1>0, <2>1 DEF OneDue, NoLevel2, Read
  <2>7. NoAsks(h2d') /\ NoLevel2(d2h')
    BY <1>a, <2>1, <2>6
  <2> QED BY <1>c, <2>5, <2>7
<1>11. CASE Timeout
  <2>1. /\ h2d' = h2d /\ d2h' = d2h /\ pc' = "exit"
        /\ data_vector' = data_vector /\ query' = query
    BY <1>11 DEF Timeout
  <2>2. FullSoFar'
    BY <1>d, <2>1
  <2> QED BY <1>0, <2>1, <2>2 DEF InTurn, OneDue, NoneDue, AnswerDue
<1> QED
  BY <1>1, <1>2, <1>3, <1>4, <1>5, <1>6, <1>7, <1>8, <1>9, <1>10, <1>11 DEF Host

\* Every step of a sound inverter answers in its turn.
LEMMA InverterInTurn ==
  ASSUME IInv, InTurn, admitted, Inverter \/ Chatter \/ LinkLoss
  PROVE  InTurn'
<1> USE DEF host, device
<1>0. /\ OneDue /\ NoneDue /\ AnswerDue /\ FullSoFar
      /\ d2h \in Seq(SoundPackets) /\ h2d \in Seq(SoundRequests)
      /\ code \in DeviceCodes
  BY DEF IInv, InTurn, SoundTypes
<1>1. UNCHANGED host /\ code' = code
  BY DEF Inverter, Greet, Respond, Chatter, LinkLoss
<1>2. FullSoFar'
  BY <1>0, <1>1 DEF FullSoFar, FullBatch
<1>3. ASSUME NEW packets \in Seq(SoundPackets), NoLevel2(packets), Say(packets)
      PROVE  /\ NoLevel2(d2h) => NoLevel2(d2h')
             /\ OneLevel2(d2h')
             /\ \A packet : Level2Only(d2h, packet) => Level2Only(d2h', packet)
  BY <1>0, <1>3, MorePackets DEF Say, OneDue
<1>4. ASSUME /\ h2d' = h2d
             /\ NoLevel2(d2h) => NoLevel2(d2h')
             /\ OneLevel2(d2h')
             /\ \A packet : Level2Only(d2h, packet) => Level2Only(d2h', packet)
      PROVE  InTurn'
  BY <1>0, <1>1, <1>2, <1>4 DEF InTurn, OneDue, NoneDue, AnswerDue, CompleteAnswer
<1>5. ASSUME NEW cmd \in {BROADCAST, CMD12}
      PROVE  <<Plain(cmd)>> \in Seq(SoundPackets) /\ NoLevel2(<<Plain(cmd)>>)
  <2>1. Plain(cmd) \in SoundPackets /\ ~Level2(Plain(cmd))
    BY <1>5, PlainSound DEF BROADCAST, CMD12, Level2, LEVEL2, Plain, Packet
  <2> QED BY <2>1 DEF NoLevel2
<1>6. CASE Greet
  BY <1>3, <1>4, <1>5, <1>6 DEF Greet
<1>7. CASE Chatter
  BY <1>3, <1>4, <1>5, <1>7 DEF Chatter
<1>8. CASE LinkLoss
  <2>1. h2d' = <<>> /\ d2h' = d2h
    BY <1>8 DEF LinkLoss
  <2>2. NoAsks(h2d') /\ OneAsk(h2d')
    BY <2>1 DEF NoAsks, OneAsk
  <2> QED
    BY <1>0, <1>1, <1>2, <2>1, <2>2
       DEF InTurn, OneDue, NoneDue, AnswerDue, CompleteAnswer, AsksOnly, NoAsks
<1>9. CASE Respond
  <2> DEFINE r == Head(h2d)
  <2>1. /\ h2d # <<>> /\ h2d' = Tail(h2d) /\ Say(Reply(r))
        /\ r \in SoundRequests /\ 1 \in DOMAIN h2d /\ r = h2d[1]
    BY <1>0, <1>9 DEF Respond, Hear
  <2>2. /\ NoAsks(h2d) => NoAsks(h2d')
        /\ OneAsk(h2d')
        /\ Asks(r) => NoAsks(h2d')
        /\ \A q : AsksOnly(h2d, q) => AsksOnly(h2d', q)
    BY <1>0, <2>1, TailOfRequests DEF OneDue
  <2> HIDE DEF r
  <2>3. CASE Asks(r)
    <3>1. ~NoAsks(h2d) /\ NoLevel2(d2h)
      BY <1>0, <2>1, <2>3 DEF NoAsks, OneDue
    <3>2. pc \in {"identify", "login", "answer", "exit"}
      BY <1>0, <3>1 DEF NoneDue
    <3> DEFINE packet == Answer(r, LenOf(r))
    <3>3. Reply(r) = <<packet>> /\ packet \in SoundPackets
      BY <1>0, <2>1, <2>3, AnswerSound, LenOfType DEF Reply, Asks
    <3>4. pc = "answer" => packet = CompleteAnswer(query)
      <4> SUFFICES ASSUME pc = "answer" PROVE packet = CompleteAnswer(query)
        OBVIOUS
      <4>1. r = Request("query", query, query + 3)
        BY <1>0, <2>1, <2>3 DEF AnswerDue, AsksOnly
      <4> QED BY <4>1 DEF Request, Answer, LenOf, CompleteAnswer
    <3>5. d2h' = d2h \o <<packet>>
      BY <2>1, <3>3 DEF Say
    <3> HIDE DEF packet
    <3>6. OneLevel2(d2h') /\ Level2Only(d2h', packet)
      BY <1>0, <3>1, <3>3, <3>5, OneMorePacket
    <3>7. AnswerDue'
      BY <1>1, <2>2, <2>3, <3>4, <3>6 DEF AnswerDue, CompleteAnswer, AsksOnly, NoAsks
    <3> QED
      BY <1>1, <1>2, <2>2, <2>3, <3>2, <3>6, <3>7 DEF InTurn, OneDue, NoneDue
  <2>4. CASE ~Asks(r)
    <3>1. r.kind \in {"hello", "logoff"}
      BY <2>1, <2>4 DEF Asks, SoundRequests, Requests
    <3>2. Reply(r) \in Seq(SoundPackets)
      BY <1>0, <2>1, ReplySound
    <3>3. NoLevel2(Reply(r))
      BY <3>1 DEF Reply, NoLevel2, Level2, Plain, Packet, LEVEL2
    <3>4. /\ NoLevel2(d2h) => NoLevel2(d2h')
          /\ OneLevel2(d2h')
          /\ \A packet : Level2Only(d2h, packet) => Level2Only(d2h', packet)
      BY <1>3, <2>1, <3>2, <3>3
    <3> QED
      BY <1>0, <1>1, <1>2, <2>2, <3>4 DEF InTurn, OneDue, NoneDue, AnswerDue, CompleteAnswer
  <2> QED BY <2>3, <2>4
<1> QED BY <1>6, <1>7, <1>8, <1>9 DEF Inverter

\* So a sound inverter keeps every conversation in its turn.
LEMMA StepInTurn == IInv /\ CInv /\ [Next]_vars => CInv'
<1> SUFFICES ASSUME IInv, CInv, [Next]_vars, faults' = 0 PROVE InTurn' /\ admitted'
  BY DEF CInv
<1>1. faults \in Nat
  BY ConstantsAssumption DEF IInv, SoundTypes
<1>2. CASE Misrespond
  BY <1>1, <1>2 DEF Misrespond
<1>3. CASE ~Misrespond
  <2>1. faults = 0
    <3>1. CASE Timeout
      BY <1>1, <3>1 DEF Timeout
    <3>2. CASE Host /\ ~Timeout
      BY <3>2 DEF Host, BtConnect, Skip, GotHello, GotCmd10, GotCmd5, GotIdentity,
                  Login, GotLogin, Ask, GotAnswer, device
    <3>3. CASE Inverter \/ Chatter \/ LinkLoss \/ UNCHANGED vars
      BY <3>3 DEF Inverter, Greet, Respond, Chatter, LinkLoss, vars, device
    <3> QED BY <1>3, <3>1, <3>2, <3>3 DEF Next, Idle
  <2>2. InTurn /\ admitted
    BY <2>1 DEF CInv
  <2>3. admitted' = admitted
    <3>1. CASE Host
      BY <3>1 DEF Host, BtConnect, Skip, GotHello, GotCmd10, GotCmd5, GotIdentity,
                  Login, GotLogin, Ask, GotAnswer, Timeout, device
    <3>2. CASE Inverter \/ Chatter \/ LinkLoss \/ UNCHANGED vars
      BY <3>2 DEF Inverter, Greet, Respond, Chatter, LinkLoss, vars, device
    <3> QED BY <1>3, <3>1, <3>2 DEF Next, Idle
  <2>4. CASE Host
    BY <2>2, <2>3, <2>4, HostInTurn
  <2>5. CASE Inverter \/ Chatter \/ LinkLoss
    BY <2>2, <2>3, <2>5, InverterInTurn
  <2>6. CASE UNCHANGED vars
    <3>1. InTurn'
      BY <2>2, <2>6 DEF vars, host, device, InTurn, OneDue, NoneDue, AnswerDue, FullSoFar,
                        FullBatch, CompleteAnswer
    <3> QED BY <2>2, <2>3, <3>1
  <2> QED BY <1>3, <2>4, <2>5, <2>6 DEF Next, Idle
<1> QED BY <1>2, <1>3

\* in_smadata2plus_get_values: whatever the table of queries, and whatever
\* other packets come in between, a sound inverter has all its values kept.
THEOREM SoundInverterIsPolledCompletely == Spec => []Complete
<1>1. CInv => Complete
  <2> SUFFICES ASSUME CInv, pc = "done", faults = 0
               PROVE  data_vector = [q \in Queries |-> FullBatch(q)]
    BY DEF Complete, FullBatch
  <2>1. data_vector = [q \in 1 .. query - 1 |-> FullBatch(q)] /\ query = NQ + 1
    BY DEF CInv, InTurn, FullSoFar
  <2>2. 1 .. query - 1 = Queries
    BY <2>1, ConstantsAssumption DEF Queries
  <2> QED BY <2>1, <2>2
<1> QED
  BY InitInTurn, StepInTurn, Soundness, <1>1, PTL DEF Spec

----------------------------------------------------------------------------
(* Every step of a poll brings its end nearer, but for packets that nobody *)
(* asked for.                                                              *)

\* What happens once: the end of the link.
Once == IF linkUp THEN 1 ELSE 0

\* What a poll has ahead of it is a number: there is an end to come to.
AheadTypes ==
  /\ ToDo \in Nat /\ (pc \notin Final => ToDo > 0)
  /\ Len(h2d) \in Nat /\ Len(d2h) \in Nat /\ Once \in Nat
  /\ Ahead = 4 * ToDo + 3 * Len(h2d) + Len(d2h) + Once
  /\ Ahead \in Nat

LEMMA AheadType == IInv => AheadTypes
<1> SUFFICES ASSUME IInv PROVE AheadTypes
  OBVIOUS
<1>1. ToDo \in Nat /\ (pc \notin Final => ToDo > 0)
  <2>1. CASE pc \in Final
    BY <2>1 DEF ToDo
  <2>2. CASE pc \notin Final
    <3>1. NQ - query \in Nat
      BY <2>2, ConstantsAssumption DEF IInv, InStep, Queries
    <3>2. Stages[pc] \in Nat \ {0}
      BY <2>2 DEF IInv, SoundTypes, Points, Waiting, Waits, Final, Stages
    <3> QED BY <2>2, <3>1, <3>2 DEF ToDo
  <2> QED BY <2>1, <2>2
<1>2. Len(h2d) \in Nat /\ Len(d2h) \in Nat
  BY DEF IInv, SoundTypes
<1>3. Once \in Nat
  BY DEF Once
<1>4. Ahead = 4 * ToDo + 3 * Len(h2d) + Len(d2h) + Once
  BY <1>1, <1>2 DEF Ahead, Once
<1>5. Ahead \in Nat
  BY <1>1, <1>2, <1>3, <1>4
<1> QED BY <1>1, <1>2, <1>3, <1>4, <1>5 DEF AheadTypes

\* Whatever is transmitted is one request, at the most.
LEMMA TransmitOne ==
  ASSUME h2d \in Seq(SoundRequests), NEW r, Transmit(r)
  PROVE  Len(h2d') \in Nat /\ Len(h2d') <= Len(h2d) + 1
<1>1. CASE linkUp
  BY <1>1 DEF Transmit
<1>2. CASE ~linkUp
  BY <1>2 DEF Transmit
<1> QED BY <1>1, <1>2

\* A packet or a request is taken away when it is read.
LEMMA TailIsShorter ==
  ASSUME NEW S, NEW s \in Seq(S), s # <<>>
  PROVE  Len(Tail(s)) \in Nat /\ Len(Tail(s)) = Len(s) - 1
OBVIOUS

\* Each step of the program but a skip leaves it one step less to do.
LEMMA OneStepLess ==
  ASSUME IInv,
         BtConnect \/ GotHello \/ GotCmd10 \/ GotCmd5 \/ GotIdentity
           \/ Login \/ GotLogin \/ Ask \/ GotAnswer
  PROVE  ToDo' = ToDo - 1
<1> USE DEF Final, Stages
<1>0. NQ \in Nat /\ (pc \notin Final => query \in 1 .. NQ)
  BY ConstantsAssumption DEF IInv, InStep, Queries
<1>1. CASE BtConnect
  BY <1>0, <1>1 DEF BtConnect, ToDo
<1>2. CASE GotHello
  BY <1>0, <1>2 DEF GotHello, Awaited, ToDo
<1>3. CASE GotCmd10
  BY <1>0, <1>3 DEF GotCmd10, Awaited, ToDo
<1>4. CASE GotCmd5
  BY <1>0, <1>4 DEF GotCmd5, Awaited, ToDo
<1>5. CASE GotIdentity
  BY <1>0, <1>5 DEF GotIdentity, Awaited, ToDo
<1>6. CASE Login
  BY <1>0, <1>6 DEF Login, ToDo
<1>7. CASE GotLogin
  BY <1>0, <1>7 DEF GotLogin, Awaited, ToDo
<1>8. CASE Ask
  BY <1>0, <1>8 DEF Ask, ToDo
<1>9. CASE GotAnswer
  <2>1. pc = "answer" /\ query' = query + 1
    BY <1>9 DEF GotAnswer, Awaited
  <2>2. CASE query = NQ
    BY <1>0, <1>9, <2>1, <2>2 DEF GotAnswer, ToDo
  <2>3. CASE query # NQ
    BY <1>0, <1>9, <2>1, <2>3 DEF GotAnswer, ToDo
  <2> QED BY <2>2, <2>3
<1> QED BY <1>1, <1>2, <1>3, <1>4, <1>5, <1>6, <1>7, <1>8, <1>9

\* The inverter says two packets to a request, at the most.
LEMMA TwoRepliesAtMost ==
  ASSUME NEW r \in SoundRequests, code \in DeviceCodes,
         NEW packets \in Misreplies(r) \cup {Reply(r)}
  PROVE  packets \in Seq(SoundPackets) /\ Len(packets) <= 2
<1>1. packets \in Seq(SoundPackets)
  BY ReplySound, MisreplySound
<1>2. \/ packets = <<>> \/ \E x : packets = <<x>>
      \/ \E x, y : packets = <<x, y>>
  <2>1. CASE packets = Reply(r)
    BY <2>1, Zenon DEF Reply
  <2>2. CASE packets \in {<<>>, <<Plain(LEVEL2)>>,
                          <<Answer(r, LenOf(r)), Answer(r, LenOf(r))>>, <<Answer(r, 0)>>}
    BY <2>2, Zenon
  <2>3. CASE \E len \in ShortLens[r.query] : packets = <<Answer(r, len)>>
    BY <2>3, Zenon
  <2> QED BY <2>1, <2>2, <2>3 DEF Misreplies
<1>3. ASSUME NEW x, packets = <<x>> PROVE Len(packets) = 1
  BY <1>3
<1>4. ASSUME NEW x, NEW y, packets = <<x, y>> PROVE Len(packets) = 2
  BY <1>4
<1>5. packets = <<>> => Len(packets) = 0
  OBVIOUS
<1>6. Len(packets) = 0 \/ Len(packets) = 1 \/ Len(packets) = 2
  BY <1>2, <1>3, <1>4, <1>5, Zenon
<1>7. \A n : n = 0 \/ n = 1 \/ n = 2 => n <= 2
  OBVIOUS
<1> QED BY <1>1, <1>6, <1>7, Zenon

\* Every step of the program leaves less ahead of the poll.
LEMMA HostAdvances ==
  ASSUME IInv, AheadTypes, AheadTypes', Host
  PROVE  Ahead' < Ahead
<1> USE DEF device
<1>0. /\ h2d \in Seq(SoundRequests) /\ d2h \in Seq(SoundPackets)
  BY DEF IInv, SoundTypes
<1>1. /\ ToDo \in Nat /\ Len(h2d) \in Nat /\ Len(d2h) \in Nat
      /\ Once \in Nat /\ (pc \notin Final => ToDo > 0)
      /\ ToDo' \in Nat /\ Len(h2d') \in Nat /\ Len(d2h') \in Nat /\ Once' \in Nat
      /\ Ahead = 4 * ToDo + 3 * Len(h2d) + Len(d2h) + Once
      /\ Ahead' = 4 * ToDo' + 3 * Len(h2d') + Len(d2h') + Once'
  BY DEF AheadTypes
<1>2. ASSUME Read PROVE Len(d2h') = Len(d2h) - 1
  BY <1>0, <1>2, TailIsShorter DEF Read
<1>3. CASE BtConnect
  <2>1. Once' <= Once + 1
    BY <1>3 DEF BtConnect, Once
  <2>2. Len(h2d') = Len(h2d) /\ Len(d2h') = Len(d2h)
    BY <1>3 DEF BtConnect
  <2>3. ToDo' = ToDo - 1
    BY <1>3, OneStepLess
  <2> QED BY <1>1, <2>1, <2>2, <2>3
<1>4. CASE Skip
  <2>1. Once' = Once /\ ToDo' = ToDo /\ Len(h2d') = Len(h2d)
    BY <1>4 DEF Skip, Once, ToDo
  <2>2. Len(d2h') = Len(d2h) - 1
    BY <1>2, <1>4 DEF Skip
  <2> QED BY <1>1, <2>1, <2>2
<1>5. CASE GotHello \/ GotCmd10 \/ GotCmd5 \/ GotIdentity \/ Login \/ GotLogin \/ Ask \/ GotAnswer
  <2>1. Once' = Once
    BY <1>5 DEF GotHello, GotCmd10, GotCmd5, GotIdentity, Login, GotLogin, Ask, GotAnswer,
                Once
  <2>2. ToDo' = ToDo - 1
    BY <1>5, OneStepLess
  <2>3. Len(d2h') <= Len(d2h)
    <3>1. CASE Login \/ Ask
      BY <1>1, <3>1 DEF Login, Ask
    <3>2. CASE ~(Login \/ Ask)
      <4>1. Read
        BY <1>5, <3>2 DEF GotHello, GotCmd10, GotCmd5, GotIdentity, GotLogin, GotAnswer, Awaited
      <4> QED BY <1>1, <1>2, <4>1
    <3> QED BY <3>1, <3>2
  <2>4. Len(h2d') <= Len(h2d) + 1
    <3>1. CASE GotCmd10 \/ GotLogin \/ GotAnswer
      <4>1. h2d' = h2d
        BY <3>1 DEF GotCmd10, GotLogin, GotAnswer
      <4> QED BY <1>1, <4>1
    <3>2. CASE ~(GotCmd10 \/ GotLogin \/ GotAnswer)
      <4>1. PICK r : Transmit(r)
        BY <1>5, <3>2 DEF GotHello, GotCmd5, GotIdentity, Login, Ask, SendL2
      <4> QED BY <1>0, <4>1, TransmitOne
    <3> QED BY <3>1, <3>2
  <2> QED BY <1>1, <2>1, <2>2, <2>3, <2>4
<1>6. CASE Timeout
  <2>1. Once' = Once /\ Len(h2d') = Len(h2d) /\ Len(d2h') = Len(d2h)
    BY <1>6 DEF Timeout, Once
  <2>2. ToDo' = 0 /\ ToDo > 0
    BY <1>1, <1>6 DEF Timeout, ToDo, Waiting, Waits, Final
  <2> QED BY <1>1, <2>1, <2>2
<1> QED BY <1>3, <1>4, <1>5, <1>6 DEF Host

\* A greeting, or a packet the program has no use for, is one that nobody asked
\* for.
LEMMA GreetingsAreUnasked ==
  ASSUME IInv, Greet \/ Chatter PROVE Unasked
<1>1. PICK cmd \in {BROADCAST, CMD12} : Say(<<Plain(cmd)>>)
  BY DEF Greet, Chatter
<1>2. d2h \in Seq(SoundPackets) /\ Plain(cmd) \in SoundPackets
  BY PlainSound DEF IInv, SoundTypes, BROADCAST, CMD12
<1>3. d2h' = Append(d2h, Plain(cmd))
  BY <1>1, <1>2 DEF Say
<1>4. UNCHANGED <<host, h2d>>
  BY DEF Greet, Chatter
<1> QED BY <1>3, <1>4 DEF Unasked

\* Every answer, and the end of the link, leaves less ahead of the poll.
LEMMA DeviceAdvances ==
  ASSUME IInv, AheadTypes, AheadTypes', Respond \/ Misrespond \/ LinkLoss
  PROVE  Ahead' < Ahead
<1> USE DEF host, device
<1>0. /\ h2d \in Seq(SoundRequests) /\ d2h \in Seq(SoundPackets) /\ code \in DeviceCodes
  BY DEF IInv, SoundTypes
<1>1. /\ ToDo \in Nat /\ Len(h2d) \in Nat /\ Len(d2h) \in Nat /\ Once \in Nat
      /\ ToDo' \in Nat /\ Len(h2d') \in Nat /\ Len(d2h') \in Nat /\ Once' \in Nat
      /\ Ahead = 4 * ToDo + 3 * Len(h2d) + Len(d2h) + Once
      /\ Ahead' = 4 * ToDo' + 3 * Len(h2d') + Len(d2h') + Once'
  BY DEF AheadTypes
<1>2. ToDo' = ToDo
  BY DEF Respond, Misrespond, LinkLoss, ToDo
<1>3. ASSUME NEW packets \in Seq(SoundPackets), Say(packets)
      PROVE  Len(packets) \in Nat /\ Len(d2h') = Len(d2h) + Len(packets)
  BY <1>0, <1>3 DEF Say
<1>4. CASE Respond \/ Misrespond
  <2>1. Hear /\ Once' = Once
    BY <1>4 DEF Respond, Misrespond, Once
  <2>2. Len(h2d') = Len(h2d) - 1 /\ Head(h2d) \in SoundRequests
    BY <1>0, <2>1, TailIsShorter DEF Hear
  <2>3. PICK packets \in Misreplies(Head(h2d)) \cup {Reply(Head(h2d))} : Say(packets)
    BY <1>4 DEF Respond, Misrespond
  <2>4. packets \in Seq(SoundPackets) /\ Len(packets) <= 2
    BY <1>0, <2>2, TwoRepliesAtMost
  <2>5. Len(packets) \in Nat /\ Len(d2h') = Len(d2h) + Len(packets)
    BY <1>3, <2>3, <2>4
  <2> QED BY <1>1, <1>2, <2>1, <2>2, <2>4, <2>5
<1>5. CASE LinkLoss
  <2>1. Len(d2h') = Len(d2h) /\ Len(h2d') = 0 /\ Once' = Once - 1
    BY <1>5 DEF LinkLoss, Once
  <2> QED BY <1>1, <1>2, <2>1
<1> QED BY <1>4, <1>5

\* in_smadata2plus_get_values, in_smadata2plus_level1_cmdcode_wait: whatever the
\* table of queries, and whatever the inverter does, every step of a poll leaves
\* less ahead of it, but for packets that nobody asked for: only these can keep
\* a poll going for ever.
THEOREM PollsAreFinite == Spec => PollAdvances
<1>1. ASSUME IInv, IInv', AheadTypes, AheadTypes', [Next]_vars
      PROVE  [Unasked \/ Ahead' \in 0 .. Ahead - 1]_vars
  <2>1. Ahead \in Nat /\ Ahead' \in Nat
    BY <1>1, Zenon DEF AheadTypes
  <2>2. CASE Host
    BY <1>1, <2>1, <2>2, HostAdvances
  <2>3. CASE Respond \/ Misrespond \/ LinkLoss
    BY <1>1, <2>1, <2>3, DeviceAdvances
  <2>4. CASE Greet \/ Chatter
    BY <1>1, <2>4, GreetingsAreUnasked
  <2>5. CASE UNCHANGED vars
    BY <2>5
  <2> QED BY <1>1, <2>2, <2>3, <2>4, <2>5 DEF Next, Inverter, Idle
<1> QED
  BY <1>1, Soundness, AheadType, PTL DEF Spec, PollAdvances

=============================================================================
