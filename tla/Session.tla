------------------------------ MODULE Session ------------------------------
(***************************************************************************)
(* One conversation with an inverter: in_bluetooth_connect and             *)
(* in_smadata2plus_connect, _login and _get_values, which main calls one   *)
(* after the other.  The program and the inverter are joined by two FIFO   *)
(* channels of whole Level-1 packets; what the program knows of the        *)
(* inverter is only what it reads from d2h.                                *)
(*                                                                         *)
(* The inverter itself is external: it is modelled from what the program   *)
(* waits for, with the faults a radio link and an embedded peer have.      *)
(***************************************************************************)
EXTENDS Naturals, Sequences

CONSTANTS
  NQ,          \* number of queries in SMADATA2PLUS_QUERIES
  RCtrl,       \* r_ctrl1 of each query
  ReachOf,     \* for each query, the content length that each value needs
  FullLen,     \* content length of a complete answer to each query
  ShortLens,   \* content lengths of truncated answers to each query
  Models,      \* positions in SMADATA2MODELS
  NoModel,     \* the NULL model pointer
  Lookup(_),   \* the position get_model stops at for a model code, or NoModel
  DeviceCodes, \* model codes the inverter may have
  LinkMayFail, \* may the connection fail or break?
  MaxFaults,   \* bound on the misbehaviours of the inverter
  MaxUnderWay  \* bound on the packets under way when a further one is sent
               \* that nobody asked for

Queries == 1 .. NQ

ASSUME ConstantsAssumption ==
  /\ NQ \in Nat \ {0}
  /\ RCtrl \in [Queries -> Nat \ {0}]
  /\ \A i, j \in Queries : RCtrl[i] = RCtrl[j] => i = j
  /\ ReachOf \in [Queries -> Seq(Nat)]
  /\ FullLen \in [Queries -> Nat]
  /\ ShortLens \in [Queries -> SUBSET Nat]
  /\ NoModel \notin Models
  /\ \A c \in DeviceCodes \cup {0} : Lookup(c) \in Models \cup {NoModel}
  /\ DeviceCodes \subseteq Nat
  /\ LinkMayFail \in BOOLEAN
  /\ MaxFaults \in Nat /\ MaxUnderWay \in Nat

\* Every query asks for some value, and a complete answer has them all.
ASSUME AnswersAssumption ==
  \A q \in Queries :
    /\ ReachOf[q] # <<>>
    /\ \A v \in DOMAIN ReachOf[q] : ReachOf[q][v] <= FullLen[q]

VARIABLES
  pc,                   \* the wait or the call the program is at
  query,                \* value_pos of in_smadata2plus_get_values
  recv_pl2,             \* the Level-2 packet of the running function
  data_vector,          \* values kept, one batch for each answered query
  l2_packet_send_count, \* number of the next Level-2 packet to be sent
  model,                \* inv->model
  h2d,                  \* requests on their way to the inverter
  d2h,                  \* packets on their way to the program
  code,                 \* the model code of this inverter
  acquainted,           \* the inverter has heard the program's hello
  admitted,             \* it has not refused the password
  linkUp,               \* the RFCOMM connection exists
  faults                \* misbehaviours so far

host == <<pc, query, recv_pl2, data_vector, l2_packet_send_count, model>>
device == <<code, acquainted, admitted, linkUp, faults>>
vars == <<host, h2d, d2h, device>>

----------------------------------------------------------------------------
(* Packets.                                                                *)

BROADCAST == 2
LEVEL2 == 1
CMD12 == 12  \* one of the command codes that the program never waits for

\* A Level-2 packet: the request it answers, by number (the program skips
\* that field), ctrl1, the length of the content and the sender's model code.
\* All zero is what "= {{ 0 }}" makes of recv_pl2.
L2(tag, ctrl, len, c) == [req |-> tag, ctrl1 |-> ctrl, len |-> len, code |-> c]
Cleared == L2(0, 0, 0, 0)

\* ok: it holds a Level-2 packet whose checksum is right.
Packet(cmd, ok, l2) == [cmd |-> cmd, ok |-> ok, l2 |-> l2]
Plain(cmd) == Packet(cmd, FALSE, Cleared)

Request(kind, q, tag) == [kind |-> kind, query |-> q, tag |-> tag]

\* The points where the program waits for a packet, and the code it awaits.
Waits == [hello |-> BROADCAST, cmd10 |-> 10, cmd5 |-> 5,
          identify |-> LEVEL2, login |-> LEVEL2, answer |-> LEVEL2]
Waiting == DOMAIN Waits
Final == {"done", "exit"}
Points == Waiting \cup Final \cup {"start", "connected", "ask"}

L2s == [req : Nat, ctrl1 : Nat, len : Nat, code : DeviceCodes \cup {0}]
Packets == [cmd : Nat, ok : BOOLEAN, l2 : L2s]
Requests == [kind : {"hello", "identify", "logoff", "login", "query"},
             query : Nat, tag : Nat]
Batches == [query : Queries, values : SUBSET Nat, answers : Nat]

TypeOK ==
  /\ pc \in Points
  /\ query \in 1 .. NQ + 1
  /\ recv_pl2 \in L2s
  /\ data_vector \in Seq(Batches)
  /\ l2_packet_send_count \in Nat
  /\ model \in Models \cup {NoModel}
  /\ h2d \in Seq(Requests)
  /\ d2h \in Seq(Packets)
  /\ code \in DeviceCodes
  /\ acquainted \in BOOLEAN
  /\ admitted \in BOOLEAN
  /\ linkUp \in BOOLEAN
  /\ faults \in 0 .. MaxFaults

Init ==
  /\ pc = "start"
  /\ query = 1
  /\ recv_pl2 = Cleared
  /\ data_vector = <<>>
  /\ l2_packet_send_count = 0
  /\ model = NoModel
  /\ h2d = <<>> /\ d2h = <<>>
  /\ code \in DeviceCodes
  /\ acquainted = FALSE
  /\ admitted = TRUE
  /\ linkUp = FALSE
  /\ faults = 0

----------------------------------------------------------------------------
(* The program.                                                            *)

\* The result of write is ignored: what is sent over a lost link is lost.
Transmit(request) == h2d' = IF linkUp THEN Append(h2d, request) ELSE h2d

\* in_smadata2plus_level2_packet_gen numbers the packets it makes.
SendL2(kind, q) ==
  /\ Transmit(Request(kind, q, l2_packet_send_count))
  /\ l2_packet_send_count' = l2_packet_send_count + 1

\* in_bluetooth_connect: a failure to connect is not reported to the caller.
BtConnect ==
  /\ pc = "start"
  /\ l2_packet_send_count' = 1
  /\ linkUp' \in {TRUE, ~LinkMayFail}
  /\ pc' = "hello"
  /\ UNCHANGED <<query, recv_pl2, data_vector, model, h2d, d2h,
                 code, acquainted, admitted, faults>>

\* in_smadata2plus_level1_packet_read: a packet leaves recv_pl2 alone unless
\* the function passed one and the packet has a sound Level-2 packet in it.
Received ==
  IF Waits[pc] = LEVEL2 /\ Head(d2h).ok THEN Head(d2h).l2 ELSE recv_pl2

Read ==
  /\ pc \in Waiting
  /\ d2h # <<>>
  /\ d2h' = Tail(d2h)

\* in_smadata2plus_level1_cmdcode_wait goes on reading, ...
Skip ==
  /\ Read
  /\ Head(d2h).cmd # Waits[pc]
  /\ recv_pl2' = Received
  /\ UNCHANGED <<pc, query, data_vector, l2_packet_send_count, model, h2d, device>>

\* A bug: the first packet to come is taken, whatever its command code.
AwaitedAnything(point) ==
  /\ pc = point
  /\ Read

\* ... until a packet has the command code it waits for.
Awaited(point) ==
  /\ pc = point
  /\ Read
  /\ Head(d2h).cmd = Waits[pc]

\* A bug: the greeting is not answered.
GotHelloSilent ==
  /\ Awaited("hello")
  /\ pc' = "cmd10"
  /\ UNCHANGED <<query, recv_pl2, data_vector, l2_packet_send_count, model, h2d,
                 device>>

GotHello ==
  /\ Awaited("hello")
  /\ Transmit(Request("hello", 0, 0))
  /\ pc' = "cmd10"
  /\ UNCHANGED <<query, recv_pl2, data_vector, l2_packet_send_count, model, device>>

GotCmd10 ==
  /\ Awaited("cmd10")
  /\ pc' = "cmd5"
  /\ UNCHANGED <<query, recv_pl2, data_vector, l2_packet_send_count, model,
                 h2d, device>>

GotCmd5 ==
  /\ Awaited("cmd5")
  /\ SendL2("identify", 0)
  /\ pc' = "identify"
  /\ UNCHANGED <<query, recv_pl2, data_vector, model, device>>

\* A bug: the pointer moves on to the entry behind the match.
ModelAfterNext(l2) ==
  IF Lookup(l2.code) = NoModel THEN model ELSE Lookup(l2.code) + 1

\* in_smadata2plus_get_model leaves inv->model alone for an unknown code.
ModelAfter(l2) == IF Lookup(l2.code) = NoModel THEN model ELSE Lookup(l2.code)

\* The model's name is printed, "(null)" through a null inv->model: name is the
\* first member.  Then the logoff packet goes out; nothing is awaited for it.
GotIdentity ==
  /\ Awaited("identify")
  /\ recv_pl2' = Received
  /\ model' = ModelAfter(Received)
  /\ SendL2("logoff", 0)
  /\ pc' = "connected"
  /\ UNCHANGED <<query, data_vector, device>>

\* in_smadata2plus_login starts with a cleared recv_pl2, ...
Login ==
  /\ pc = "connected"
  /\ recv_pl2' = Cleared
  /\ SendL2("login", 0)
  /\ pc' = "login"
  /\ UNCHANGED <<query, data_vector, model, d2h, device>>

\* ... takes any Level-2 packet for the answer, and does not look at it;
\* in_smadata2plus_get_values has a cleared recv_pl2 of its own.
GotLogin ==
  /\ Awaited("login")
  /\ recv_pl2' = Cleared
  /\ pc' = "ask"
  /\ UNCHANGED <<query, data_vector, l2_packet_send_count, model, h2d, device>>

Ask ==
  /\ pc = "ask"
  /\ SendL2("query", query)
  /\ pc' = "answer"
  /\ UNCHANGED <<query, recv_pl2, data_vector, model, d2h, device>>

\* A bug: the control byte of the answer is not compared.
ParsedByLength(q, l2) ==
  {v \in DOMAIN ReachOf[q] : l2.len >= ReachOf[q][v]}

\* in_smadata2plus_parse_values: the values of query q found in a packet.
Parsed(q, l2) ==
  {v \in DOMAIN ReachOf[q] : l2.ctrl1 = RCtrl[q] /\ l2.len >= ReachOf[q][v]}

Batch(q, l2) == [query |-> q, values |-> Parsed(q, l2), answers |-> l2.req]

\* A bug: a query whose answer has no values is asked again.
GotAnswerOrAskAgain ==
  /\ Awaited("answer")
  /\ recv_pl2' = Received
  /\ \/ /\ Parsed(query, Received) = {}
        /\ pc' = "ask"
        /\ UNCHANGED <<query, data_vector>>
     \/ /\ Parsed(query, Received) # {}
        /\ data_vector' = Append(data_vector, Batch(query, Received))
        /\ query' = query + 1
        /\ pc' = IF query = NQ THEN "done" ELSE "ask"
  /\ UNCHANGED <<l2_packet_send_count, model, h2d, device>>

GotAnswer ==
  /\ Awaited("answer")
  /\ recv_pl2' = Received
  /\ data_vector' = IF Parsed(query, Received) = {} THEN data_vector
                    ELSE Append(data_vector, Batch(query, Received))
  /\ query' = query + 1
  /\ pc' = IF query = NQ THEN "done" ELSE "ask"
  /\ UNCHANGED <<l2_packet_send_count, model, h2d, device>>

\* The inverter has something to say yet.
Outstanding == h2d # <<>> \/ ~acquainted

\* A bug: select is called again after the timeout.
TimeoutRearms ==
  /\ pc \in Waiting /\ d2h = <<>> /\ linkUp
  /\ UNCHANGED vars

\* in_bluetooth_connect_read: two seconds without a byte end the program.  A
\* broken link never times out: select finds it readable at once.  If the
\* inverter was only slow to speak, that is a fault of its own.
Timeout ==
  /\ pc \in Waiting
  /\ d2h = <<>>
  /\ linkUp
  /\ \/ ~Outstanding /\ UNCHANGED faults
     \/ Outstanding /\ faults < MaxFaults /\ faults' = faults + 1
  /\ pc' = "exit"
  /\ UNCHANGED <<query, recv_pl2, data_vector, l2_packet_send_count, model,
                 h2d, d2h, code, acquainted, admitted, linkUp>>

Host ==
  \/ BtConnect \/ Skip \/ GotHello \/ GotCmd10 \/ GotCmd5 \/ GotIdentity
  \/ Login \/ GotLogin \/ Ask \/ GotAnswer \/ Timeout

----------------------------------------------------------------------------
(* The inverter (external).                                                *)

Say(packets) == d2h' = d2h \o packets

\* The inverter says hello about once per second until the program's hello
\* reaches it (docs/protocol.txt); the one before has been read by then.
Greet ==
  /\ linkUp /\ ~acquainted
  /\ \A i \in DOMAIN d2h : d2h[i].cmd # BROADCAST
  /\ Say(<<Plain(BROADCAST)>>)
  /\ UNCHANGED <<host, h2d, device>>

\* One hello more, or a packet the program has no use for.
Chatter ==
  /\ linkUp /\ Len(d2h) < MaxUnderWay
  /\ \E cmd \in {BROADCAST, CMD12} : Say(<<Plain(cmd)>>)
  /\ UNCHANGED <<host, h2d, device>>

\* The answer to a request, its content len bytes long if it has values.
Answer(r, len) ==
  Packet(LEVEL2, TRUE,
         IF r.kind = "query" /\ admitted THEN L2(r.tag, RCtrl[r.query], len, code)
                                         ELSE L2(r.tag, 0, 0, code))

LenOf(r) == IF r.kind = "query" THEN FullLen[r.query] ELSE 0

\* What a sound inverter says to a request; it is silent after a logoff.
Reply(r) ==
  CASE r.kind = "hello" -> <<Plain(10), Plain(5)>>
    [] r.kind = "logoff" -> <<>>
    [] OTHER -> <<Answer(r, LenOf(r))>>

Hear ==
  /\ linkUp
  /\ h2d # <<>>
  /\ h2d' = Tail(h2d)

Respond ==
  /\ Hear
  /\ Say(Reply(Head(h2d)))
  /\ acquainted' = (acquainted \/ Head(h2d).kind = "hello")
  /\ UNCHANGED <<host, code, admitted, linkUp, faults>>

\* What else may come of a request: nothing at all, an answer damaged on the
\* way, the answer twice (or to a logoff at all), an answer cut short, a refusal
\* of the login.
Misreplies(r) ==
  {<<>>, <<Plain(LEVEL2)>>, <<Answer(r, LenOf(r)), Answer(r, LenOf(r))>>}
    \cup (IF r.kind \in {"logoff", "login"} THEN {<<Answer(r, 0)>>} ELSE {})
    \cup (IF r.kind = "query"
          THEN {<<Answer(r, len)>> : len \in ShortLens[r.query]} ELSE {})

\* The request itself may be lost; then a hello of the program goes unheard.
Misrespond ==
  /\ Hear
  /\ faults < MaxFaults
  /\ \E packets \in Misreplies(Head(h2d)) : Say(packets)
  /\ acquainted' \in {acquainted, acquainted \/ Head(h2d).kind = "hello"}
  /\ admitted' \in {admitted, admitted /\ Head(h2d).kind # "login"}
  /\ faults' = faults + 1
  /\ UNCHANGED <<host, code, linkUp>>

\* The link breaks; what has been received can still be read.
LinkLoss ==
  /\ LinkMayFail
  /\ linkUp /\ pc \notin Final
  /\ linkUp' = FALSE
  /\ h2d' = <<>>
  /\ UNCHANGED <<host, d2h, code, acquainted, admitted, faults>>

Inverter == Greet \/ Respond

\* The conversation is over, or in_bluetooth_get_byte reads a broken link
\* over and over.
Idle ==
  /\ pc \in Final \/ (pc \in Waiting /\ d2h = <<>> /\ ~linkUp)
  /\ UNCHANGED vars

Next == Host \/ Inverter \/ Chatter \/ Misrespond \/ LinkLoss \/ Idle

Spec == Init /\ [][Next]_vars

\* The program runs, and the inverter says hello and answers.
FairSpec == Spec /\ WF_vars(Host) /\ WF_vars(Greet) /\ WF_vars(Respond)

----------------------------------------------------------------------------
\* The conversation implements the abstract poll: queries once each and in
\* order, values only from the answer to that query's own request.
P == INSTANCE Poll WITH
       Count <- [q \in Queries |-> Len(ReachOf[q])],
       TagOf <- [q \in Queries |-> q + 3],
       next <- query, row <- data_vector, over <- (pc \in Final)

ImplementsPoll == P!Spec

\* in_smadata2plus_get_values: an inverter that answers what it is asked, in
\* whatever company of other packets, has every value of every query kept.
Complete ==
  pc = "done" /\ faults = 0 =>
    data_vector = [q \in Queries |-> [query |-> q, answers |-> q + 3,
                                      values |-> DOMAIN ReachOf[q]]]

\* The steps the program has yet to take, apart from packets it skips.
Stages == [start |-> 9, hello |-> 8, cmd10 |-> 7, cmd5 |-> 6, identify |-> 5,
           connected |-> 4, login |-> 3, ask |-> 2, answer |-> 1]
ToDo == IF pc \in Final THEN 0 ELSE Stages[pc] + 2 * (NQ - query)

\* What a poll has ahead of it: a step may send a request, a request may bring
\* two packets, and every packet is read once.
Ahead == 4 * ToDo + 3 * Len(h2d) + Len(d2h) + (IF linkUp THEN 1 ELSE 0)

\* A packet that answers nothing comes from the inverter.
Unasked ==
  /\ UNCHANGED <<host, h2d>>
  /\ \E cmd \in {BROADCAST, CMD12} : d2h' = Append(d2h, Plain(cmd))

\* in_smadata2plus_get_values and the waits: no step is for nothing, whatever
\* the inverter does.  Nothing is asked twice and no packet is read twice, so a
\* poll has less ahead of it after each of its steps, and only packets that
\* nobody asked for can keep it going.
PollAdvances == [][Unasked \/ Ahead' \in 0 .. Ahead - 1]_vars

\* The program's hello was lost.  The inverter repeats its own about once per
\* second, which the program passes over and which restarts the two seconds.
Unheard == pc = "cmd10" /\ ~acquainted /\ h2d = <<>>

\* in_bluetooth_connect_read, "No data within 2 seconds": every poll over a
\* link that holds ends, however slow or faulty the inverter is.  There are two
\* ways only to go on for ever: packets that nobody asked for do, or the one
\* hello of the program was lost.
Disconnected == pc # "start" /\ ~linkUp
Finishes ==
  \/ <>(pc \in Final \/ Disconnected)
  \/ <>[]Unheard
  \/ []<><<Chatter /\ ~Unheard>>_vars

\* main gets its readings: a poll of a sound inverter that answers in time is
\* carried through to the last query, over a link that holds.
Delivers == <>(pc = "done" \/ faults > 0 \/ Disconnected)

=============================================================================
