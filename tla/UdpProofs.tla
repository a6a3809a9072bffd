----------------------------- MODULE UdpProofs -----------------------------
(* Proofs about UdpService, for any clients, users, circumstances and      *)
(* bounds.                                                                 *)
(*                                                                         *)
(* 1. An acknowledgement that send takes is the word that its message was  *)
(*    handed over, on either network, with any losses (Inv).               *)
(* 2. Every variable has its type, and each side hears only from the other *)
(*    (Typed).                                                             *)
(* 3. While replies are of one packet and bear numbers of their own, there *)
(*    is one message each way at most, so that what is handed over is what *)
(*    is due (Single); the commands then implement the calls of            *)
(*    AccountCalls.                                                        *)
(* 4. While replies bear numbers of their own, of however many packets the *)
(*    messages are, what is handed over is whole (Assembled).              *)
EXTENDS UdpService, ListLemmas

\* What is true of a datagram on its way to s, when the messages h have been
\* handed over: an acknowledgement names one of them, and its mark is on no
\* other packet.
Sound(h, s, d) ==
  \/ d.id = AckId /\ d.next = AckId /\ <<d.from, s, d.msgid>> \in h
  \/ d.id \in Int /\ d.id >= ResendId /\ d.next \in Int /\ d.next >= ResendId

Carries(h, s, q) == \E S : q \in Seq(S) /\ \A d \in S : Sound(h, s, d)

NetSound ==
  /\ DOMAIN net = Sockets
  /\ \A s \in Sockets : Carries(handed, s, net[s])

\* No table waits for the mark of an acknowledgement, and none is ever the
\* packet to be sent.
Waits(table) ==
  \A k \in DOMAIN table : table[k].next \in Int /\ table[k].next >= ResendId

TablesSound ==
  /\ DOMAIN unfinished = Sockets
  /\ \A s \in Sockets : Waits(unfinished[s])

IndexSound ==
  /\ DOMAIN index = Sockets
  /\ \A s \in Sockets : index[s] \in Int /\ index[s] >= ResendId

Shape == DOMAIN success = Sockets /\ DOMAIN message = Sockets

Inv == NetSound /\ TablesSound /\ IndexSound /\ Shape /\ AcksMeanHanded

-----------------------------------------------------------------------------
(* Lists of datagrams.                                                     *)

LEMMA CarriesAll ==
  ASSUME NEW h, NEW s, NEW q, NEW S, q \in Seq(S), \A d \in S : Sound(h, s, d)
  PROVE  Carries(h, s, q)
  BY DEF Carries

LEMMA ElementSound ==
  ASSUME NEW h, NEW s, NEW q, Carries(h, s, q), NEW i \in DOMAIN q
  PROVE  Sound(h, s, q[i])
<1>1. PICK S : q \in Seq(S) /\ \A d \in S : Sound(h, s, d)
  BY DEF Carries
<1>2. q[i] \in S
  BY <1>1, ElementOfSeq
<1> QED
  BY <1>1, <1>2

LEMMA AppendSound ==
  ASSUME NEW h, NEW s, NEW q, Carries(h, s, q), NEW d, Sound(h, s, d)
  PROVE  Carries(h, s, Append(q, d))
<1>1. PICK S : q \in Seq(S) /\ \A e \in S : Sound(h, s, e)
  BY DEF Carries
<1>2. q \in Seq(S \cup {d}) /\ d \in S \cup {d}
  BY <1>1
<1>3. Append(q, d) \in Seq(S \cup {d})
  BY <1>2, AppendProperties
<1> QED
  BY <1>1, <1>3 DEF Carries

LEMMA ConcatSound ==
  ASSUME NEW h, NEW s, NEW q, Carries(h, s, q), NEW p, Carries(h, s, p)
  PROVE  Carries(h, s, q \o p)
<1>1. PICK S : q \in Seq(S) /\ \A e \in S : Sound(h, s, e)
  BY DEF Carries
<1>2. PICK T : p \in Seq(T) /\ \A e \in T : Sound(h, s, e)
  BY DEF Carries
<1>3. q \in Seq(S \cup T) /\ p \in Seq(S \cup T)
  BY <1>1, <1>2
<1>4. q \o p \in Seq(S \cup T)
  BY <1>3, ConcatProperties
<1> QED
  BY <1>1, <1>2, <1>4 DEF Carries

LEMMA RemoveSound ==
  ASSUME NEW h, NEW s, NEW q, Carries(h, s, q), NEW i \in DOMAIN q
  PROVE  Carries(h, s, RemoveAt(q, i))
<1>1. PICK S : q \in Seq(S) /\ \A e \in S : Sound(h, s, e)
  BY DEF Carries
<1>2. i \in 1 .. Len(q) /\ Len(q) \in Nat
  BY <1>1, LenProperties
<1>3. \A j \in 1 .. Len(q) : q[j] \in S
  BY <1>1, ElementOfSeq
<1>4. SubSeq(q, 1, i - 1) \in Seq(S) /\ SubSeq(q, i + 1, Len(q)) \in Seq(S)
  <2>1. \A j \in 1 .. i - 1 : q[j] \in S
    BY <1>2, <1>3
  <2>2. \A j \in i + 1 .. Len(q) : q[j] \in S
    BY <1>2, <1>3
  <2> QED
    BY <1>1, <1>2, <2>1, <2>2, SubSeqProperties
<1>5. RemoveAt(q, i) \in Seq(S)
  BY <1>4, ConcatProperties DEF RemoveAt
<1> QED
  BY <1>1, <1>5 DEF Carries

LEMMA EmptySound ==
  ASSUME NEW h, NEW s
  PROVE  Carries(h, s, <<>>)
<1> DEFINE S == {}
<1>1. \A d \in S : Sound(h, s, d)
  OBVIOUS
<1> HIDE DEF S
<1>2. <<>> \in Seq(S)
  BY EmptySeq
<1> QED
  BY <1>1, <1>2, CarriesAll

LEMMA OneSound ==
  ASSUME NEW h, NEW s, NEW d, Sound(h, s, d)
  PROVE  Carries(h, s, <<d>>)
<1> DEFINE S == {d}
<1>1. d \in S /\ \A e \in S : Sound(h, s, e)
  OBVIOUS
<1> HIDE DEF S
<1>2. <<>> \in Seq(S)
  BY EmptySeq
<1>3. Append(<<>>, d) \in Seq(S) /\ Append(<<>>, d) = <<d>>
  BY <1>1, <1>2, AppendProperties
<1>4. <<d>> \in Seq(S)
  BY <1>3
<1> QED
  BY <1>1, <1>4, CarriesAll

\* What is handed over stays handed over.
LEMMA MoreHanded ==
  ASSUME NEW h, NEW g, h \subseteq g, NEW s, NEW q, Carries(h, s, q)
  PROVE  Carries(g, s, q)
  BY DEF Carries, Sound

-----------------------------------------------------------------------------
(* The parts of a step.                                                    *)

LEMMA ExchangeSound ==
  ASSUME NetSound, NEW s \in Sockets, NEW i \in DOMAIN net[s], NEW sent,
         Exchange(s, i, sent), handed \subseteq handed',
         Carries(handed', net[s][i].from, sent)
  PROVE  NetSound'
<1> DEFINE from == net[s][i].from
           q(r) == IF r = s THEN RemoveAt(net[r], i) ELSE net[r]
<1>1. DOMAIN net' = Sockets
  BY DEF Exchange, NetSound
<1>2. ASSUME NEW r \in Sockets
      PROVE  Carries(handed', r, net'[r])
  <2>1. Carries(handed', r, net[r])
    BY MoreHanded DEF NetSound
  <2>2. Carries(handed', r, q(r))
    BY <2>1, RemoveSound
  <2>3. net'[r] = IF r = from THEN q(r) \o sent ELSE q(r)
    <3> DEFINE m == [net EXCEPT ![s] = RemoveAt(@, i)]
    <3>1. DOMAIN m = Sockets /\ m[r] = q(r)
      BY DEF NetSound
    <3>2. net' = [m EXCEPT ![from] = @ \o sent]
      BY DEF Exchange
    <3> HIDE DEF m, q, from
    <3> QED
      BY <3>1, <3>2
  <2> QED
    BY <2>2, <2>3, ConcatSound
<1> QED
  BY <1>1, <1>2 DEF NetSound

LEMMA MissedSound ==
  ASSUME NEW s \in Sockets, NEW d, Waits(unfinished[s]), NEW h
  PROVE  Carries(h, d.from, Missed(s, d))
<1>1. \A id : id \in Int /\ id >= ResendId =>
        Sound(h, d.from, Resend(s, Key(d), id))
  BY DEF Sound, Resend, Control, ResendId
<1>2. CASE Missed(s, d) = <<>>
  BY <1>2, EmptySound
<1>3. ASSUME NEW id, id \in Int, id >= ResendId,
             Missed(s, d) = <<Resend(s, Key(d), id)>>
      PROVE  Carries(h, d.from, Missed(s, d))
  BY <1>1, <1>3, OneSound
<1>4. \/ Missed(s, d) = <<>>
      \/ \E id : id \in Int /\ id >= ResendId /\ Missed(s, d) = <<Resend(s, Key(d), id)>>
  BY DEF Missed, Waits, ResendId
<1> QED
  BY <1>2, <1>3, <1>4

LEMMA NotedWaits ==
  ASSUME NEW table, Waits(table), NEW h, NEW s, NEW d, Sound(h, s, d)
  PROVE  Waits(Noted(table, d))
<1>1. CASE d.id = AckId
  BY <1>1 DEF Noted
<1>2. CASE d.id # AckId
  <2>1. d.next \in Int /\ d.next >= ResendId
    BY <1>2 DEF Sound
  <2> QED
    BY <1>2, <2>1 DEF Noted, Waits, Begun
<1> QED
  BY <1>1, <1>2

LEMMA InsertSound ==
  ASSUME NetSound, TablesSound, NEW s \in Sockets, NEW i \in DOMAIN net[s],
         InsertCheck(s, i), handed' = handed
  PROVE  NetSound' /\ TablesSound'
<1>1. Sound(handed, s, net[s][i])
  BY ElementSound DEF NetSound
<1>2. Carries(handed', net[s][i].from, Missed(s, net[s][i]))
  BY MissedSound DEF TablesSound
<1>3. NetSound'
  BY <1>2, ExchangeSound DEF InsertCheck
<1>4. Waits(Noted(unfinished[s], net[s][i]))
  BY <1>1, NotedWaits DEF TablesSound
<1> QED
  BY <1>3, <1>4 DEF InsertCheck, TablesSound

LEMMA ConsumeSound ==
  ASSUME NetSound, TablesSound, NEW s \in Sockets, NEW i \in DOMAIN net[s],
         Consume(s, i), handed' = handed
  PROVE  NetSound' /\ TablesSound'
<1>1. NetSound'
  BY EmptySound, ExchangeSound DEF Consume
<1> QED
  BY <1>1 DEF Consume, TablesSound

Mine(s) == <<message[s].to, s, message[s].msgid>>

LEMMA ContinueSound ==
  ASSUME IndexSound, Shape, AcksMeanHanded, NEW s \in Sockets,
         NEW j \in Int, j >= ResendId, NEW ok, ok => Mine(s) \in handed,
         Continue(s, j, ok)
  PROVE  IndexSound' /\ Shape' /\ AcksMeanHanded' /\ handed' = handed
<1>1. handed' = handed /\ message' = message
  BY DEF Continue, caller
<1>2. IndexSound'
  BY DEF Continue, IndexSound
<1>3. Shape' /\ \A r \in Sockets : success'[r] = IF r = s THEN ok ELSE success[r]
  BY <1>1 DEF Continue, Shape
<1>4. AcksMeanHanded'
  BY <1>1, <1>3 DEF AcksMeanHanded, Mine
<1> QED
  BY <1>1, <1>2, <1>3, <1>4

\* What send takes for an acknowledgement is one.
LEMMA AckIsMine ==
  ASSUME NetSound, NEW s \in Sockets, NEW i \in DOMAIN net[s],
         AboutMine(s, net[s][i]), net[s][i].id = AckId
  PROVE  Mine(s) \in handed
<1>1. Sound(handed, s, net[s][i])
  BY ElementSound DEF NetSound
<1>2. <<net[s][i].from, s, net[s][i].msgid>> \in handed
  BY <1>1 DEF Sound, AckId, ResendId
<1> QED
  BY <1>2 DEF AboutMine, Key, Mine

-----------------------------------------------------------------------------
(* send.                                                                   *)

LEMMA StartSendInv ==
  ASSUME Inv, NEW s, NEW to, NEW body, NEW packets, StartSend(s, to, body, packets)
  PROVE  Inv'
<1>1. NetSound' /\ TablesSound'
  BY DEF Inv, StartSend, NetSound, TablesSound
<1>2. IndexSound' /\ Shape'
  BY DEF Inv, StartSend, IndexSound, Shape, ResendId
<1>3. AcksMeanHanded'
  BY DEF Inv, StartSend, Shape, AcksMeanHanded
<1> QED
  BY <1>1, <1>2, <1>3 DEF Inv

LEMMA SendPacketInv ==
  ASSUME Inv, NEW s \in Sockets, SendPacket(s)
  PROVE  Inv'
<1>1. Sound(handed, message[s].to, Packet(s))
  <2>1. index[s] \in Int /\ index[s] >= ResendId
    BY DEF Inv, IndexSound
  <2> QED
    BY <2>1 DEF Packet, Sound, NoNext, ResendId
<1>2. NetSound'
  <2>1. handed' = handed
    BY DEF SendPacket, caller
  <2>2. \A r \in Sockets :
          net'[r] = IF r = message[s].to THEN Append(net[r], Packet(s)) ELSE net[r]
    BY DEF Inv, NetSound, SendPacket
  <2>3. \A r \in Sockets : Carries(handed, r, net'[r])
    BY <1>1, <2>2, AppendSound DEF Inv, NetSound
  <2> QED
    BY <2>1, <2>3 DEF Inv, NetSound, SendPacket
<1> QED
  BY <1>2 DEF Inv, SendPacket, caller, TablesSound, IndexSound, Shape, AcksMeanHanded

LEMMA PollNothingInv ==
  ASSUME Inv, NEW s \in Sockets, PollNothing(s)
  PROVE  Inv'
<1>1. index[s] + 1 \in Int /\ index[s] + 1 >= ResendId
  BY DEF Inv, IndexSound, ResendId
<1>2. success[s] => Mine(s) \in handed
  BY DEF Inv, AcksMeanHanded, Mine
<1>3. IndexSound' /\ Shape' /\ AcksMeanHanded' /\ handed' = handed
  BY <1>1, <1>2, ContinueSound DEF Inv, PollNothing
<1> QED
  BY <1>3 DEF Inv, PollNothing, NetSound, TablesSound

\* A datagram that send takes: the index it may set is no mark of an
\* acknowledgement.
LEMMA SendTakesInv ==
  ASSUME Inv, NEW s \in Sockets, NEW i \in DOMAIN net[s],
         \/ PollResend(s, i) \/ PollMine(s, i) \/ PollOther(s, i)
         \/ WaitAck(s, i) \/ WaitResend(s, i) \/ WaitOther(s, i)
  PROVE  Inv'
<1> DEFINE d == net[s][i]
<1>1. Sound(handed, s, d)
  BY ElementSound DEF Inv, NetSound
<1>2. index[s] \in Int /\ index[s] >= ResendId
  BY DEF Inv, IndexSound
<1>3. success[s] => Mine(s) \in handed
  BY DEF Inv, AcksMeanHanded, Mine
<1>4. CASE PollResend(s, i)
  <2>1. d.id \in Int /\ d.id >= ResendId
    BY <1>1, <1>4 DEF PollResend, Sound, AckId, ResendId
  <2>2. IndexSound' /\ Shape' /\ AcksMeanHanded' /\ handed' = handed
    BY <1>3, <1>4, <2>1, ContinueSound DEF Inv, PollResend
  <2>3. NetSound' /\ TablesSound'
    BY <1>4, <2>2, ConsumeSound DEF Inv, PollResend
  <2> QED
    BY <2>2, <2>3 DEF Inv
<1>5. CASE PollMine(s, i)
  <2>1. index[s] + 1 \in Int /\ index[s] + 1 >= ResendId
    BY <1>2 DEF ResendId
  <2>2. success[s] \/ d.id = AckId => Mine(s) \in handed
    BY <1>3, <1>5, AckIsMine DEF Inv, PollMine
  <2>3. IndexSound' /\ Shape' /\ AcksMeanHanded' /\ handed' = handed
    BY <1>5, <2>1, <2>2, ContinueSound DEF Inv, PollMine
  <2>4. NetSound' /\ TablesSound'
    BY <1>5, <2>3, ConsumeSound DEF Inv, PollMine
  <2> QED
    BY <2>3, <2>4 DEF Inv
<1>6. CASE PollOther(s, i)
  <2>1. index[s] + 1 \in Int /\ index[s] + 1 >= ResendId
    BY <1>2 DEF ResendId
  <2>2. IndexSound' /\ Shape' /\ AcksMeanHanded' /\ handed' = handed
    BY <1>3, <1>6, <2>1, ContinueSound DEF Inv, PollOther
  <2>3. NetSound' /\ TablesSound'
    BY <1>6, <2>2, InsertSound DEF Inv, PollOther
  <2> QED
    BY <2>2, <2>3 DEF Inv
<1>7. CASE WaitAck(s, i)
  <2>1. Mine(s) \in handed
    BY <1>7, AckIsMine DEF Inv, WaitAck
  <2>2. IndexSound' /\ Shape' /\ AcksMeanHanded' /\ handed' = handed
    BY <1>2, <1>7, <2>1, ContinueSound DEF Inv, WaitAck
  <2>3. NetSound' /\ TablesSound'
    BY <1>7, <2>2, ConsumeSound DEF Inv, WaitAck
  <2> QED
    BY <2>2, <2>3 DEF Inv
<1>8. CASE WaitResend(s, i)
  <2>1. d.id \in Int /\ d.id >= ResendId
    BY <1>1, <1>8 DEF WaitResend, Sound
  <2>2. IndexSound' /\ Shape' /\ AcksMeanHanded' /\ handed' = handed
    BY <1>8, <2>1, ContinueSound DEF Inv, WaitResend
  <2>3. NetSound' /\ TablesSound'
    BY <1>8, <2>2, ConsumeSound DEF Inv, WaitResend
  <2> QED
    BY <2>2, <2>3 DEF Inv
<1>9. CASE WaitOther(s, i)
  <2>1. handed' = handed /\ message' = message
    BY <1>9 DEF WaitOther, caller
  <2>2. NetSound' /\ TablesSound'
    BY <1>9, <2>1, InsertSound DEF Inv, WaitOther
  <2> QED
    BY <1>9, <2>1, <2>2 DEF Inv, WaitOther, IndexSound, Shape, AcksMeanHanded
<1> QED
  BY <1>4, <1>5, <1>6, <1>7, <1>8, <1>9

LEMMA WaitTimeoutInv ==
  ASSUME Inv, NEW s \in Sockets, WaitTimeout(s)
  PROVE  Inv'
  BY DEF Inv, WaitTimeout, caller, NetSound, TablesSound, IndexSound, Shape,
         AcksMeanHanded

-----------------------------------------------------------------------------
(* recv.                                                                   *)

\* Handing a message over keeps what was handed over, and the tables.
LEMMA TakeOutSound ==
  ASSUME Inv, NEW s \in Sockets, NEW table, Waits(table), NEW k, TakeOut(s, table, k)
  PROVE  /\ handed \subseteq handed' /\ <<s, k[1], k[2]>> \in handed'
         /\ TablesSound' /\ IndexSound' /\ Shape' /\ AcksMeanHanded'
<1>1. handed \subseteq handed' /\ <<s, k[1], k[2]>> \in handed'
  BY DEF TakeOut
<1>2. TablesSound'
  <2>1. DOMAIN unfinished' = Sockets /\ \A r \in Sockets :
          unfinished'[r] = IF r = s THEN [x \in DOMAIN table \ {k} |-> table[x]]
                           ELSE unfinished[r]
    BY DEF TakeOut, Inv, TablesSound
  <2>2. Waits([x \in DOMAIN table \ {k} |-> table[x]])
    BY DEF Waits
  <2> QED
    BY <2>1, <2>2 DEF Inv, TablesSound
<1>3. IndexSound' /\ Shape'
  BY DEF TakeOut, Inv, IndexSound, Shape
<1>4. AcksMeanHanded'
  BY <1>1 DEF TakeOut, Inv, AcksMeanHanded
<1> QED
  BY <1>1, <1>2, <1>3, <1>4

LEMMA RecvReadyInv ==
  ASSUME Inv, NEW s \in Sockets, NEW k, RecvReady(s, k)
  PROVE  Inv'
<1>1. Waits(unfinished[s])
  BY DEF Inv, TablesSound
<1>2. /\ handed \subseteq handed' /\ <<s, k[1], k[2]>> \in handed'
      /\ TablesSound' /\ IndexSound' /\ Shape' /\ AcksMeanHanded'
  BY <1>1, TakeOutSound DEF RecvReady
<1>3. Sound(handed', k[1], Ack(s, k))
  BY <1>2 DEF Sound, Ack, Control
<1>4. PICK acks \in {<<>>, <<Ack(s, k)>>} : net' = [net EXCEPT ![k[1]] = @ \o acks]
  BY DEF RecvReady
<1>5. Carries(handed', k[1], acks)
  BY <1>3, EmptySound, OneSound
<1>6. \A r \in Sockets : Carries(handed', r, net[r])
  BY <1>2, MoreHanded DEF Inv, NetSound
<1>7. \A r \in Sockets : net'[r] = IF r = k[1] THEN net[r] \o acks ELSE net[r]
  BY <1>4 DEF Inv, NetSound
<1>8. NetSound'
  BY <1>4, <1>5, <1>6, <1>7, ConcatSound DEF Inv, NetSound
<1> QED
  BY <1>2, <1>8 DEF Inv

LEMMA RecvLastInv ==
  ASSUME Inv, NEW s \in Sockets, NEW i \in DOMAIN net[s], RecvLast(s, i)
  PROVE  Inv'
<1> DEFINE d == net[s][i]
           k == Key(d)
<1>1. Waits(Noted(unfinished[s], d))
  BY ElementSound, NotedWaits DEF Inv, NetSound, TablesSound
<1>2. TakeOut(s, Noted(unfinished[s], d), k) /\ Exchange(s, i, <<Ack(s, k)>>)
  BY DEF RecvLast
<1>3. /\ handed \subseteq handed' /\ <<s, k[1], k[2]>> \in handed'
      /\ TablesSound' /\ IndexSound' /\ Shape' /\ AcksMeanHanded'
  BY <1>1, <1>2, TakeOutSound
<1>4. Sound(handed', d.from, Ack(s, k))
  BY <1>3 DEF Sound, Ack, Control, Key
<1>5. Carries(handed', d.from, <<Ack(s, k)>>)
  BY <1>4, OneSound
<1>6. NetSound'
  BY <1>2, <1>3, <1>5, ExchangeSound DEF Inv
<1> QED
  BY <1>3, <1>6 DEF Inv

LEMMA RecvOtherInv ==
  ASSUME Inv, NEW s \in Sockets, NEW i \in DOMAIN net[s], RecvOther(s, i)
  PROVE  Inv'
<1>1. handed' = handed /\ message' = message
  BY DEF RecvOther, caller
<1>2. NetSound' /\ TablesSound'
  BY <1>1, InsertSound DEF Inv, RecvOther
<1> QED
  BY <1>1, <1>2 DEF Inv, RecvOther, IndexSound, Shape, AcksMeanHanded

LEMMA RecvAskInv ==
  ASSUME Inv, NEW s \in Sockets, NEW k \in DOMAIN unfinished[s], RecvAsk(s, k)
  PROVE  Inv'
<1> DEFINE ask == Resend(s, k, unfinished[s][k].next)
<1>1. Sound(handed, k[1], ask)
  BY DEF Inv, TablesSound, Waits, Sound, Resend, Control, ResendId
<1>2. handed' = handed /\ message' = message /\ net' = [net EXCEPT ![k[1]] = Append(@, ask)]
  BY DEF RecvAsk, caller
<1> HIDE DEF ask
<1>3. \A r \in Sockets : net'[r] = IF r = k[1] THEN Append(net[r], ask) ELSE net[r]
  BY <1>2 DEF Inv, NetSound
<1>4. NetSound'
  BY <1>1, <1>2, <1>3, AppendSound DEF Inv, NetSound
<1> QED
  BY <1>2, <1>4 DEF Inv, RecvAsk, TablesSound, IndexSound, Shape, AcksMeanHanded

-----------------------------------------------------------------------------

LEMMA LoseInv ==
  ASSUME Inv, NEW s \in Sockets, Lose(s)
  PROVE  Inv'
<1>1. handed' = handed /\ message' = message
  BY DEF Lose, caller
<1>2. PICK i \in DOMAIN net[s] : net' = [net EXCEPT ![s] = RemoveAt(@, i)]
  BY DEF Lose
<1>3. \A r \in Sockets : net'[r] = IF r = s THEN RemoveAt(net[r], i) ELSE net[r]
  BY <1>2 DEF Inv, NetSound
<1>4. NetSound'
  BY <1>1, <1>2, <1>3, RemoveSound DEF Inv, NetSound
<1> QED
  BY <1>1, <1>4 DEF Inv, Lose, TablesSound, IndexSound, Shape, AcksMeanHanded

LEMMA UdpStepInv ==
  ASSUME Inv, NEW s \in Sockets, UdpStep(s)
  PROVE  Inv'
<1>1. ASSUME NEW i \in Arriving(s), Take(s, i)
      PROVE  Inv'
  <2>1. i \in DOMAIN net[s]
    BY DEF Arriving
  <2> QED
    BY <1>1, <2>1, SendTakesInv, RecvLastInv, RecvOtherInv DEF Take
<1> QED
  BY <1>1, SendPacketInv, PollNothingInv, WaitTimeoutInv, RecvReadyInv, RecvAskInv
     DEF UdpStep

LEMMA InvInitial ==
  ASSUME Init
  PROVE  Inv
<1>1. NetSound
  BY EmptySound DEF Init, UdpInit, NetSound
<1> QED
  BY <1>1 DEF Init, UdpInit, Inv, TablesSound, Waits, IndexSound, Shape,
              AcksMeanHanded, ResendId

LEMMA InvPreserved ==
  ASSUME Inv, [Next]_vars
  PROVE  Inv'
<1>1. CASE UNCHANGED vars
  BY <1>1 DEF vars, udpVars, Inv, NetSound, TablesSound, IndexSound, Shape, AcksMeanHanded
<1>2. ASSUME NEW c \in Clients, Ask(c)
      PROVE  Inv'
  BY <1>2, StartSendInv DEF Ask
<1>3. ASSUME NEW c \in Clients, TakeAnswer(c)
      PROVE  Inv'
  BY <1>3 DEF TakeAnswer, caller, Inv, NetSound, TablesSound, IndexSound, Shape,
              AcksMeanHanded
<1>4. CASE Serve
  BY <1>4, StartSendInv DEF Serve
<1>5. CASE Terminate
  BY <1>5 DEF Terminate, caller, Inv, NetSound, TablesSound, IndexSound, Shape,
              AcksMeanHanded
<1> QED
  BY <1>1, <1>2, <1>3, <1>4, <1>5, UdpStepInv, LoseInv DEF Next

\* An acknowledgement is the word of the other side's recv (send, recv): with
\* any number of clients, on either network, whatever is lost, late or repeated
\* and whatever numbers the two directions share, a send that took an
\* acknowledgement has had its message handed over.
THEOREM AcksMeanHandedTheorem == Spec => []AcksMeanHanded
<1>1. Inv => AcksMeanHanded
  BY DEF Inv
<1> QED
  BY <1>1, InvInitial, InvPreserved, PTL DEF Spec

-----------------------------------------------------------------------------
(* The types, and who talks to whom.                                       *)

\* Whom a socket hears from and talks to, and what it is told and tells: the server
\* hears requests, a client replies.
Peers(s) == IF s = Server THEN Clients ELSE {Server}
Told(s) == IF s = Server THEN Promise!Calls ELSE Replies
Telling(s) == IF s = Server THEN Replies ELSE Promise!Calls

Datagrams(s) ==
  [from : Peers(s), to : {s}, msgid : Nat, id : Int, next : Int,
   body : Told(s) \cup {None}]
Keys(s) == Peers(s) \X Nat
Starts == {"part", "whole", "neither"}
Collections(s) ==
  {e \in [next : Int, body : Told(s) \cup {None}, start : Starts] :
     e.start # "neither" => e.body \in Told(s)}
Messages(s) == [to : Peers(s), msgid : Nat, body : Telling(s), packets : Nat \ {0}]
Handovers(s) ==
  {m \in [from : Peers(s), body : Told(s) \cup {None}, whole : BOOLEAN] :
     m.whole => m.body \in Told(s)}
Places == {"idle", "send", "poll", "wait", "recv", "got", "terminated"}
Sending == {"send", "poll", "wait"}
Outcomes == {"shown", "registered", "already used"}

TableOf(s, table) ==
  DOMAIN table \subseteq Keys(s) /\ \A k \in DOMAIN table : table[k] \in Collections(s)

NetTyped == DOMAIN net = Sockets /\ \A s \in Sockets : net[s] \in Seq(Datagrams(s))

TablesTyped ==
  DOMAIN unfinished = Sockets /\ \A s \in Sockets : TableOf(s, unfinished[s])

SendTyped ==
  /\ setting \in Settings
  /\ msgIdGen \in [Sockets -> Nat]
  /\ index \in [Sockets -> Int]
  /\ success \in [Sockets -> BOOLEAN]
  /\ place \in [Sockets -> Places]
  /\ DOMAIN message = Sockets
  /\ \A s \in Sockets :
       /\ message[s] = Nothing \/ message[s] \in Messages(s)
       /\ place[s] \in Sending => message[s] \in Messages(s)

RecvTyped ==
  /\ handed \subseteq Sockets \X Sockets \X Nat
  /\ DOMAIN received = Sockets
  /\ \A s \in Sockets :
       /\ received[s] = None \/ received[s] \in Handovers(s)
       /\ place[s] = "got" => received[s] \in Handovers(s)

ServiceTyped ==
  /\ taken \in [Users -> Promise!Calls \cup {None}]
  /\ asked \in [Clients -> Promise!Calls \cup {None}]
  /\ outcome \in [Clients -> Outcomes \cup {None}]
  /\ answered \in [Clients -> {None} \cup
       [call : Promise!Calls \cup {None}, outcome : Outcomes \cup {None}]]

Typed ==
  /\ NetTyped
  /\ TablesTyped
  /\ SendTyped
  /\ RecvTyped
  /\ ServiceTyped
  /\ lost \in Seq(Packets)

LEMMA PeerFacts ==
  ASSUME NEW s \in Sockets, NEW r \in Peers(s)
  PROVE  /\ r \in Sockets /\ r # s /\ s \in Peers(r)
         /\ Told(r) = Telling(s) /\ Telling(r) = Told(s)
BY UdpAssumption DEF Peers, Sockets, Told, Telling

LEMMA ControlTyped ==
  ASSUME NEW s \in Sockets, NEW k \in Keys(s), NEW id \in Int, NEW next \in Int
  PROVE  Control(s, k, id, next) \in Datagrams(k[1])
<1>1. k[1] \in Peers(s) /\ k[2] \in Nat
  BY DEF Keys
<1>2. s \in Peers(k[1])
  BY <1>1, PeerFacts
<1> QED
  BY <1>1, <1>2 DEF Control, Datagrams

LEMMA NotedTyped ==
  ASSUME NEW s \in Sockets, NEW table, TableOf(s, table), NEW d \in Datagrams(s)
  PROVE  TableOf(s, Noted(table, d))
<1>1. Key(d) \in Keys(s) /\ d.next \in Int /\ d.body \in Told(s) \cup {None}
  BY DEF Key, Keys, Datagrams
<1>2. Begun(d) \in Collections(s)
  BY <1>1 DEF Begun, Collections, Starts
<1>3. ASSUME NEW e \in Collections(s)
      PROVE  [next |-> d.next, body |-> e.body, start |-> Extended(e, d)] \in Collections(s)
  <2>1. e.body \in Told(s) \cup {None} /\ e.start \in Starts
        /\ (e.start # "neither" => e.body \in Told(s))
    BY DEF Collections
  <2>2. Extended(e, d) \in Starts /\ (Extended(e, d) # "neither" => e.start # "neither")
    BY <2>1 DEF Extended, Starts
  <2> QED
    BY <1>1, <2>1, <2>2 DEF Collections
<1>4. CASE d.id = AckId \/ (Key(d) \in DOMAIN table /\ d.id # table[Key(d)].next)
           \/ (Key(d) \notin DOMAIN table /\ d.id # 0)
  BY <1>4 DEF Noted
<1>5. CASE d.id # AckId /\ Key(d) \in DOMAIN table /\ d.id = table[Key(d)].next
  <2> DEFINE e == table[Key(d)]
             f == [next |-> d.next, body |-> e.body, start |-> Extended(e, d)]
  <2>1. Noted(table, d) = [table EXCEPT ![Key(d)] = f]
    BY <1>5 DEF Noted
  <2>2. f \in Collections(s)
    BY <1>3, <1>5 DEF TableOf
  <2> HIDE DEF f, e
  <2> QED
    BY <2>1, <2>2 DEF TableOf
<1>6. CASE d.id # AckId /\ Key(d) \notin DOMAIN table /\ d.id = 0
  <2>1. Noted(table, d) =
          [x \in DOMAIN table \cup {Key(d)} |-> IF x = Key(d) THEN Begun(d) ELSE table[x]]
    BY <1>6 DEF Noted
  <2> QED
    BY <1>1, <1>2, <2>1 DEF TableOf
<1> QED
  BY <1>4, <1>5, <1>6

LEMMA MissedTyped ==
  ASSUME NEW s \in Sockets, TableOf(s, unfinished[s]), NEW d \in Datagrams(s)
  PROVE  Missed(s, d) \in Seq(Datagrams(d.from))
<1>1. Key(d) \in Keys(s) /\ Key(d)[1] = d.from
  BY DEF Key, Keys, Datagrams
<1>2. \A id \in Int : Resend(s, Key(d), id) \in Datagrams(d.from)
  BY <1>1, ControlTyped DEF Resend, ResendId
<1>3. \A id \in Int : <<Resend(s, Key(d), id)>> \in Seq(Datagrams(d.from))
  BY <1>2
<1>4. Key(d) \in DOMAIN unfinished[s] => unfinished[s][Key(d)].next \in Int
  BY DEF TableOf, Collections
<1>5. <<>> \in Seq(Datagrams(d.from)) /\ 0 \in Int
  OBVIOUS
<1> QED
  BY <1>3, <1>4, <1>5 DEF Missed

LEMMA RemoveTyped ==
  ASSUME NEW S, NEW q \in Seq(S), NEW i \in DOMAIN q
  PROVE  RemoveAt(q, i) \in Seq(S)
<1>1. i \in 1 .. Len(q) /\ Len(q) \in Nat
  BY LenProperties
<1> QED
  BY <1>1, RemoveAtIndex

\* s reads a datagram and answers.
LEMMA ExchangeTyped ==
  ASSUME NetTyped, NEW s \in Sockets, NEW i \in DOMAIN net[s], NEW sent,
         Exchange(s, i, sent), sent \in Seq(Datagrams(net[s][i].from))
  PROVE  NetTyped'
<1> DEFINE from == net[s][i].from
           q(r) == IF r = s THEN RemoveAt(net[r], i) ELSE net[r]
<1>1. DOMAIN net' = Sockets
  BY DEF Exchange, NetTyped
<1>2. ASSUME NEW r \in Sockets
      PROVE  net'[r] \in Seq(Datagrams(r))
  <2>1. q(r) \in Seq(Datagrams(r))
    BY RemoveTyped DEF NetTyped
  <2>2. net'[r] = IF r = from THEN q(r) \o sent ELSE q(r)
    <3> DEFINE m == [net EXCEPT ![s] = RemoveAt(@, i)]
    <3>1. DOMAIN m = Sockets /\ m[r] = q(r)
      BY DEF NetTyped
    <3>2. net' = [m EXCEPT ![from] = @ \o sent]
      BY DEF Exchange
    <3> HIDE DEF m, q, from
    <3> QED
      BY <3>1, <3>2
  <2>3. r = from => sent \in Seq(Datagrams(r))
    OBVIOUS
  <2> HIDE DEF q, from
  <2>4. r = from => q(r) \o sent \in Seq(Datagrams(r))
    BY <2>1, <2>3, ConcatProperties
  <2> QED
    BY <2>1, <2>2, <2>4
<1> QED
  BY <1>1, <1>2 DEF NetTyped

LEMMA Arrives ==
  ASSUME NetTyped, NEW s \in Sockets, NEW i \in DOMAIN net[s]
  PROVE  /\ net[s][i] \in Datagrams(s) /\ net[s][i].from \in Peers(s)
         /\ net[s][i].id \in Int /\ net[s][i].from \in Sockets
         /\ Key(net[s][i]) \in Keys(s)
<1>1. net[s][i] \in Datagrams(s)
  BY ElementOfSeq, LenProperties DEF NetTyped
<1> QED
  BY <1>1, PeerFacts DEF Datagrams, Key, Keys

LEMMA InsertTyped ==
  ASSUME NetTyped, TablesTyped, NEW s \in Sockets, NEW i \in DOMAIN net[s],
         InsertCheck(s, i)
  PROVE  NetTyped' /\ TablesTyped'
<1>1. net[s][i] \in Datagrams(s) /\ TableOf(s, unfinished[s])
  BY Arrives DEF TablesTyped
<1>2. NetTyped'
  BY <1>1, MissedTyped, ExchangeTyped DEF InsertCheck
<1>3. TableOf(s, Noted(unfinished[s], net[s][i]))
  BY <1>1, NotedTyped
<1> QED
  BY <1>2, <1>3 DEF InsertCheck, TablesTyped

LEMMA ConsumeTyped ==
  ASSUME NetTyped, TablesTyped, NEW s \in Sockets, NEW i \in DOMAIN net[s], Consume(s, i)
  PROVE  NetTyped' /\ TablesTyped'
<1>1. NetTyped'
  BY ExchangeTyped, EmptySeq DEF Consume
<1> QED
  BY <1>1 DEF Consume, TablesTyped

-----------------------------------------------------------------------------
(* The types: send.                                                        *)

LEMMA StartSendTyped ==
  ASSUME Typed, NEW s \in Sockets, NEW to \in Peers(s), NEW body \in Telling(s),
         NEW packets \in Nat \ {0}, StartSend(s, to, body, packets)
  PROVE  NetTyped' /\ TablesTyped' /\ SendTyped' /\ RecvTyped' /\ lost' = lost
<1> DEFINE m == [to |-> to, msgid |-> msgIdGen[s], body |-> body, packets |-> packets]
<1>1. NetTyped' /\ TablesTyped' /\ lost' = lost
  BY DEF StartSend, Typed, NetTyped, TablesTyped
<1>2. m \in Messages(s)
  BY DEF Typed, SendTyped, Messages
<1>3. message' = [message EXCEPT ![s] = m] /\ setting' = setting
  BY DEF StartSend
<1>4. msgIdGen' \in [Sockets -> Nat] /\ index' \in [Sockets -> Int]
      /\ success' \in [Sockets -> BOOLEAN]
  BY DEF StartSend, Typed, SendTyped
<1>5. place' \in [Sockets -> Places] /\ place'[s] = "send"
      /\ \A r \in Sockets : r # s => place'[r] = place[r]
  BY DEF StartSend, Typed, SendTyped, Places
<1> HIDE DEF m
<1>6. \A r \in Sockets : message'[r] = IF r = s THEN m ELSE message[r]
  BY <1>3 DEF Typed, SendTyped
<1>7. SendTyped'
  BY <1>2, <1>3, <1>4, <1>5, <1>6 DEF Typed, SendTyped, Messages
<1>8. RecvTyped'
  BY <1>5 DEF StartSend, Typed, RecvTyped, Handovers
<1> QED
  BY <1>1, <1>7, <1>8

LEMMA ContinueTyped ==
  ASSUME SendTyped, RecvTyped, NEW s \in Sockets, place[s] \in Sending, NEW i \in Int,
         NEW ok \in BOOLEAN, Continue(s, i, ok)
  PROVE  SendTyped' /\ RecvTyped' /\ lost' = lost
<1>1. /\ place' \in [Sockets -> Places] /\ place'[s] \in {"send", "recv", "wait"}
      /\ \A r \in Sockets : r # s => place'[r] = place[r]
  BY DEF Continue, SendTyped, Places
<1>2. index' \in [Sockets -> Int] /\ success' \in [Sockets -> BOOLEAN]
  BY DEF Continue, SendTyped
<1>3. UNCHANGED <<setting, lost, msgIdGen, message, received, handed>>
  BY DEF Continue, caller
<1>4. SendTyped'
  BY <1>1, <1>2, <1>3 DEF SendTyped, Messages
<1>5. RecvTyped'
  BY <1>1, <1>3 DEF RecvTyped, Handovers
<1> QED
  BY <1>3, <1>4, <1>5

LEMMA SendPacketTyped ==
  ASSUME Typed, NEW s \in Sockets, SendPacket(s)
  PROVE  NetTyped' /\ TablesTyped' /\ SendTyped' /\ RecvTyped' /\ lost' = lost
<1> DEFINE to == message[s].to
<1>1. message[s] \in Messages(s) /\ index[s] \in Int
  BY DEF SendPacket, Typed, SendTyped, Sending
<1>2. to \in Peers(s) /\ to \in Sockets /\ s \in Peers(to) /\ Told(to) = Telling(s)
  BY <1>1, PeerFacts DEF Messages
<1>3. Packet(s) \in Datagrams(to)
  BY <1>1, <1>2 DEF Packet, Datagrams, Messages, NoNext
<1> HIDE DEF to
<1>4. \A r \in Sockets : net'[r] = IF r = to THEN Append(net[r], Packet(s)) ELSE net[r]
  BY DEF SendPacket, Typed, NetTyped, to
<1>5. NetTyped'
  BY <1>2, <1>3, <1>4, AppendProperties DEF Typed, NetTyped, SendPacket
<1>6. SendTyped'
  BY DEF SendPacket, caller, Typed, SendTyped, Places, Sending, Messages
<1>7. RecvTyped' /\ TablesTyped' /\ lost' = lost
  BY DEF SendPacket, caller, Typed, SendTyped, RecvTyped, TablesTyped, Handovers
<1> QED
  BY <1>5, <1>6, <1>7

LEMMA PollNothingTyped ==
  ASSUME Typed, NEW s \in Sockets, PollNothing(s)
  PROVE  NetTyped' /\ TablesTyped' /\ SendTyped' /\ RecvTyped' /\ lost' = lost
<1>1. index[s] + 1 \in Int /\ success[s] \in BOOLEAN
  BY DEF Typed, SendTyped
<1>2. SendTyped' /\ RecvTyped' /\ lost' = lost
  BY <1>1, ContinueTyped DEF PollNothing, Typed, Sending
<1> QED
  BY <1>2 DEF PollNothing, Typed, NetTyped, TablesTyped

LEMMA SendTakesTyped ==
  ASSUME Typed, NEW s \in Sockets, NEW i \in DOMAIN net[s],
         \/ PollResend(s, i) \/ PollMine(s, i) \/ PollOther(s, i)
         \/ WaitAck(s, i) \/ WaitResend(s, i) \/ WaitOther(s, i)
  PROVE  NetTyped' /\ TablesTyped' /\ SendTyped' /\ RecvTyped' /\ lost' = lost
<1>1. index[s] \in Int /\ index[s] + 1 \in Int /\ net[s][i].id \in Int
  BY Arrives DEF Typed, SendTyped
<1>2. success[s] \in BOOLEAN /\ TRUE \in BOOLEAN /\ FALSE \in BOOLEAN
      /\ (success[s] \/ net[s][i].id = AckId) \in BOOLEAN
  BY DEF Typed, SendTyped
<1>3. NetTyped' /\ TablesTyped'
  BY ConsumeTyped, InsertTyped
     DEF Typed, PollResend, PollMine, PollOther, WaitAck, WaitResend, WaitOther
<1>4. SendTyped' /\ RecvTyped' /\ lost' = lost
  <2>1. ASSUME place[s] \in Sending, NEW j \in Int, NEW ok \in BOOLEAN, Continue(s, j, ok)
        PROVE  SendTyped' /\ RecvTyped' /\ lost' = lost
    BY <2>1, ContinueTyped DEF Typed
  <2>2. CASE PollResend(s, i)
    BY <1>1, <1>2, <2>1, <2>2 DEF PollResend, Sending
  <2>3. CASE PollMine(s, i)
    BY <1>1, <1>2, <2>1, <2>3 DEF PollMine, Sending
  <2>4. CASE PollOther(s, i)
    BY <1>1, <1>2, <2>1, <2>4 DEF PollOther, Sending
  <2>5. CASE WaitAck(s, i)
    BY <1>1, <1>2, <2>1, <2>5 DEF WaitAck, Sending
  <2>6. CASE WaitResend(s, i)
    BY <1>1, <1>2, <2>1, <2>6 DEF WaitResend, Sending
  <2>7. CASE WaitOther(s, i)
    BY <2>7 DEF WaitOther, caller, Typed, SendTyped, RecvTyped, Messages, Handovers
  <2> QED
    BY <2>2, <2>3, <2>4, <2>5, <2>6, <2>7
<1> QED
  BY <1>3, <1>4

LEMMA WaitTimeoutTyped ==
  ASSUME Typed, NEW s \in Sockets, WaitTimeout(s)
  PROVE  NetTyped' /\ TablesTyped' /\ SendTyped' /\ RecvTyped' /\ lost' = lost
<1>1. place' \in [Sockets -> Places] /\ place'[s] = "recv"
      /\ \A r \in Sockets : r # s => place'[r] = place[r]
  BY DEF WaitTimeout, Typed, SendTyped, Places
<1>2. UNCHANGED <<setting, net, lost, msgIdGen, message, received, handed, unfinished,
                  index, success>>
  BY DEF WaitTimeout, caller
<1>3. NetTyped' /\ TablesTyped' /\ lost' = lost
  BY <1>2 DEF Typed, NetTyped, TablesTyped
<1>4. SendTyped'
  BY <1>1, <1>2 DEF Typed, SendTyped, Messages, Sending
<1>5. RecvTyped'
  BY <1>1, <1>2 DEF Typed, RecvTyped, Handovers
<1> QED
  BY <1>3, <1>4, <1>5

-----------------------------------------------------------------------------
(* The types: recv.                                                        *)

LEMMA TakeOutTyped ==
  ASSUME Typed, NEW s \in Sockets, NEW table, TableOf(s, table), NEW k \in DOMAIN table,
         TakeOut(s, table, k)
  PROVE  TablesTyped' /\ SendTyped' /\ RecvTyped' /\ lost' = lost
<1> DEFINE m == [from |-> k[1], body |-> table[k].body, whole |-> table[k].start = "whole"]
           rest == [x \in DOMAIN table \ {k} |-> table[x]]
<1>1. k \in Keys(s) /\ k[1] \in Peers(s) /\ k[2] \in Nat /\ table[k] \in Collections(s)
  BY DEF TableOf, Keys
<1>2. m \in Handovers(s)
  BY <1>1 DEF Handovers, Collections
<1>3. TableOf(s, rest)
  BY DEF TableOf
<1>4. <<s, k[1], k[2]>> \in Sockets \X Sockets \X Nat
  BY <1>1, PeerFacts
<1>5. /\ received' = [received EXCEPT ![s] = m]
      /\ unfinished' = [unfinished EXCEPT ![s] = rest]
      /\ handed' = handed \cup {<<s, k[1], k[2]>>}
      /\ place' = [place EXCEPT ![s] = "got"]
      /\ UNCHANGED <<setting, lost, msgIdGen, message, index, success>>
  BY DEF TakeOut
<1> HIDE DEF m, rest
<1>6. TablesTyped'
  BY <1>3, <1>5 DEF Typed, TablesTyped
<1>7. /\ place' \in [Sockets -> Places] /\ place'[s] = "got"
      /\ \A r \in Sockets : r # s => place'[r] = place[r]
  BY <1>5 DEF Typed, SendTyped, Places
<1>8. SendTyped'
  BY <1>5, <1>7 DEF Typed, SendTyped, Messages, Sending
<1>9. RecvTyped'
  BY <1>2, <1>4, <1>5, <1>7 DEF Typed, RecvTyped, Handovers
<1> QED
  BY <1>5, <1>6, <1>8, <1>9

LEMMA AckTyped ==
  ASSUME NEW s \in Sockets, NEW k \in Keys(s)
  PROVE  k[1] \in Sockets /\ <<Ack(s, k)>> \in Seq(Datagrams(k[1]))
<1>1. Ack(s, k) \in Datagrams(k[1])
  BY ControlTyped DEF Ack, AckId
<1> QED
  BY <1>1, PeerFacts DEF Keys

LEMMA RecvReadyTyped ==
  ASSUME Typed, NEW s \in Sockets, NEW k, RecvReady(s, k)
  PROVE  NetTyped' /\ TablesTyped' /\ SendTyped' /\ RecvTyped' /\ lost' = lost
<1>1. TableOf(s, unfinished[s]) /\ k \in DOMAIN unfinished[s] /\ k \in Keys(s)
  BY DEF RecvReady, Complete, Typed, TablesTyped, TableOf
<1>2. TablesTyped' /\ SendTyped' /\ RecvTyped' /\ lost' = lost
  BY <1>1, TakeOutTyped DEF RecvReady
<1>3. PICK acks \in {<<>>, <<Ack(s, k)>>} : net' = [net EXCEPT ![k[1]] = @ \o acks]
  BY DEF RecvReady
<1>4. k[1] \in Sockets /\ acks \in Seq(Datagrams(k[1]))
  BY <1>1, <1>3, AckTyped, EmptySeq
<1>5. \A r \in Sockets : net'[r] = IF r = k[1] THEN net[r] \o acks ELSE net[r]
  BY <1>3, <1>4 DEF Typed, NetTyped
<1>6. net[k[1]] \o acks \in Seq(Datagrams(k[1]))
  BY <1>4, ConcatProperties DEF Typed, NetTyped
<1>7. NetTyped'
  BY <1>3, <1>5, <1>6 DEF Typed, NetTyped
<1> QED
  BY <1>2, <1>7

LEMMA RecvLastTyped ==
  ASSUME Typed, NEW s \in Sockets, NEW i \in DOMAIN net[s], RecvLast(s, i)
  PROVE  NetTyped' /\ TablesTyped' /\ SendTyped' /\ RecvTyped' /\ lost' = lost
<1> DEFINE d == net[s][i]
           table == Noted(unfinished[s], d)
<1>1. d \in Datagrams(s) /\ Key(d) \in Keys(s) /\ Key(d)[1] = d.from
  BY Arrives DEF Typed, Key
<1>2. TableOf(s, table)
  BY <1>1, NotedTyped DEF Typed, TablesTyped
<1>3. /\ Key(d) \in DOMAIN table /\ TakeOut(s, table, Key(d))
      /\ Exchange(s, i, <<Ack(s, Key(d))>>)
  BY DEF RecvLast, Complete
<1>4. <<Ack(s, Key(d))>> \in Seq(Datagrams(d.from))
  BY <1>1, AckTyped
<1>5. NetTyped'
  BY <1>3, <1>4, ExchangeTyped DEF Typed
<1> HIDE DEF table
<1>6. TablesTyped' /\ SendTyped' /\ RecvTyped' /\ lost' = lost
  BY <1>2, <1>3, TakeOutTyped
<1> QED
  BY <1>5, <1>6

LEMMA RecvOtherTyped ==
  ASSUME Typed, NEW s \in Sockets, NEW i \in DOMAIN net[s], RecvOther(s, i)
  PROVE  NetTyped' /\ TablesTyped' /\ SendTyped' /\ RecvTyped' /\ lost' = lost
<1>1. NetTyped' /\ TablesTyped'
  BY InsertTyped DEF RecvOther, Typed
<1> QED
  BY <1>1 DEF RecvOther, caller, Typed, SendTyped, RecvTyped, Messages, Handovers

LEMMA RecvAskTyped ==
  ASSUME Typed, NEW s \in Sockets, NEW k \in DOMAIN unfinished[s], RecvAsk(s, k)
  PROVE  NetTyped' /\ TablesTyped' /\ SendTyped' /\ RecvTyped' /\ lost' = lost
<1> DEFINE ask == Resend(s, k, unfinished[s][k].next)
<1>1. k \in Keys(s) /\ unfinished[s][k].next \in Int /\ k[1] \in Sockets
  BY AckTyped DEF Typed, TablesTyped, TableOf, Collections
<1>2. ask \in Datagrams(k[1])
  BY <1>1, ControlTyped DEF Resend, ResendId
<1>3. net' = [net EXCEPT ![k[1]] = Append(@, ask)]
  BY DEF RecvAsk
<1> HIDE DEF ask
<1>4. \A r \in Sockets : net'[r] = IF r = k[1] THEN Append(net[r], ask) ELSE net[r]
  BY <1>1, <1>3 DEF Typed, NetTyped
<1>5. NetTyped'
  BY <1>2, <1>3, <1>4, AppendProperties DEF Typed, NetTyped
<1> QED
  BY <1>5 DEF RecvAsk, caller, Typed, TablesTyped, SendTyped, RecvTyped, Messages,
              Handovers

LEMMA LoseTyped ==
  ASSUME Typed, NEW s \in Sockets, Lose(s)
  PROVE  NetTyped' /\ TablesTyped' /\ SendTyped' /\ RecvTyped' /\ lost' \in Seq(Packets)
<1>1. PICK i \in DOMAIN net[s] :
        net' = [net EXCEPT ![s] = RemoveAt(@, i)] /\ lost' = Append(lost, net[s][i])
  BY DEF Lose
<1>2. \A r \in Sockets : net'[r] = IF r = s THEN RemoveAt(net[r], i) ELSE net[r]
  BY <1>1 DEF Typed, NetTyped
<1>3. NetTyped'
  BY <1>1, <1>2, RemoveTyped DEF Typed, NetTyped
<1>4. net[s][i] \in Packets
  <2>1. net[s][i] \in Datagrams(s) /\ net[s][i].from \in Sockets
    BY Arrives DEF Typed
  <2> QED
    BY <2>1 DEF Datagrams, Packets, Bodies, Told
<1>5. lost' \in Seq(Packets)
  BY <1>1, <1>4, AppendProperties DEF Typed
<1> QED
  BY <1>3, <1>5 DEF Lose, caller, Typed, TablesTyped, SendTyped, RecvTyped, Messages,
                    Handovers

-----------------------------------------------------------------------------
(* The types: the callers.                                                 *)

LEMMA CallFacts ==
  /\ \A call \in Promise!Calls : call.op = "register" => call.name \in Users
  /\ \A c \in Clients : \A x \in Settings : msgIdGen[c] \in Nat /\ msgIdGen[c] < x.calls =>
       \A request \in Requests(c) : request \in Promise!Calls /\ request.client = c
<1>1. \A x \in Settings : x.calls \in 0 .. MaxCalls
  BY UdpAssumption
<1>2. ASSUME NEW c \in Clients, NEW x \in Settings, msgIdGen[c] \in Nat, msgIdGen[c] < x.calls
      PROVE  msgIdGen[c] \in 0 .. MaxCalls - 1
  BY <1>1, <1>2, UdpAssumption
<1> QED
  BY <1>2 DEF Requests, Promise!Calls

LEMMA AskTyped ==
  ASSUME Typed, NEW c \in Clients, Ask(c)
  PROVE  Typed'
<1>1. PICK request \in Requests(c) :
        /\ asked' = [asked EXCEPT ![c] = request]
        /\ StartSend(c, Server, request, 1)
  BY DEF Ask
<1>2. request \in Promise!Calls
  BY CallFacts DEF Ask, Typed, SendTyped, Sockets
<1>3. c \in Sockets /\ Server \in Peers(c) /\ Telling(c) = Promise!Calls
  BY UdpAssumption DEF Sockets, Peers, Telling
<1>4. NetTyped' /\ TablesTyped' /\ SendTyped' /\ RecvTyped' /\ lost' = lost
  BY <1>1, <1>2, <1>3, StartSendTyped
<1>5. ServiceTyped'
  BY <1>1, <1>2 DEF Ask, Typed, ServiceTyped
<1> QED
  BY <1>4, <1>5 DEF Typed

\* A step of the callers that sends nothing.
LEMMA TurnTyped ==
  ASSUME Typed, NEW s \in Sockets, NEW p \in {"idle", "terminated"},
         place' = [place EXCEPT ![s] = p],
         UNCHANGED <<setting, net, lost, caller, unfinished, index, success>>
  PROVE  NetTyped' /\ TablesTyped' /\ SendTyped' /\ RecvTyped' /\ lost' = lost
<1>1. place' \in [Sockets -> Places] /\ place'[s] = p
      /\ \A r \in Sockets : r # s => place'[r] = place[r]
  BY DEF Typed, SendTyped, Places
<1>2. UNCHANGED <<setting, net, lost, msgIdGen, message, received, handed, unfinished,
                  index, success>>
  BY DEF caller
<1>3. NetTyped' /\ TablesTyped' /\ lost' = lost
  BY <1>2 DEF Typed, NetTyped, TablesTyped
<1>4. SendTyped'
  BY <1>1, <1>2 DEF Typed, SendTyped, Messages, Sending
<1>5. RecvTyped'
  BY <1>1, <1>2 DEF Typed, RecvTyped, Handovers
<1> QED
  BY <1>3, <1>4, <1>5

LEMMA TakeAnswerTyped ==
  ASSUME Typed, NEW c \in Clients, TakeAnswer(c)
  PROVE  Typed'
<1>1. c \in Sockets /\ Told(c) = Replies
  BY UdpAssumption DEF Sockets, Told
<1>2. NetTyped' /\ TablesTyped' /\ SendTyped' /\ RecvTyped' /\ lost' = lost
  BY <1>1, TurnTyped DEF TakeAnswer
<1>3. received[c] \in Handovers(c)
  BY <1>1 DEF TakeAnswer, Typed, RecvTyped
<1>4. received[c].whole => received[c].body \in Replies
  BY <1>1, <1>3 DEF Handovers
<1>5. Replies \subseteq [call : Promise!Calls \cup {None}, outcome : Outcomes \cup {None}]
  BY DEF Replies, Outcomes
<1>6. ServiceTyped'
  BY <1>4, <1>5 DEF TakeAnswer, Typed, ServiceTyped
<1> QED
  BY <1>2, <1>6 DEF Typed

LEMMA ServeTyped ==
  ASSUME Typed, Serve
  PROVE  Typed'
<1> DEFINE call == received[Server].body
           client == received[Server].from
<1>1. Server \in Sockets /\ Telling(Server) = Replies /\ Told(Server) = Promise!Calls
      /\ Peers(Server) = Clients
  BY DEF Sockets, Told, Telling, Peers
<1>2. received[Server] \in Handovers(Server)
  BY <1>1 DEF Serve, Typed, RecvTyped
<1>3. call \in Promise!Calls /\ client \in Clients
  BY <1>1, <1>2 DEF Serve, Handovers
<1> DEFINE reply == [call |-> call, outcome |-> Promise!Outcome(taken, call)]
           packets == IF call.op = "list-chatroom" THEN setting.listPackets ELSE 1
<1>4. Promise!Outcome(taken, call) \in Outcomes /\ reply \in Replies
  BY <1>3 DEF Promise!Outcome, Outcomes, Replies
<1>5. packets \in Nat \ {0}
  BY UdpAssumption DEF Typed, SendTyped
<1>6. /\ taken' = Promise!Registered(taken, call)
      /\ outcome' = IF asked[client] = call
                    THEN [outcome EXCEPT ![client] = Promise!Outcome(taken, call)]
                    ELSE outcome
      /\ StartSend(Server, client, reply, packets)
      /\ UNCHANGED <<asked, answered>>
  BY DEF Serve
<1>7. taken' \in [Users -> Promise!Calls \cup {None}]
  BY <1>3, <1>6, CallFacts DEF Promise!Registered, Typed, ServiceTyped
<1>8. outcome' \in [Clients -> Outcomes \cup {None}]
  BY <1>3, <1>4, <1>6 DEF Typed, ServiceTyped
<1> HIDE DEF call, client, reply, packets
<1>9. NetTyped' /\ TablesTyped' /\ SendTyped' /\ RecvTyped' /\ lost' = lost
  BY <1>1, <1>3, <1>4, <1>5, <1>6, StartSendTyped
<1>10. ServiceTyped'
  BY <1>6, <1>7, <1>8 DEF Typed, ServiceTyped
<1> QED
  BY <1>9, <1>10 DEF Typed

LEMMA UdpStepTyped ==
  ASSUME Typed, NEW s \in Sockets, UdpStep(s)
  PROVE  NetTyped' /\ TablesTyped' /\ SendTyped' /\ RecvTyped' /\ lost' = lost
<1>1. ASSUME NEW i \in Arriving(s), Take(s, i)
      PROVE  NetTyped' /\ TablesTyped' /\ SendTyped' /\ RecvTyped' /\ lost' = lost
  <2>1. i \in DOMAIN net[s]
    BY DEF Arriving
  <2> QED
    BY <1>1, <2>1, SendTakesTyped, RecvLastTyped, RecvOtherTyped DEF Take
<1> QED
  BY <1>1, SendPacketTyped, PollNothingTyped, WaitTimeoutTyped, RecvReadyTyped, RecvAskTyped
     DEF UdpStep

LEMMA TypedInitial ==
  ASSUME Init
  PROVE  Typed
<1>1. setting \in Settings /\ setting.firstReply \in Nat
  BY UdpAssumption DEF Init, UdpInit
<1>2. NetTyped /\ TablesTyped /\ lost \in Seq(Packets)
  BY EmptySeq DEF Init, UdpInit, NetTyped, TablesTyped, TableOf
<1>3. SendTyped
  BY <1>1 DEF Init, UdpInit, SendTyped, Places, Sending
<1>4. RecvTyped
  BY DEF Init, UdpInit, RecvTyped
<1>5. ServiceTyped
  BY DEF Init, Promise!Init, ServiceTyped
<1> QED
  BY <1>2, <1>3, <1>4, <1>5 DEF Typed

LEMMA TypedPreserved ==
  ASSUME Typed, [Next]_vars
  PROVE  Typed'
<1>1. CASE UNCHANGED vars
  BY <1>1 DEF vars, udpVars, Typed, NetTyped, TablesTyped, SendTyped, RecvTyped, ServiceTyped,
              Messages, Handovers
<1>2. ASSUME NEW s \in Sockets, UdpStep(s) \/ Lose(s), UNCHANGED service
      PROVE  Typed'
  <2>1. NetTyped' /\ TablesTyped' /\ SendTyped' /\ RecvTyped' /\ lost' \in Seq(Packets)
    BY <1>2, UdpStepTyped, LoseTyped DEF Typed
  <2>2. ServiceTyped'
    BY <1>2 DEF service, Typed, ServiceTyped
  <2> QED
    BY <2>1, <2>2 DEF Typed
<1>3. CASE Terminate
  <2>1. NetTyped' /\ TablesTyped' /\ SendTyped' /\ RecvTyped' /\ lost' = lost
    BY <1>3, TurnTyped DEF Terminate, Sockets
  <2>2. ServiceTyped'
    BY <1>3 DEF Terminate, service, Typed, ServiceTyped
  <2> QED
    BY <2>1, <2>2 DEF Typed
<1> QED
  BY <1>1, <1>2, <1>3, AskTyped, TakeAnswerTyped, ServeTyped DEF Next

\* Nothing is addressed to the wrong side: the server hears and keeps nothing but
\* requests of clients, a client nothing but replies of the server, although recv takes
\* whatever comes (UDP_socket, dispatchUDP, the client's handlers).
THEOREM TypedHolds == Spec => []Typed
BY TypedInitial, TypedPreserved, PTL DEF Spec

\* Every variable of the sockets and of their callers keeps its type, and a datagram
\* reaches only whom it is addressed to: in particular whatever dispatchUDP takes for
\* a request is one, and whatever a client takes for an answer is an answer.
THEOREM UdpTypesHold == Spec => []TypeOK
<1>1. ASSUME Typed PROVE TypeOK
  <2>1. ASSUME NEW s \in Sockets
        PROVE  /\ net[s] \in Seq(Packets)
               /\ \A i \in DOMAIN net[s] : net[s][i].to = s
    <3>1. \A r \in Peers(s) : r \in Sockets
      BY PeerFacts
    <3>2. Datagrams(s) \subseteq Packets
      BY <3>1 DEF Datagrams, Packets, Bodies, Told
    <3>3. net[s] \in Seq(Datagrams(s))
      BY <1>1 DEF Typed, NetTyped
    <3>4. net[s] \in Seq(Packets)
      BY <3>2, <3>3
    <3>5. \A i \in DOMAIN net[s] : net[s][i] \in Datagrams(s)
      BY <3>3, LenProperties, ElementOfSeq
    <3> QED
      BY <3>4, <3>5 DEF Datagrams
  <2>2. ASSUME NEW s \in Sockets, NEW k \in DOMAIN unfinished[s]
        PROVE  k \in Sockets \X Nat /\ unfinished[s][k] \in Entries
    <3>1. k \in Keys(s) /\ unfinished[s][k] \in Collections(s)
      BY <1>1 DEF Typed, TablesTyped, TableOf
    <3> QED
      BY <3>1, PeerFacts DEF Keys, Collections, Entries, Bodies, Told, Starts
  <2>3. ASSUME NEW s \in Sockets
        PROVE  message[s] \in [to : Sockets \cup {None}, msgid : Nat, body : Bodies,
                               packets : Nat \ {0}]
    <3>1. message[s] = Nothing \/ message[s] \in Messages(s)
      BY <1>1 DEF Typed, SendTyped
    <3> QED
      BY <3>1, PeerFacts DEF Nothing, Messages, Bodies, Telling
  <2>4. ASSUME NEW s \in Sockets
        PROVE  received[s] \in {None} \cup [from : Sockets, body : Bodies, whole : BOOLEAN]
    <3>1. received[s] = None \/ received[s] \in Handovers(s)
      BY <1>1 DEF Typed, RecvTyped
    <3> QED
      BY <3>1, PeerFacts DEF Handovers, Bodies, Told
  <2> QED
    BY <1>1, <2>1, <2>2, <2>3, <2>4
       DEF TypeOK, Typed, SendTyped, RecvTyped, ServiceTyped, Places, Outcomes
<1> QED
  BY <1>1, TypedHolds, PTL

-----------------------------------------------------------------------------
(* Messages of one packet, and numbers that the two directions do not share. *)

OnePacket == setting.listPackets = 1 /\ setting.firstReply >= setting.calls

\* The numbers that a socket may give its messages.
Numbered(s, n) == IF s = Server THEN n >= setting.firstReply ELSE n < setting.calls

IsAck(d) == d.id = AckId /\ d.next = AckId
IsMessage(d) == d.id = 0 /\ d.next = NoNext /\ d.body # None /\ Numbered(d.from, d.msgid)

\* Nothing but messages and acknowledgements is on its way.
NetPlain ==
  \A s \in Sockets : \A i \in 1 .. Len(net[s]) : IsAck(net[s][i]) \/ IsMessage(net[s][i])

\* What is in the tables is complete.
TablesPlain ==
  \A s \in Sockets : \A k \in DOMAIN unfinished[s] :
    unfinished[s][k].next = NoNext /\ unfinished[s][k].start = "whole"

\* A send is at its only packet, or past it.
SendPlain ==
  /\ \A s \in Sockets : place[s] \in Sending =>
       /\ message[s].packets = 1 /\ Numbered(s, message[s].msgid)
       /\ index[s] = IF place[s] = "wait" THEN 1 ELSE 0
  /\ msgIdGen[Server] >= setting.firstReply

Plain == NetPlain /\ TablesPlain /\ SendPlain /\ WholeMessages

\* Where the messages from r to s are: about to be sent, on the way, in the table, or
\* handed over.
Coming(q, r) == {i \in 1 .. Len(q) : q[i].id = 0 /\ q[i].from = r}
Noting(table, r) == {k \in DOMAIN table : k[1] = r}
Sent(r, s) == place[r] = "send" /\ message[r].to = s
Got(r, s) == place[s] = "got" /\ received[s].from = r
Spots(r, s) ==
  {x \in {"sent", "coming", "noted", "got"} :
     \/ x = "sent" /\ Sent(r, s)
     \/ x = "coming" /\ Coming(net[s], r) # {}
     \/ x = "noted" /\ Noting(unfinished[s], r) # {}
     \/ x = "got" /\ Got(r, s)}

\* What that message says: the command of the client, or the answer to it.
Due(r, s) ==
  IF s = Server THEN asked[r] ELSE [call |-> asked[s], outcome |-> outcome[s]]

\* There is one message from r to s at most, and it says what is due.
OneMessage(r, s) ==
  /\ \A x, y \in Spots(r, s) : x = y
  /\ \A i, j \in Coming(net[s], r) : i = j
  /\ \A k, l \in Noting(unfinished[s], r) : k = l
  /\ Sent(r, s) => message[r].body = Due(r, s)
  /\ \A i \in Coming(net[s], r) : net[s][i].body = Due(r, s)
  /\ \A k \in Noting(unfinished[s], r) : unfinished[s][k].body = Due(r, s)
  /\ Got(r, s) => received[s].body = Due(r, s)

\* Where a client's command has got to.
Stage(c) ==
  /\ Spots(c, Server) # {} => outcome[c] = None /\ asked[c] # None
  /\ Spots(Server, c) # {} => outcome[c] # None
  /\ place[c] = "idle" => Spots(c, Server) = {} /\ Spots(Server, c) = {}
                          /\ asked[c] = None /\ outcome[c] = None
  /\ outcome[c] # None => asked[c] # None

Single ==
  /\ Plain
  /\ \A r \in Sockets : \A s \in Peers(r) : OneMessage(r, s)
  /\ \A c \in Clients : Stage(c)

-----------------------------------------------------------------------------
(* Lists of datagrams, one message from r at most.                         *)

Fine(q, r, b) ==
  /\ \A i, j \in Coming(q, r) : i = j
  /\ \A i \in Coming(q, r) : q[i].body = b
OnlyPlain(q) == \A i \in 1 .. Len(q) : IsAck(q[i]) \/ IsMessage(q[i])

LEMMA RemoveFine ==
  ASSUME NEW S, NEW q \in Seq(S), NEW i \in 1 .. Len(q)
  PROVE  /\ OnlyPlain(q) => OnlyPlain(RemoveAt(q, i))
         /\ \A r : Coming(RemoveAt(q, i), r) # {} => Coming(q, r) # {}
         /\ \A r, b : Fine(q, r, b) => Fine(RemoveAt(q, i), r, b)
         /\ \A r, b : Fine(q, r, b) /\ i \in Coming(q, r) => Coming(RemoveAt(q, i), r) = {}
<1> DEFINE p == RemoveAt(q, i)
           at(j) == IF j < i THEN j ELSE j + 1
<1>1. Len(q) \in Nat
  BY LenProperties
<1>2. Len(p) = Len(q) - 1 /\ \A j \in 1 .. Len(q) - 1 : p[j] = IF j < i THEN q[j] ELSE q[j + 1]
  <2>1. PICK n \in Nat : n = Len(q)
    BY <1>1
  <2>2. i \in 1 .. n
    BY <2>1
  <2>3. Len(p) = n - 1
    BY <2>1, <2>2, RemoveAtIndex
  <2>4. ASSUME NEW j \in 1 .. n - 1
        PROVE  p[j] = IF j < i THEN q[j] ELSE q[j + 1]
    BY <2>1, <2>2, RemoveAtIndex
  <2> QED
    BY <2>1, <2>3, <2>4
<1> HIDE DEF p
<1>3. \A j \in 1 .. Len(p) : at(j) \in 1 .. Len(q) /\ at(j) # i /\ p[j] = q[at(j)]
  BY <1>1, <1>2
<1>4. \A j, k \in 1 .. Len(p) : at(j) = at(k) => j = k
  BY <1>1, <1>2
<1> HIDE DEF at
<1>5. OnlyPlain(q) => OnlyPlain(p)
  BY <1>3 DEF OnlyPlain
<1>6. \A r : \A j \in Coming(p, r) : at(j) \in Coming(q, r) /\ at(j) # i /\ p[j] = q[at(j)]
  BY <1>3 DEF Coming
<1>7. \A r, b : Fine(q, r, b) => Fine(p, r, b)
  <2> SUFFICES ASSUME NEW r, NEW b, Fine(q, r, b) PROVE Fine(p, r, b)
    OBVIOUS
  <2>1. ASSUME NEW j \in Coming(p, r), NEW k \in Coming(p, r) PROVE j = k
    <3>1. at(j) = at(k)
      BY <1>6 DEF Fine
    <3> QED
      BY <1>4, <3>1 DEF Coming
  <2>2. \A j \in Coming(p, r) : p[j].body = b
    BY <1>6 DEF Fine
  <2> QED
    BY <2>1, <2>2 DEF Fine
<1>8. \A r, b : Fine(q, r, b) /\ i \in Coming(q, r) => Coming(p, r) = {}
  BY <1>6 DEF Fine
<1> QED
  BY <1>5, <1>6, <1>7, <1>8 DEF p

LEMMA AppendIndex ==
  ASSUME NEW S, NEW q \in Seq(S), NEW d \in S
  PROVE  /\ Len(q) \in Nat /\ Len(Append(q, d)) = Len(q) + 1
         /\ \A j \in 1 .. Len(q) : Append(q, d)[j] = q[j]
         /\ Append(q, d)[Len(q) + 1] = d
BY LenProperties, AppendProperties

LEMMA AppendAckFine ==
  ASSUME NEW S, NEW q \in Seq(S), NEW d \in S, IsAck(d)
  PROVE  /\ OnlyPlain(q) => OnlyPlain(Append(q, d))
         /\ \A r : Coming(Append(q, d), r) = Coming(q, r)
         /\ \A r, b : Fine(q, r, b) => Fine(Append(q, d), r, b)
<1> DEFINE p == Append(q, d)
<1>1. /\ Len(q) \in Nat /\ Len(p) = Len(q) + 1
      /\ \A j \in 1 .. Len(q) : p[j] = q[j]
      /\ p[Len(q) + 1] = d
  BY AppendIndex
<1> HIDE DEF p
<1>2. \A j \in 1 .. Len(p) : j \in 1 .. Len(q) \/ j = Len(q) + 1
  BY <1>1
<1>3. 1 .. Len(q) \subseteq 1 .. Len(p)
  BY <1>1
<1>4. OnlyPlain(q) => OnlyPlain(p)
  BY <1>1, <1>2 DEF OnlyPlain
<1>5. \A r : Coming(p, r) = Coming(q, r)
  BY <1>1, <1>2, <1>3 DEF Coming, IsAck, AckId
<1>6. \A r : \A j \in Coming(q, r) : p[j] = q[j]
  BY <1>1 DEF Coming
<1> QED
  BY <1>4, <1>5, <1>6 DEF Fine, p

LEMMA AppendMessageFine ==
  ASSUME NEW S, NEW q \in Seq(S), NEW d \in S, IsMessage(d)
  PROVE  /\ OnlyPlain(q) => OnlyPlain(Append(q, d))
         /\ \A r : r # d.from => Coming(Append(q, d), r) = Coming(q, r)
         /\ \A r, b : r # d.from /\ Fine(q, r, b) => Fine(Append(q, d), r, b)
         /\ Coming(q, d.from) = {} => Fine(Append(q, d), d.from, d.body)
<1> DEFINE p == Append(q, d)
<1>1. /\ Len(q) \in Nat /\ Len(p) = Len(q) + 1
      /\ \A j \in 1 .. Len(q) : p[j] = q[j]
      /\ p[Len(q) + 1] = d
  BY AppendIndex
<1> HIDE DEF p
<1>2. \A j \in 1 .. Len(p) : j \in 1 .. Len(q) \/ j = Len(q) + 1
  BY <1>1
<1>3. 1 .. Len(q) \subseteq 1 .. Len(p)
  BY <1>1
<1>4. OnlyPlain(q) => OnlyPlain(p)
  BY <1>1, <1>2 DEF OnlyPlain
<1>5. \A r : r # d.from => Coming(p, r) = Coming(q, r)
  BY <1>1, <1>2, <1>3 DEF Coming
<1>6. \A r : \A j \in Coming(q, r) : p[j] = q[j]
  BY <1>1 DEF Coming
<1>7. ASSUME Coming(q, d.from) = {} PROVE Fine(p, d.from, d.body)
  <2>1. \A j \in Coming(p, d.from) : j = Len(q) + 1
    BY <1>1, <1>2, <1>7 DEF Coming
  <2> QED
    BY <1>1, <2>1 DEF Fine
<1> QED
  BY <1>4, <1>5, <1>6, <1>7 DEF Fine, p

\* The network carries what it carried, less what was read or lost, and new
\* acknowledgements.
NetKept ==
  \A t \in Sockets :
    /\ \A j \in 1 .. Len(net'[t]) : IsAck(net'[t][j]) \/ IsMessage(net'[t][j])
    /\ \A r : Coming(net'[t], r) # {} => Coming(net[t], r) # {}
    /\ \A r, b : Fine(net[t], r, b) => Fine(net'[t], r, b)

\* s reads a datagram, and acknowledges at most.
LEMMA ExchangeFine ==
  ASSUME NetTyped, NEW s \in Sockets, NEW i \in DOMAIN net[s],
         NEW sent \in {<<>>, <<Ack(s, Key(net[s][i]))>>}, Exchange(s, i, sent),
         NetPlain
  PROVE  /\ NetKept
         /\ \A r, b : Fine(net[s], r, b) /\ i \in Coming(net[s], r) => Coming(net'[s], r) = {}
<1> DEFINE from == net[s][i].from
           ack == Ack(s, Key(net[s][i]))
           q(t) == IF t = s THEN RemoveAt(net[t], i) ELSE net[t]
<1>1. from \in Sockets /\ from \in Peers(s) /\ from # s /\ Key(net[s][i]) \in Keys(s)
      /\ Key(net[s][i])[1] = from
  BY Arrives, PeerFacts DEF Key
<1>2. ack \in Datagrams(from) /\ IsAck(ack)
  BY <1>1, ControlTyped DEF Ack, AckId, IsAck, Control
<1>3. ASSUME NEW t \in Sockets
      PROVE  net'[t] \in {q(t), Append(q(t), ack)} /\ (t # from => net'[t] = q(t))
  <2>1. net'[t] = IF t = from THEN q(t) \o sent ELSE q(t)
    <3> DEFINE m == [net EXCEPT ![s] = RemoveAt(@, i)]
    <3>1. DOMAIN m = Sockets /\ m[t] = q(t)
      BY DEF NetTyped
    <3>2. net' = [m EXCEPT ![from] = @ \o sent]
      BY DEF Exchange
    <3> HIDE DEF m, q, from
    <3> QED
      BY <3>1, <3>2
  <2>2. t = from => q(t) \in Seq(Datagrams(from))
    BY <1>1 DEF NetTyped
  <2>3. t = from => q(t) \o <<>> = q(t) /\ q(t) \o <<ack>> = Append(q(t), ack)
    <3> HIDE DEF q, from, ack
    <3> QED
      BY <1>2, <2>2
  <2> QED
    BY <2>1, <2>3
<1> SUFFICES ASSUME NEW t \in Sockets
             PROVE  /\ OnlyPlain(net'[t])
                    /\ \A r : Coming(net'[t], r) # {} => Coming(net[t], r) # {}
                    /\ \A r, b : Fine(net[t], r, b) => Fine(net'[t], r, b)
                    /\ t = s => \A r, b : Fine(net[s], r, b) /\ i \in Coming(net[s], r) =>
                                  Coming(net'[s], r) = {}
  BY DEF OnlyPlain, NetKept
<1>4. i \in 1 .. Len(net[s])
  BY LenProperties DEF NetTyped
<1>5. /\ OnlyPlain(q(t)) /\ q(t) \in Seq(Datagrams(t))
      /\ \A r : Coming(q(t), r) # {} => Coming(net[t], r) # {}
      /\ \A r, b : Fine(net[t], r, b) => Fine(q(t), r, b)
      /\ t = s => \A r, b : Fine(net[s], r, b) /\ i \in Coming(net[s], r) => Coming(q(t), r) = {}
  <2>1. net[t] \in Seq(Datagrams(t)) /\ OnlyPlain(net[t])
    BY DEF NetTyped, NetPlain, OnlyPlain
  <2>2. CASE t = s
    BY <1>4, <2>1, <2>2, RemoveFine, RemoveTyped
  <2>3. CASE t # s
    BY <2>1, <2>3
  <2> QED
    BY <2>2, <2>3
<1>6. CASE net'[t] = q(t)
  BY <1>5, <1>6
<1>7. CASE t = from /\ net'[t] = Append(q(t), ack)
  <2> DEFINE p == q(t)
  <2>1. /\ OnlyPlain(p) => OnlyPlain(Append(p, ack))
        /\ \A r : Coming(Append(p, ack), r) = Coming(p, r)
        /\ \A r, b : Fine(p, r, b) => Fine(Append(p, ack), r, b)
    <3> HIDE DEF p
    <3>1. p \in Seq(Datagrams(from)) /\ ack \in Datagrams(from)
      BY <1>2, <1>5, <1>7 DEF p
    <3> QED
      BY <1>2, <3>1, AppendAckFine
  <2> QED
    BY <1>1, <1>5, <1>7, <2>1
<1> QED
  BY <1>3, <1>6, <1>7

-----------------------------------------------------------------------------
(* One message from r to s at most.                                        *)

LEMMA SpotsAre ==
  ASSUME NEW r, NEW s
  PROVE  /\ "sent" \in Spots(r, s) <=> Sent(r, s)
         /\ "coming" \in Spots(r, s) <=> Coming(net[s], r) # {}
         /\ "noted" \in Spots(r, s) <=> Noting(unfinished[s], r) # {}
         /\ "got" \in Spots(r, s) <=> Got(r, s)
         /\ Spots(r, s) \subseteq {"sent", "coming", "noted", "got"}
BY DEF Spots

LEMMA SpotsWillBe ==
  ASSUME NEW r, NEW s
  PROVE  /\ "sent" \in Spots(r, s)' <=> Sent(r, s)'
         /\ "coming" \in Spots(r, s)' <=> Coming(net'[s], r) # {}
         /\ "noted" \in Spots(r, s)' <=> Noting(unfinished'[s], r) # {}
         /\ "got" \in Spots(r, s)' <=> Got(r, s)'
         /\ Spots(r, s)' \subseteq {"sent", "coming", "noted", "got"}
BY DEF Spots, Sent, Got

\* A message is in one place.
LEMMA OneSpot ==
  ASSUME NEW r, NEW s, OneMessage(r, s)
  PROVE  /\ Sent(r, s) =>
              Coming(net[s], r) = {} /\ Noting(unfinished[s], r) = {} /\ ~Got(r, s)
         /\ Coming(net[s], r) # {} =>
              ~Sent(r, s) /\ Noting(unfinished[s], r) = {} /\ ~Got(r, s)
         /\ Noting(unfinished[s], r) # {} =>
              ~Sent(r, s) /\ Coming(net[s], r) = {} /\ ~Got(r, s)
         /\ Got(r, s) =>
              ~Sent(r, s) /\ Coming(net[s], r) = {} /\ Noting(unfinished[s], r) = {}
<1>1. \A x, y \in Spots(r, s) : x = y
  BY DEF OneMessage
<1> DEFINE at == Spots(r, s)
<1>2. /\ "sent" \in at <=> Sent(r, s)
      /\ "coming" \in at <=> Coming(net[s], r) # {}
      /\ "noted" \in at <=> Noting(unfinished[s], r) # {}
      /\ "got" \in at <=> Got(r, s)
  BY SpotsAre
<1> HIDE DEF at
<1>3. \A x, y \in at : x = y
  BY <1>1 DEF at
<1>4. /\ ~("sent" \in at /\ "coming" \in at) /\ ~("sent" \in at /\ "noted" \in at)
      /\ ~("sent" \in at /\ "got" \in at) /\ ~("coming" \in at /\ "noted" \in at)
      /\ ~("coming" \in at /\ "got" \in at) /\ ~("noted" \in at /\ "got" \in at)
  BY <1>3
<1> QED
  BY <1>2, <1>4

LEMMA NoMessage ==
  ASSUME NEW r, NEW s, ~Sent(r, s)', Coming(net'[s], r) = {},
         Noting(unfinished'[s], r) = {}, ~Got(r, s)'
  PROVE  OneMessage(r, s)' /\ Spots(r, s)' = {}
<1>1. Spots(r, s)' = {}
  BY SpotsWillBe
<1> QED
  BY <1>1 DEF OneMessage

\* The message, if there is one, stays where it is or is lost.
LEMMA StillMessage ==
  ASSUME NEW r, NEW s, OneMessage(r, s), Due(r, s)' = Due(r, s),
         Sent(r, s)' => Sent(r, s) /\ message'[r] = message[r],
         Coming(net'[s], r) # {} => Coming(net[s], r) # {},
         Fine(net[s], r, Due(r, s)) => Fine(net'[s], r, Due(r, s)),
         \A k \in Noting(unfinished'[s], r) :
           k \in Noting(unfinished[s], r) /\ unfinished'[s][k] = unfinished[s][k],
         Got(r, s)' => Got(r, s) /\ received'[s] = received[s]
  PROVE  OneMessage(r, s)' /\ (Spots(r, s)' # {} => Spots(r, s) # {})
<1>1. Spots(r, s)' \subseteq Spots(r, s)
  BY SpotsAre, SpotsWillBe
<1>2. Fine(net'[s], r, Due(r, s)')
  BY DEF OneMessage, Fine
<1>3. \A x, y \in Spots(r, s)' : x = y
  BY <1>1 DEF OneMessage
<1>4. Sent(r, s)' => message'[r].body = Due(r, s)'
  BY DEF OneMessage
<1>5. \A k, l \in Noting(unfinished'[s], r) : k = l
  BY DEF OneMessage
<1>6. \A k \in Noting(unfinished'[s], r) : unfinished'[s][k].body = Due(r, s)'
  BY DEF OneMessage
<1>7. Got(r, s)' => received'[s].body = Due(r, s)'
  BY DEF OneMessage
<1>8. OneMessage(r, s)'
  BY <1>2, <1>3, <1>4, <1>5, <1>6, <1>7 DEF OneMessage, Fine
<1> QED
  BY <1>1, <1>8

\* It is in one place afterwards, and says what is due.
LEMMA MovedMessage ==
  ASSUME NEW r, NEW s, NEW x, Spots(r, s)' \subseteq {x},
         Fine(net'[s], r, Due(r, s)'),
         \A k, l \in Noting(unfinished'[s], r) : k = l,
         \A k \in Noting(unfinished'[s], r) : unfinished'[s][k].body = Due(r, s)',
         Sent(r, s)' => message'[r].body = Due(r, s)',
         Got(r, s)' => received'[s].body = Due(r, s)'
  PROVE  OneMessage(r, s)'
BY DEF OneMessage, Fine

\* Only a moves.
LEMMA StillPair ==
  ASSUME NEW a \in Sockets, NEW r \in Sockets, NEW s \in Peers(r),
         OneMessage(r, s), Due(r, s)' = Due(r, s),
         \A t \in Sockets : t # a =>
           place'[t] = place[t] /\ message'[t] = message[t] /\ received'[t] = received[t]
           /\ unfinished'[t] = unfinished[t],
         r = a => ~Sent(r, s)' \/ (place'[a] = place[a] /\ message'[a] = message[a]),
         s = a => ~Got(r, s)' \/ (place'[a] = place[a] /\ received'[a] = received[a]),
         s = a => \A k \in Noting(unfinished'[s], r) :
           k \in Noting(unfinished[s], r) /\ unfinished'[s][k] = unfinished[s][k],
         Coming(net'[s], r) # {} => Coming(net[s], r) # {},
         Fine(net[s], r, Due(r, s)) => Fine(net'[s], r, Due(r, s))
  PROVE  OneMessage(r, s)' /\ (Spots(r, s)' # {} => Spots(r, s) # {})
<1>1. s \in Sockets
  BY PeerFacts
<1>2. Sent(r, s)' => Sent(r, s) /\ message'[r] = message[r]
  BY DEF Sent
<1>3. Got(r, s)' => Got(r, s) /\ received'[s] = received[s]
  BY <1>1 DEF Got
<1>4. \A k \in Noting(unfinished'[s], r) :
        k \in Noting(unfinished[s], r) /\ unfinished'[s][k] = unfinished[s][k]
  BY <1>1
<1> QED
  BY <1>2, <1>3, <1>4, StillMessage

LEMMA DueSame ==
  ASSUME UNCHANGED service, NEW r, NEW s
  PROVE  Due(r, s)' = Due(r, s)
BY DEF service, Due

\* When each message stays, or goes on to its receiver, no command goes back.
Passed ==
  /\ \A r \in Sockets : \A s \in Peers(r) :
       OneMessage(r, s)' /\ (Spots(r, s)' # {} => Spots(r, s) # {})
  /\ \A c \in Clients : place'[c] = "idle" => place[c] = "idle"

LEMMA PassedStage ==
  ASSUME Single, UNCHANGED service, Passed, Plain'
  PROVE  Single'
<1>1. ASSUME NEW c \in Clients
      PROVE  Stage(c)'
  <2>1. c \in Sockets /\ Server \in Sockets /\ Server \in Peers(c) /\ c \in Peers(Server)
    BY UdpAssumption DEF Sockets, Peers
  <2>2. /\ Spots(c, Server)' # {} => Spots(c, Server) # {}
        /\ Spots(Server, c)' # {} => Spots(Server, c) # {}
        /\ place'[c] = "idle" => place[c] = "idle"
    BY <2>1 DEF Passed
  <2>3. asked' = asked /\ outcome' = outcome
    BY DEF service
  <2>4. Stage(c)
    BY DEF Single
  <2> HIDE DEF Passed
  <2>5. Spots(c, Server)' # {} => outcome'[c] = None /\ asked'[c] # None
    BY <2>2, <2>3, <2>4 DEF Stage
  <2>6. Spots(Server, c)' # {} => outcome'[c] # None
    BY <2>2, <2>3, <2>4 DEF Stage
  <2>7. place'[c] = "idle" => /\ Spots(c, Server)' = {} /\ Spots(Server, c)' = {}
                              /\ asked'[c] = None /\ outcome'[c] = None
    BY <2>2, <2>3, <2>4 DEF Stage
  <2>8. outcome'[c] # None => asked'[c] # None
    BY <2>3, <2>4 DEF Stage
  <2> QED
    BY <2>5, <2>6, <2>7, <2>8 DEF Stage
<1> QED
  BY <1>1 DEF Single, Passed

-----------------------------------------------------------------------------
(* What a message or an acknowledgement does to its receiver.              *)

LEMMA NotMine ==
  ASSUME Typed, OnePacket, Single, NEW s \in Sockets, NEW i \in DOMAIN net[s],
         place[s] \in Sending, AboutMine(s, net[s][i])
  PROVE  IsAck(net[s][i])
<1> DEFINE d == net[s][i]
<1>1. SUFFICES ASSUME IsMessage(d) PROVE FALSE
  <2>1. i \in 1 .. Len(net[s])
    BY LenProperties DEF Typed, NetTyped
  <2> QED
    BY <2>1 DEF Single, Plain, NetPlain
<1>2. d.from \in Peers(s) /\ d.msgid \in Nat
  BY Arrives DEF Typed, Datagrams
<1>3. Numbered(d.from, d.msgid) /\ Numbered(s, d.msgid)
  BY <1>1 DEF IsMessage, Single, Plain, SendPlain, AboutMine, Key
<1>4. setting.firstReply >= setting.calls /\ setting.firstReply \in Nat /\ setting.calls \in Nat
  BY UdpAssumption DEF OnePacket, Typed, SendTyped
<1>5. d.from = Server <=> s # Server
  BY <1>2, UdpAssumption DEF Peers, Sockets
<1>6. d.msgid >= setting.firstReply /\ d.msgid < setting.calls
  BY <1>3, <1>5 DEF Numbered
<1> QED
  BY <1>2, <1>4, <1>6

LEMMA AckIgnored ==
  ASSUME NEW s, NEW d, IsAck(d)
  PROVE  Missed(s, d) = <<>> /\ \A table : Noted(table, d) = table
BY DEF IsAck, Missed, Noted

Whole(d) == [next |-> NoNext, body |-> d.body, start |-> "whole"]

\* A message that comes is new.
LEMMA MessageNoted ==
  ASSUME Typed, Single, NEW s \in Sockets, NEW i \in DOMAIN net[s], IsMessage(net[s][i])
  PROVE  LET d == net[s][i] IN
         /\ d.from \in Peers(s) /\ d.from \in Sockets /\ s \in Peers(d.from)
         /\ i \in Coming(net[s], d.from)
         /\ OneMessage(d.from, s)
         /\ Noting(unfinished[s], d.from) = {} /\ ~Sent(d.from, s) /\ ~Got(d.from, s)
         /\ d.body = Due(d.from, s)
         /\ Fine(net[s], d.from, Due(d.from, s))
         /\ Key(d) \notin DOMAIN unfinished[s] /\ Key(d)[1] = d.from
         /\ Missed(s, d) = <<>>
         /\ Noted(unfinished[s], d) =
              [x \in DOMAIN unfinished[s] \cup {Key(d)} |->
                 IF x = Key(d) THEN Whole(d) ELSE unfinished[s][x]]
<1> DEFINE d == net[s][i]
<1>1. d.from \in Peers(s) /\ d.from \in Sockets /\ s \in Peers(d.from)
  BY Arrives, PeerFacts DEF Typed
<1>2. i \in Coming(net[s], d.from)
  BY LenProperties DEF Typed, NetTyped, Coming, IsMessage
<1>3. OneMessage(d.from, s)
  BY <1>1 DEF Single
<1>4. Noting(unfinished[s], d.from) = {} /\ ~Sent(d.from, s) /\ ~Got(d.from, s)
  BY <1>2, <1>3, OneSpot
<1>5. d.body = Due(d.from, s) /\ Fine(net[s], d.from, Due(d.from, s))
  BY <1>2, <1>3 DEF OneMessage, Fine
<1>6. Key(d) \notin DOMAIN unfinished[s] /\ Key(d)[1] = d.from
  BY <1>4 DEF Noting, Key
<1>7. d.id = 0 /\ d.id # AckId /\ d.next = NoNext /\ d.body # None
  BY DEF IsMessage, AckId
<1>8. Missed(s, d) = <<>>
  BY <1>6, <1>7 DEF Missed
<1>9. Begun(d) = Whole(d)
  BY <1>7 DEF Begun, Whole
<1>10. Noted(unfinished[s], d) =
         [x \in DOMAIN unfinished[s] \cup {Key(d)} |->
            IF x = Key(d) THEN Whole(d) ELSE unfinished[s][x]]
  BY <1>6, <1>7, <1>9 DEF Noted
<1> QED
  BY <1>1, <1>2, <1>3, <1>4, <1>5, <1>6, <1>8, <1>10

-----------------------------------------------------------------------------
(* The steps of the sockets.                                               *)

\* Only a moves, and not to another call.
Rests(a) ==
  /\ \A t \in Sockets : t # a => place'[t] = place[t] /\ index'[t] = index[t]
  /\ \/ place'[a] = place[a] /\ index'[a] = index[a]
     \/ /\ place[a] \in Sending /\ place'[a] \in {"recv", "wait"}
        /\ place'[a] = "wait" => index'[a] = 1

LEMMA NetPlainKept ==
  ASSUME NetKept, setting' = setting
  PROVE  NetPlain'
BY DEF NetKept, NetPlain, IsAck, IsMessage, Numbered

LEMMA NetSame ==
  ASSUME NetPlain, net' = net
  PROVE  NetKept
BY DEF NetPlain, NetKept

LEMMA SendPlainKept ==
  ASSUME SendPlain, NEW a \in Sockets, UNCHANGED <<setting, message, msgIdGen>>, Rests(a)
  PROVE  SendPlain'
<1>1. ASSUME NEW s \in Sockets, place'[s] \in Sending
      PROVE  /\ message'[s].packets = 1 /\ Numbered(s, message[s].msgid)'
             /\ index'[s] = IF place'[s] = "wait" THEN 1 ELSE 0
  <2>1. place[s] \in Sending
    BY <1>1 DEF Rests
  <2>2. message[s].packets = 1 /\ Numbered(s, message[s].msgid)
        /\ index[s] = IF place[s] = "wait" THEN 1 ELSE 0
    BY <2>1 DEF SendPlain
  <2>3. index'[s] = IF place'[s] = "wait" THEN 1 ELSE 0
    BY <1>1, <2>2 DEF Rests, Sending
  <2> QED
    BY <2>2, <2>3 DEF Numbered
<1> QED
  BY <1>1 DEF SendPlain

\* A step that at most loses messages or reads acknowledgements.
LEMMA QuietSingle ==
  ASSUME Typed, Single, NEW a \in Sockets, UNCHANGED service,
         UNCHANGED <<setting, message, received, msgIdGen>>, Rests(a), NetKept,
         \A t \in Sockets : unfinished'[t] = unfinished[t]
  PROVE  Single'
<1>1. NetPlain' /\ SendPlain'
  BY NetPlainKept, SendPlainKept DEF Single, Plain
<1>2. TablesPlain' /\ WholeMessages'
  BY DEF Single, Plain, TablesPlain, WholeMessages, Rests, Sending
<1>3. ASSUME NEW r \in Sockets, NEW s \in Peers(r)
      PROVE  OneMessage(r, s)' /\ (Spots(r, s)' # {} => Spots(r, s) # {})
  <2>1. OneMessage(r, s) /\ Due(r, s)' = Due(r, s) /\ s \in Sockets
    BY DueSame, PeerFacts DEF Single
  <2>2. r = a => ~Sent(r, s)' \/ (place'[a] = place[a] /\ message'[a] = message[a])
    BY DEF Rests, Sent
  <2>3. s = a => ~Got(r, s)' \/ (place'[a] = place[a] /\ received'[a] = received[a])
    BY DEF Rests, Got
  <2>4. Coming(net'[s], r) # {} => Coming(net[s], r) # {}
    BY <2>1 DEF NetKept
  <2>5. Fine(net[s], r, Due(r, s)) => Fine(net'[s], r, Due(r, s))
    BY <2>1 DEF NetKept
  <2>6. \A t \in Sockets : t # a =>
          place'[t] = place[t] /\ message'[t] = message[t] /\ received'[t] = received[t]
          /\ unfinished'[t] = unfinished[t]
    BY DEF Rests
  <2> QED
    BY <2>1, <2>2, <2>3, <2>4, <2>5, <2>6, StillPair
<1>4. \A c \in Clients : place'[c] = "idle" => place[c] = "idle"
  BY UdpAssumption DEF Rests, Sockets
<1> QED
  BY <1>1, <1>2, <1>3, <1>4, PassedStage DEF Passed, Plain

\* A message goes into the table while its receiver sends.
LEMMA NoteSingle ==
  ASSUME Typed, Single, NEW a \in Sockets, NEW i \in DOMAIN net[a], IsMessage(net[a][i]),
         InsertCheck(a, i), UNCHANGED service,
         UNCHANGED <<setting, message, received, msgIdGen>>, Rests(a)
  PROVE  Single'
<1> PICK b : b = net[a][i].from
  OBVIOUS
<1> DEFINE d == net[a][i]
           table == [x \in DOMAIN unfinished[a] \cup {Key(d)} |->
                       IF x = Key(d) THEN Whole(d) ELSE unfinished[a][x]]
<1>1. /\ b \in Peers(a) /\ b \in Sockets /\ a \in Peers(b) /\ i \in Coming(net[a], b)
      /\ OneMessage(b, a) /\ Noting(unfinished[a], b) = {} /\ ~Sent(b, a) /\ ~Got(b, a)
      /\ d.body = Due(b, a) /\ Fine(net[a], b, Due(b, a)) /\ Key(d)[1] = b
      /\ Missed(a, d) = <<>> /\ Noted(unfinished[a], d) = table
  BY MessageNoted
<1>2. NetKept /\ Coming(net'[a], b) = {}
  BY <1>1, ExchangeFine DEF InsertCheck, Typed, Single, Plain
<1>3. unfinished' = [unfinished EXCEPT ![a] = table]
  BY <1>1 DEF InsertCheck
<1> HIDE DEF table
<1>4. unfinished'[a] = table /\ \A t \in Sockets : t # a => unfinished'[t] = unfinished[t]
  BY <1>3 DEF Typed, TablesTyped
<1>5. /\ DOMAIN table = DOMAIN unfinished[a] \cup {Key(d)}
      /\ \A x \in DOMAIN table : table[x] = IF x = Key(d) THEN Whole(d) ELSE unfinished[a][x]
  BY DEF table
<1>6. Noting(table, b) = {Key(d)} /\ table[Key(d)].body = Due(b, a)
  BY <1>1, <1>5 DEF Noting, Whole
<1>7. NetPlain' /\ SendPlain'
  BY <1>2, NetPlainKept, SendPlainKept DEF Single, Plain
<1>8. WholeMessages'
  BY DEF Single, Plain, WholeMessages, Rests, Sending
<1>9. TablesPlain'
  BY <1>4, <1>5 DEF Single, Plain, TablesPlain, Whole
<1>10. \A t \in Sockets : t # a =>
         place'[t] = place[t] /\ message'[t] = message[t] /\ received'[t] = received[t]
         /\ unfinished'[t] = unfinished[t]
  BY <1>4 DEF Rests
<1>11. ASSUME NEW r \in Sockets, NEW s \in Peers(r), ~(r = b /\ s = a)
       PROVE  OneMessage(r, s)' /\ (Spots(r, s)' # {} => Spots(r, s) # {})
  <2>1. OneMessage(r, s) /\ Due(r, s)' = Due(r, s) /\ s \in Sockets
    BY DueSame, PeerFacts DEF Single
  <2>2. r = a => ~Sent(r, s)' \/ (place'[a] = place[a] /\ message'[a] = message[a])
    BY DEF Rests, Sent
  <2>3. s = a => ~Got(r, s)' \/ (place'[a] = place[a] /\ received'[a] = received[a])
    BY DEF Rests, Got
  <2>4. Coming(net'[s], r) # {} => Coming(net[s], r) # {}
    BY <1>2, <2>1 DEF NetKept
  <2>5. Fine(net[s], r, Due(r, s)) => Fine(net'[s], r, Due(r, s))
    BY <1>2, <2>1 DEF NetKept
  <2>6. s = a => \A k \in Noting(unfinished'[s], r) :
          k \in Noting(unfinished[s], r) /\ unfinished'[s][k] = unfinished[s][k]
    BY <1>1, <1>4, <1>5, <1>11 DEF Noting
  <2> QED
    BY <1>10, <2>1, <2>2, <2>3, <2>4, <2>5, <2>6, StillPair
<1>12. OneMessage(b, a)' /\ Spots(b, a) # {}
  <2>1. Due(b, a)' = Due(b, a)
    BY DueSame
  <2>2. ~Sent(b, a)'
    <3>1. b # a
      BY <1>1, PeerFacts
    <3> QED
      BY <1>1, <1>10, <3>1 DEF Sent
  <2>3. ~Got(b, a)'
    BY <1>1 DEF Got, Rests, Sending
  <2>4. Spots(b, a)' \subseteq {"noted"}
    BY <1>2, <2>2, <2>3, SpotsWillBe
  <2>5. Fine(net'[a], b, Due(b, a)')
    BY <1>1, <1>2, <2>1 DEF NetKept
  <2>6. /\ \A k, l \in Noting(unfinished'[a], b) : k = l
        /\ \A k \in Noting(unfinished'[a], b) : unfinished'[a][k].body = Due(b, a)'
    BY <1>4, <1>6, <2>1
  <2>7. OneMessage(b, a)'
    BY <2>2, <2>3, <2>4, <2>5, <2>6, MovedMessage
  <2>8. "coming" \in Spots(b, a)
    BY <1>1, SpotsAre
  <2> QED
    BY <2>7, <2>8
<1>13. \A c \in Clients : place'[c] = "idle" => place[c] = "idle"
  BY UdpAssumption DEF Rests, Sockets
<1>14. Passed
  BY <1>11, <1>12, <1>13 DEF Passed
<1> QED
  BY <1>7, <1>8, <1>9, <1>14, PassedStage DEF Plain

\* A message is handed over.
LEMMA HandOverSingle ==
  ASSUME Typed, Single, NEW a \in Sockets, NEW b \in Peers(a), NEW x,
         UNCHANGED service, UNCHANGED <<setting, message, msgIdGen, index>>, NetKept,
         Coming(net'[a], b) = {}, Spots(b, a) # {}, ~Sent(b, a),
         place[a] = "recv", place' = [place EXCEPT ![a] = "got"],
         received' = [received EXCEPT ![a] = x],
         x.from = b, x.body = Due(b, a), x.whole,
         \A t \in Sockets : t # a => unfinished'[t] = unfinished[t],
         \A k \in DOMAIN unfinished'[a] : k[1] # b /\ k \in DOMAIN unfinished[a]
                                         /\ unfinished'[a][k] = unfinished[a][k]
  PROVE  Single'
<1>1. b \in Sockets /\ b # a /\ a \in Peers(b)
  BY PeerFacts
<1>2. /\ place'[a] = "got" /\ \A t \in Sockets : t # a => place'[t] = place[t]
      /\ received'[a] = x /\ \A t \in Sockets : t # a => received'[t] = received[t]
  BY DEF Typed, SendTyped, RecvTyped
<1>3. NetPlain'
  BY NetPlainKept
<1>4. SendPlain'
  BY <1>2 DEF Single, Plain, SendPlain, Numbered, Sending
<1>5. WholeMessages'
  BY <1>2 DEF Single, Plain, WholeMessages
<1>6. TablesPlain'
  BY DEF Single, Plain, TablesPlain
<1>7. ASSUME NEW r \in Sockets, NEW s \in Peers(r), ~(r = b /\ s = a)
      PROVE  OneMessage(r, s)' /\ (Spots(r, s)' # {} => Spots(r, s) # {})
  <2>1. OneMessage(r, s) /\ Due(r, s)' = Due(r, s) /\ s \in Sockets
    BY DueSame, PeerFacts DEF Single
  <2>2. r = a => ~Sent(r, s)'
    BY <1>2 DEF Sent
  <2>3. s = a => ~Got(r, s)'
    BY <1>2, <1>7 DEF Got
  <2>4. Coming(net'[s], r) # {} => Coming(net[s], r) # {}
    BY <2>1 DEF NetKept
  <2>5. Fine(net[s], r, Due(r, s)) => Fine(net'[s], r, Due(r, s))
    BY <2>1 DEF NetKept
  <2>6. s = a => \A k \in Noting(unfinished'[s], r) :
          k \in Noting(unfinished[s], r) /\ unfinished'[s][k] = unfinished[s][k]
    BY DEF Noting
  <2> QED
    BY <1>2, <2>1, <2>2, <2>3, <2>4, <2>5, <2>6, StillPair
<1>8. OneMessage(b, a)'
  <2>1. Due(b, a)' = Due(b, a)
    BY DueSame
  <2>2. ~Sent(b, a)'
    BY <1>1, <1>2 DEF Sent
  <2>3. Noting(unfinished'[a], b) = {}
    BY DEF Noting
  <2>4. Spots(b, a)' \subseteq {"got"}
    BY <2>2, <2>3, SpotsWillBe
  <2>5. Fine(net'[a], b, Due(b, a)')
    BY DEF Fine
  <2>6. received'[a].body = Due(b, a)'
    BY <1>2, <2>1
  <2>7. /\ \A k, l \in Noting(unfinished'[a], b) : k = l
        /\ \A k \in Noting(unfinished'[a], b) : unfinished'[a][k].body = Due(b, a)'
    BY <2>3
  <2>8. \A x1, x2 \in Spots(b, a)' : x1 = x2
    BY <2>4
  <2>9. /\ \A i, j \in Coming(net'[a], b) : i = j
        /\ \A i \in Coming(net'[a], b) : net'[a][i].body = Due(b, a)'
    OBVIOUS
  <2> QED
    BY <2>2, <2>6, <2>7, <2>8, <2>9 DEF OneMessage
<1>9. \A c \in Clients : place'[c] = "idle" => place[c] = "idle"
  BY <1>2 DEF Sockets
<1>10. Passed
  BY <1>7, <1>8, <1>9 DEF Passed
<1> QED
  BY <1>3, <1>4, <1>5, <1>6, <1>10, PassedStage DEF Plain

LEMMA ComingIs ==
  ASSUME Typed, Single, NEW s \in Sockets, NEW i \in DOMAIN net[s]
  PROVE  IsAck(net[s][i]) \/ IsMessage(net[s][i])
BY LenProperties DEF Typed, NetTyped, Single, Plain, NetPlain

LEMMA OnePacketSent ==
  ASSUME Typed, Single, NEW s \in Sockets, place[s] \in Sending
  PROVE  message[s].packets = 1 /\ index[s] = IF place[s] = "wait" THEN 1 ELSE 0
BY DEF Single, Plain, SendPlain

\* send sends its packet.
LEMMA SendPacketSingle ==
  ASSUME Typed, Single, NEW a \in Sockets, SendPacket(a), UNCHANGED service
  PROVE  Single'
<1>1. PICK b : b = message[a].to
  OBVIOUS
<1>2. place[a] = "send" /\ place[a] \in Sending /\ message[a] \in Messages(a)
  BY DEF SendPacket, Typed, SendTyped, Sending
<1>3. b \in Peers(a) /\ b \in Sockets /\ b # a /\ message[a].body \in Telling(a)
  BY <1>1, <1>2, PeerFacts DEF Messages
<1>4. OneMessage(a, b) /\ Sent(a, b)
  BY <1>1, <1>2, <1>3 DEF Single, Sent
<1>5. /\ message[a].packets = 1 /\ Numbered(a, message[a].msgid)
      /\ index[a] = 0 /\ message[a].body = Due(a, b)
  BY <1>2, <1>4 DEF Single, Plain, SendPlain, OneMessage
<1>6. message[a].body # None
  BY <1>3, NoneAssumption DEF Telling
<1> DEFINE d == Packet(a)
<1>7. IsMessage(d) /\ d.from = a /\ d.body = Due(a, b)
  BY <1>5, <1>6 DEF Packet, IsMessage, NoNext
<1>8. d \in Datagrams(b)
  BY <1>1, <1>2, <1>3, <1>5, PeerFacts DEF Packet, Datagrams, Messages, NoNext
<1> HIDE DEF d
<1>9. \A t \in Sockets : net'[t] = IF t = b THEN Append(net[t], d) ELSE net[t]
  BY <1>1 DEF SendPacket, Typed, NetTyped, d
<1>10. net[b] \in Seq(Datagrams(b)) /\ OnlyPlain(net[b])
  BY <1>3 DEF Typed, NetTyped, Single, Plain, NetPlain, OnlyPlain
<1>11. /\ OnlyPlain(net'[b])
       /\ \A r : r # a => Coming(net'[b], r) = Coming(net[b], r)
       /\ \A r, x : r # a /\ Fine(net[b], r, x) => Fine(net'[b], r, x)
       /\ Coming(net[b], a) = {} => Fine(net'[b], a, Due(a, b))
  <2>1. net'[b] = Append(net[b], d)
    BY <1>3, <1>9
  <2> QED
    BY <1>7, <1>8, <1>10, <2>1, AppendMessageFine
<1>12. UNCHANGED <<setting, lost, msgIdGen, message, received, handed, unfinished, index, success>>
  BY DEF SendPacket, caller
<1>13. place'[a] = "poll" /\ \A t \in Sockets : t # a => place'[t] = place[t]
  BY DEF SendPacket, Typed, SendTyped
<1>14. NetPlain'
  <2>1. ASSUME NEW t \in Sockets
        PROVE  \A i \in 1 .. Len(net'[t]) : IsAck(net'[t][i]) \/ IsMessage(net'[t][i])
    BY <1>9, <1>11 DEF OnlyPlain, Single, Plain, NetPlain
  <2> QED
    BY <1>12, <2>1 DEF NetPlain, IsAck, IsMessage, Numbered
<1>15. SendPlain'
  BY <1>2, <1>5, <1>12, <1>13 DEF Single, Plain, SendPlain, Numbered, Sending
<1>16. TablesPlain' /\ WholeMessages'
  BY <1>12, <1>13 DEF Single, Plain, TablesPlain, WholeMessages
<1>17. ASSUME NEW r \in Sockets, NEW s \in Peers(r), ~(r = a /\ s = b)
       PROVE  OneMessage(r, s)' /\ (Spots(r, s)' # {} => Spots(r, s) # {})
  <2>1. OneMessage(r, s) /\ Due(r, s)' = Due(r, s) /\ s \in Sockets
    BY DueSame, PeerFacts DEF Single
  <2>2. r = a => ~Sent(r, s)'
    BY <1>13 DEF Sent
  <2>3. s = a => ~Got(r, s)'
    BY <1>13 DEF Got
  <2>4. Coming(net'[s], r) # {} => Coming(net[s], r) # {}
    BY <1>9, <1>11, <1>17, <2>1
  <2>5. Fine(net[s], r, Due(r, s)) => Fine(net'[s], r, Due(r, s))
    BY <1>9, <1>11, <1>17, <2>1
  <2> QED
    BY <1>12, <1>13, <2>1, <2>2, <2>3, <2>4, <2>5, StillPair
<1>18. OneMessage(a, b)' /\ Spots(a, b) # {}
  <2>1. Coming(net[b], a) = {} /\ Noting(unfinished[b], a) = {} /\ ~Got(a, b)
    BY <1>4, OneSpot
  <2>2. ~Sent(a, b)' /\ Noting(unfinished'[b], a) = {}
    BY <1>12, <1>13, <2>1 DEF Sent
  <2>3. ~Got(a, b)'
    BY <1>3, <1>12, <1>13, <2>1 DEF Got
  <2>4. Spots(a, b)' \subseteq {"coming"}
    BY <2>2, <2>3, SpotsWillBe
  <2>5. Fine(net'[b], a, Due(a, b)')
    BY <1>11, <2>1, DueSame
  <2>6. OneMessage(a, b)'
    BY <2>2, <2>3, <2>4, <2>5, MovedMessage
  <2>7. "sent" \in Spots(a, b)
    BY <1>4, SpotsAre
  <2> QED
    BY <2>6, <2>7
<1>19. \A c \in Clients : place'[c] = "idle" => place[c] = "idle"
  BY <1>13 DEF Sockets
<1>20. Passed
  BY <1>17, <1>18, <1>19 DEF Passed
<1> QED
  BY <1>14, <1>15, <1>16, <1>20, PassedStage DEF Plain

\* What Continue does to a send of one packet.
LEMMA ContinueRests ==
  ASSUME Typed, NEW a \in Sockets, place[a] \in Sending, message[a].packets = 1, NEW ok \in BOOLEAN,
         Continue(a, 1, ok)
  PROVE  Rests(a) /\ UNCHANGED <<setting, message, received, msgIdGen>>
<1>1. place'[a] \in {"recv", "wait"} /\ index'[a] = 1
  BY DEF Continue, Typed, SendTyped
<1>2. \A t \in Sockets : t # a => place'[t] = place[t] /\ index'[t] = index[t]
  BY DEF Continue, Typed, SendTyped
<1>3. UNCHANGED <<setting, message, received, msgIdGen>>
  BY DEF Continue, caller
<1> QED
  BY <1>1, <1>2, <1>3 DEF Rests

\* An acknowledgement is read, or thrown away.
LEMMA AckRead ==
  ASSUME Typed, Single, NEW a \in Sockets, NEW i \in DOMAIN net[a], IsAck(net[a][i]),
         Consume(a, i) \/ InsertCheck(a, i)
  PROVE  NetKept /\ \A t \in Sockets : unfinished'[t] = unfinished[t]
<1>1. Exchange(a, i, <<>>) /\ \A t \in Sockets : unfinished'[t] = unfinished[t]
  <2>1. CASE Consume(a, i)
    BY <2>1 DEF Consume
  <2>2. CASE InsertCheck(a, i)
    <3>1. Missed(a, net[a][i]) = <<>> /\ Noted(unfinished[a], net[a][i]) = unfinished[a]
      BY AckIgnored
    <3>2. unfinished' = [unfinished EXCEPT ![a] = unfinished[a]]
      BY <2>2, <3>1 DEF InsertCheck
    <3>3. \A t \in Sockets : unfinished'[t] = unfinished[t]
      BY <3>2 DEF Typed, TablesTyped
    <3> QED
      BY <2>2, <3>1, <3>3 DEF InsertCheck
  <2> QED
    BY <2>1, <2>2
<1> QED
  BY <1>1, ExchangeFine DEF Typed, Single, Plain

LEMMA SendTakesSingle ==
  ASSUME Typed, OnePacket, Single, NEW a \in Sockets, NEW i \in DOMAIN net[a], UNCHANGED service,
         \/ PollResend(a, i) \/ PollMine(a, i) \/ PollOther(a, i)
         \/ WaitAck(a, i) \/ WaitResend(a, i) \/ WaitOther(a, i)
  PROVE  Single'
<1> DEFINE d == net[a][i]
<1>1. place[a] \in {"poll", "wait"} /\ place[a] \in Sending
  BY DEF PollResend, PollMine, PollOther, WaitAck, WaitResend, WaitOther, Sending
<1>2. /\ message[a].packets = 1
      /\ place[a] = "poll" => index[a] + 1 = 1
      /\ place[a] = "wait" => index[a] = 1
  BY <1>1, OnePacketSent
<1>3. IsAck(d) \/ IsMessage(d)
  BY ComingIs
<1>4. AboutMine(a, d) => IsAck(d)
  BY <1>1, NotMine
<1>5. IsAck(d) => d.id = AckId /\ d.next # ResendId
  BY DEF IsAck, AckId, ResendId
<1>6. success[a] \in BOOLEAN /\ (success[a] \/ d.id = AckId) \in BOOLEAN /\ TRUE \in BOOLEAN
  BY DEF Typed, SendTyped
<1>7. ~PollResend(a, i) /\ ~WaitResend(a, i)
  BY <1>4, <1>5 DEF PollResend, WaitResend
<1>8. Rests(a) /\ UNCHANGED <<setting, message, received, msgIdGen>>
  <2>1. CASE PollMine(a, i)
    BY <1>1, <1>2, <1>6, <2>1, ContinueRests DEF PollMine
  <2>2. CASE PollOther(a, i)
    BY <1>1, <1>2, <1>6, <2>2, ContinueRests DEF PollOther
  <2>3. CASE WaitAck(a, i)
    BY <1>1, <1>2, <1>6, <2>3, ContinueRests DEF WaitAck
  <2>4. CASE WaitOther(a, i)
    BY <2>4 DEF WaitOther, caller, Rests
  <2> QED
    BY <1>7, <2>1, <2>2, <2>3, <2>4
<1>9. CASE IsAck(d)
  <2>1. Consume(a, i) \/ InsertCheck(a, i)
    BY DEF PollResend, PollMine, PollOther, WaitAck, WaitResend, WaitOther
  <2>2. NetKept /\ \A t \in Sockets : unfinished'[t] = unfinished[t]
    BY <1>9, <2>1, AckRead
  <2> QED
    BY <1>8, <2>2, QuietSingle
<1>10. CASE IsMessage(d) /\ ~IsAck(d)
  <2>1. InsertCheck(a, i)
    BY <1>4, <1>7, <1>10 DEF PollMine, PollOther, WaitAck, WaitOther
  <2> QED
    BY <1>8, <1>10, <2>1, NoteSingle
<1> QED
  BY <1>3, <1>9, <1>10

LEMMA TimersSingle ==
  ASSUME Typed, Single, NEW a \in Sockets, UNCHANGED service, PollNothing(a) \/ WaitTimeout(a)
  PROVE  Single'
<1>1. NetKept /\ \A t \in Sockets : unfinished'[t] = unfinished[t]
  BY NetSame DEF PollNothing, WaitTimeout, Single, Plain
<1>2. Rests(a) /\ UNCHANGED <<setting, message, received, msgIdGen>>
  <2>1. CASE PollNothing(a)
    <3>1. place[a] = "poll" /\ place[a] \in Sending
      BY <2>1 DEF PollNothing, Sending
    <3>2. message[a].packets = 1 /\ index[a] + 1 = 1
      BY <3>1, OnePacketSent
    <3>3. success[a] \in BOOLEAN
      BY DEF Typed, SendTyped
    <3> QED
      BY <2>1, <3>1, <3>2, <3>3, ContinueRests DEF PollNothing
  <2>2. CASE WaitTimeout(a)
    BY <2>2 DEF WaitTimeout, caller, Rests, Sending, Typed, SendTyped
  <2> QED
    BY <2>1, <2>2
<1> QED
  BY <1>1, <1>2, QuietSingle

LEMMA LoseSingle ==
  ASSUME Typed, Single, NEW a \in Sockets, UNCHANGED service, Lose(a)
  PROVE  Single'
<1>1. PICK i \in DOMAIN net[a] : net' = [net EXCEPT ![a] = RemoveAt(@, i)]
  BY DEF Lose
<1>2. \A t \in Sockets : net'[t] = IF t = a THEN RemoveAt(net[t], i) ELSE net[t]
  BY <1>1 DEF Typed, NetTyped
<1>3. net[a] \in Seq(Datagrams(a)) /\ i \in 1 .. Len(net[a])
  BY LenProperties DEF Typed, NetTyped
<1>4. OnlyPlain(net[a])
  BY DEF Single, Plain, NetPlain, OnlyPlain
<1>5. ASSUME NEW t \in Sockets
      PROVE  /\ OnlyPlain(net'[t])
             /\ \A r : Coming(net'[t], r) # {} => Coming(net[t], r) # {}
             /\ \A r, b : Fine(net[t], r, b) => Fine(net'[t], r, b)
  <2>1. CASE t = a
    BY <1>2, <1>3, <1>4, <2>1, RemoveFine
  <2>2. CASE t # a
    BY <1>2, <2>2 DEF Single, Plain, NetPlain, OnlyPlain
  <2> QED
    BY <2>1, <2>2
<1>6. NetKept
  BY <1>5 DEF NetKept, OnlyPlain
<1> QED
  BY <1>6, QuietSingle DEF Lose, caller, Rests

-----------------------------------------------------------------------------
(* recv.                                                                   *)

\* A message that waits in the table is taken.
LEMMA RecvReadySingle ==
  ASSUME Typed, Single, NEW a \in Sockets, NEW k, UNCHANGED service, RecvReady(a, k)
  PROVE  Single'
<1>1. PICK b, table : b = k[1] /\ table = unfinished[a]
  OBVIOUS
<1>2. k \in DOMAIN table /\ k \in Keys(a) /\ TableOf(a, table)
  BY <1>1 DEF RecvReady, Complete, Typed, TablesTyped, TableOf
<1>3. b \in Peers(a) /\ b \in Sockets /\ b # a /\ a \in Peers(b)
  BY <1>1, <1>2, PeerFacts DEF Keys
<1>4. OneMessage(b, a) /\ k \in Noting(table, b)
  BY <1>1, <1>2, <1>3 DEF Single, Noting
<1>5. Coming(net[a], b) = {} /\ ~Sent(b, a) /\ "noted" \in Spots(b, a)
  BY <1>1, <1>4, OneSpot, SpotsAre
<1>6. table[k].body = Due(b, a) /\ \A l \in DOMAIN table : l[1] = b => l = k
  BY <1>1, <1>4 DEF OneMessage, Noting
<1>7. table[k].start = "whole"
  BY <1>1, <1>2 DEF Single, Plain, TablesPlain
<1> DEFINE x == [from |-> b, body |-> table[k].body, whole |-> table[k].start = "whole"]
<1>8. /\ place[a] = "recv"
      /\ received' = [received EXCEPT ![a] = x]
      /\ unfinished' = [unfinished EXCEPT ![a] = [l \in DOMAIN table \ {k} |-> table[l]]]
      /\ place' = [place EXCEPT ![a] = "got"]
      /\ UNCHANGED <<setting, message, msgIdGen, index>>
  BY <1>1 DEF RecvReady, TakeOut
<1>9. x.from = b /\ x.body = Due(b, a) /\ x.whole
  BY <1>6, <1>7
<1> HIDE DEF x
<1>10. \A t \in Sockets : t # a => unfinished'[t] = unfinished[t]
  BY <1>8
<1>11. \A l \in DOMAIN unfinished'[a] :
         l[1] # b /\ l \in DOMAIN unfinished[a] /\ unfinished'[a][l] = unfinished[a][l]
  <2>1. unfinished'[a] = [l \in DOMAIN table \ {k} |-> table[l]]
    BY <1>8 DEF Typed, TablesTyped
  <2> QED
    BY <1>1, <1>6, <2>1
<1>12. NetKept
  <2>1. PICK acks \in {<<>>, <<Ack(a, k)>>} : net' = [net EXCEPT ![b] = @ \o acks]
    BY <1>1 DEF RecvReady
  <2>2. Ack(a, k) \in Datagrams(b) /\ IsAck(Ack(a, k))
    BY <1>1, <1>2, ControlTyped DEF Ack, AckId, IsAck, Control
  <2>3. net[b] \in Seq(Datagrams(b)) /\ OnlyPlain(net[b])
    BY <1>3 DEF Typed, NetTyped, Single, Plain, NetPlain, OnlyPlain
  <2>4. net'[b] \in {net[b], Append(net[b], Ack(a, k))}
    <3> DEFINE y == Ack(a, k)
    <3>1. net'[b] = net[b] \o acks
      BY <1>3, <2>1 DEF Typed, NetTyped
    <3>2. y \in Datagrams(b) /\ acks \in {<<>>, <<y>>}
      BY <2>1, <2>2
    <3> HIDE DEF y
    <3>3. net[b] \o <<>> = net[b] /\ net[b] \o <<y>> = Append(net[b], y)
      BY <2>3, <3>2
    <3> QED
      BY <3>1, <3>2, <3>3 DEF y
  <2>5. /\ OnlyPlain(net'[b])
        /\ \A r : Coming(net'[b], r) = Coming(net[b], r)
        /\ \A r, z : Fine(net[b], r, z) => Fine(net'[b], r, z)
    <3>1. CASE net'[b] = net[b]
      BY <2>3, <3>1
    <3>2. CASE net'[b] = Append(net[b], Ack(a, k))
      BY <2>2, <2>3, <3>2, AppendAckFine
    <3> QED
      BY <2>4, <3>1, <3>2
  <2>6. \A t \in Sockets : t # b => net'[t] = net[t]
    BY <2>1
  <2> QED
    BY <2>5, <2>6 DEF NetKept, OnlyPlain, Single, Plain, NetPlain
<1>13. Coming(net'[a], b) = {}
  BY <1>5, <1>12 DEF NetKept
<1> QED
  BY <1>3, <1>5, <1>8, <1>9, <1>10, <1>11, <1>12, <1>13, HandOverSingle

LEMMA RecvLastSingle ==
  ASSUME Typed, Single, NEW a \in Sockets, NEW i \in DOMAIN net[a], UNCHANGED service,
         RecvLast(a, i)
  PROVE  Single'
<1>1. PICK b, d : b = d.from /\ d = net[a][i]
  OBVIOUS
<1>2. IsMessage(d)
  <2>1. ASSUME IsAck(d) PROVE FALSE
    <3>1. Complete(unfinished[a], Key(d))
      BY <1>1, <2>1, AckIgnored DEF RecvLast
    <3> QED
      BY <1>1, <3>1 DEF RecvLast, NothingComplete, Complete
  <2> QED
    BY <1>1, <2>1, ComingIs
<1> DEFINE table == [x \in DOMAIN unfinished[a] \cup {Key(d)} |->
                       IF x = Key(d) THEN Whole(d) ELSE unfinished[a][x]]
<1>3. /\ b \in Peers(a) /\ b \in Sockets /\ a \in Peers(b) /\ i \in Coming(net[a], b)
      /\ Noting(unfinished[a], b) = {} /\ ~Sent(b, a)
      /\ d.body = Due(b, a) /\ Fine(net[a], b, Due(b, a)) /\ Key(d)[1] = b
      /\ Noted(unfinished[a], d) = table
  <2> DEFINE e == net[a][i]
  <2>1. IsMessage(e)
    BY <1>1, <1>2
  <2>2. /\ e.from \in Peers(a) /\ e.from \in Sockets /\ a \in Peers(e.from)
        /\ i \in Coming(net[a], e.from)
        /\ Noting(unfinished[a], e.from) = {} /\ ~Sent(e.from, a)
        /\ e.body = Due(e.from, a) /\ Fine(net[a], e.from, Due(e.from, a))
        /\ Key(e)[1] = e.from
    BY <2>1, MessageNoted
  <2>3. Noted(unfinished[a], e) =
          [x \in DOMAIN unfinished[a] \cup {Key(e)} |->
             IF x = Key(e) THEN Whole(e) ELSE unfinished[a][x]]
    BY <2>1, MessageNoted
  <2>4. e = d /\ e.from = b
    BY <1>1
  <2> HIDE DEF e
  <2> QED
    BY <2>2, <2>3, <2>4
<1>4. "coming" \in Spots(b, a)
  BY <1>3, SpotsAre
<1>5. Exchange(a, i, <<Ack(a, Key(d))>>)
  BY <1>1 DEF RecvLast
<1>6. NetKept /\ Coming(net'[a], b) = {}
  BY <1>1, <1>3, <1>5, ExchangeFine DEF Typed, Single, Plain
<1>7. /\ Key(d) \in DOMAIN table /\ table[Key(d)] = Whole(d)
      /\ \A l \in DOMAIN table \ {Key(d)} : l \in DOMAIN unfinished[a] /\ table[l] = unfinished[a][l]
  OBVIOUS
<1>8. place[a] = "recv" /\ TakeOut(a, table, Key(d))
  BY <1>1, <1>3 DEF RecvLast
<1> HIDE DEF table
<1> DEFINE x == [from |-> Key(d)[1], body |-> table[Key(d)].body,
                 whole |-> table[Key(d)].start = "whole"]
<1>9. /\ received' = [received EXCEPT ![a] = x]
      /\ unfinished' = [unfinished EXCEPT ![a] = [l \in DOMAIN table \ {Key(d)} |-> table[l]]]
      /\ place' = [place EXCEPT ![a] = "got"]
      /\ UNCHANGED <<setting, message, msgIdGen, index>>
  BY <1>8 DEF TakeOut
<1>10. x.from = b /\ x.body = Due(b, a) /\ x.whole
  <2>1. table[Key(d)].body = Due(b, a) /\ table[Key(d)].start = "whole"
    BY <1>3, <1>7 DEF Whole
  <2> QED
    BY <1>3, <2>1
<1> HIDE DEF x
<1>11. \A t \in Sockets : t # a => unfinished'[t] = unfinished[t]
  BY <1>9
<1>12. \A l \in DOMAIN unfinished'[a] :
         l[1] # b /\ l \in DOMAIN unfinished[a] /\ unfinished'[a][l] = unfinished[a][l]
  <2>1. unfinished'[a] = [l \in DOMAIN table \ {Key(d)} |-> table[l]]
    BY <1>9 DEF Typed, TablesTyped
  <2> QED
    BY <1>3, <1>7, <2>1 DEF Noting
<1> QED
  BY <1>3, <1>4, <1>6, <1>8, <1>9, <1>10, <1>11, <1>12, HandOverSingle

LEMMA RecvOtherSingle ==
  ASSUME Typed, Single, NEW a \in Sockets, NEW i \in DOMAIN net[a], UNCHANGED service,
         RecvOther(a, i)
  PROVE  Single'
<1> DEFINE d == net[a][i]
<1>1. IsAck(d)
  <2>1. ASSUME IsMessage(d) PROVE FALSE
    <3>1. Noted(unfinished[a], d) =
            [x \in DOMAIN unfinished[a] \cup {Key(d)} |->
               IF x = Key(d) THEN Whole(d) ELSE unfinished[a][x]]
      BY <2>1, MessageNoted
    <3>2. Complete(Noted(unfinished[a], d), Key(d))
      BY <3>1 DEF Complete, Whole
    <3> QED
      BY <3>2 DEF RecvOther
  <2> QED
    BY <2>1, ComingIs
<1>2. NetKept /\ \A t \in Sockets : unfinished'[t] = unfinished[t]
  BY <1>1, AckRead DEF RecvOther
<1> QED
  BY <1>2, QuietSingle DEF RecvOther, caller, Rests

LEMMA UdpStepSingle ==
  ASSUME Typed, OnePacket, Single, NEW a \in Sockets, UNCHANGED service, UdpStep(a)
  PROVE  Single'
<1>1. ASSUME NEW i \in Arriving(a), Take(a, i)
      PROVE  Single'
  <2>1. i \in DOMAIN net[a]
    BY DEF Arriving
  <2> QED
    BY <1>1, <2>1, SendTakesSingle, RecvLastSingle, RecvOtherSingle DEF Take
<1>2. ASSUME NEW k \in DOMAIN unfinished[a], RecvAsk(a, k)
      PROVE  Single'
  BY <1>2 DEF RecvAsk, Complete, Single, Plain, TablesPlain
<1> QED
  BY <1>1, <1>2, SendPacketSingle, TimersSingle, RecvReadySingle DEF UdpStep

-----------------------------------------------------------------------------
(* The callers.                                                            *)

LEMMA Started ==
  ASSUME Typed, NEW a \in Sockets, NEW b, NEW body, NEW packets,
         StartSend(a, b, body, packets)
  PROVE  /\ message'[a].to = b /\ message'[a].msgid = msgIdGen[a]
         /\ message'[a].body = body /\ message'[a].packets = packets
         /\ msgIdGen'[a] = msgIdGen[a] + 1 /\ msgIdGen[a] \in Nat
         /\ index'[a] = 0 /\ place'[a] = "send"
         /\ \A t \in Sockets : t # a =>
              /\ message'[t] = message[t] /\ place'[t] = place[t]
              /\ msgIdGen'[t] = msgIdGen[t] /\ index'[t] = index[t]
         /\ setting' = setting /\ net' = net /\ unfinished' = unfinished /\ received' = received
BY DEF StartSend, Typed, SendTyped

\* A message of one packet is begun.
LEMMA StartedPlain ==
  ASSUME Typed, Plain, NEW a \in Sockets, NEW b, NEW body, StartSend(a, b, body, 1),
         Numbered(a, msgIdGen[a])
  PROVE  Plain'
<1>1. /\ message'[a].packets = 1 /\ message'[a].msgid = msgIdGen[a]
      /\ msgIdGen'[a] = msgIdGen[a] + 1 /\ msgIdGen[a] \in Nat
      /\ index'[a] = 0 /\ place'[a] = "send"
      /\ \A t \in Sockets : t # a =>
           /\ message'[t] = message[t] /\ place'[t] = place[t]
           /\ msgIdGen'[t] = msgIdGen[t] /\ index'[t] = index[t]
      /\ setting' = setting /\ net' = net /\ unfinished' = unfinished /\ received' = received
  BY Started
<1>2. NetPlain'
  BY <1>1 DEF Plain, NetPlain, IsAck, IsMessage, Numbered
<1>3. TablesPlain' /\ WholeMessages'
  BY <1>1 DEF Plain, TablesPlain, WholeMessages
<1>4. ASSUME NEW s \in Sockets, place'[s] \in Sending
      PROVE  /\ message'[s].packets = 1 /\ Numbered(s, message[s].msgid)'
             /\ index'[s] = IF place'[s] = "wait" THEN 1 ELSE 0
  <2>1. CASE s = a
    BY <1>1, <2>1 DEF Numbered
  <2>2. CASE s # a
    BY <1>1, <1>4, <2>2 DEF Plain, SendPlain, Numbered
  <2> QED
    BY <2>1, <2>2
<1>5. msgIdGen'[Server] >= setting'.firstReply
  <2>1. Server \in Sockets /\ msgIdGen[Server] \in Nat /\ setting.firstReply \in Nat
    BY UdpAssumption DEF Sockets, Typed, SendTyped
  <2>2. msgIdGen[Server] >= setting.firstReply
    BY DEF Plain, SendPlain
  <2>3. msgIdGen'[Server] = msgIdGen[Server] \/ msgIdGen'[Server] = msgIdGen[Server] + 1
    BY <1>1, <2>1
  <2> QED
    BY <1>1, <2>1, <2>2, <2>3
<1> QED
  BY <1>2, <1>3, <1>4, <1>5 DEF Plain, SendPlain

\* Where no message was, there is the one that was begun.
LEMMA StartedMessage ==
  ASSUME Typed, NEW a \in Sockets, NEW b \in Peers(a), NEW body, StartSend(a, b, body, 1),
         Spots(a, b) = {}, body = Due(a, b)'
  PROVE  OneMessage(a, b)'
<1>1. b \in Sockets /\ b # a
  BY PeerFacts
<1>2. ~Sent(a, b) /\ Coming(net[b], a) = {} /\ Noting(unfinished[b], a) = {} /\ ~Got(a, b)
  BY SpotsAre
<1>3. /\ message'[a].body = body /\ place'[b] = place[b]
      /\ net' = net /\ unfinished' = unfinished /\ received' = received
  BY <1>1, Started
<1>4. ~Got(a, b)' /\ Coming(net'[b], a) = {} /\ Noting(unfinished'[b], a) = {}
  BY <1>2, <1>3 DEF Got
<1>5. Spots(a, b)' \subseteq {"sent"}
  BY <1>4, SpotsWillBe
<1>6. Fine(net'[b], a, Due(a, b)')
  BY <1>4 DEF Fine
<1> QED
  BY <1>3, <1>4, <1>5, <1>6, MovedMessage

\* The messages of the others stay.
LEMMA StartedStill ==
  ASSUME Typed, Single, NEW a \in Sockets, NEW b \in Peers(a), NEW body,
         StartSend(a, b, body, 1), NEW r \in Sockets, NEW s \in Peers(r),
         ~(r = a /\ s = b), Due(r, s)' = Due(r, s)
  PROVE  OneMessage(r, s)' /\ (Spots(r, s)' # {} => Spots(r, s) # {})
<1>1. OneMessage(r, s) /\ s \in Sockets
  BY PeerFacts DEF Single
<1>2. /\ message'[a].to = b /\ place'[a] = "send"
      /\ \A t \in Sockets : t # a => message'[t] = message[t] /\ place'[t] = place[t]
      /\ net' = net /\ unfinished' = unfinished /\ received' = received
  BY Started
<1>3. r = a => ~Sent(r, s)'
  BY <1>2 DEF Sent
<1>4. s = a => ~Got(r, s)'
  BY <1>2 DEF Got
<1> QED
  BY <1>1, <1>2, <1>3, <1>4, StillPair

\* Where there was none, there is none but the one that was begun.
LEMMA StartedNone ==
  ASSUME Typed, NEW a \in Sockets, NEW b \in Peers(a), NEW body,
         StartSend(a, b, body, 1), Coming(net[a], b) = {}, Noting(unfinished[a], b) = {},
         ~Sent(b, a)
  PROVE  OneMessage(b, a)' /\ Spots(b, a)' = {}
<1>1. b \in Sockets /\ b # a
  BY PeerFacts
<1>2. /\ place'[a] = "send" /\ message'[b] = message[b] /\ place'[b] = place[b]
      /\ net' = net /\ unfinished' = unfinished /\ received' = received
  BY <1>1, Started
<1>3. ~Sent(b, a)' /\ ~Got(b, a)' /\ Coming(net'[a], b) = {} /\ Noting(unfinished'[a], b) = {}
  BY <1>2 DEF Sent, Got
<1> QED
  BY <1>3, NoMessage

LEMMA PairFacts ==
  ASSUME NEW c \in Clients
  PROVE  /\ c \in Sockets /\ Server \in Sockets /\ c # Server
         /\ Server \in Peers(c) /\ c \in Peers(Server)
BY UdpAssumption DEF Sockets, Peers

\* A pair is a client and the server.
LEMMA PairIs ==
  ASSUME NEW r \in Sockets, NEW s \in Peers(r)
  PROVE  (r \in Clients /\ s = Server) \/ (r = Server /\ s \in Clients)
BY DEF Sockets, Peers

LEMMA OtherDue ==
  ASSUME NEW c \in Clients, NEW r \in Sockets, NEW s \in Peers(r), r # c, s # c,
         \A x \in Clients : x # c => asked'[x] = asked[x] /\ outcome'[x] = outcome[x]
  PROVE  Due(r, s)' = Due(r, s)
BY PairIs, PairFacts DEF Due

LEMMA AskSingle ==
  ASSUME Typed, Single, NEW c \in Clients, Ask(c)
  PROVE  Single'
<1>1. PICK request \in Requests(c) :
        asked' = [asked EXCEPT ![c] = request] /\ StartSend(c, Server, request, 1)
  BY DEF Ask
<1>2. /\ place[c] = "idle" /\ msgIdGen[c] < setting.calls
      /\ outcome' = outcome
  BY DEF Ask
<1>3. request \in Promise!Calls /\ request # None
  <2>1. request \in Promise!Calls
    BY <1>2, CallFacts, PairFacts DEF Typed, SendTyped
  <2> QED
    BY <2>1, NoneAssumption
<1>4. asked'[c] = request /\ \A x \in Clients : x # c => asked'[x] = asked[x]
  BY <1>1 DEF Typed, ServiceTyped
<1>5. /\ c \in Sockets /\ Server \in Sockets /\ c # Server
      /\ Server \in Peers(c) /\ c \in Peers(Server)
  BY PairFacts
<1>6. Plain'
  BY <1>1, <1>2, <1>5, StartedPlain DEF Single, Numbered
<1>7. Spots(c, Server) = {} /\ Spots(Server, c) = {} /\ outcome[c] = None
  BY <1>2 DEF Single, Stage
<1>8. OneMessage(c, Server)'
  <2>1. request = Due(c, Server)'
    BY <1>4 DEF Due
  <2> QED
    BY <1>1, <1>5, <1>7, <2>1, StartedMessage
<1>9. OneMessage(Server, c)' /\ Spots(Server, c)' = {}
  <2>1. Coming(net[c], Server) = {} /\ Noting(unfinished[c], Server) = {} /\ ~Sent(Server, c)
    BY <1>7, SpotsAre
  <2> QED
    BY <1>1, <1>5, <2>1, StartedNone
<1>10. ASSUME NEW r \in Sockets, NEW s \in Peers(r), r # c, s # c
       PROVE  OneMessage(r, s)' /\ (Spots(r, s)' # {} => Spots(r, s) # {})
  <2>1. Due(r, s)' = Due(r, s)
    BY <1>2, <1>4, <1>10, OtherDue
  <2> QED
    BY <1>1, <1>5, <1>10, <2>1, StartedStill
<1>11. ASSUME NEW r \in Sockets, NEW s \in Peers(r)
       PROVE  OneMessage(r, s)'
  <2>1. (r = c => s = Server) /\ (s = c => r = Server)
    BY PairIs, PairFacts
  <2> QED
    BY <1>8, <1>9, <1>10, <2>1
<1>12. ASSUME NEW x \in Clients
       PROVE  Stage(x)'
  <2>1. CASE x = c
    <3>1. place'[c] # "idle"
      BY <1>1, <1>5, Started
    <3> QED
      BY <1>2, <1>3, <1>4, <1>7, <1>9, <2>1, <3>1 DEF Stage
  <2>2. CASE x # c
    <3>1. x \in Sockets /\ Server \in Peers(x) /\ x \in Peers(Server)
      BY PairFacts
    <3>2. /\ Spots(x, Server)' # {} => Spots(x, Server) # {}
          /\ Spots(Server, x)' # {} => Spots(Server, x) # {}
      BY <1>5, <1>10, <2>2, <3>1
    <3>3. place'[x] = place[x]
      BY <1>1, <1>5, <2>2, <3>1, Started
    <3>4. Stage(x)
      BY DEF Single
    <3>5. asked'[x] = asked[x] /\ outcome'[x] = outcome[x]
      BY <1>2, <1>4, <2>2
    <3> QED
      BY <3>2, <3>3, <3>4, <3>5 DEF Stage
  <2> QED
    BY <2>1, <2>2
<1> QED
  BY <1>6, <1>11, <1>12 DEF Single

\* A client has got an answer, and it is the answer to its command.
LEMMA AnswerIs ==
  ASSUME Typed, Single, NEW c \in Clients, place[c] = "got"
  PROVE  /\ received[c].whole
         /\ received[c].body = [call |-> asked[c], outcome |-> outcome[c]]
         /\ outcome[c] # None /\ asked[c] # None
         /\ Spots(c, Server) = {}
         /\ ~Sent(Server, c) /\ Coming(net[c], Server) = {} /\ Noting(unfinished[c], Server) = {}
<1>1. /\ c \in Sockets /\ Server \in Sockets /\ c # Server
      /\ Server \in Peers(c) /\ c \in Peers(Server)
  BY PairFacts
<1>2. received[c].from = Server
  <2>1. received[c] \in Handovers(c)
    BY <1>1 DEF Typed, RecvTyped
  <2> QED
    BY <1>1, <2>1 DEF Handovers, Peers
<1>3. Got(Server, c) /\ OneMessage(Server, c)
  BY <1>1, <1>2 DEF Got, Single
<1>4. "got" \in Spots(Server, c)
  BY <1>3, SpotsAre
<1>5. received[c].body = [call |-> asked[c], outcome |-> outcome[c]]
  BY <1>1, <1>3 DEF OneMessage, Due
<1>6. outcome[c] # None /\ asked[c] # None /\ Spots(c, Server) = {}
  BY <1>4 DEF Single, Stage
<1>7. ~Sent(Server, c) /\ Coming(net[c], Server) = {} /\ Noting(unfinished[c], Server) = {}
  BY <1>3, OneSpot
<1>8. received[c].whole
  BY <1>1 DEF Single, Plain, WholeMessages
<1> QED
  BY <1>5, <1>6, <1>7, <1>8

\* The server has got a command, and it is the one that its client waits for.
LEMMA CommandIs ==
  ASSUME Typed, Single, place[Server] = "got", NEW c, c = received[Server].from
  PROVE  /\ c \in Clients /\ received[Server].whole
         /\ received[Server].body = asked[c] /\ received[Server].body \in Promise!Calls
         /\ outcome[c] = None /\ asked[c] # None
         /\ Spots(Server, c) = {} /\ place[c] # "idle"
         /\ ~Sent(c, Server) /\ Coming(net[Server], c) = {} /\ Noting(unfinished[Server], c) = {}
<1>1. Server \in Sockets
  BY DEF Sockets
<1>2. received[Server].whole
  BY <1>1 DEF Single, Plain, WholeMessages
<1>3. received[Server] \in Handovers(Server)
  BY <1>1 DEF Typed, RecvTyped
<1>4. c \in Clients /\ received[Server].body \in Promise!Calls
  BY <1>2, <1>3 DEF Handovers, Peers, Told
<1>5. c \in Sockets /\ Server \in Peers(c)
  BY <1>4, PairFacts
<1>6. Got(c, Server) /\ OneMessage(c, Server)
  BY <1>5 DEF Got, Single
<1>7. "got" \in Spots(c, Server)
  BY <1>6, SpotsAre
<1>8. received[Server].body = asked[c]
  BY <1>6 DEF OneMessage, Due
<1>9. outcome[c] = None /\ asked[c] # None /\ Spots(Server, c) = {} /\ place[c] # "idle"
  BY <1>4, <1>7 DEF Single, Stage
<1>10. ~Sent(c, Server) /\ Coming(net[Server], c) = {} /\ Noting(unfinished[Server], c) = {}
  BY <1>6, OneSpot
<1> QED
  BY <1>2, <1>4, <1>8, <1>9, <1>10

LEMMA TakeAnswerSingle ==
  ASSUME Typed, Single, NEW c \in Clients, TakeAnswer(c)
  PROVE  Single'
<1>1. /\ place[c] = "got" /\ place' = [place EXCEPT ![c] = "idle"]
      /\ asked' = [asked EXCEPT ![c] = None] /\ outcome' = [outcome EXCEPT ![c] = None]
      /\ UNCHANGED <<setting, net, msgIdGen, message, received, unfinished, index>>
  BY DEF TakeAnswer, caller
<1>2. /\ c \in Sockets /\ Server \in Sockets /\ c # Server
      /\ Server \in Peers(c) /\ c \in Peers(Server)
  BY PairFacts
<1>3. /\ place'[c] = "idle" /\ \A t \in Sockets : t # c => place'[t] = place[t]
      /\ asked'[c] = None /\ outcome'[c] = None
      /\ \A x \in Clients : x # c => asked'[x] = asked[x] /\ outcome'[x] = outcome[x]
  BY <1>1, <1>2 DEF Typed, SendTyped, ServiceTyped
<1>4. /\ Spots(c, Server) = {}
      /\ ~Sent(Server, c) /\ Coming(net[c], Server) = {} /\ Noting(unfinished[c], Server) = {}
  BY <1>1, AnswerIs
<1>5. Plain'
  <2>1. NetPlain' /\ TablesPlain'
    BY <1>1 DEF Single, Plain, NetPlain, TablesPlain, IsAck, IsMessage, Numbered
  <2>2. SendPlain'
    BY <1>1, <1>3 DEF Single, Plain, SendPlain, Sending, Numbered
  <2>3. WholeMessages'
    BY <1>1, <1>3 DEF Single, Plain, WholeMessages
  <2> QED
    BY <2>1, <2>2, <2>3 DEF Plain
<1>6. OneMessage(c, Server)' /\ Spots(c, Server)' = {}
  <2>1. Coming(net[Server], c) = {} /\ Noting(unfinished[Server], c) = {} /\ ~Got(c, Server)
    BY <1>4, SpotsAre
  <2>2. Coming(net'[Server], c) = {} /\ Noting(unfinished'[Server], c) = {} /\ ~Got(c, Server)'
    BY <1>1, <1>2, <1>3, <2>1 DEF Got
  <2>3. ~Sent(c, Server)'
    BY <1>3 DEF Sent
  <2> QED
    BY <2>2, <2>3, NoMessage
<1>7. OneMessage(Server, c)' /\ Spots(Server, c)' = {}
  <2>1. Coming(net'[c], Server) = {} /\ Noting(unfinished'[c], Server) = {} /\ ~Sent(Server, c)'
    BY <1>1, <1>2, <1>3, <1>4 DEF Sent
  <2>2. ~Got(Server, c)'
    BY <1>3 DEF Got
  <2> QED
    BY <2>1, <2>2, NoMessage
<1>8. ASSUME NEW r \in Sockets, NEW s \in Peers(r), r # c, s # c
      PROVE  OneMessage(r, s)' /\ (Spots(r, s)' # {} => Spots(r, s) # {})
  <2>1. Due(r, s)' = Due(r, s)
    BY <1>3, <1>8, OtherDue
  <2>2. OneMessage(r, s) /\ s \in Sockets
    BY PeerFacts DEF Single
  <2> QED
    BY <1>1, <1>2, <1>3, <1>8, <2>1, <2>2, StillPair
<1>9. ASSUME NEW r \in Sockets, NEW s \in Peers(r)
      PROVE  OneMessage(r, s)'
  <2>1. (r = c => s = Server) /\ (s = c => r = Server)
    BY PairIs, PairFacts
  <2> QED
    BY <1>6, <1>7, <1>8, <2>1
<1>10. ASSUME NEW x \in Clients
       PROVE  Stage(x)'
  <2>1. CASE x = c
    BY <1>3, <1>6, <1>7, <2>1 DEF Stage
  <2>2. CASE x # c
    <3>1. x \in Sockets /\ Server \in Peers(x) /\ x \in Peers(Server)
      BY PairFacts
    <3>2. /\ Spots(x, Server)' # {} => Spots(x, Server) # {}
          /\ Spots(Server, x)' # {} => Spots(Server, x) # {}
      BY <1>2, <1>8, <2>2, <3>1
    <3>3. Stage(x)
      BY DEF Single
    <3> QED
      BY <1>3, <2>2, <3>1, <3>2, <3>3 DEF Stage
  <2> QED
    BY <2>1, <2>2
<1> QED
  BY <1>5, <1>9, <1>10 DEF Single

\* What serving a command does: it is its client's, and takes effect for it.
LEMMA ServeIs ==
  ASSUME Typed, OnePacket, Single, Serve, NEW c, c = received[Server].from
  PROVE  /\ c \in Clients /\ asked[c] \in Promise!Calls
         /\ outcome' = [outcome EXCEPT ![c] = Promise!Outcome(taken, asked[c])]
         /\ taken' = Promise!Registered(taken, asked[c])
         /\ StartSend(Server, c, [call |-> asked[c], outcome |-> Promise!Outcome(taken, asked[c])], 1)
         /\ UNCHANGED <<asked, answered>>
<1>1. place[Server] = "got"
  BY DEF Serve
<1>2. c \in Clients /\ received[Server].body = asked[c] /\ asked[c] \in Promise!Calls
  BY <1>1, CommandIs
<1>3. (IF asked[c].op = "list-chatroom" THEN setting.listPackets ELSE 1) = 1
  BY DEF OnePacket
<1> QED
  BY <1>2, <1>3 DEF Serve

LEMMA ServeSingle ==
  ASSUME Typed, OnePacket, Single, Serve
  PROVE  Single'
<1>1. PICK c : c = received[Server].from
  OBVIOUS
<1>2. place[Server] = "got"
  BY DEF Serve
<1>3. /\ c \in Clients /\ outcome[c] = None /\ asked[c] # None
      /\ Spots(Server, c) = {} /\ place[c] # "idle"
      /\ ~Sent(c, Server) /\ Coming(net[Server], c) = {} /\ Noting(unfinished[Server], c) = {}
  BY <1>1, <1>2, CommandIs
<1>4. PICK result, body :
        result = Promise!Outcome(taken, asked[c]) /\ body = [call |-> asked[c], outcome |-> result]
  OBVIOUS
<1>5. /\ outcome' = [outcome EXCEPT ![c] = result]
      /\ StartSend(Server, c, body, 1)
      /\ asked' = asked
  BY <1>1, <1>4, ServeIs
<1>6. /\ c \in Sockets /\ Server \in Sockets /\ c # Server
      /\ Server \in Peers(c) /\ c \in Peers(Server)
  BY <1>3, PairFacts
<1>7. outcome'[c] = result /\ \A x \in Clients : x # c => outcome'[x] = outcome[x]
  BY <1>3, <1>5 DEF Typed, ServiceTyped
<1>8. result # None
  BY <1>4, NoneAssumption DEF Promise!Outcome
<1>9. Plain'
  <2>1. Numbered(Server, msgIdGen[Server])
    BY DEF Numbered, Single, Plain, SendPlain
  <2> QED
    BY <1>5, <1>6, <2>1, StartedPlain DEF Single
<1>10. OneMessage(Server, c)'
  <2>1. body = Due(Server, c)'
    BY <1>4, <1>5, <1>6, <1>7 DEF Due
  <2> QED
    BY <1>3, <1>5, <1>6, <2>1, StartedMessage
<1>11. OneMessage(c, Server)' /\ Spots(c, Server)' = {}
  BY <1>3, <1>5, <1>6, StartedNone
<1>12. ASSUME NEW r \in Sockets, NEW s \in Peers(r), r # c, s # c
       PROVE  OneMessage(r, s)' /\ (Spots(r, s)' # {} => Spots(r, s) # {})
  <2>1. Due(r, s)' = Due(r, s)
    BY <1>3, <1>5, <1>7, <1>12, OtherDue
  <2> QED
    BY <1>5, <1>6, <1>12, <2>1, StartedStill
<1>13. ASSUME NEW r \in Sockets, NEW s \in Peers(r)
       PROVE  OneMessage(r, s)'
  <2>1. (r = c => s = Server) /\ (s = c => r = Server)
    BY <1>6, PairIs
  <2> QED
    BY <1>10, <1>11, <1>12, <2>1
<1>14. ASSUME NEW x \in Clients
       PROVE  Stage(x)'
  <2>1. x \in Sockets /\ x # Server /\ Server \in Peers(x) /\ x \in Peers(Server)
    BY PairFacts
  <2>2. place'[x] = place[x]
    BY <1>5, <1>6, <2>1, Started
  <2>3. CASE x = c
    BY <1>3, <1>5, <1>7, <1>8, <1>11, <2>2, <2>3 DEF Stage
  <2>4. CASE x # c
    <3>1. /\ Spots(x, Server)' # {} => Spots(x, Server) # {}
          /\ Spots(Server, x)' # {} => Spots(Server, x) # {}
      BY <1>6, <1>12, <2>1, <2>4
    <3>2. Stage(x)
      BY DEF Single
    <3> QED
      BY <1>5, <1>7, <2>2, <2>4, <3>1, <3>2 DEF Stage
  <2> QED
    BY <2>3, <2>4
<1> QED
  BY <1>9, <1>13, <1>14 DEF Single

LEMMA TerminateSingle ==
  ASSUME Typed, Single, Terminate
  PROVE  Single'
<1>1. /\ place' = [place EXCEPT ![Server] = "terminated"]
      /\ UNCHANGED <<setting, net, msgIdGen, message, received, unfinished, index>>
      /\ UNCHANGED service
  BY DEF Terminate, caller
<1>2. /\ Server \in Sockets /\ place'[Server] = "terminated"
      /\ \A t \in Sockets : t # Server => place'[t] = place[t]
  BY <1>1 DEF Sockets, Typed, SendTyped
<1>3. Plain'
  <2>1. NetPlain' /\ TablesPlain'
    BY <1>1 DEF Single, Plain, NetPlain, TablesPlain, IsAck, IsMessage, Numbered
  <2>2. SendPlain'
    BY <1>1, <1>2 DEF Single, Plain, SendPlain, Sending, Numbered
  <2>3. WholeMessages'
    BY <1>1, <1>2 DEF Single, Plain, WholeMessages
  <2> QED
    BY <2>1, <2>2, <2>3 DEF Plain
<1>4. ASSUME NEW r \in Sockets, NEW s \in Peers(r)
      PROVE  OneMessage(r, s)' /\ (Spots(r, s)' # {} => Spots(r, s) # {})
  <2>1. OneMessage(r, s) /\ Due(r, s)' = Due(r, s) /\ s \in Sockets
    BY <1>1, DueSame, PeerFacts DEF Single
  <2>2. (r = Server => ~Sent(r, s)') /\ (s = Server => ~Got(r, s)')
    BY <1>2 DEF Sent, Got
  <2> QED
    BY <1>1, <1>2, <2>1, <2>2, StillPair
<1>5. \A c \in Clients : place'[c] = "idle" => place[c] = "idle"
  BY <1>2, PairFacts
<1> QED
  BY <1>1, <1>3, <1>4, <1>5, PassedStage DEF Passed

-----------------------------------------------------------------------------
(* The theorems about messages of one packet.                              *)

LEMMA SingleInitial ==
  ASSUME Init
  PROVE  Single
<1>1. /\ \A s \in Sockets : net[s] = <<>> /\ unfinished[s] = <<>>
      /\ \A s \in Sockets : place[s] = IF s = Server THEN "recv" ELSE "idle"
      /\ msgIdGen[Server] = setting.firstReply /\ setting.firstReply \in Nat
      /\ \A c \in Clients : asked[c] = None /\ outcome[c] = None
  BY UdpAssumption DEF Init, UdpInit, Promise!Init, Sockets
<1>2. Len(<<>>) = 0 /\ DOMAIN <<>> = {}
  OBVIOUS
<1>3. Plain
  <2>1. NetPlain /\ TablesPlain
    BY <1>1, <1>2 DEF NetPlain, TablesPlain
  <2>2. SendPlain /\ WholeMessages
    BY <1>1 DEF SendPlain, WholeMessages, Sending
  <2> QED
    BY <2>1, <2>2 DEF Plain
<1>4. ASSUME NEW r \in Sockets, NEW s \in Peers(r)
      PROVE  OneMessage(r, s) /\ Spots(r, s) = {}
  <2>1. s \in Sockets
    BY PeerFacts
  <2>2. Coming(net[s], r) = {} /\ Noting(unfinished[s], r) = {}
    BY <1>1, <1>2, <2>1 DEF Coming, Noting
  <2>3. ~Sent(r, s) /\ ~Got(r, s)
    BY <1>1, <2>1 DEF Sent, Got
  <2>4. Spots(r, s) = {}
    BY <2>2, <2>3, SpotsAre
  <2> QED
    BY <2>2, <2>3, <2>4 DEF OneMessage
<1>5. \A c \in Clients : Stage(c)
  BY <1>1, <1>4, PairFacts DEF Stage
<1> QED
  BY <1>3, <1>4, <1>5 DEF Single

LEMMA SettingKept ==
  ASSUME [Next]_vars
  PROVE  setting' = setting
<1>1. ASSUME NEW s \in Sockets, UdpStep(s)
      PROVE  setting' = setting
  <2>1. ASSUME NEW i, Take(s, i)
        PROVE  setting' = setting
    BY <2>1 DEF Take, PollResend, PollMine, PollOther, WaitAck, WaitResend, WaitOther,
                RecvLast, RecvOther, Continue, TakeOut
  <2> QED
    BY <1>1, <2>1 DEF UdpStep, SendPacket, PollNothing, WaitTimeout, RecvReady, RecvAsk,
                      Continue, TakeOut
<1>2. ASSUME NEW s \in Sockets, Lose(s)
      PROVE  setting' = setting
  BY <1>2 DEF Lose
<1>3. ASSUME NEW c \in Clients, Ask(c) \/ TakeAnswer(c)
      PROVE  setting' = setting
  BY <1>3 DEF Ask, TakeAnswer, StartSend
<1>4. Serve \/ Terminate => setting' = setting
  BY DEF Serve, Terminate, StartSend
<1>5. UNCHANGED vars => setting' = setting
  BY DEF vars, udpVars
<1> QED
  BY <1>1, <1>2, <1>3, <1>4, <1>5 DEF Next

LEMMA SinglePreserved ==
  ASSUME Typed, OnePacket, Single, [Next]_vars
  PROVE  Single'
<1>1. CASE UNCHANGED vars
  <2>1. Server \in Sockets /\ Rests(Server) /\ NetKept
    BY <1>1, NetSame DEF Sockets, Rests, vars, udpVars, Single, Plain
  <2>2. UNCHANGED service /\ UNCHANGED <<setting, message, received, msgIdGen>>
        /\ \A t \in Sockets : unfinished'[t] = unfinished[t]
    BY <1>1 DEF vars, udpVars, service
  <2> QED
    BY <2>1, <2>2, QuietSingle
<1> QED
  BY <1>1, UdpStepSingle, LoseSingle, AskSingle, TakeAnswerSingle, ServeSingle, TerminateSingle
     DEF Next

\* While each reply is one packet and bears a number that no command bears, there is at
\* most one message on its way from a client to the server, and one back, in one place:
\* with send, on the network, in recv's table, or handed over; it says what the client
\* waits for (send, recv, dispatchUDP, the client's handlers).
THEOREM SingleHolds == Spec => [](OnePacket => Single)
<1>1. Init => Typed /\ (OnePacket => Single)
  BY TypedInitial, SingleInitial
<1>2. Typed /\ (OnePacket => Single) /\ [Next]_vars => (Typed /\ (OnePacket => Single))'
  <2> SUFFICES ASSUME Typed, OnePacket => Single, [Next]_vars
               PROVE  Typed' /\ (OnePacket => Single)'
    OBVIOUS
  <2>1. Typed'
    BY TypedPreserved
  <2>2. OnePacket' <=> OnePacket
    BY SettingKept DEF OnePacket
  <2>3. OnePacket => Single'
    BY SinglePreserved
  <2> QED
    BY <2>1, <2>2, <2>3
<1> QED
  BY <1>1, <1>2, PTL DEF Spec

\* "You have to send this command and get associated message by UDP": what a client takes
\* for the answer, whatever comes, is then the answer to its command (the client's
\* handlers, recv(nullptr, ...)).
THEOREM AssociatedAnswerTheorem == Spec => [](OnePacket => AssociatedAnswer)
<1>1. ASSUME Typed, Single PROVE AssociatedAnswer
  <2>1. ASSUME NEW c \in Clients, place[c] = "got"
        PROVE  received[c].whole /\ received[c].body.call = asked[c]
    <3>1. received[c].whole
      BY <1>1, <2>1, AnswerIs
    <3>2. received[c].body = [call |-> asked[c], outcome |-> outcome[c]]
      BY <1>1, <2>1, AnswerIs
    <3> QED
      BY <3>1, <3>2
  <2> QED
    BY <2>1 DEF AssociatedAnswer
<1> QED
  BY <1>1, TypedHolds, SingleHolds, PTL

-----------------------------------------------------------------------------
(* The commands that go over UDP implement the calls of AccountCalls.      *)

LEMMA StepRefines ==
  ASSUME Typed, OnePacket, Single, [Next]_vars
  PROVE  [Promise!Next]_(Promise!vars)
<1>1. ASSUME NEW c \in Clients, Ask(c)
      PROVE  Promise!Next
  <2>1. asked[c] = None
    BY <1>1 DEF Ask, Single, Stage
  <2>2. PICK request \in Requests(c) : asked' = [asked EXCEPT ![c] = request]
    BY <1>1 DEF Ask
  <2>3. request \in Promise!Calls /\ request.client = c
    BY <1>1, CallFacts, PairFacts DEF Ask, Typed, SendTyped
  <2>4. UNCHANGED <<taken, outcome, answered>>
    BY <1>1 DEF Ask
  <2>5. Promise!Call(c)
    BY <2>1, <2>2, <2>3, <2>4 DEF Promise!Call
  <2> QED
    BY <2>5 DEF Promise!Next
<1>2. ASSUME NEW c \in Clients, TakeAnswer(c)
      PROVE  Promise!Next
  <2>1. place[c] = "got"
    BY <1>2 DEF TakeAnswer
  <2>2. /\ received[c].whole /\ received[c].body = [call |-> asked[c], outcome |-> outcome[c]]
        /\ outcome[c] # None
    BY <2>1, AnswerIs
  <2>3. Promise!Answer(c)
    BY <1>2, <2>2 DEF TakeAnswer, Promise!Answer
  <2> QED
    BY <2>3 DEF Promise!Next
<1>3. CASE Serve
  <2>1. PICK c : c = received[Server].from
    OBVIOUS
  <2>2. place[Server] = "got"
    BY <1>3 DEF Serve
  <2>3. c \in Clients /\ outcome[c] = None /\ asked[c] # None
    BY <2>1, <2>2, CommandIs
  <2>4. Promise!Effect(c)
    BY <1>3, <2>1, <2>3, ServeIs DEF Promise!Effect
  <2> QED
    BY <2>3, <2>4 DEF Promise!Next
<1>4. CASE UNCHANGED service
  BY <1>4 DEF service, Promise!vars
<1>5. CASE Terminate
  BY <1>4, <1>5 DEF Terminate
<1>6. CASE UNCHANGED vars
  BY <1>4, <1>6 DEF vars, service
<1> QED
  BY <1>1, <1>2, <1>3, <1>4, <1>5, <1>6 DEF Next

\* Seen from the clients, each command then takes effect once, between its sending and
\* its answer, and the answer is what that effect gave: register, whoami and
\* list-chatroom implement AccountCalls (dispatchUDP, the client's handlers).
THEOREM EffectOnceTheorem == Spec /\ OnePacket => EffectOnce
<1>1. Init => Promise!Init
  BY DEF Init
<1>2. OnePacket /\ [Next]_vars => OnePacket'
  BY SettingKept DEF OnePacket
<1>3. Typed /\ (OnePacket => Single) /\ OnePacket /\ [Next]_vars => [Promise!Next]_(Promise!vars)
  BY StepRefines
<1> QED
  BY <1>1, <1>2, <1>3, TypedHolds, SingleHolds, PTL DEF Spec, EffectOnce, Promise!Spec

-----------------------------------------------------------------------------
(* Messages of any length, under numbers that the two directions do not    *)
(* share.                                                                  *)

\* Number n was given to a message of a.
Mark(a, n) == n \in Nat /\ Numbered(a, n) /\ n < msgIdGen[a]

\* b is sending its message n to a; and it is done with it.
Live(b, a, n) == place[b] \in Sending /\ message[b].to = a /\ message[b].msgid = n
Dead(b, a, n) == n < msgIdGen[b] /\ ~Live(b, a, n)

\* What a datagram to b can be, when book has the body of every message: a packet, in
\* which only the last has no next; a word about a message of b, which asks for no
\* packet before index -1 while b is sending it; or such a word that b answered and
\* that comes back, when its message is long sent.
IsPacket(book, d) ==
  /\ Mark(d.from, d.msgid) /\ d.id >= -1 /\ d.next >= NoNext
  /\ d.id >= 0 => d.next # 0 /\ d.body # None /\ d.body = book[<<d.from, d.msgid>>]
IsControl(b, d) ==
  /\ Mark(b, d.msgid) /\ (IsAck(d) \/ d.next = ResendId) /\ d.body = None
  /\ Live(b, d.from, d.msgid) => IsAck(d) \/ d.id >= -1
IsEcho(b, d) ==
  /\ Mark(d.from, d.msgid) /\ Dead(d.from, b, d.msgid)
  /\ d.next = ResendId /\ d.body = None
Known(book, b, d) == IsPacket(book, d) \/ IsControl(b, d) \/ IsEcho(b, d)
KnownTo(book, b) == {d \in Datagrams(b) : Known(book, b, d)}

\* What an entry of b's table can be: the collected part of a message, or all of it; or
\* what a request to resend began or spoilt, about a message that is long sent.  That
\* one waits for packet -2, which nobody sends any more.
Entry(book, b, k, e) ==
  \/ /\ e.start # "neither" /\ Mark(k[1], k[2]) /\ e.body = book[k]
     /\ e.next >= ResendId
     /\ e.start = "part" => e.next >= 1
     /\ e.next = ResendId => Dead(k[1], b, k[2])
  \/ /\ e.start = "neither" /\ e.next = ResendId
     /\ \/ Mark(k[1], k[2]) /\ Dead(k[1], b, k[2])
        \/ Mark(b, k[2]) /\ Dead(b, k[1], k[2])
TableKnown(book, b, table) == \A k \in DOMAIN table : Entry(book, b, k, table[k])

NetKnown(book) == \A b \in Sockets : net[b] \in Seq(KnownTo(book, b))
TablesKnown(book) == \A b \in Sockets : TableKnown(book, b, unfinished[b])
SendKnown(book) ==
  /\ \A s \in Sockets : place[s] \in Sending =>
       /\ index[s] >= -1 /\ Mark(s, message[s].msgid)
       /\ message[s].body = book[<<s, message[s].msgid>>]
  /\ msgIdGen[Server] >= setting.firstReply

Books == [Sockets \X Nat -> Bodies]
Assembled(book) ==
  NetKnown(book) /\ TablesKnown(book) /\ SendKnown(book) /\ WholeMessages

LEMMA Apart ==
  ASSUME Typed, ~SharedNumbers, NEW a \in Sockets, NEW b \in Peers(a), NEW n,
         Mark(a, n), Mark(b, n)
  PROVE  FALSE
<1>1. setting.firstReply \in Nat /\ setting.calls \in Nat
  BY UdpAssumption DEF Typed, SendTyped
<1>2. setting.firstReply >= setting.calls
  BY <1>1 DEF SharedNumbers
<1> QED
  BY <1>1, <1>2, UdpAssumption DEF Mark, Numbered, Peers, Sockets

-----------------------------------------------------------------------------
(* What was so of a datagram or an entry stays so.                         *)

\* Numbers grow, and no send of an old number begins again.
Later ==
  /\ setting' = setting
  /\ \A s \in Sockets : msgIdGen[s] \in Nat /\ msgIdGen'[s] \in Nat /\ msgIdGen'[s] >= msgIdGen[s]
  /\ \A s \in Sockets : \A a, n : n < msgIdGen[s] /\ Live(s, a, n)' => Live(s, a, n)

LEMMA StaysMarked ==
  ASSUME Later, NEW a \in Sockets, NEW n, Mark(a, n)
  PROVE  Mark(a, n)'
BY DEF Later, Mark, Numbered

LEMMA StaysDead ==
  ASSUME Later, NEW b \in Sockets, NEW a, NEW n \in Nat, Dead(b, a, n)
  PROVE  Dead(b, a, n)'
BY DEF Later, Dead

LEMMA StaysKnown ==
  ASSUME Later, NEW book, NEW new,
         \A a \in Sockets : \A n \in Nat : n < msgIdGen[a] => new[<<a, n>>] = book[<<a, n>>],
         NEW b \in Sockets
  PROVE  /\ \A d \in Datagrams(b) : Known(book, b, d) => Known(new, b, d)'
         /\ \A k \in Keys(b) : \A e : Entry(book, b, k, e) => Entry(new, b, k, e)'
<1>1. ASSUME NEW d \in Datagrams(b), Known(book, b, d)
      PROVE  Known(new, b, d)'
  <2>1. d.from \in Sockets /\ d.msgid \in Nat
    BY PeerFacts DEF Datagrams
  <2>2. CASE IsPacket(book, d)
    <3>1. Mark(d.from, d.msgid)' /\ new[<<d.from, d.msgid>>] = book[<<d.from, d.msgid>>]
      BY <2>1, <2>2, StaysMarked DEF IsPacket, Mark
    <3>2. IsPacket(new, d)'
      BY <2>2, <3>1 DEF IsPacket
    <3> QED
      BY <3>2 DEF Known
  <2>3. CASE IsControl(b, d)
    <3>1. Mark(b, d.msgid)' /\ (Live(b, d.from, d.msgid)' => Live(b, d.from, d.msgid))
      BY <2>1, <2>3, StaysMarked DEF IsControl, Mark, Later
    <3>2. IsControl(b, d)'
      BY <2>3, <3>1 DEF IsControl
    <3> QED
      BY <3>2 DEF Known
  <2>4. CASE IsEcho(b, d)
    <3>1. Mark(d.from, d.msgid)' /\ Dead(d.from, b, d.msgid)'
      BY <2>1, <2>4, StaysMarked, StaysDead DEF IsEcho
    <3>2. IsEcho(b, d)'
      BY <2>4, <3>1 DEF IsEcho
    <3> QED
      BY <3>2 DEF Known
  <2> QED
    BY <1>1, <2>2, <2>3, <2>4 DEF Known
<1>2. ASSUME NEW k \in Keys(b), NEW e, Entry(book, b, k, e)
      PROVE  Entry(new, b, k, e)'
  <2>1. k[1] \in Sockets /\ k[2] \in Nat /\ k = <<k[1], k[2]>>
    BY PeerFacts DEF Keys
  <2>2. /\ Mark(k[1], k[2]) => Mark(k[1], k[2])' /\ new[k] = book[k]
        /\ Mark(b, k[2]) => Mark(b, k[2])'
        /\ Dead(k[1], b, k[2]) => Dead(k[1], b, k[2])'
        /\ Dead(b, k[1], k[2]) => Dead(b, k[1], k[2])'
    BY <2>1, StaysMarked, StaysDead DEF Mark
  <2> QED
    BY <1>2, <2>2 DEF Entry
<1> QED
  BY <1>1, <1>2

LEMMA LaterOf ==
  ASSUME SendTyped, UNCHANGED <<setting, msgIdGen, message>>,
         \A s \in Sockets : place'[s] \in Sending => place[s] \in Sending
  PROVE  Later
BY DEF Later, Live, SendTyped

\* What is on its way, and in the tables, when nothing but time has passed.
LEMMA NetStays ==
  ASSUME Later, NEW book, NetKnown(book)
  PROVE  \A b \in Sockets : net[b] \in Seq(KnownTo(book, b)')
<1>1. ASSUME NEW b \in Sockets
      PROVE  net[b] \in Seq(KnownTo(book, b)')
  <2>1. \A d \in Datagrams(b) : Known(book, b, d) => Known(book, b, d)'
    BY StaysKnown
  <2>2. KnownTo(book, b) \subseteq KnownTo(book, b)'
    BY <2>1 DEF KnownTo
  <2> QED
    BY <2>2 DEF NetKnown
<1> QED
  BY <1>1

LEMMA TableStays ==
  ASSUME Later, NEW book, NEW b \in Sockets
  PROVE  \A table : DOMAIN table \subseteq Keys(b) /\ TableKnown(book, b, table)
                      => TableKnown(book, b, table)'
<1>1. \A k \in Keys(b) : \A e : Entry(book, b, k, e) => Entry(book, b, k, e)'
  BY StaysKnown
<1> QED
  BY <1>1 DEF TableKnown

\* The network, after s read its i-th datagram and sent what it knows.
LEMMA ExchangeGiven ==
  ASSUME DOMAIN net = Sockets, NEW T, NEW s \in Sockets, NEW i \in DOMAIN net[s], NEW sent,
         Exchange(s, i, sent), \A r \in Sockets : net[r] \in Seq(T[r]),
         sent \in Seq(T[net[s][i].from])
  PROVE  \A r \in Sockets : net'[r] \in Seq(T[r])
<1> DEFINE from == net[s][i].from
           q(r) == IF r = s THEN RemoveAt(net[r], i) ELSE net[r]
<1> SUFFICES ASSUME NEW r \in Sockets
             PROVE  net'[r] \in Seq(T[r])
  OBVIOUS
<1>1. q(r) \in Seq(T[r])
  BY RemoveTyped
<1>2. net'[r] = IF r = from THEN q(r) \o sent ELSE q(r)
  <2> DEFINE m == [net EXCEPT ![s] = RemoveAt(@, i)]
  <2>1. DOMAIN m = Sockets /\ m[r] = q(r)
    OBVIOUS
  <2>2. net' = [m EXCEPT ![from] = @ \o sent]
    BY DEF Exchange
  <2> HIDE DEF m, q, from
  <2> QED
    BY <2>1, <2>2
<1>3. r = from => sent \in Seq(T[r])
  OBVIOUS
<1> HIDE DEF q, from
<1>4. r = from => q(r) \o sent \in Seq(T[r])
  BY <1>1, <1>3, ConcatProperties
<1> QED
  BY <1>1, <1>2, <1>4

LEMMA ExchangeKnown ==
  ASSUME Typed, Later, NEW book, NetKnown(book), NEW s \in Sockets, NEW i \in DOMAIN net[s],
         NEW from, from = net[s][i].from,
         NEW sent, Exchange(s, i, sent), sent \in Seq(KnownTo(book, from)')
  PROVE  NetKnown(book)'
<1> DEFINE T == [r \in Sockets |-> KnownTo(book, r)']
<1>1. \A r \in Sockets : T[r] = KnownTo(book, r)'
  OBVIOUS
<1>2. \A r \in Sockets : net[r] \in Seq(KnownTo(book, r)')
  BY NetStays
<1>3. from \in Sockets /\ DOMAIN net = Sockets
  BY Arrives DEF Typed, NetTyped
<1> HIDE DEF T
<1>4. sent \in Seq(T[net[s][i].from]) /\ \A r \in Sockets : net[r] \in Seq(T[r])
  BY <1>1, <1>2, <1>3
<1>5. \A r \in Sockets : net'[r] \in Seq(T[r])
  BY <1>3, <1>4, ExchangeGiven
<1> QED
  BY <1>1, <1>5 DEF NetKnown

\* What is sent to a socket that reads nothing.
LEMMA SentKnown ==
  ASSUME Typed, Later, NEW book, NetKnown(book), NEW to \in Sockets,
         NEW sent, net' = [net EXCEPT ![to] = @ \o sent], sent \in Seq(KnownTo(book, to)')
  PROVE  NetKnown(book)'
<1>1. \A r \in Sockets : net[r] \in Seq(KnownTo(book, r)')
  BY NetStays
<1>2. \A r \in Sockets : net'[r] = IF r = to THEN net[r] \o sent ELSE net[r]
  BY DEF Typed, NetTyped
<1>3. net[to] \o sent \in Seq(KnownTo(book, to)')
  BY <1>1, ConcatProperties
<1> QED
  BY <1>1, <1>2, <1>3 DEF NetKnown

-----------------------------------------------------------------------------
(* What insert_check notes and asks for.                                   *)

\* A request of b, for a packet of a message of k[1] that b collects; or, when b
\* answers a request about a message of its own, an echo.
LEMMA RequestKnown ==
  ASSUME NEW book, NEW b \in Sockets, NEW k \in Keys(b), NEW id \in Int,
         \/ Mark(k[1], k[2]) /\ (Live(k[1], b, k[2]) => id >= -1)
         \/ Mark(b, k[2]) /\ Dead(b, k[1], k[2])
  PROVE  k[1] \in Sockets /\ <<Resend(b, k, id)>> \in Seq(KnownTo(book, k[1]))
<1> DEFINE d == Resend(b, k, id)
<1>1. k[1] \in Sockets
  BY PeerFacts DEF Keys
<1>2. d \in Datagrams(k[1])
  BY ControlTyped DEF Resend, ResendId
<1>3. d.from = b /\ d.msgid = k[2] /\ d.id = id /\ d.next = ResendId /\ d.body = None
  BY DEF Resend, Control
<1>4. IsControl(k[1], d) \/ IsEcho(k[1], d)
  BY <1>3 DEF IsControl, IsEcho
<1> HIDE DEF d
<1>5. d \in KnownTo(book, k[1])
  BY <1>2, <1>4 DEF KnownTo, Known
<1> QED
  BY <1>1, <1>5 DEF d

LEMMA AckKnown ==
  ASSUME NEW book, NEW b \in Sockets, NEW k \in Keys(b), Mark(k[1], k[2])
  PROVE  k[1] \in Sockets /\ <<Ack(b, k)>> \in Seq(KnownTo(book, k[1]))
<1> DEFINE d == Ack(b, k)
<1>1. k[1] \in Sockets
  BY PeerFacts DEF Keys
<1>2. d \in Datagrams(k[1])
  BY ControlTyped DEF Ack, AckId
<1>3. IsControl(k[1], d)
  BY DEF IsControl, IsAck, Ack, Control
<1> HIDE DEF d
<1>4. d \in KnownTo(book, k[1])
  BY <1>2, <1>3 DEF KnownTo, Known
<1> QED
  BY <1>1, <1>4 DEF d

\* What b does not take for a word about the message it is sending.
Aside(b, d) == ~Live(b, d.from, d.msgid)

LEMMA NotedEntry ==
  ASSUME Typed, ~SharedNumbers, NEW book, NEW b \in Sockets, NEW table, TableOf(b, table),
         TableKnown(book, b, table), NEW d \in Datagrams(b), Known(book, b, d), Aside(b, d)
  PROVE  TableKnown(book, b, Noted(table, d))
<1> DEFINE k == Key(d)
<1>1. /\ k \in Keys(b) /\ k[1] = d.from /\ k[2] = d.msgid /\ k[1] \in Peers(b)
      /\ d.body \in Told(b) \cup {None} /\ d.id \in Int /\ d.next \in Int
      /\ k = <<d.from, d.msgid>>
  BY DEF Key, Keys, Datagrams
<1>2. ~(Mark(k[1], k[2]) /\ Mark(b, k[2]))
  BY <1>1, Apart
<1>3. None \notin Told(b)
  BY NoneAssumption DEF Told
<1>4. ASSUME d.id # AckId, k \in DOMAIN table, d.id = table[k].next
      PROVE  Entry(book, b, k, [next |-> d.next, body |-> table[k].body,
                                start |-> Extended(table[k], d)])
  <2> DEFINE e == table[k]
             f == [next |-> d.next, body |-> e.body, start |-> Extended(e, d)]
  <2>1. e \in Collections(b) /\ Entry(book, b, k, e) /\ d.id = e.next
    BY <1>4 DEF TableOf, TableKnown
  <2>2. /\ e.next \in Int /\ e.start \in Starts /\ (e.start # "neither" => e.body \in Told(b))
    BY <2>1 DEF Collections
  <2>3. /\ f.next = d.next /\ f.body = e.body
        /\ f.start = IF e.start # "part" THEN e.start
                     ELSE IF d.body # e.body THEN "neither"
                     ELSE IF d.next = NoNext THEN "whole" ELSE "part"
    BY DEF Extended
  <2> SUFFICES Entry(book, b, k, f)
    OBVIOUS
  <2> HIDE DEF e, f
  <2>4. CASE IsPacket(book, d)
    BY <1>1, <1>2, <2>1, <2>2, <2>3, <2>4 DEF IsPacket, Entry, Starts, NoNext, ResendId
  <2>5. CASE IsControl(b, d)
    BY <1>1, <1>2, <1>4, <2>1, <2>2, <2>3, <2>5
       DEF IsControl, IsAck, Entry, Starts, NoNext, ResendId
  <2>6. CASE IsEcho(b, d)
    BY <1>1, <1>2, <1>3, <2>1, <2>2, <2>3, <2>6 DEF IsEcho, Entry, Starts, NoNext, ResendId
  <2> QED
    BY <2>4, <2>5, <2>6 DEF Known
<1>5. ASSUME d.id = 0
      PROVE  Entry(book, b, k, Begun(d))
  <2>1. /\ Begun(d).next = d.next /\ Begun(d).body = d.body
        /\ Begun(d).start = IF d.body = None THEN "neither"
                            ELSE IF d.next = NoNext THEN "whole" ELSE "part"
    BY DEF Begun
  <2>2. CASE IsPacket(book, d)
    BY <1>1, <1>5, <2>1, <2>2 DEF IsPacket, Entry, NoNext, ResendId
  <2>3. CASE IsControl(b, d)
    BY <1>1, <1>5, <2>1, <2>3 DEF IsControl, IsAck, Entry, Aside, Dead, Mark, AckId
  <2>4. CASE IsEcho(b, d)
    BY <1>1, <1>5, <2>1, <2>4 DEF IsEcho, Entry
  <2> QED
    BY <2>2, <2>3, <2>4 DEF Known
<1> HIDE DEF k
<1>6. CASE d.id = AckId \/ (k \in DOMAIN table /\ d.id # table[k].next)
           \/ (k \notin DOMAIN table /\ d.id # 0)
  <2>1. Noted(table, d) = table
    BY <1>6 DEF Noted, k
  <2> QED
    BY <2>1
<1>7. CASE d.id # AckId /\ k \in DOMAIN table /\ d.id = table[k].next
  <2> DEFINE f == [next |-> d.next, body |-> table[k].body, start |-> Extended(table[k], d)]
  <2>1. Noted(table, d) = [table EXCEPT ![k] = f]
    BY <1>7 DEF Noted, k
  <2>2. Entry(book, b, k, f)
    BY <1>4, <1>7
  <2> HIDE DEF f
  <2> QED
    BY <2>1, <2>2 DEF TableKnown
<1>8. CASE d.id # AckId /\ k \notin DOMAIN table /\ d.id = 0
  <2>1. Noted(table, d) = [x \in DOMAIN table \cup {k} |-> IF x = k THEN Begun(d) ELSE table[x]]
    BY <1>8 DEF Noted, k
  <2>2. Entry(book, b, k, Begun(d))
    BY <1>5, <1>8
  <2> QED
    BY <2>1, <2>2 DEF TableKnown
<1> QED
  BY <1>6, <1>7, <1>8

LEMMA MissedKnown ==
  ASSUME Typed, ~SharedNumbers, NEW book, NEW b \in Sockets,
         TableKnown(book, b, unfinished[b]), NEW d \in Datagrams(b), Known(book, b, d),
         Aside(b, d)
  PROVE  Missed(b, d) \in Seq(KnownTo(book, d.from))
<1> DEFINE k == Key(d)
<1>1. /\ k \in Keys(b) /\ k[1] = d.from /\ k[2] = d.msgid /\ k[1] \in Peers(b)
  BY DEF Key, Keys, Datagrams
<1>2. ~(Mark(k[1], k[2]) /\ Mark(b, k[2]))
  BY <1>1, Apart
<1> HIDE DEF k
<1>3. /\ Mark(k[1], k[2]) \/ (Mark(b, k[2]) /\ Dead(b, k[1], k[2]))
  BY <1>1 DEF Known, IsPacket, IsControl, IsEcho, Aside, Dead, Mark
<1>4. ASSUME NEW id \in Int, Live(k[1], b, k[2]) /\ Mark(k[1], k[2]) => id >= -1
      PROVE  <<Resend(b, k, id)>> \in Seq(KnownTo(book, d.from))
  BY <1>1, <1>3, <1>4, RequestKnown
<1>5. ASSUME k \in DOMAIN unfinished[b]
      PROVE  <<Resend(b, k, unfinished[b][k].next)>> \in Seq(KnownTo(book, d.from))
  <2>1. Entry(book, b, k, unfinished[b][k]) /\ unfinished[b][k].next \in Int
    BY <1>5 DEF TableKnown, Typed, TablesTyped, TableOf, Collections
  <2>2. Live(k[1], b, k[2]) /\ Mark(k[1], k[2]) => unfinished[b][k].next >= -1
    BY <1>2, <2>1 DEF Entry, Dead, ResendId
  <2> QED
    BY <1>4, <2>1, <2>2
<1>6. <<Resend(b, k, 0)>> \in Seq(KnownTo(book, d.from))
  BY <1>4
<1>7. \/ Missed(b, d) = <<>>
      \/ Missed(b, d) = <<Resend(b, k, 0)>>
      \/ k \in DOMAIN unfinished[b] /\ Missed(b, d) = <<Resend(b, k, unfinished[b][k].next)>>
  BY DEF Missed, k
<1> QED
  BY <1>5, <1>6, <1>7, EmptySeq

LEMMA KnownStays ==
  ASSUME Later, NEW book, NEW b \in Sockets
  PROVE  \A q \in Seq(KnownTo(book, b)) : q \in Seq(KnownTo(book, b)')
<1>1. \A d \in Datagrams(b) : Known(book, b, d) => Known(book, b, d)'
  BY StaysKnown
<1>2. KnownTo(book, b) \subseteq KnownTo(book, b)'
  BY <1>1 DEF KnownTo
<1> QED
  BY <1>2

LEMMA ArrivesKnown ==
  ASSUME Typed, NEW book, NetKnown(book), NEW s \in Sockets, NEW i \in DOMAIN net[s]
  PROVE  /\ net[s][i] \in Datagrams(s) /\ Known(book, s, net[s][i])
         /\ net[s][i].from \in Sockets /\ net[s][i].from \in Peers(s)
<1>1. net[s][i] \in KnownTo(book, s)
  BY ElementOfSeq, LenProperties DEF NetKnown
<1> QED
  BY <1>1, Arrives DEF KnownTo, Typed

LEMMA AsideIs ==
  ASSUME NEW s \in Sockets, NEW d, place[s] \notin Sending \/ ~AboutMine(s, d)
  PROVE  Aside(s, d)
BY DEF Aside, Live, AboutMine, Key

LEMMA TablesStay ==
  ASSUME Typed, Later, NEW book, TablesKnown(book), NEW s \in Sockets,
         NEW table, TableOf(s, table), TableKnown(book, s, table),
         unfinished' = [unfinished EXCEPT ![s] = table]
  PROVE  TablesKnown(book)'
<1>1. \A b \in Sockets : TableOf(b, unfinished[b]) /\ TableKnown(book, b, unfinished[b])
      /\ unfinished'[b] = IF b = s THEN table ELSE unfinished[b]
  BY DEF Typed, TablesTyped, TablesKnown
<1> SUFFICES ASSUME NEW b \in Sockets
             PROVE  TableKnown(book, b, unfinished[b])'
  BY DEF TablesKnown
<1>2. PICK t : t = unfinished'[b]
  OBVIOUS
<1>3. DOMAIN t \subseteq Keys(b) /\ TableKnown(book, b, t)
  BY <1>1, <1>2 DEF TableOf
<1>4. TableKnown(book, b, t)'
  BY <1>3, TableStays
<1> QED
  BY <1>2, <1>4

LEMMA InsertKnown ==
  ASSUME Typed, ~SharedNumbers, Later, NEW book, NetKnown(book), TablesKnown(book),
         NEW s \in Sockets, NEW i \in DOMAIN net[s], InsertCheck(s, i), Aside(s, net[s][i])
  PROVE  NetKnown(book)' /\ TablesKnown(book)'
<1>1. PICK d, from : d = net[s][i] /\ from = d.from
  OBVIOUS
<1>2. d \in Datagrams(s) /\ Known(book, s, d) /\ Aside(s, d) /\ from \in Sockets
  BY <1>1, ArrivesKnown
<1>3. TableOf(s, unfinished[s]) /\ TableKnown(book, s, unfinished[s])
  BY DEF Typed, TablesTyped, TablesKnown
<1>4. PICK sent : sent = Missed(s, d)
  OBVIOUS
<1>5. sent \in Seq(KnownTo(book, from)')
  BY <1>1, <1>2, <1>3, <1>4, MissedKnown, KnownStays
<1>6. Exchange(s, i, sent)
  BY <1>1, <1>4 DEF InsertCheck
<1>7. NetKnown(book)'
  BY <1>1, <1>5, <1>6, ExchangeKnown
<1>8. PICK table : table = Noted(unfinished[s], d)
  OBVIOUS
<1>9. TableOf(s, table) /\ TableKnown(book, s, table)
  BY <1>2, <1>3, <1>8, NotedTyped, NotedEntry
<1>10. unfinished' = [unfinished EXCEPT ![s] = table]
  BY <1>1, <1>8 DEF InsertCheck
<1> QED
  BY <1>7, <1>9, <1>10, TablesStay

\* A step that leaves the tables alone.
LEMMA TablesSame ==
  ASSUME Typed, Later, NEW book, TablesKnown(book), unfinished' = unfinished
  PROVE  TablesKnown(book)'
<1> SUFFICES ASSUME NEW b \in Sockets
             PROVE  TableKnown(book, b, unfinished[b])'
  BY DEF TablesKnown
<1>1. PICK t : t = unfinished[b]
  OBVIOUS
<1>2. DOMAIN t \subseteq Keys(b) /\ TableKnown(book, b, t)
  BY <1>1 DEF Typed, TablesTyped, TableOf, TablesKnown
<1>3. TableKnown(book, b, t)'
  BY <1>2, TableStays
<1> QED
  BY <1>1, <1>3

LEMMA ConsumeKnown ==
  ASSUME Typed, Later, NEW book, NetKnown(book), TablesKnown(book),
         NEW s \in Sockets, NEW i \in DOMAIN net[s], Consume(s, i)
  PROVE  NetKnown(book)' /\ TablesKnown(book)'
<1>1. PICK from : from = net[s][i].from
  OBVIOUS
<1>2. Exchange(s, i, <<>>) /\ <<>> \in Seq(KnownTo(book, from)')
  BY EmptySeq DEF Consume
<1>3. NetKnown(book)'
  BY <1>1, <1>2, ExchangeKnown
<1> QED
  BY <1>3, TablesSame DEF Consume

\* A step that begins no send and hands nothing over.
LEMMA PlacesStay ==
  ASSUME Typed, NEW book, SendKnown(book), WholeMessages,
         UNCHANGED <<setting, msgIdGen, message, received>>,
         \A r \in Sockets : /\ place'[r] \in Sending => place[r] \in Sending /\ index'[r] >= -1
                            /\ place'[r] = "got" => place[r] = "got"
  PROVE  Later /\ SendKnown(book)' /\ WholeMessages'
<1>1. Later
  BY LaterOf DEF Typed
<1>2. WholeMessages'
  BY DEF WholeMessages
<1>3. SendKnown(book)'
  BY DEF SendKnown, Mark, Numbered
<1> QED
  BY <1>1, <1>2, <1>3

LEMMA ContinueKnown ==
  ASSUME Typed, NEW book, SendKnown(book), WholeMessages, NEW s \in Sockets,
         place[s] \in Sending, NEW i \in Int, i >= -1, NEW ok, Continue(s, i, ok)
  PROVE  Later /\ SendKnown(book)' /\ WholeMessages'
<1>1. UNCHANGED <<setting, msgIdGen, message, received>>
  BY DEF Continue, caller
<1>2. \A r \in Sockets : /\ place'[r] \in Sending => place[r] \in Sending /\ index'[r] >= -1
                         /\ place'[r] = "got" => place[r] = "got"
  BY DEF Continue, Typed, SendTyped, SendKnown
<1> QED
  BY <1>1, <1>2, PlacesStay

-----------------------------------------------------------------------------
(* The steps.                                                              *)

LEMMA SendPacketAssembled ==
  ASSUME Typed, NEW book, Assembled(book), NEW s \in Sockets, SendPacket(s)
  PROVE  Assembled(book)'
<1>1. /\ NetKnown(book) /\ TablesKnown(book) /\ SendKnown(book) /\ WholeMessages
      /\ place[s] \in Sending
  BY DEF Assembled, SendPacket, Sending
<1>2. UNCHANGED <<setting, msgIdGen, message, received>> /\ UNCHANGED <<unfinished, index>>
  BY DEF SendPacket, caller
<1>3. \A r \in Sockets : /\ place'[r] \in Sending => place[r] \in Sending /\ index'[r] >= -1
                         /\ place'[r] = "got" => place[r] = "got"
  BY <1>1, <1>2 DEF SendPacket, Typed, SendTyped, SendKnown
<1>4. Later /\ SendKnown(book)' /\ WholeMessages'
  BY <1>1, <1>2, <1>3, PlacesStay
<1>5. PICK to, d : to = message[s].to /\ d = Packet(s)
  OBVIOUS
<1>6. /\ message[s] \in Messages(s) /\ index[s] \in Int /\ index[s] >= -1
      /\ Mark(s, message[s].msgid) /\ message[s].body = book[<<s, message[s].msgid>>]
  BY <1>1 DEF SendKnown, Typed, SendTyped
<1>7. /\ to \in Peers(s) /\ to \in Sockets /\ s \in Peers(to) /\ Told(to) = Telling(s)
      /\ message[s].body \in Telling(s)
  BY <1>5, <1>6, PeerFacts DEF Messages
<1>8. d \in Datagrams(to)
  BY <1>5, <1>6, <1>7 DEF Packet, Datagrams, Messages, NoNext
<1>9. message[s].body # None
  BY <1>7, NoneAssumption DEF Telling
<1>10. IsPacket(book, d)
  BY <1>5, <1>6, <1>9 DEF IsPacket, Packet, NoNext, Messages
<1>11. d \in KnownTo(book, to)
  BY <1>8, <1>10 DEF KnownTo, Known
<1>12. <<d>> \in Seq(KnownTo(book, to)')
  <2>1. <<d>> \in Seq(KnownTo(book, to))
    BY <1>11
  <2> QED
    BY <1>4, <1>7, <2>1, KnownStays
<1>13. net' = [net EXCEPT ![to] = @ \o <<d>>]
  <2>1. net[to] \in Seq(Datagrams(to))
    BY <1>7 DEF Typed, NetTyped
  <2>2. Append(net[to], d) = net[to] \o <<d>>
    BY <1>8, <2>1
  <2>3. net' = [net EXCEPT ![to] = Append(@, d)]
    BY <1>5 DEF SendPacket
  <2> QED
    BY <2>2, <2>3
<1>14. NetKnown(book)'
  BY <1>1, <1>4, <1>7, <1>12, <1>13, SentKnown
<1>15. TablesKnown(book)'
  BY <1>1, <1>2, <1>4, TablesSame
<1> QED
  BY <1>4, <1>14, <1>15 DEF Assembled

\* A step in which nothing moves.
LEMMA StillAssembled ==
  ASSUME Typed, NEW book, Assembled(book), Later, SendKnown(book)', WholeMessages',
         UNCHANGED <<net, unfinished>>
  PROVE  Assembled(book)'
<1>1. \A b \in Sockets : net'[b] \in Seq(KnownTo(book, b)')
  BY NetStays DEF Assembled
<1>2. NetKnown(book)'
  BY <1>1 DEF NetKnown
<1>3. TablesKnown(book)'
  BY TablesSame DEF Assembled
<1> QED
  BY <1>2, <1>3 DEF Assembled

LEMMA TimersAssembled ==
  ASSUME Typed, NEW book, Assembled(book), NEW s \in Sockets, PollNothing(s) \/ WaitTimeout(s)
  PROVE  Assembled(book)'
<1>1. CASE PollNothing(s)
  <2>1. index[s] \in Int /\ index[s] >= -1 /\ place[s] \in Sending
    <3>1. place[s] \in Sending
      BY <1>1 DEF PollNothing, Sending
    <3> QED
      BY <3>1 DEF Typed, SendTyped, Assembled, SendKnown
  <2>2. Later /\ SendKnown(book)' /\ WholeMessages'
    <3>1. index[s] + 1 \in Int /\ index[s] + 1 >= -1
      BY <2>1
    <3> QED
      BY <1>1, <2>1, <3>1, ContinueKnown DEF PollNothing, Assembled
  <2> QED
    BY <1>1, <2>2, StillAssembled DEF PollNothing
<1>2. CASE WaitTimeout(s)
  <2>1. UNCHANGED <<setting, msgIdGen, message, received>>
    BY <1>2 DEF WaitTimeout, caller
  <2>2. \A r \in Sockets : /\ place'[r] \in Sending => place[r] \in Sending /\ index'[r] >= -1
                           /\ place'[r] = "got" => place[r] = "got"
    BY <1>2 DEF WaitTimeout, Typed, SendTyped, Assembled, SendKnown, Sending
  <2>3. Later /\ SendKnown(book)' /\ WholeMessages'
    BY <2>1, <2>2, PlacesStay DEF Assembled
  <2> QED
    BY <1>2, <2>3, StillAssembled DEF WaitTimeout
<1> QED
  BY <1>1, <1>2

\* What send takes for a word about its message is one: the only packets, and echoes,
\* that come to it are of messages of the other side, whose numbers are others.
LEMMA WordIs ==
  ASSUME Typed, ~SharedNumbers, NEW book, Assembled(book), NEW s \in Sockets,
         NEW i \in DOMAIN net[s], place[s] \in Sending, AboutMine(s, net[s][i])
  PROVE  (net[s][i].id = AckId /\ net[s][i].next = AckId) \/ net[s][i].id >= -1
<1>1. PICK d : d = net[s][i]
  OBVIOUS
<1>2. d.from \in Peers(s) /\ Known(book, s, d)
  BY <1>1, ArrivesKnown DEF Assembled
<1>3. d.from = message[s].to /\ d.msgid = message[s].msgid
  BY <1>1 DEF AboutMine, Key
<1>4. Mark(s, d.msgid) /\ Live(s, d.from, d.msgid)
  BY <1>3 DEF Assembled, SendKnown, Live
<1>5. ~Mark(d.from, d.msgid)
  BY <1>2, <1>4, Apart
<1> QED
  BY <1>1, <1>2, <1>4, <1>5 DEF Known, IsPacket, IsEcho, IsControl, IsAck

LEMMA SendTakesAssembled ==
  ASSUME Typed, ~SharedNumbers, NEW book, Assembled(book), NEW s \in Sockets,
         NEW i \in DOMAIN net[s],
         \/ PollResend(s, i) \/ PollMine(s, i) \/ PollOther(s, i)
         \/ WaitAck(s, i) \/ WaitResend(s, i) \/ WaitOther(s, i)
  PROVE  Assembled(book)'
<1>1. /\ NetKnown(book) /\ TablesKnown(book) /\ SendKnown(book) /\ WholeMessages
      /\ place[s] \in Sending
  BY DEF Assembled, Sending, PollResend, PollMine, PollOther, WaitAck, WaitResend, WaitOther
<1>2. index[s] \in Int /\ index[s] >= -1 /\ net[s][i].id \in Int
  BY <1>1, Arrives DEF Typed, SendTyped, SendKnown
<1>3. ASSUME NEW j \in Int, j >= -1, NEW ok, Continue(s, j, ok), Consume(s, i)
      PROVE  Assembled(book)'
  <2>1. Later /\ SendKnown(book)' /\ WholeMessages'
    BY <1>1, <1>3, ContinueKnown
  <2> QED
    BY <1>1, <1>3, <2>1, ConsumeKnown DEF Assembled
<1>4. ASSUME Later, SendKnown(book)', WholeMessages', InsertCheck(s, i),
             ~AboutMine(s, net[s][i])
      PROVE  Assembled(book)'
  <2>1. Aside(s, net[s][i])
    BY <1>4, AsideIs
  <2> QED
    BY <1>1, <1>4, <2>1, InsertKnown DEF Assembled
<1>5. CASE PollResend(s, i)
  <2>1. net[s][i].id >= -1
    BY <1>1, <1>5, WordIs DEF PollResend, AckId, ResendId
  <2> QED
    BY <1>2, <1>3, <1>5, <2>1 DEF PollResend
<1>6. CASE PollMine(s, i)
  BY <1>2, <1>3, <1>6 DEF PollMine
<1>7. CASE PollOther(s, i)
  <2>1. Later /\ SendKnown(book)' /\ WholeMessages'
    BY <1>1, <1>2, <1>7, ContinueKnown DEF PollOther
  <2> QED
    BY <1>4, <1>7, <2>1 DEF PollOther
<1>8. CASE WaitAck(s, i)
  BY <1>2, <1>3, <1>8 DEF WaitAck
<1>9. CASE WaitResend(s, i)
  <2>1. net[s][i].id >= -1
    BY <1>1, <1>9, WordIs DEF WaitResend
  <2> QED
    BY <1>2, <1>3, <1>9, <2>1 DEF WaitResend
<1>10. CASE WaitOther(s, i)
  <2>1. UNCHANGED <<setting, msgIdGen, message, received>> /\ UNCHANGED <<place, index>>
    BY <1>10 DEF WaitOther, caller
  <2>2. \A r \in Sockets : /\ place'[r] \in Sending => place[r] \in Sending /\ index'[r] >= -1
                           /\ place'[r] = "got" => place[r] = "got"
    BY <1>1, <2>1 DEF SendKnown
  <2>3. Later /\ SendKnown(book)' /\ WholeMessages'
    BY <1>1, <2>1, <2>2, PlacesStay
  <2> QED
    BY <1>4, <1>10, <2>3 DEF WaitOther
<1> QED
  BY <1>5, <1>6, <1>7, <1>8, <1>9, <1>10

\* A complete entry is a message of the other side, from its first packet to its last.
LEMMA CompleteIs ==
  ASSUME NEW book, NEW s \in Sockets, NEW table, TableOf(s, table), TableKnown(book, s, table),
         NEW k, Complete(table, k)
  PROVE  k \in DOMAIN table /\ k \in Keys(s) /\ table[k].start = "whole" /\ Mark(k[1], k[2])
<1>1. k \in DOMAIN table /\ table[k].next = NoNext
  BY DEF Complete
<1>2. k \in Keys(s) /\ table[k].start \in Starts /\ Entry(book, s, k, table[k])
  BY <1>1 DEF TableOf, Collections, TableKnown
<1> QED
  BY <1>1, <1>2 DEF Entry, Starts, NoNext, ResendId

LEMMA TakeOutAssembled ==
  ASSUME Typed, NEW book, Assembled(book), NEW s \in Sockets, place[s] = "recv",
         NEW table, TableOf(s, table), TableKnown(book, s, table), NEW k, Complete(table, k),
         TakeOut(s, table, k)
  PROVE  /\ k \in Keys(s) /\ Mark(k[1], k[2])
         /\ Later /\ TablesKnown(book)' /\ SendKnown(book)' /\ WholeMessages'
<1>1. k \in DOMAIN table /\ k \in Keys(s) /\ table[k].start = "whole" /\ Mark(k[1], k[2])
  BY CompleteIs
<1>2. UNCHANGED <<setting, msgIdGen, message, index>>
  BY DEF TakeOut
<1>3. place' = [place EXCEPT ![s] = "got"]
  BY DEF TakeOut
<1>4. \A r \in Sockets : place'[r] = IF r = s THEN "got" ELSE place[r]
  BY <1>3 DEF Typed, SendTyped
<1>5. Later
  BY <1>2, <1>4, LaterOf DEF Typed, Sending
<1>6. PICK rest : rest = [x \in DOMAIN table \ {k} |-> table[x]]
  OBVIOUS
<1>7. unfinished' = [unfinished EXCEPT ![s] = rest]
  BY <1>6 DEF TakeOut
<1>8. TableOf(s, rest) /\ TableKnown(book, s, rest)
  BY <1>6 DEF TableOf, TableKnown
<1>9. TablesKnown(book)'
  BY <1>5, <1>7, <1>8, TablesStay DEF Assembled
<1>10. SendKnown(book)'
  BY <1>2, <1>4 DEF Assembled, SendKnown, Mark, Numbered, Sending
<1>11. WholeMessages'
  <2>1. \A r \in Sockets : r # s => received'[r] = received[r]
    BY DEF TakeOut
  <2>2. received'[s].whole
    BY <1>1 DEF TakeOut, Typed, RecvTyped
  <2> QED
    BY <1>4, <2>1, <2>2 DEF Assembled, WholeMessages
<1> QED
  BY <1>1, <1>5, <1>9, <1>10, <1>11

LEMMA RecvReadyAssembled ==
  ASSUME Typed, NEW book, Assembled(book), NEW s \in Sockets, NEW k, RecvReady(s, k)
  PROVE  Assembled(book)'
<1>1. PICK table : table = unfinished[s]
  OBVIOUS
<1>2. TableOf(s, table) /\ TableKnown(book, s, table)
  BY <1>1 DEF Typed, TablesTyped, Assembled, TablesKnown
<1>3. /\ k \in Keys(s) /\ Mark(k[1], k[2])
      /\ Later /\ TablesKnown(book)' /\ SendKnown(book)' /\ WholeMessages'
  BY <1>1, <1>2, TakeOutAssembled DEF RecvReady
<1>4. PICK acks \in {<<>>, <<Ack(s, k)>>} : net' = [net EXCEPT ![k[1]] = @ \o acks]
  BY DEF RecvReady
<1>5. PICK to : to = k[1]
  OBVIOUS
<1>6. to \in Sockets /\ <<Ack(s, k)>> \in Seq(KnownTo(book, to))
  BY <1>3, <1>5, AckKnown
<1>7. acks \in Seq(KnownTo(book, to))
  BY <1>4, <1>6, EmptySeq
<1>8. acks \in Seq(KnownTo(book, to)')
  BY <1>3, <1>6, <1>7, KnownStays
<1>9. NetKnown(book)'
  BY <1>3, <1>4, <1>5, <1>6, <1>8, SentKnown DEF Assembled
<1> QED
  BY <1>3, <1>9 DEF Assembled

LEMMA RecvLastAssembled ==
  ASSUME Typed, ~SharedNumbers, NEW book, Assembled(book), NEW s \in Sockets,
         NEW i \in DOMAIN net[s], RecvLast(s, i)
  PROVE  Assembled(book)'
<1>1. PICK d, k, table : d = net[s][i] /\ k = Key(d) /\ table = Noted(unfinished[s], d)
  OBVIOUS
<1>2. place[s] = "recv" /\ Complete(table, k) /\ TakeOut(s, table, k)
      /\ Exchange(s, i, <<Ack(s, k)>>)
  BY <1>1 DEF RecvLast
<1>3. d \in Datagrams(s) /\ Known(book, s, d) /\ Aside(s, d)
  BY <1>1, <1>2, ArrivesKnown, AsideIs DEF Assembled, Sending
<1>4. TableOf(s, table) /\ TableKnown(book, s, table)
  BY <1>1, <1>3, NotedTyped, NotedEntry DEF Typed, TablesTyped, Assembled, TablesKnown
<1>5. /\ k \in Keys(s) /\ Mark(k[1], k[2])
      /\ Later /\ TablesKnown(book)' /\ SendKnown(book)' /\ WholeMessages'
  BY <1>2, <1>4, TakeOutAssembled
<1>6. PICK from : from = k[1]
  OBVIOUS
<1>7. from = net[s][i].from
  BY <1>1, <1>6 DEF Key
<1>8. from \in Sockets /\ <<Ack(s, k)>> \in Seq(KnownTo(book, from))
  BY <1>5, <1>6, AckKnown
<1>9. <<Ack(s, k)>> \in Seq(KnownTo(book, from)')
  BY <1>5, <1>8, KnownStays
<1>10. NetKnown(book)'
  BY <1>2, <1>5, <1>7, <1>9, ExchangeKnown DEF Assembled
<1> QED
  BY <1>5, <1>10 DEF Assembled

LEMMA RecvOtherAssembled ==
  ASSUME Typed, ~SharedNumbers, NEW book, Assembled(book), NEW s \in Sockets,
         NEW i \in DOMAIN net[s], RecvOther(s, i)
  PROVE  Assembled(book)'
<1>1. UNCHANGED <<setting, msgIdGen, message, received>> /\ UNCHANGED <<place, index>>
  BY DEF RecvOther, caller
<1>2. \A r \in Sockets : /\ place'[r] \in Sending => place[r] \in Sending /\ index'[r] >= -1
                         /\ place'[r] = "got" => place[r] = "got"
  BY <1>1 DEF Assembled, SendKnown
<1>3. Later /\ SendKnown(book)' /\ WholeMessages'
  BY <1>1, <1>2, PlacesStay DEF Assembled
<1>4. Aside(s, net[s][i])
  BY AsideIs DEF RecvOther, Sending
<1>5. NetKnown(book)' /\ TablesKnown(book)'
  BY <1>3, <1>4, InsertKnown DEF RecvOther, Assembled
<1> QED
  BY <1>3, <1>5 DEF Assembled

LEMMA RecvAskAssembled ==
  ASSUME Typed, ~SharedNumbers, NEW book, Assembled(book), NEW s \in Sockets,
         NEW k \in DOMAIN unfinished[s], RecvAsk(s, k)
  PROVE  Assembled(book)'
<1>1. UNCHANGED <<setting, msgIdGen, message, received>>
      /\ UNCHANGED <<place, index, unfinished>>
  BY DEF RecvAsk, caller
<1>2. \A r \in Sockets : /\ place'[r] \in Sending => place[r] \in Sending /\ index'[r] >= -1
                         /\ place'[r] = "got" => place[r] = "got"
  BY <1>1 DEF Assembled, SendKnown
<1>3. Later /\ SendKnown(book)' /\ WholeMessages'
  BY <1>1, <1>2, PlacesStay DEF Assembled
<1>4. PICK to, next, d : to = k[1] /\ next = unfinished[s][k].next /\ d = Resend(s, k, next)
  OBVIOUS
<1>5. /\ k \in Keys(s) /\ next \in Int /\ Entry(book, s, k, unfinished[s][k])
      /\ k[1] \in Peers(s)
  BY <1>4 DEF Typed, TablesTyped, TableOf, Collections, Assembled, TablesKnown, TableKnown, Keys
<1>6. \/ Mark(k[1], k[2]) /\ (Live(k[1], s, k[2]) => next >= -1)
      \/ Mark(s, k[2]) /\ Dead(s, k[1], k[2])
  BY <1>4, <1>5 DEF Entry, Dead, ResendId
<1>7. to \in Sockets /\ <<d>> \in Seq(KnownTo(book, to))
  BY <1>4, <1>5, <1>6, RequestKnown
<1>8. <<d>> \in Seq(KnownTo(book, to)')
  BY <1>3, <1>7, KnownStays
<1>9. net' = [net EXCEPT ![to] = @ \o <<d>>]
  <2>1. net[to] \in Seq(Datagrams(to)) /\ d \in Datagrams(to)
    <3>1. d \in Datagrams(to)
      BY <1>4, <1>5, ControlTyped DEF Resend, ResendId
    <3> QED
      BY <1>7, <3>1 DEF Typed, NetTyped
  <2>2. Append(net[to], d) = net[to] \o <<d>>
    BY <2>1
  <2>3. net' = [net EXCEPT ![to] = Append(@, d)]
    BY <1>4 DEF RecvAsk
  <2> QED
    BY <2>2, <2>3
<1>10. NetKnown(book)'
  BY <1>3, <1>7, <1>8, <1>9, SentKnown DEF Assembled
<1>11. TablesKnown(book)'
  BY <1>1, <1>3, TablesSame DEF Assembled
<1> QED
  BY <1>3, <1>10, <1>11 DEF Assembled

LEMMA LoseAssembled ==
  ASSUME Typed, NEW book, Assembled(book), NEW s \in Sockets, Lose(s)
  PROVE  Assembled(book)'
<1>1. UNCHANGED <<setting, msgIdGen, message, received>>
      /\ UNCHANGED <<place, index, unfinished>>
  BY DEF Lose, caller
<1>2. \A r \in Sockets : /\ place'[r] \in Sending => place[r] \in Sending /\ index'[r] >= -1
                         /\ place'[r] = "got" => place[r] = "got"
  BY <1>1 DEF Assembled, SendKnown
<1>3. Later /\ SendKnown(book)' /\ WholeMessages'
  BY <1>1, <1>2, PlacesStay DEF Assembled
<1>4. PICK i \in DOMAIN net[s] : net' = [net EXCEPT ![s] = RemoveAt(@, i)]
  BY DEF Lose
<1>5. \A r \in Sockets : net'[r] = IF r = s THEN RemoveAt(net[r], i) ELSE net[r]
  BY <1>4 DEF Typed, NetTyped
<1>6. \A r \in Sockets : net[r] \in Seq(KnownTo(book, r)')
  BY <1>3, NetStays DEF Assembled
<1>7. NetKnown(book)'
  BY <1>5, <1>6, RemoveTyped DEF NetKnown
<1>8. TablesKnown(book)'
  BY <1>1, <1>3, TablesSame DEF Assembled
<1> QED
  BY <1>3, <1>7, <1>8 DEF Assembled

\* A send begins: its message is written down.
LEMMA StartedAssembled ==
  ASSUME Typed, NEW book \in Books, Assembled(book), NEW s \in Sockets,
         place[s] \notin Sending, NEW to \in Peers(s), NEW body \in Telling(s),
         NEW packets \in Nat \ {0}, StartSend(s, to, body, packets), Numbered(s, msgIdGen[s])
  PROVE  \E new \in Books : Assembled(new)'
<1>1. PICK n : n = msgIdGen[s]
  OBVIOUS
<1>2. PICK new : new = [book EXCEPT ![<<s, n>>] = body]
  OBVIOUS
<1>3. n \in Nat /\ <<s, n>> \in Sockets \X Nat /\ body \in Bodies
  BY <1>1 DEF Typed, SendTyped, Bodies, Telling
<1>4. new \in Books /\ new[<<s, n>>] = body
  BY <1>2, <1>3 DEF Books
<1>5. /\ UNCHANGED <<setting, net, unfinished, received>>
      /\ index' = [index EXCEPT ![s] = 0] /\ place' = [place EXCEPT ![s] = "send"]
      /\ msgIdGen' = [msgIdGen EXCEPT ![s] = n + 1]
      /\ message' = [message EXCEPT ![s] =
           [to |-> to, msgid |-> n, body |-> body, packets |-> packets]]
  BY <1>1 DEF StartSend
<1>6. /\ \A r \in Sockets : r # s => /\ place'[r] = place[r] /\ index'[r] = index[r]
                                     /\ message'[r] = message[r] /\ msgIdGen'[r] = msgIdGen[r]
      /\ place'[s] = "send" /\ index'[s] = 0 /\ msgIdGen'[s] = n + 1
      /\ message'[s].to = to /\ message'[s].msgid = n /\ message'[s].body = body
  BY <1>5 DEF Typed, SendTyped
<1>7. \A r \in Sockets : msgIdGen[r] \in Nat
  BY DEF Typed, SendTyped
<1>8. Later
  <2>1. \A r \in Sockets : msgIdGen'[r] \in Nat /\ msgIdGen'[r] >= msgIdGen[r]
    BY <1>1, <1>6, <1>7
  <2>2. ASSUME NEW r \in Sockets, NEW a, NEW m, m < msgIdGen[r], Live(r, a, m)'
        PROVE  Live(r, a, m)
    <3>1. r # s
      BY <1>1, <1>3, <1>6, <2>2 DEF Live
    <3> QED
      BY <1>6, <2>2, <3>1 DEF Live
  <2> QED
    BY <1>5, <1>7, <2>1, <2>2 DEF Later
<1>9. \A a \in Sockets : \A m \in Nat : m < msgIdGen[a] => new[<<a, m>>] = book[<<a, m>>]
  <2> SUFFICES ASSUME NEW a \in Sockets, NEW m \in Nat, m < msgIdGen[a]
               PROVE  new[<<a, m>>] = book[<<a, m>>]
    OBVIOUS
  <2>1. <<a, m>> # <<s, n>>
    BY <1>1, <1>3
  <2> QED
    BY <1>2, <2>1 DEF Books
<1>10. NetKnown(new)'
  <2> SUFFICES ASSUME NEW b \in Sockets
               PROVE  net'[b] \in Seq(KnownTo(new, b)')
    BY DEF NetKnown
  <2>1. \A d \in Datagrams(b) : Known(book, b, d) => Known(new, b, d)'
    BY <1>8, <1>9, StaysKnown
  <2>2. KnownTo(book, b) \subseteq KnownTo(new, b)'
    BY <2>1 DEF KnownTo
  <2> QED
    BY <1>5, <2>2 DEF Assembled, NetKnown
<1>11. TablesKnown(new)'
  <2> SUFFICES ASSUME NEW b \in Sockets
               PROVE  TableKnown(new, b, unfinished[b])'
    BY DEF TablesKnown
  <2>1. PICK t : t = unfinished[b]
    OBVIOUS
  <2>2. DOMAIN t \subseteq Keys(b) /\ TableKnown(book, b, t)
    BY <2>1 DEF Typed, TablesTyped, TableOf, Assembled, TablesKnown
  <2>3. \A k \in Keys(b) : \A e : Entry(book, b, k, e) => Entry(new, b, k, e)'
    BY <1>8, <1>9, StaysKnown
  <2>4. TableKnown(new, b, t)'
    BY <2>2, <2>3 DEF TableKnown
  <2> QED
    BY <1>5, <2>1, <2>4
<1>12. SendKnown(new)'
  <2>1. ASSUME NEW r \in Sockets, place'[r] \in Sending
        PROVE  /\ index'[r] >= -1 /\ Mark(r, message[r].msgid)'
               /\ message'[r].body = new[<<r, message'[r].msgid>>]
    <3>1. CASE r = s
      BY <1>1, <1>3, <1>4, <1>5, <1>6, <3>1 DEF Mark, Numbered
    <3>2. CASE r # s
      <4>1. /\ place[r] \in Sending /\ index[r] >= -1 /\ Mark(r, message[r].msgid)
            /\ message[r].body = book[<<r, message[r].msgid>>]
        BY <1>6, <2>1, <3>2 DEF Assembled, SendKnown
      <4>2. Mark(r, message[r].msgid)'
        BY <1>5, <1>6, <3>2, <4>1 DEF Mark, Numbered
      <4>3. new[<<r, message[r].msgid>>] = book[<<r, message[r].msgid>>]
        BY <1>9, <4>1 DEF Mark
      <4> QED
        BY <1>6, <3>2, <4>1, <4>2, <4>3
    <3> QED
      BY <3>1, <3>2
  <2>2. Server \in Sockets /\ msgIdGen[Server] >= setting.firstReply
    BY DEF Sockets, Assembled, SendKnown
  <2>3. setting.firstReply \in Nat
    BY UdpAssumption DEF Typed, SendTyped
  <2>4. msgIdGen'[Server] >= setting'.firstReply
    BY <1>1, <1>3, <1>5, <1>6, <1>7, <2>2, <2>3
  <2> QED
    BY <2>1, <2>4 DEF SendKnown
<1>13. WholeMessages'
  BY <1>5, <1>6 DEF Assembled, WholeMessages
<1> QED
  BY <1>4, <1>10, <1>11, <1>12, <1>13 DEF Assembled

LEMMA AskAssembled ==
  ASSUME Typed, NEW book \in Books, Assembled(book), NEW c \in Clients, Ask(c)
  PROVE  \E new \in Books : Assembled(new)'
<1>1. PICK request \in Requests(c) : StartSend(c, Server, request, 1)
  BY DEF Ask
<1>2. request \in Promise!Calls
  BY CallFacts DEF Ask, Typed, SendTyped, Sockets
<1>3. c \in Sockets /\ c # Server /\ Server \in Peers(c) /\ Telling(c) = Promise!Calls
  BY UdpAssumption DEF Sockets, Peers, Telling
<1>4. place[c] \notin Sending /\ Numbered(c, msgIdGen[c])
  BY <1>3 DEF Ask, Sending, Numbered
<1> QED
  BY <1>1, <1>2, <1>3, <1>4, StartedAssembled

LEMMA ServeAssembled ==
  ASSUME Typed, NEW book \in Books, Assembled(book), Serve
  PROVE  \E new \in Books : Assembled(new)'
<1>1. PICK call, client, packets :
        /\ call = received[Server].body /\ client = received[Server].from
        /\ packets = IF call.op = "list-chatroom" THEN setting.listPackets ELSE 1
  OBVIOUS
<1>2. PICK reply : reply = [call |-> call, outcome |-> Promise!Outcome(taken, call)]
  OBVIOUS
<1>3. StartSend(Server, client, reply, packets)
  BY <1>1, <1>2 DEF Serve
<1>4. Server \in Sockets /\ Telling(Server) = Replies /\ Told(Server) = Promise!Calls
      /\ Peers(Server) = Clients
  BY DEF Sockets, Told, Telling, Peers
<1>5. received[Server] \in Handovers(Server) /\ received[Server].whole
  BY <1>4 DEF Serve, Typed, RecvTyped
<1>6. call \in Promise!Calls /\ client \in Clients
  BY <1>1, <1>4, <1>5 DEF Handovers
<1>7. reply \in Replies
  <2>1. Promise!Outcome(taken, call) \in Outcomes
    BY <1>6 DEF Promise!Outcome, Outcomes
  <2> QED
    BY <1>2, <1>6, <2>1 DEF Outcomes, Replies
<1>8. packets \in Nat \ {0}
  BY <1>1, UdpAssumption DEF Typed, SendTyped
<1>9. place[Server] \notin Sending /\ Numbered(Server, msgIdGen[Server])
  BY DEF Serve, Sending, Numbered, Assembled, SendKnown
<1> QED
  BY <1>3, <1>4, <1>6, <1>7, <1>8, <1>9, StartedAssembled

LEMMA TurnAssembled ==
  ASSUME Typed, NEW book, Assembled(book), NEW s \in Sockets, NEW p \in {"idle", "terminated"},
         place' = [place EXCEPT ![s] = p],
         UNCHANGED <<setting, net, caller, unfinished, index>>
  PROVE  Assembled(book)'
<1>1. UNCHANGED <<setting, msgIdGen, message, received>>
  BY DEF caller
<1>2. \A r \in Sockets : /\ place'[r] \in Sending => place[r] \in Sending /\ index'[r] >= -1
                         /\ place'[r] = "got" => place[r] = "got"
  BY DEF Typed, SendTyped, Assembled, SendKnown, Sending
<1>3. Later /\ SendKnown(book)' /\ WholeMessages'
  BY <1>1, <1>2, PlacesStay DEF Assembled
<1> QED
  BY <1>3, StillAssembled

LEMMA UdpStepAssembled ==
  ASSUME Typed, ~SharedNumbers, NEW book, Assembled(book), NEW s \in Sockets, UdpStep(s)
  PROVE  Assembled(book)'
<1>1. ASSUME NEW i \in Arriving(s), Take(s, i)
      PROVE  Assembled(book)'
  <2>1. i \in DOMAIN net[s]
    BY DEF Arriving
  <2> QED
    BY <1>1, <2>1, SendTakesAssembled, RecvLastAssembled, RecvOtherAssembled DEF Take
<1> QED
  BY <1>1, SendPacketAssembled, TimersAssembled, RecvReadyAssembled, RecvAskAssembled DEF UdpStep

LEMMA AssembledPreserved ==
  ASSUME Typed, ~SharedNumbers, NEW book \in Books, Assembled(book), [Next]_vars
  PROVE  \E new \in Books : Assembled(new)'
<1>1. ASSUME Assembled(book)'
      PROVE  \E new \in Books : Assembled(new)'
  BY <1>1
<1>2. ASSUME NEW c \in Clients, TakeAnswer(c)
      PROVE  Assembled(book)'
  <2>1. c \in Sockets /\ "idle" \in {"idle", "terminated"}
    BY DEF Sockets
  <2> QED
    BY <1>2, <2>1, TurnAssembled DEF TakeAnswer
<1>3. CASE Terminate
  BY <1>1, <1>3, TurnAssembled DEF Terminate, Sockets
<1>4. CASE UNCHANGED vars
  <2>1. UNCHANGED <<setting, msgIdGen, message, received>>
        /\ UNCHANGED <<place, index>> /\ UNCHANGED <<net, unfinished>>
    BY <1>4 DEF vars, udpVars
  <2>2. \A r \in Sockets : /\ place'[r] \in Sending => place[r] \in Sending /\ index'[r] >= -1
                           /\ place'[r] = "got" => place[r] = "got"
    BY <2>1 DEF Assembled, SendKnown
  <2>3. Later /\ SendKnown(book)' /\ WholeMessages'
    BY <2>1, <2>2, PlacesStay DEF Assembled
  <2> QED
    BY <1>1, <2>1, <2>3, StillAssembled
<1> QED
  BY <1>1, <1>2, <1>3, <1>4, UdpStepAssembled, LoseAssembled, AskAssembled, ServeAssembled DEF Next

LEMMA AssembledInitial ==
  ASSUME Init
  PROVE  \E book \in Books : Assembled(book)
<1>1. PICK book : book = [k \in Sockets \X Nat |-> None]
  OBVIOUS
<1>2. book \in Books
  BY <1>1 DEF Books, Bodies
<1>3. /\ \A s \in Sockets : net[s] = <<>> /\ unfinished[s] = <<>>
      /\ \A s \in Sockets : place[s] = IF s = Server THEN "recv" ELSE "idle"
      /\ msgIdGen[Server] = setting.firstReply /\ setting.firstReply \in Nat
  BY UdpAssumption DEF Init, UdpInit, Sockets
<1>4. NetKnown(book)
  BY <1>3, EmptySeq DEF NetKnown
<1>5. TablesKnown(book)
  BY <1>3 DEF TablesKnown, TableKnown
<1>6. SendKnown(book) /\ WholeMessages
  BY <1>3 DEF SendKnown, WholeMessages, Sending
<1> QED
  BY <1>2, <1>4, <1>5, <1>6 DEF Assembled

\* While the two directions share no numbers, what recv hands over is one message from its
\* first packet to its last: for messages of any number of packets, on either network,
\* whatever datagrams are lost, late, repeated or out of order, and although a request to
\* resend that comes late begins an entry of the table, or spoils one (insert_check, send,
\* recv).
THEOREM WholeMessagesTheorem == Spec => [](~SharedNumbers => WholeMessages)
<1>1. Init => Typed /\ (~SharedNumbers => \E book \in Books : Assembled(book))
  BY TypedInitial, AssembledInitial
<1>2. Typed /\ (~SharedNumbers => \E book \in Books : Assembled(book)) /\ [Next]_vars
        => (Typed /\ (~SharedNumbers => \E book \in Books : Assembled(book)))'
  <2> SUFFICES ASSUME Typed, ~SharedNumbers => \E book \in Books : Assembled(book), [Next]_vars
               PROVE  Typed' /\ (~SharedNumbers => \E book \in Books : Assembled(book))'
    OBVIOUS
  <2>1. Typed'
    BY TypedPreserved
  <2>2. SharedNumbers' <=> SharedNumbers
    BY SettingKept DEF SharedNumbers
  <2>3. ASSUME ~SharedNumbers
        PROVE  \E book \in Books : Assembled(book)'
    BY <2>3, AssembledPreserved
  <2> QED
    BY <2>1, <2>2, <2>3
<1>3. (~SharedNumbers => \E book \in Books : Assembled(book)) => (~SharedNumbers => WholeMessages)
  BY DEF Assembled
<1> QED
  BY <1>1, <1>2, <1>3, PTL DEF Spec
=============================================================================
