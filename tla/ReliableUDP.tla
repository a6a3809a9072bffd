---------------------------- MODULE ReliableUDP ----------------------------
(* UDP_socket of socket.cpp: a message is a few numbered packets; send      *)
(* waits up to 200 ms for an acknowledgement and repeats what the other     *)
(* side asks for; recv collects packets in a table until a message is       *)
(* complete.  Each socket is used by one thread, which calls recv after     *)
(* every send, and send after every recv.                                   *)
(*                                                                          *)
(* Bytes are abstracted to the body of the message and to whether what was  *)
(* collected starts with a part of it, with all of it, or with neither:     *)
(* Deserialize reads up to the end of the message that comes first.  The three equal            *)
(* acknowledgements that recv sends are one; their number is read from the  *)
(* entry just erased, where free leaves it.  What recv reads before it was  *)
(* set is a choice.                                                         *)
(*                                                                          *)
(* The network is one of two, by setting.orderly.  It loses datagrams in    *)
(* both; it keeps their order and delivers them faster than any timer in    *)
(* the one (the demonstration on one host), delays and reorders them as it  *)
(* likes in the other.                                                      *)
EXTENDS Integers, Sequences, SequencesExt

CONSTANTS Clients, Server, None,
          Settings,     \* the circumstances that a behaviour may have
          MaxCalls      \* bound: the commands a client gives

Sockets == Clients \cup {Server}

ASSUME UdpAssumption ==
  /\ Server \notin Clients
  /\ None \notin Sockets
  /\ MaxCalls \in Nat
  /\ Settings \subseteq
       [orderly : BOOLEAN,          \* which network
        losses : Nat,               \* bound: the datagrams it loses
        clients : SUBSET Clients,   \* who gives commands
        calls : 0 .. MaxCalls,      \* bound: how many each of them gives
        firstReply : Nat,           \* the server's first number
        listPackets : Nat \ {0},    \* of a list of chatrooms
        refused : BOOLEAN]          \* whether sqlite may refuse a name

VARIABLES setting,      \* the circumstances
          net,          \* what is on its way to each socket
          lost,         \* the datagrams lost so far (history)
          msgIdGen,     \* the number of the next message of each socket
          unfinished,   \* the messages each socket has begun to collect
          place,        \* what the thread of each socket is doing
          message,      \* what it sends, or sent last
          index,        \* the packet of that message that comes next
          success,      \* whether that message was acknowledged
          received,     \* what recv has handed over
          handed        \* every message handed over (history)

caller == <<msgIdGen, message, received, handed>>
udpVars == <<setting, net, lost, msgIdGen, unfinished, place, message, index,
             success, received, handed>>

\* PACKET_ID_NONEXT, PACKET_ID_RESEND, PACKET_ID_ACK.
NoNext == -1
ResendId == -2
AckId == -3

Nothing == [to |-> None, msgid |-> 0, body |-> None, packets |-> 1]

UdpInit ==
  /\ setting \in Settings
  /\ net = [s \in Sockets |-> <<>>]
  /\ lost = <<>>
  /\ msgIdGen = [s \in Sockets |-> IF s = Server THEN setting.firstReply ELSE 0]
  /\ unfinished = [s \in Sockets |-> <<>>]
  /\ place = [s \in Sockets |-> IF s = Server THEN "recv" ELSE "idle"]
  /\ message = [s \in Sockets |-> Nothing]
  /\ index = [s \in Sockets |-> 0]
  /\ success = [s \in Sockets |-> FALSE]
  /\ received = [s \in Sockets |-> None]
  /\ handed = {}

-----------------------------------------------------------------------------
(* Datagrams.                                                              *)

\* The packet that send sends next.  Below index 0 the bytes are not the
\* message's: they lie before its buffer.
Packet(s) ==
  LET m == message[s] IN
  [from |-> s, to |-> m.to, msgid |-> m.msgid, id |-> index[s],
   next |-> IF index[s] + 1 >= m.packets THEN NoNext ELSE index[s] + 1,
   body |-> IF index[s] < 0 THEN None ELSE m.body]

\* (Slip: the addresses swapped.)
ControlSwapped(s, key, id, next) ==
  [from |-> key[1], to |-> s, msgid |-> key[2], id |-> id, next |-> next,
   body |-> None]

Control(s, key, id, next) ==
  [from |-> s, to |-> key[1], msgid |-> key[2], id |-> id, next |-> next,
   body |-> None]

Resend(s, key, id) == Control(s, key, id, ResendId)
Ack(s, key) == Control(s, key, AckId, AckId)

\* UDP_MSG: a message is known by its sender and its number.  The numbers of
\* the two directions are drawn independently.
Key(d) == <<d.from, d.msgid>>

\* (Slip: the address alone is compared.)
SameSender(s, d) == d.from = message[s].to

\* send takes a datagram with its own number from the address it sends to as
\* one about its message, a message of the other side included.
AboutMine(s, d) == Key(d) = <<message[s].to, message[s].msgid>>

\* What the bytes collected start with, after d was appended to them, and when
\* d comes first.
Extended(entry, d) ==
  IF entry.start # "part" THEN entry.start
  ELSE IF d.body # entry.body THEN "neither"
  ELSE IF d.next = NoNext THEN "whole" ELSE "part"

Begun(d) ==
  [next |-> d.next, body |-> d.body,
   start |-> IF d.body = None THEN "neither"
             ELSE IF d.next = NoNext THEN "whole" ELSE "part"]

\* (Slip: a packet beyond the next one is appended.)
NotedAhead(table, d) ==
  LET k == Key(d) IN
  IF d.id = AckId \/ (k \in DOMAIN table /\ d.id < table[k].next) THEN table
  ELSE IF k \in DOMAIN table
  THEN [table EXCEPT ![k] = [next |-> d.next, body |-> @.body,
          start |-> IF @.start = "part" /\ d.id # @.next THEN "neither"
                    ELSE Extended(@, d)]]
  ELSE IF d.id = 0
  THEN [x \in DOMAIN table \cup {k} |->
          IF x = k THEN Begun(d) ELSE table[x]]
  ELSE table

\* insert_check: the table after d was noted in it.  A request to resend with
\* id 0 begins an entry too.
Noted(table, d) ==
  LET k == Key(d) IN
  IF d.id = AckId THEN table
  ELSE IF k \in DOMAIN table
  THEN IF d.id = table[k].next
       THEN [table EXCEPT ![k] = [next |-> d.next, body |-> @.body,
                                  start |-> Extended(@, d)]]
       ELSE table
  ELSE IF d.id = 0
  THEN [x \in DOMAIN table \cup {k} |->
          IF x = k THEN Begun(d) ELSE table[x]]
  ELSE table

\* (Slip: nothing is asked for before the first packet.)
MissedLater(s, d) ==
  IF Key(d) \in DOMAIN unfinished[s] /\ d.id > unfinished[s][Key(d)].next
  THEN <<Resend(s, Key(d), unfinished[s][Key(d)].next)>> ELSE <<>>

\* insert_check: what it asks the sender of d to resend.
Missed(s, d) ==
  LET k == Key(d) IN
  IF d.id = AckId THEN <<>>
  ELSE IF k \in DOMAIN unfinished[s]
  THEN IF d.id > unfinished[s][k].next
       THEN <<Resend(s, k, unfinished[s][k].next)>> ELSE <<>>
  ELSE IF d.id # 0 THEN <<Resend(s, k, 0)>> ELSE <<>>

\* s reads its i-th datagram in flight and sends the given ones in reply.
Exchange(s, i, sent) ==
  LET rest == [net EXCEPT ![s] = RemoveAt(@, i)] IN
  net' = [rest EXCEPT ![net[s][i].from] = @ \o sent]

\* insert_check as a step of s.
InsertCheck(s, i) ==
  /\ unfinished' = [unfinished EXCEPT ![s] = Noted(@, net[s][i])]
  /\ Exchange(s, i, Missed(s, net[s][i]))

Consume(s, i) == Exchange(s, i, <<>>) /\ UNCHANGED unfinished

\* What can arrive next.
Arriving(s) == {i \in DOMAIN net[s] : setting.orderly => i = 1}

\* (Slip: any mark in place of a next packet counts as the end.)
MarkEnds(table, k) == k \in DOMAIN table /\ table[k].next < 0

Complete(table, k) == k \in DOMAIN table /\ table[k].next = NoNext

NothingComplete(s) ==
  \A k \in DOMAIN unfinished[s] : ~Complete(unfinished[s], k)

\* Timers are slow against an orderly network: they run out when nobody who
\* looks has anything to read, and nobody has anything to do but wait or type.
Elapsed ==
  setting.orderly =>
    \A s \in Sockets :
      \/ place[s] \in {"idle", "terminated"}
      \/ place[s] = "wait" /\ net[s] = <<>>
      \/ /\ place[s] = "recv" /\ net[s] = <<>>
         /\ NothingComplete(s)

-----------------------------------------------------------------------------
(* send.                                                                   *)

\* The call: a number is drawn, the first packet comes next.
StartSend(s, to, body, packets) ==
  /\ message' = [message EXCEPT ![s] =
       [to |-> to, msgid |-> msgIdGen[s], body |-> body, packets |-> packets]]
  /\ msgIdGen' = [msgIdGen EXCEPT ![s] = @ + 1]
  /\ index' = [index EXCEPT ![s] = 0]
  /\ success' = [success EXCEPT ![s] = FALSE]
  /\ place' = [place EXCEPT ![s] = "send"]
  /\ UNCHANGED <<setting, net, lost, unfinished, received, handed>>

SendPacket(s) ==
  /\ place[s] = "send"
  /\ net' = [net EXCEPT ![message[s].to] = Append(@, Packet(s))]
  /\ place' = [place EXCEPT ![s] = "poll"]
  /\ UNCHANGED <<setting, lost, caller, unfinished, index, success>>

\* The test of the loop over the packets, then of the loop around it.  A send
\* that has returned is followed by recv.
Continue(s, i, ok) ==
  /\ index' = [index EXCEPT ![s] = i]
  /\ success' = [success EXCEPT ![s] = ok]
  /\ place' = [place EXCEPT ![s] =
       IF i < message[s].packets THEN "send" ELSE IF ok THEN "recv" ELSE "wait"]
  /\ UNCHANGED <<setting, lost, caller>>

\* After each packet send looks for a datagram, without waiting.
PollNothing(s) ==
  /\ place[s] = "poll"
  /\ Continue(s, index[s] + 1, success[s])
  /\ UNCHANGED <<net, unfinished>>

PollResend(s, i) ==
  /\ place[s] = "poll" /\ AboutMine(s, net[s][i])
  /\ net[s][i].next = ResendId
  /\ Continue(s, net[s][i].id, success[s])
  /\ Consume(s, i)

\* What else is about this message: an acknowledgement counts, anything else
\* is thrown away.
PollMine(s, i) ==
  /\ place[s] = "poll" /\ AboutMine(s, net[s][i])
  /\ net[s][i].next # ResendId
  /\ Continue(s, index[s] + 1, success[s] \/ net[s][i].id = AckId)
  /\ Consume(s, i)

PollOther(s, i) ==
  /\ place[s] = "poll" /\ ~AboutMine(s, net[s][i])
  /\ Continue(s, index[s] + 1, success[s])
  /\ InsertCheck(s, i)

\* Then send waits; what is about this message and no acknowledgement is
\* taken as a request to resend, whatever it is.
WaitAck(s, i) ==
  /\ place[s] = "wait" /\ AboutMine(s, net[s][i])
  /\ net[s][i].id = AckId
  /\ Continue(s, index[s], TRUE)
  /\ Consume(s, i)

WaitResend(s, i) ==
  /\ place[s] = "wait" /\ AboutMine(s, net[s][i])
  /\ net[s][i].id # AckId
  /\ Continue(s, net[s][i].id, FALSE)
  /\ Consume(s, i)

WaitOther(s, i) ==
  /\ place[s] = "wait" /\ ~AboutMine(s, net[s][i])
  /\ InsertCheck(s, i)
  /\ UNCHANGED <<setting, lost, caller, place, index, success>>

\* 200 ms without an acknowledgement: send returns 0 all the same.
WaitTimeout(s) ==
  /\ place[s] = "wait"
  /\ Elapsed
  /\ place' = [place EXCEPT ![s] = "recv"]
  /\ UNCHANGED <<setting, net, lost, caller, unfinished, index, success>>

-----------------------------------------------------------------------------
(* recv.                                                                   *)

\* (Slip: the entry is not erased.)
TakeOutKept(s, table, k) ==
  /\ received' = [received EXCEPT ![s] =
       [from |-> k[1], body |-> table[k].body, whole |-> table[k].start = "whole"]]
  /\ unfinished' = [unfinished EXCEPT ![s] = table]
  /\ handed' = handed \cup {<<s, k[1], k[2]>>}
  /\ place' = [place EXCEPT ![s] = "got"]
  /\ UNCHANGED <<setting, lost, msgIdGen, message, index, success>>

\* A complete message is taken from the table.
TakeOut(s, table, k) ==
  /\ received' = [received EXCEPT ![s] =
       [from |-> k[1], body |-> table[k].body, whole |-> table[k].start = "whole"]]
  /\ unfinished' = [unfinished EXCEPT ![s] =
       [x \in DOMAIN table \ {k} |-> table[x]]]
  /\ handed' = handed \cup {<<s, k[1], k[2]>>}
  /\ place' = [place EXCEPT ![s] = "got"]
  /\ UNCHANGED <<setting, lost, msgIdGen, message, index, success>>

\* The message was completed during a send: this call has read no packet, and
\* next_id and flags, which decide on the acknowledgement, are not set.
RecvReady(s, k) ==
  /\ place[s] = "recv"
  /\ Complete(unfinished[s], k)
  /\ TakeOut(s, unfinished[s], k)
  /\ \E acks \in {<<>>, <<Ack(s, k)>>} : net' = [net EXCEPT ![k[1]] = @ \o acks]

\* The packet that completes a message, which is then handed over and
\* acknowledged.
RecvLast(s, i) ==
  LET d == net[s][i]
      table == Noted(unfinished[s], d) IN
  /\ place[s] = "recv"
  /\ NothingComplete(s)
  /\ Complete(table, Key(d))
  /\ TakeOut(s, table, Key(d))
  /\ Exchange(s, i, <<Ack(s, Key(d))>>)

RecvOther(s, i) ==
  /\ place[s] = "recv"
  /\ NothingComplete(s)
  /\ ~Complete(Noted(unfinished[s], net[s][i]), Key(net[s][i]))
  /\ InsertCheck(s, i)
  /\ UNCHANGED <<setting, lost, caller, place, index, success>>

\* An entry that has waited 100 ms: its next packet is asked for.
RecvAsk(s, k) ==
  /\ place[s] = "recv"
  /\ ~Complete(unfinished[s], k)
  /\ Elapsed
  /\ net' = [net EXCEPT ![k[1]] = Append(@, Resend(s, k, unfinished[s][k].next))]
  /\ UNCHANGED <<setting, lost, caller, unfinished, place, index, success>>

-----------------------------------------------------------------------------

Take(s, i) ==
  \/ PollResend(s, i) \/ PollMine(s, i) \/ PollOther(s, i)
  \/ WaitAck(s, i) \/ WaitResend(s, i) \/ WaitOther(s, i)
  \/ RecvLast(s, i) \/ RecvOther(s, i)

UdpStep(s) ==
  \/ SendPacket(s) \/ PollNothing(s) \/ WaitTimeout(s)
  \/ \E i \in Arriving(s) : Take(s, i)
  \/ \E k \in DOMAIN unfinished[s] : RecvReady(s, k) \/ RecvAsk(s, k)

\* The network loses a datagram.
Lose(s) ==
  /\ Len(lost) < setting.losses
  /\ \E i \in DOMAIN net[s] :
       /\ net' = [net EXCEPT ![s] = RemoveAt(@, i)]
       /\ lost' = Append(lost, net[s][i])
  /\ UNCHANGED <<setting, caller, unfinished, place, index, success>>
=============================================================================
