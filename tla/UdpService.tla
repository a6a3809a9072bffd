----------------------------- MODULE UdpService -----------------------------
(* The commands that go over UDP (register, whoami, list-chatroom): the      *)
(* client's calls, dispatchUDP and its handlers, and the table of users, on   *)
(* top of the sockets of ReliableUDP.                                         *)
EXTENDS ReliableUDP

CONSTANTS Users,
          MaxReplies     \* bound: the messages the server sends

ASSUME ServiceAssumption == None \notin Users /\ MaxReplies \in Nat

VARIABLES taken,      \* the table of users: the call that registered each
          asked,      \* the command each client waits to see answered
          outcome,    \* what its first execution gave (history)
          answered    \* the answer each client took last

vars == <<udpVars, taken, asked, outcome, answered>>
service == <<taken, asked, outcome, answered>>

Promise == INSTANCE AccountCalls WITH Numbers <- 0 .. MaxCalls - 1

Init ==
  /\ UdpInit
  /\ Promise!Init

-----------------------------------------------------------------------------
(* The client: on_C_register, on_C_whoami, on_C_listChatroom.              *)

Requests(c) ==
  [client : {c}, number : {msgIdGen[c]}, op : {"register"}, name : Users]
  \cup [client : {c}, number : {msgIdGen[c]}, op : {"whoami", "list-chatroom"},
        name : {None}]

Ask(c) ==
  /\ c \in setting.clients
  /\ place[c] = "idle"
  /\ msgIdGen[c] < setting.calls
  /\ \E request \in Requests(c) :
       /\ asked' = [asked EXCEPT ![c] = request]
       /\ StartSend(c, Server, request, 1)
  /\ UNCHANGED <<taken, outcome, answered>>

\* recv(nullptr, ...): whatever message comes is taken as the answer.
TakeAnswer(c) ==
  /\ place[c] = "got"
  /\ answered' = [answered EXCEPT ![c] =
       IF received[c].whole THEN received[c].body
       ELSE [call |-> None, outcome |-> None]]
  /\ asked' = [asked EXCEPT ![c] = None]
  /\ outcome' = [outcome EXCEPT ![c] = None]
  /\ place' = [place EXCEPT ![c] = "idle"]
  /\ UNCHANGED <<setting, net, lost, caller, unfinished, index, success, taken>>

-----------------------------------------------------------------------------
(* The server: dispatchUDP.                                                *)

\* on_C_register, on_C_whoami, on_C_list_chatroom.  What a message does whose
\* bytes are not a request's is not followed.
Serve ==
  /\ place[Server] = "got"
  /\ received[Server].whole
  /\ msgIdGen[Server] < setting.firstReply + MaxReplies
  /\ LET call == received[Server].body
         client == received[Server].from IN
       /\ taken' = Promise!Registered(taken, call)
       /\ outcome' = IF asked[client] = call
                     THEN [outcome EXCEPT ![client] = Promise!Outcome(taken, call)]
                     ELSE outcome
       /\ StartSend(Server, client,
                    [call |-> call, outcome |-> Promise!Outcome(taken, call)],
                    IF call.op = "list-chatroom" THEN setting.listPackets ELSE 1)
  /\ UNCHANGED <<asked, answered>>

\* addUser throws on every error of sqlite but a name in use (a quote in the
\* command is enough); nothing catches it, and the process ends.
Terminate ==
  /\ setting.refused
  /\ place[Server] = "got"
  /\ received[Server].whole /\ received[Server].body.op = "register"
  /\ place' = [place EXCEPT ![Server] = "terminated"]
  /\ UNCHANGED <<setting, net, lost, caller, unfinished, index, success, service>>

Next ==
  \/ \E s \in Sockets : (UdpStep(s) \/ Lose(s)) /\ UNCHANGED service
  \/ \E c \in Clients : Ask(c) \/ TakeAnswer(c)
  \/ Serve \/ Terminate

Spec == Init /\ [][Next]_vars

\* Every thread runs on: the sockets' loops, dispatchUDP and the client's
\* handler.  Users need not give commands.
Fairness ==
  /\ \A s \in Sockets : WF_vars(UdpStep(s) /\ UNCHANGED service)
  /\ \A c \in Clients : WF_vars(TakeAnswer(c))
  /\ WF_vars(Serve)

FairSpec == Spec /\ Fairness

-----------------------------------------------------------------------------
(* Properties.                                                             *)

Replies == [call : Promise!Calls, outcome : {"shown", "registered", "already used"}]

\* "None" is nothing that is said.
ASSUME NoneAssumption ==
  None \notin Promise!Calls \cup Replies \cup {"shown", "registered", "already used"}

Bodies == {None} \cup Promise!Calls \cup Replies
Packets == [from : Sockets, to : Sockets, msgid : Nat, id : Int, next : Int, body : Bodies]
Entries == [next : Int, body : Bodies, start : {"part", "whole", "neither"}]

\* Every variable has its type, and what is on its way to a socket is addressed
\* to it (UDP_socket's members, the locals of send and recv, the users).
TypeOK ==
  /\ setting \in Settings
  /\ lost \in Seq(Packets)
  /\ \A s \in Sockets :
       /\ net[s] \in Seq(Packets)
       /\ \A i \in DOMAIN net[s] : net[s][i].to = s
       /\ \A k \in DOMAIN unfinished[s] :
            k \in Sockets \X Nat /\ unfinished[s][k] \in Entries
       /\ message[s] \in [to : Sockets \cup {None}, msgid : Nat, body : Bodies,
                          packets : Nat \ {0}]
       /\ received[s] \in {None} \cup [from : Sockets, body : Bodies, whole : BOOLEAN]
  /\ msgIdGen \in [Sockets -> Nat]
  /\ place \in [Sockets -> {"idle", "send", "poll", "wait", "recv", "got", "terminated"}]
  /\ index \in [Sockets -> Int]
  /\ success \in [Sockets -> BOOLEAN]
  /\ handed \subseteq Sockets \X Sockets \X Nat
  /\ taken \in [Users -> Promise!Calls \cup {None}]
  /\ asked \in [Clients -> Promise!Calls \cup {None}]
  /\ outcome \in [Clients -> {None, "shown", "registered", "already used"}]
  /\ answered \in [Clients -> {None} \cup [call : Promise!Calls \cup {None},
                    outcome : {None, "shown", "registered", "already used"}]]

\* An acknowledgement is the word of the other side's recv: a send that took
\* one has had that very message handed over, whatever was late, lost or
\* repeated (send, recv).
AcksMeanHanded ==
  \A s \in Sockets : success[s] =>
    <<message[s].to, s, message[s].msgid>> \in handed

\* What recv hands over is one message from its first packet to its last,
\* although packets are repeated and the table mixes senders (insert_check,
\* recv).
WholeMessages ==
  \A s \in Sockets : place[s] = "got" => received[s].whole

\* Seen from the clients, a command takes effect once between its sending and
\* its answer, and the answer is the one to that command: register, whoami and
\* list-chatroom implement the calls of AccountCalls (dispatchUDP and the
\* client's handlers, which take any message as the answer).
EffectOnce == Promise!Spec

\* A reply may bear the number of the command that its client is sending.
SharedNumbers == setting.firstReply < setting.calls

\* Where datagrams are delayed at will, the timers can always be quicker than the
\* packets of a longer reply, and go on asking.
Outrun == ~setting.orderly /\ setting.listPackets > 1

\* The loss of one datagram, be it an acknowledgement, a request to resend or
\* a packet before the last, leaves no command unanswered (the timers of send
\* and recv); while the two directions share numbers, any loss may.
Answered ==
  \A c \in Clients :
    asked[c] # None ~> \/ asked[c] = None
                       \/ \E i \in DOMAIN lost : lost[i].next = NoNext
                       \/ Len(lost) > IF SharedNumbers THEN 0 ELSE 1
                       \/ place[Server] = "terminated"
                       \/ Outrun

\* "You have to send this command and get associated message by UDP" (the
\* assignment, of list-chatroom): what a client takes as the answer is the
\* server's answer to the command it gave.
AssociatedAnswer ==
  \A c \in Clients : place[c] = "got" =>
    received[c].whole /\ received[c].body.call = asked[c]
=============================================================================
