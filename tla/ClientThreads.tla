--------------------------- MODULE ClientThreads ---------------------------
(***************************************************************************)
(* The threads of a client's process: the main thread of client.cpp, which *)
(* runs the user's commands, the thread that receives while the user is in *)
(* a room, and the listener of the user's own room (server_part.cpp).      *)
(*                                                                         *)
(* They share mode, chat_TCPsock, chat_listen_so and chat_server_ready,    *)
(* with no lock but the mutex of the condition variable, which the         *)
(* listener does not take.  Each use of one of these variables is a step.  *)
(* A socket object is its number; the heap holds the objects that are not  *)
(* deleted.  What is done through a null pointer or to a deleted object is *)
(* not followed any further, nor is the process once error() has ended it. *)
(*                                                                         *)
(* Of a room's frames only the orders to exit change what these threads    *)
(* do; ChatRoom has the rest, and the rooms that others join.              *)
(***************************************************************************)
EXTENDS Integers, FiniteSets, SequencesExt

CONSTANTS
  MaxVisits,  \* bound: how often a room is entered
  MaxOpened,  \* bound: how often the own room is opened
  MaxUnread,  \* bound: the commands and orders that wait on a connection
  None

ASSUME ClientThreadsAssumption ==
  {MaxVisits, MaxOpened, MaxUnread} \subseteq Nat \ {0}

Visits == 1 .. MaxVisits
Listeners == 1 .. MaxOpened
Chat(v) == <<"chat", v>>    \* the socket object of a visit
Server(l) == <<"server", l>>  \* the listening socket object of a listener
Stop == 0  \* in a queue, the connection that stops the listener
Objects == {Chat(v) : v \in Visits} \cup {Server(l) : l \in Listeners}

ASSUME NoneAssumption == None \notin Objects

VARIABLES
  fate,        \* the process: "running", "exited", "refused" by another's room,
               \* or "undefined"
  hasty,       \* whether a command came before its window was over (history)
  main,        \* where the main thread is, and the command it runs
  mode,        \* "bbs" or "chat"
  sock,        \* chat_TCPsock
  heap,        \* the socket objects that are not deleted
  receiver,    \* each visit's recvMessage: its place, the object it waits for
  ready,       \* chat_server_ready
  listener,    \* each server_listener: its place, the object it waits for
  listenSock,  \* chat_listen_so
  bound,       \* the listening sockets that have the port
  queue,       \* per listening socket, what it has yet to accept
  conn,        \* each visit's connection, the commands and the orders on it
  room         \* the own room at the BBS: "none", "open" or "closed"

front == <<main, mode, sock, receiver>>
back == <<ready, listener, listenSock>>
net == <<bound, queue, conn>>
vars == <<fate, hasty, front, heap, back, net, room>>

Init ==
  /\ fate = "running"
  /\ hasty = FALSE
  /\ main = [at |-> "prompt", command |-> None]
  /\ mode = "bbs"
  /\ sock = None
  /\ heap = {}
  /\ receiver = [v \in Visits |-> [at |-> "none", on |-> None]]
  /\ ready = FALSE
  /\ listener = [l \in Listeners |-> [at |-> "none", on |-> None]]
  /\ listenSock = None
  /\ bound = {}
  /\ queue = [s \in Objects |-> <<>>]
  /\ conn = [v \in Visits |-> [at |-> "off", own |-> FALSE, sent |-> <<>>, orders |-> <<>>]]
  /\ room = "none"

Visited == Cardinality({v \in Visits : conn[v].at # "off"})
Opened == Cardinality({l \in Listeners : listener[l].at # "none"})

\* The process does not go on.
Abort(how) == fate' = how /\ UNCHANGED <<front, heap, back, net, room>>

\* What uses an object through a pointer.
Through(pointer, use) ==
  IF pointer \in heap THEN use /\ UNCHANGED fate ELSE Abort("undefined")

Main(place) == fate = "running" /\ main.at = place
MainTo(place) == main' = [main EXCEPT !.at = place]

-----------------------------------------------------------------------------
(* The user.                                                               *)

BbsCommands == {"create", "restart", "attach", "join"}
ChatCommands == {"leave", "detach", "line"}

\* The two windows in which a command of the BBS meets a thread that is not done:
\* mode is MODE_BBS already, but the receiving thread has yet to delete the socket and
\* to clear the pointer; or the listener of the closed room still has its port.
Closing ==
  \/ \E s \in Objects : Stop \in ToSet(queue[s])
  \/ \E l \in Listeners : listener[l].at \in {"delete", "null", "unready"}
TooEarly(command) ==
  \/ command \in BbsCommands /\ \E v \in Visits : receiver[v].at \in {"delete", "null"}
  \/ command = "restart" /\ Closing

Unread(v) == Len(conn[v].sent) + Len(conn[v].orders)

\* The user types whatever and whenever; what belongs to the other mode is refused, or
\* a line.
Type(command) ==
  /\ Main("prompt")
  /\ command \in BbsCommands => Visited < MaxVisits
  /\ command \in {"create", "restart"} => Opened < MaxOpened
  /\ \/ /\ mode = "bbs" /\ command \in BbsCommands
        /\ main' = [at |-> "ask", command |-> command]
     \/ /\ mode = "chat" /\ command \in ChatCommands
        /\ command # "line" => Unread(Visited) < MaxUnread
        /\ main' = [at |-> "send", command |-> command]
  /\ hasty' = (hasty \/ TooEarly(command))
  /\ UNCHANGED <<fate, mode, sock, receiver, heap, back, net, room>>

-----------------------------------------------------------------------------
(* The main thread.                                                        *)

\* The BBS answers; the name of another's room may be unknown.
Refuse ==
  /\ Main("ask")
  /\ CASE main.command = "create" -> room # "none"
       [] main.command = "restart" -> room # "closed"
       [] main.command = "attach" -> room # "open"
       [] main.command = "join" -> TRUE
  /\ main' = [at |-> "prompt", command |-> None]
  /\ UNCHANGED <<fate, mode, sock, receiver, heap, back, net, room>>

\* The room is now open, and startServer starts its listener.
StartServer ==
  /\ Main("ask")
  /\ \/ main.command = "create" /\ room = "none"
     \/ main.command = "restart" /\ room = "closed"
  /\ room' = "open"
  /\ listener' = [listener EXCEPT ![Opened + 1].at = "new"]
  /\ MainTo("test")
  /\ UNCHANGED <<fate, mode, sock, receiver, heap, ready, listenSock, net>>

Attach ==
  /\ Main("ask")
  /\ \/ main.command = "attach" /\ room = "open"
     \/ main.command = "join"
  /\ MainTo("start")
  /\ UNCHANGED <<fate, mode, sock, receiver, heap, back, net, room>>

\* cv.wait: the condition is tested, the thread sleeps, and tests it again.  Or
\* it is not tested.
NoCondition == TRUE
Condition == ready

TestCondition ==
  /\ Main("test")
  /\ MainTo(IF Condition THEN "start" ELSE "block")
  /\ UNCHANGED <<fate, mode, sock, receiver, heap, back, net, room>>

Sleep ==
  /\ Main("block")
  /\ MainTo("asleep")
  /\ UNCHANGED <<fate, mode, sock, receiver, heap, back, net, room>>

\* A condition variable may wake who waits for no reason.
SpuriousWake ==
  /\ Main("asleep")
  /\ MainTo("test")
  /\ UNCHANGED <<fate, mode, sock, receiver, heap, back, net, room>>

\* startChat.
StartChat ==
  /\ Main("start")
  /\ mode' = "chat"
  /\ MainTo("new")
  /\ UNCHANGED <<fate, sock, receiver, heap, back, net, room>>

NewSocket ==
  /\ Main("new")
  /\ LET v == Visited + 1 IN
       /\ sock' = Chat(v)
       /\ heap' = heap \cup {Chat(v)}
       /\ conn' = [conn EXCEPT ![v].at = "new", ![v].own = main.command # "join"]
  /\ MainTo("connect")
  /\ UNCHANGED <<fate, mode, receiver, back, bound, queue, room>>

\* Who connects to the own port finds the socket that has it.  A connection that is
\* refused ends the process: another's room may have closed since the BBS answered.
Connect ==
  /\ Main("connect")
  /\ IF sock \in heap /\ conn[Visited].own /\ bound = {} THEN Abort("exited")
     ELSE \/ sock \in heap /\ ~conn[Visited].own /\ Abort("refused")
          \/ Through(sock,
               /\ queue' = IF conn[Visited].own
                           THEN [s \in Objects |-> IF s \in bound THEN Append(queue[s], Visited)
                                                   ELSE queue[s]]
                           ELSE queue
               /\ MainTo("join")
               /\ UNCHANGED <<mode, sock, receiver, heap, back, bound, conn, room>>)

\* TYPE_JOIN_CHATROOM is sent and the receiving thread started.
Join ==
  /\ Main("join")
  /\ Through(sock,
       /\ conn' = [conn EXCEPT ![Visited].at = CASE @ = "cut" -> "cut"
                                                 [] conn[Visited].own -> "joined"
                                                 [] OTHER -> "served"]
       /\ receiver' = [receiver EXCEPT ![Visited].at = "loop"]
       /\ main' = [at |-> "prompt", command |-> None]
       /\ UNCHANGED <<mode, sock, heap, back, bound, queue, room>>)

\* In a room: leave-chatroom, detach, and sendMessage, which asks for nothing.
SendCommand ==
  /\ Main("send")
  /\ Through(sock,
       /\ conn' = IF main.command = "line" THEN conn
                  ELSE [conn EXCEPT ![sock[2]].sent = Append(@, main.command)]
       /\ main' = [at |-> "prompt", command |-> None]
       /\ UNCHANGED <<mode, sock, receiver, heap, back, bound, queue, room>>)

RunMain ==
  \/ Refuse \/ StartServer \/ Attach \/ TestCondition \/ Sleep \/ StartChat
  \/ NewSocket \/ Connect \/ Join \/ SendCommand

-----------------------------------------------------------------------------
(* The receiving thread of a visit.                                        *)

Receiver(v, place) == fate = "running" /\ receiver[v].at = place
ReceiverTo(v, place) == receiver' = [receiver EXCEPT ![v].at = place]

\* recv on whatever chat_TCPsock points to.
CallRecv(v) ==
  /\ Receiver(v, "loop")
  /\ Through(sock,
       /\ receiver' = [receiver EXCEPT ![v] = [at |-> "reading", on |-> sock]]
       /\ UNCHANGED <<main, mode, sock, heap, back, net, room>>)

\* The order to exit; a connection that is cut ends the thread, and no more.
Receive(v) ==
  /\ Receiver(v, "reading")
  /\ LET c == receiver[v].on[2] IN
       /\ conn[c].orders # <<>>
       /\ conn' = [conn EXCEPT ![c].orders = Tail(@)]
       /\ ReceiverTo(v, CASE Head(conn[c].orders) = "close" -> "ask"
                          [] Head(conn[c].orders) = "leave" -> "back"
                          [] Head(conn[c].orders) = "cut" -> "ended")
  /\ UNCHANGED <<fate, main, mode, sock, heap, back, bound, queue, room>>

\* The BBS closes the room; the listener is told through its own port.
CloseStatus(v) ==
  /\ Receiver(v, "ask")
  /\ room' = "closed"
  /\ ReceiverTo(v, "tell")
  /\ UNCHANGED <<fate, main, mode, sock, heap, back, net>>

TellListener(v) ==
  /\ Receiver(v, "tell")
  /\ IF bound = {} THEN Abort("exited")
     ELSE /\ queue' = [s \in Objects |-> IF s \in bound THEN Append(queue[s], Stop)
                                         ELSE queue[s]]
          /\ ReceiverTo(v, "back")
          /\ UNCHANGED <<fate, main, mode, sock, heap, back, bound, conn, room>>

BackToBbs(v) ==
  /\ Receiver(v, "back")
  /\ mode' = "bbs"
  /\ ReceiverTo(v, "delete")
  /\ UNCHANGED <<fate, main, sock, heap, back, net, room>>

\* delete does nothing to a null pointer.
DeleteSocket(v) ==
  /\ Receiver(v, "delete")
  /\ IF sock \notin heap \cup {None} THEN Abort("undefined")
     ELSE /\ heap' = heap \ {sock}
          /\ ReceiverTo(v, "null")
          /\ UNCHANGED <<fate, main, mode, sock, back, net, room>>

\* What the thread throws ends its loop; or the loop goes on.
GoOn == "loop"
ThrowExit == "ended"

ForgetSocket(v) ==
  /\ Receiver(v, "null")
  /\ sock' = None
  /\ ReceiverTo(v, ThrowExit)
  /\ UNCHANGED <<fate, main, mode, heap, back, net, room>>

RunReceiver(v) ==
  \/ CallRecv(v) \/ Receive(v) \/ CloseStatus(v) \/ TellListener(v) \/ BackToBbs(v)
  \/ DeleteSocket(v) \/ ForgetSocket(v)

-----------------------------------------------------------------------------
(* The listener of the own room.                                           *)

Listener(l, place) == fate = "running" /\ listener[l].at = place
ListenerTo(l, place) == listener' = [listener EXCEPT ![l].at = place]

NewListenSocket(l) ==
  /\ Listener(l, "new")
  /\ listenSock' = Server(l)
  /\ heap' = heap \cup {Server(l)}
  /\ ListenerTo(l, "bind")
  /\ UNCHANGED <<fate, front, ready, net, room>>

\* bind ends the process while another socket has the port.
BindAndListen(l) ==
  /\ Listener(l, "bind")
  /\ IF bound # {} /\ listenSock \in heap THEN Abort("exited")
     ELSE Through(listenSock,
       /\ bound' = {listenSock}
       /\ ListenerTo(l, "ready")
       /\ UNCHANGED <<front, heap, ready, listenSock, queue, conn, room>>)

SetReady(l) ==
  /\ Listener(l, "ready")
  /\ ready' = TRUE
  /\ ListenerTo(l, "notify")
  /\ UNCHANGED <<fate, front, heap, listenSock, net, room>>

\* notify_all wakes the main thread if it sleeps already.
Notify(l) ==
  /\ Listener(l, "notify")
  /\ main' = IF main.at = "asleep" THEN [main EXCEPT !.at = "test"] ELSE main
  /\ ListenerTo(l, "accept")
  /\ UNCHANGED <<fate, mode, sock, receiver, heap, ready, listenSock, net, room>>

\* accept on whatever chat_listen_so points to; it fails if that does not listen.
CallAccept(l) ==
  /\ Listener(l, "accept")
  /\ IF listenSock \in heap \ bound THEN Abort("exited")
     ELSE Through(listenSock,
       /\ listener' = [listener EXCEPT ![l] = [at |-> "waiting", on |-> listenSock]]
       /\ UNCHANGED <<front, heap, ready, listenSock, net, room>>)

\* The first message of the connection says what it is for.
Admit(l) ==
  /\ Listener(l, "waiting")
  /\ LET s == listener[l].on IN
       /\ queue[s] # <<>>
       /\ Head(queue[s]) # Stop
       /\ conn[Head(queue[s])].at = "joined"
       /\ queue' = [queue EXCEPT ![s] = Tail(@)]
       /\ conn' = [conn EXCEPT ![Head(queue[s])].at = "served"]
  /\ ListenerTo(l, "accept")
  /\ UNCHANGED <<fate, front, heap, ready, listenSock, bound, room>>

TakeClose(l) ==
  /\ Listener(l, "waiting")
  /\ LET s == listener[l].on IN
       /\ queue[s] # <<>>
       /\ Head(queue[s]) = Stop
       /\ queue' = [queue EXCEPT ![s] = Tail(@)]
  /\ ListenerTo(l, "delete")
  /\ UNCHANGED <<fate, front, heap, ready, listenSock, bound, conn, room>>

\* The port goes with the socket; or it is kept.
PortKept(s) == bound
PortGiven(s) == bound \ {s}

\* Who waits to be accepted is cut off.
DeleteListenSocket(l) ==
  /\ Listener(l, "delete")
  /\ IF listenSock \notin heap \cup {None} THEN Abort("undefined")
     ELSE /\ heap' = heap \ {listenSock}
          /\ bound' = PortGiven(listenSock)
          /\ queue' = [s \in Objects |-> IF s = listenSock THEN <<>> ELSE queue[s]]
          /\ conn' = [v \in Visits |->
               IF listenSock # None /\ v \in ToSet(queue[listenSock])
               THEN [conn[v] EXCEPT !.at = "cut", !.orders = Append(@, "cut")]
               ELSE conn[v]]
          /\ ListenerTo(l, "null")
          /\ UNCHANGED <<fate, front, ready, listenSock, room>>

ForgetListenSocket(l) ==
  /\ Listener(l, "null")
  /\ listenSock' = None
  /\ ListenerTo(l, "unready")
  /\ UNCHANGED <<fate, front, heap, ready, net, room>>

\* chat_server_ready when the room is closed; and if it were left as it is.
StillReady == ready
ReadyWhenClosed == FALSE

Unready(l) ==
  /\ Listener(l, "unready")
  /\ ready' = ReadyWhenClosed
  /\ ListenerTo(l, "ended")
  /\ UNCHANGED <<fate, front, heap, listenSock, net, room>>

RunListener(l) ==
  \/ NewListenSocket(l) \/ BindAndListen(l) \/ SetReady(l) \/ Notify(l) \/ CallAccept(l)
  \/ Admit(l) \/ TakeClose(l) \/ DeleteListenSocket(l) \/ ForgetListenSocket(l) \/ Unready(l)

-----------------------------------------------------------------------------
(* The chat servers, the own and those of others.                          *)

\* What a chat server answers: the owner's leaving closes the room, and a guest
\* cannot detach.  Or it has no answer for the owner either.
NoDetach(command, own) ==
  IF command = "leave" THEN IF own THEN <<"close">> ELSE <<"leave">> ELSE <<>>
Answer(command, own) ==
  IF command = "leave" THEN IF own THEN <<"close">> ELSE <<"leave">>
  ELSE IF own THEN <<"leave">> ELSE <<>>

ServeCommand(v) ==
  /\ fate = "running"
  /\ conn[v].at = "served"
  /\ conn[v].sent # <<>>
  /\ conn' = [conn EXCEPT ![v].sent = Tail(@),
                          ![v].orders = @ \o Answer(Head(conn[v].sent), conn[v].own),
                          ![v].at = IF Head(conn[v].sent) = "leave" THEN "done" ELSE @]
  /\ UNCHANGED <<fate, front, heap, back, bound, queue, room>>

\* The owner of another's room closes it, and sends everyone away.
SendAway(v) ==
  /\ fate = "running"
  /\ conn[v].at = "served" /\ ~conn[v].own
  /\ conn' = [conn EXCEPT ![v].orders = Append(@, "leave"), ![v].at = "done"]
  /\ UNCHANGED <<fate, front, heap, back, bound, queue, room>>

Next ==
  \/ \E command \in BbsCommands \cup ChatCommands : Type(command)
  \/ /\ \/ RunMain
        \/ SpuriousWake
        \/ \E v \in Visits : RunReceiver(v) \/ ServeCommand(v) \/ SendAway(v)
        \/ \E l \in Listeners : RunListener(l)
     /\ UNCHANGED hasty

\* The threads run.  Nobody must type, and nothing wakes a thread for no reason.
Fairness ==
  /\ WF_vars(RunMain /\ UNCHANGED hasty)
  /\ \A v \in Visits : /\ WF_vars(RunReceiver(v) /\ UNCHANGED hasty)
                       /\ WF_vars(ServeCommand(v) /\ UNCHANGED hasty)
  /\ \A l \in Listeners : WF_vars(RunListener(l) /\ UNCHANGED hasty)

Spec == Init /\ [][Next]_vars /\ Fairness

-----------------------------------------------------------------------------
(* Properties.                                                             *)

\* The sets of the program's variables.
Types ==
  /\ fate \in {"running", "exited", "refused", "undefined"}
  /\ main \in [at : {"prompt", "ask", "test", "block", "asleep", "start", "new", "connect",
                     "join", "send"},
               command : BbsCommands \cup ChatCommands \cup {None}]
  /\ mode \in {"bbs", "chat"}
  /\ sock \in {Chat(v) : v \in Visits} \cup {None}
  /\ heap \subseteq Objects
  /\ receiver \in [Visits -> [at : {"none", "loop", "reading", "ask", "tell", "back",
                                    "delete", "null", "ended"},
                              on : {Chat(v) : v \in Visits} \cup {None}]]
  /\ ready \in BOOLEAN
  /\ listener \in [Listeners -> [at : {"none", "new", "bind", "ready", "notify", "accept",
                                       "waiting", "delete", "null", "unready", "ended"},
                                 on : {Server(l) : l \in Listeners} \cup {None}]]
  /\ listenSock \in {Server(l) : l \in Listeners} \cup {None}
  /\ bound \subseteq heap
  /\ queue \in [Objects -> Seq(Visits \cup {Stop})]
  /\ conn \in [Visits -> [at : {"off", "new", "joined", "served", "done", "cut"},
                          own : BOOLEAN,
                          sent : Seq({"leave", "detach"}),
                          orders : Seq({"leave", "close", "cut"})]]
  /\ room \in {"none", "open", "closed"}

\* The variables stay in their sets (startClient, recvMessage, server_listener).
TypeOK == Types /\ hasty \in BOOLEAN

\* What follows a command that came too early is followed where a run asks for it.
InTime == ~hasty

\* Three threads share two pointers without a lock, and the only ways to a deleted
\* object or to a null pointer are a command of the BBS in one of its two windows, and
\* what the main thread sends into a room that its receiver is leaving (startClient,
\* recvMessage, server_listener).
StrayOnlyTyped ==
  fate = "undefined" =>
    \/ hasty
    \/ /\ main.at = "send" /\ sock \notin heap
       /\ \A v \in Visits : receiver[v].at \in {"none", "null", "ended"}
       /\ \A l \in Listeners :
            listener[l].at \in {"bind", "accept", "delete"} => listenSock \in heap

\* Opening, closing and entering the own room end the process for nobody who waits for
\* the windows to pass: nobody connects before the port listens, or binds before the
\* old listener let it go (create-chatroom, restart-chatroom, server_listener).
NoRefusal == fate = "exited" => hasty

\* leave-chatroom, and the owner's detach, bring the user back to the BBS, if no command
\* that comes too early ends the process.
BackAfterLeaving ==
  \A v \in Visits :
    conn[v].own /\ conn[v].sent # <<>> /\ receiver[v].at \in {"loop", "reading"} ~>
      (receiver[v].at = "ended" /\ mode = "bbs") \/ hasty \/ fate # "running"

\* A room that is closed at the BBS gives back its port and its listener ends,
\* ready to be restarted (recvMessage, server_listener).
ClosedRoomReleased ==
  room = "closed" ~> (bound = {} /\ ~ready) \/ hasty \/ fate # "running"

\* leave-chatroom: "Switch mode to the original server (BBS)" (the assignment).  The
\* process that is told to goes on, whatever its user types meanwhile.
NoStrayPointer == fate # "undefined"

\* "After getting a response from the server [...], the client-side starts to create
\* a chatroom Server" (the assignment), and its owner is in it: create-chatroom and
\* restart-chatroom do not wait for ever.
OwnerEnters == (main.at = "test") ~> (mode = "chat")
=============================================================================
