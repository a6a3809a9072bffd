------------------------------ MODULE ChatRoom ------------------------------
(***************************************************************************)
(* A chatroom: the chat server of server_part.cpp, which runs in the       *)
(* owner's client process, and the clients in the room.                    *)
(*                                                                         *)
(* The listener takes the connections in the order of their arrival and    *)
(* starts a thread for each; conn_mux guards the list of the connected,    *)
(* msg_mux the latest records.  A step under msg_mux is one action; a      *)
(* broadcast sends to one client per action, with conn_mux held.           *)
(*                                                                         *)
(* A connection is a member and the number of its visit.  TCP is a stream  *)
(* of frames each way; the stream to the client is kept as a whole.  A     *)
(* frame is two sends, its length and its body.  Both are one step where   *)
(* conn_mux is held; the greeting, which is sent without it, is a half     *)
(* frame and then the frame.                                               *)
(***************************************************************************)
EXTENDS Integers, SequencesExt

CONSTANTS
  Owner,      \* the owner's client, whose process is the chat server
  Guests,     \* the other clients
  Mortal,     \* the guests whose process may end while in the room
  Commands,   \* the commands that members use: "leave", "detach"
  Recent,     \* how many records a newcomer is shown: 3 in the code
  MaxVisits,  \* bound: the visits of each member
  MaxSaid,    \* bound: the lines that are typed in all
  MaxOpened,  \* bound: how often the room is opened
  None

ASSUME ChatRoomAssumption ==
  /\ Owner \notin Guests
  /\ Mortal \subseteq Guests
  /\ Commands \subseteq {"leave", "detach"}
  /\ Recent \in Nat \ {0}
  /\ {MaxVisits, MaxOpened} \subseteq Nat \ {0}
  /\ MaxSaid \in Nat

Members == Guests \cup {Owner}
Conns == Members \X (1 .. MaxVisits)
Listener == <<Owner, 0>>  \* the listener, and the connection that stops it
Threads == Conns \cup {Listener}
Name(c) == c[1]

VARIABLES
  process,     \* the owner's process: "up" or "gone"
  open,        \* the BBS's status of the room
  opened,      \* how often the room was opened
  listener,    \* where the listener is, and the connection it admits
  backlog,     \* connections not yet accepted
  connected,   \* the clients that are sent what is said
  connMux,     \* who holds conn_mux
  cast,        \* each thread's broadcast: the frame and the next receiver
  lastThree,   \* last_three: the latest records
  said,        \* every record since the process started
  thread,      \* each connection's thread, and the greeting it is to send
  toServer,    \* per connection, what the server has yet to read
  toClient,    \* per connection, all that was sent to the client so far
  typed,       \* how many lines were typed
  mode,        \* where each member's client is
  visits       \* the connections each member has made

server == <<listener, connected, connMux, cast, lastThree, said, thread>>
streams == <<toServer, toClient>>
clients == <<typed, mode, visits>>
vars == <<process, open, opened, backlog, server, streams, clients>>

\* What is sent to a client: what a member said or the system says of it, the
\* halves of a greeting, the order to leave or to close the room, and the end of
\* the stream.
Line(who, text, n) == [type |-> "line", who |-> who, text |-> text, number |-> n]
Lines == [type : {"line"}, who : Members, text : {"said", "detach", "join", "leave", "close"},
          number : Nat]
News(text, c) == Line(Name(c), text, c[2])
Half == [type |-> "half"]
Greeting(records) == [type |-> "greeting", records |-> records]
ExitRoom(action) == [type |-> "exit", action |-> action]
Reset == [type |-> "reset"]

ASSUME NoneAssumption == None \notin Threads \cup Lines

\* The room is open and its owner in it, greeted with nothing.
Init ==
  /\ process = "up"
  /\ open = TRUE
  /\ opened = 1
  /\ listener = [at |-> "accept", conn |-> None]
  /\ backlog = <<>>
  /\ connected = <<<<Owner, 1>>>>
  /\ connMux = None
  /\ cast = [t \in Threads |-> [frame |-> None, next |-> 1]]
  /\ lastThree = <<>>
  /\ said = <<>>
  /\ thread = [c \in Conns |->
                 [at |-> IF c = <<Owner, 1>> THEN "loop" ELSE "off", text |-> <<>>]]
  /\ toServer = [c \in Conns |-> <<>>]
  /\ toClient = [c \in Conns |->
                   IF c = <<Owner, 1>> THEN <<Half, Greeting(<<>>)>> ELSE <<>>]
  /\ typed = 0
  /\ mode = [m \in Members |-> IF m = Owner THEN "chat" ELSE "bbs"]
  /\ visits = [m \in Members |-> IF m = Owner THEN 1 ELSE 0]

-----------------------------------------------------------------------------
(* conn_mux and the broadcast.                                             *)

\* Every use of connected is under conn_mux; or every use but for what is said;
\* or the lock is not let go.
LocksButPosts(use) == use # "post"
Locks(use) == TRUE

Lock(t, use) ==
  IF Locks(use) THEN connMux = None /\ connMux' = t ELSE UNCHANGED connMux
KeepLock(t) == UNCHANGED connMux
Unlock(t) == connMux' = IF connMux = t THEN None ELSE connMux

Start(t, frame) == cast' = [cast EXCEPT ![t] = [frame |-> frame, next |-> 1]]
Sent(t) == cast[t].next > Len(connected)
Finish(t) == cast' = [cast EXCEPT ![t] = [frame |-> None, next |-> 1]]

Send(c, frame) == toClient' = [toClient EXCEPT ![c] = Append(@, frame)]

\* broadcastMSG, one receiver.
Broadcast(t) ==
  /\ process = "up"
  /\ cast[t].frame # None
  /\ ~Sent(t)
  /\ Send(connected[cast[t].next], cast[t].frame)
  /\ cast' = [cast EXCEPT ![t].next = @ + 1]
  /\ UNCHANGED <<process, open, opened, listener, backlog, connected, connMux,
                 lastThree, said, thread, toServer, clients>>

\* connected.erase; and a thread that ends without it.
Keep(c) == connected
Without(c) == RemoveFirst(connected, c)

-----------------------------------------------------------------------------
(* The listener.                                                           *)

\* A connection that ends before its client has joined ends the listener: the
\* missing type throws, out of the loop.
Accept ==
  /\ process = "up"
  /\ listener.at = "accept"
  /\ backlog # <<>>
  /\ LET c == Head(backlog) IN
       /\ c # Listener
       /\ toServer[c] # <<>>
       /\ listener' = IF Head(toServer[c]).type = "join"
                      THEN [at |-> "admit", conn |-> c]
                      ELSE [at |-> "failed", conn |-> None]
       /\ toServer' = [toServer EXCEPT ![c] = Tail(@)]
  /\ backlog' = Tail(backlog)
  /\ UNCHANGED <<process, open, opened, connected, connMux, cast, lastThree, said,
                 thread, toClient, clients>>

\* The owner closes the port; who waits to be accepted is cut off.
Stop ==
  /\ process = "up"
  /\ listener.at = "accept"
  /\ backlog # <<>>
  /\ Head(backlog) = Listener
  /\ listener' = [at |-> "off", conn |-> None]
  /\ backlog' = <<>>
  /\ toClient' = [c \in Conns |-> IF c \in ToSet(backlog) THEN Append(toClient[c], Reset)
                                  ELSE toClient[c]]
  /\ UNCHANGED <<process, open, opened, connected, connMux, cast, lastThree, said,
                 thread, toServer, clients>>

\* A guest is announced to the others; the owner is not.
Announce ==
  /\ process = "up"
  /\ listener.at = "admit"
  /\ Lock(Listener, "join")
  /\ Name(listener.conn) # Owner
  /\ Start(Listener, News("join", listener.conn))
  /\ listener' = [listener EXCEPT !.at = "send"]
  /\ UNCHANGED <<process, open, opened, backlog, connected, lastThree, said, thread,
                 streams, clients>>

Admit ==
  /\ process = "up"
  /\ \/ /\ listener.at = "admit"
        /\ Name(listener.conn) = Owner
        /\ connMux = None
        /\ UNCHANGED <<connMux, cast>>
     \/ /\ listener.at = "send"
        /\ Sent(Listener)
        /\ Unlock(Listener)
        /\ Finish(Listener)
  /\ connected' = Append(connected, listener.conn)
  /\ thread' = [thread EXCEPT ![listener.conn].at = "greet"]
  /\ listener' = [at |-> "accept", conn |-> None]
  /\ UNCHANGED <<process, open, opened, backlog, lastThree, said, streams, clients>>

-----------------------------------------------------------------------------
(* The thread of a connection.                                             *)

At(c, place) == process = "up" /\ thread[c].at = place
Goto(c, place) == thread' = [thread EXCEPT ![c].at = place]

\* The records are copied under msg_mux and sent without conn_mux.
Greet(c) ==
  /\ \/ /\ At(c, "greet")
        /\ thread' = [thread EXCEPT ![c] = [at |-> "half", text |-> lastThree]]
        /\ UNCHANGED toClient
     \/ /\ At(c, "half")
        /\ Send(c, Half)
        /\ Goto(c, "body")
     \/ /\ At(c, "body")
        /\ Send(c, Greeting(thread[c].text))
        /\ Goto(c, "loop")
  /\ UNCHANGED <<process, open, opened, listener, backlog, connected, connMux, cast,
                 lastThree, said, toServer, clients>>

\* The loop: the next command on the connection.
NextCommand(c) == Head(toServer[c])
Reading(c, type) ==
  /\ At(c, "loop")
  /\ toServer[c] # <<>>
  /\ NextCommand(c).type = type
Read(c) == toServer' = [toServer EXCEPT ![c] = Tail(@)]

\* recv returns 0.
EndOfStream(c) ==
  /\ Reading(c, "end")
  /\ connMux = None
  /\ connected' = Without(c)
  /\ Goto(c, "end")
  /\ Read(c)
  /\ UNCHANGED <<process, open, opened, listener, backlog, connMux, cast, lastThree, said,
                 toClient, clients>>

\* recv returns -1, the command has no type, and what that throws ends the
\* process: the owner's client too.
Terminate(c) ==
  /\ Reading(c, "reset")
  /\ process' = "gone"
  /\ mode' = [mode EXCEPT ![Owner] = "dead"]
  /\ UNCHANGED <<open, opened, server, backlog, streams, typed, visits>>

\* The latest records with one more; and the lists that drop the newest or none.
KeepAll(records, r) == Append(records, r)
DropNewest(records, r) == IF Len(records) < Recent THEN Append(records, r) ELSE records
Remember(records, r) ==
  LET all == Append(records, r)
  IN IF Len(all) > Recent THEN Tail(all) ELSE all

\* A line is recorded under msg_mux and then, under conn_mux, sent to everyone.
Record(c) ==
  /\ Reading(c, "line")
  /\ LET r == Line(Name(c), "said", NextCommand(c).number) IN
       /\ lastThree' = Remember(lastThree, r)
       /\ said' = Append(said, r)
       /\ thread' = [thread EXCEPT ![c] = [at |-> "post", text |-> <<r>>]]
  /\ Read(c)
  /\ UNCHANGED <<process, open, opened, listener, backlog, connected, connMux, cast,
                 toClient, clients>>

Post(c) ==
  /\ At(c, "post")
  /\ Lock(c, "post")
  /\ Start(c, Head(thread[c].text))
  /\ Goto(c, "send")
  /\ UNCHANGED <<process, open, opened, listener, backlog, connected, lastThree, said,
                 streams, clients>>

Posted(c) ==
  /\ At(c, "send")
  /\ Sent(c)
  /\ Unlock(c)
  /\ Finish(c)
  /\ thread' = [thread EXCEPT ![c] = [at |-> "loop", text |-> <<>>]]
  /\ UNCHANGED <<process, open, opened, listener, backlog, connected, lastThree, said,
                 streams, clients>>

\* A guest that detaches is only announced to the room; the owner is let go,
\* and its thread reads on.
DetachOwner(c) ==
  /\ Reading(c, "detach")
  /\ Name(c) = Owner
  /\ connMux = None
  /\ connected' = Without(c)
  /\ Send(c, ExitRoom("leave"))
  /\ Read(c)
  /\ UNCHANGED <<process, open, opened, listener, backlog, connMux, cast, lastThree, said,
                 thread, clients>>

DetachGuest(c) ==
  /\ Reading(c, "detach")
  /\ Name(c) # Owner
  /\ Lock(c, "detach")
  /\ Start(c, News("detach", c))
  /\ Goto(c, "send")
  /\ Read(c)
  /\ UNCHANGED <<process, open, opened, listener, backlog, connected, lastThree, said,
                 toClient, clients>>

\* Who leaves is erased first; the others are told, and then the leaver.
Leave(c) ==
  /\ Reading(c, "leave")
  /\ Lock(c, "leave")
  /\ connected' = Without(c)
  /\ Start(c, News(IF Name(c) = Owner THEN "close" ELSE "leave", c))
  /\ Goto(c, "bye")
  /\ Read(c)
  /\ UNCHANGED <<process, open, opened, listener, backlog, lastThree, said, toClient,
                 clients>>

\* The owner's leaving sends everyone away.
Left(c) ==
  /\ At(c, "bye")
  /\ Sent(c)
  /\ \/ /\ Name(c) # Owner
        /\ Send(c, ExitRoom("leave"))
        /\ UNCHANGED connected
     \/ /\ Name(c) = Owner
        /\ toClient' = [d \in Conns |->
             IF d = c THEN Append(toClient[d], ExitRoom("close"))
             ELSE IF d \in ToSet(connected) THEN Append(toClient[d], ExitRoom("leave"))
             ELSE toClient[d]]
        /\ connected' = <<>>
  /\ Unlock(c)
  /\ Finish(c)
  /\ Goto(c, "end")
  /\ UNCHANGED <<process, open, opened, listener, backlog, lastThree, said, toServer,
                 clients>>

Serve(c) ==
  \/ Greet(c) \/ EndOfStream(c) \/ Terminate(c) \/ Record(c) \/ Post(c) \/ Posted(c)
  \/ DetachOwner(c) \/ DetachGuest(c) \/ Leave(c) \/ Left(c) \/ Broadcast(c)

-----------------------------------------------------------------------------
(* The clients.                                                            *)

Conn(m) == <<m, visits[m]>>

\* What the client writes: the server reads it after what was written before.
Write(c, what) == toServer' = [toServer EXCEPT ![c] = Append(@, what)]

\* A socket closed with frames unread resets the connection.
Close(c) == Write(c, [type |-> IF Last(toClient[c]).type = "exit" THEN "end" ELSE "reset"])

\* A guest may hold the BBS's answer from before the room was closed; the
\* owner knows the status.  connect succeeds while the port is open.
Connect(m) ==
  /\ process = "up"
  /\ mode[m] = "bbs"
  /\ m = Owner => open
  /\ listener.at # "off"
  /\ visits[m] < MaxVisits
  /\ visits' = [visits EXCEPT ![m] = @ + 1]
  /\ backlog' = Append(backlog, <<m, visits[m] + 1>>)
  /\ mode' = [mode EXCEPT ![m] = "joining"]
  /\ UNCHANGED <<process, open, opened, server, streams, typed>>

SendJoin(m) ==
  /\ mode[m] = "joining"
  /\ Write(Conn(m), [type |-> "join"])
  /\ mode' = [mode EXCEPT ![m] = "chat"]
  /\ UNCHANGED <<process, open, opened, backlog, server, toClient, typed, visits>>

\* leave-chatroom and detach are commands; anything else typed is a line.
Type(m) ==
  /\ mode[m] = "chat"
  /\ typed < MaxSaid
  /\ typed' = typed + 1
  /\ Write(Conn(m), [type |-> "line", number |-> typed'])
  /\ UNCHANGED <<process, open, opened, backlog, server, toClient, mode, visits>>

\* After leave-chatroom, and the owner's detach, nothing more is typed before
\* the prompt is back.
Command(m, command) ==
  /\ command \in Commands
  /\ mode[m] = "chat"
  /\ Write(Conn(m), [type |-> command])
  /\ UNCHANGED <<process, open, opened, backlog, server, toClient, visits>>

LeaveRoom(m) ==
  /\ Command(m, "leave")
  /\ mode' = [mode EXCEPT ![m] = "leaving"]
  /\ UNCHANGED typed

Detach(m) ==
  /\ Command(m, "detach")
  /\ \/ m = Owner /\ mode' = [mode EXCEPT ![m] = "leaving"] /\ UNCHANGED typed
     \/ m # Owner /\ typed < MaxSaid /\ typed' = typed + 1 /\ UNCHANGED mode

\* recvMessage reads the frames in their order.  Nothing but the order to exit
\* and a frame it cannot read changes what the client does.
Garbled(c) ==
  \E i \in 1 .. Len(toClient[c]) - 1 :
    toClient[c][i] = Half /\ toClient[c][i + 1].type # "greeting"
Has(c, frame) == frame \in ToSet(toClient[c])
InRoom(m) == mode[m] \in {"chat", "leaving"}

Return(m) ==
  /\ InRoom(m)
  /\ ~Garbled(Conn(m))
  /\ Has(Conn(m), ExitRoom("leave"))
  /\ Close(Conn(m))
  /\ mode' = [mode EXCEPT ![m] = "bbs"]
  /\ UNCHANGED <<process, open, opened, backlog, server, toClient, typed, visits>>

\* The owner has the BBS change the status and then stops its own listener; or
\* stops it and leaves the status.
StatusKept == open
StatusClosed == FALSE

CloseStatus ==
  /\ InRoom(Owner)
  /\ ~Garbled(Conn(Owner))
  /\ Has(Conn(Owner), ExitRoom("close"))
  /\ open' = StatusClosed
  /\ mode' = [mode EXCEPT ![Owner] = "closing"]
  /\ UNCHANGED <<process, opened, backlog, server, streams, typed, visits>>

CloseServer ==
  /\ mode[Owner] = "closing"
  /\ backlog' = Append(backlog, Listener)
  /\ Close(Conn(Owner))
  /\ mode' = [mode EXCEPT ![Owner] = "bbs"]
  /\ UNCHANGED <<process, open, opened, server, toClient, typed, visits>>

\* What recvMessage cannot read ends its thread, and the prompt stays away.
Stick(m) ==
  /\ mode[m] \in {"joining", "chat", "leaving"}
  /\ \/ Garbled(Conn(m))
     \/ Has(Conn(m), Reset)
     \/ /\ process = "gone"
        /\ \A action \in {"leave", "close"} : ~Has(Conn(m), ExitRoom(action))
  /\ mode' = [mode EXCEPT ![m] = "stuck"]
  /\ UNCHANGED <<process, open, opened, backlog, server, streams, typed, visits>>

\* A guest's process ends, with or without frames that it has not read.
Die(g) ==
  /\ mode[g] \in {"joining", "chat", "leaving", "stuck"}
  /\ \/ Write(Conn(g), [type |-> "end"])
     \/ toClient[Conn(g)] # <<>> /\ Write(Conn(g), [type |-> "reset"])
  /\ mode' = [mode EXCEPT ![g] = "dead"]
  /\ UNCHANGED <<process, open, opened, backlog, server, toClient, typed, visits>>

\* restart-chatroom.  While the last listener has the port, bind fails and the
\* process exits.
Reopen ==
  /\ process = "up"
  /\ mode[Owner] = "bbs"
  /\ ~open
  /\ opened < MaxOpened
  /\ open' = TRUE
  /\ opened' = opened + 1
  /\ \/ /\ listener.at = "off"
        /\ listener' = [at |-> "accept", conn |-> None]
        /\ UNCHANGED <<process, mode>>
     \/ /\ listener.at # "off"
        /\ process' = "gone"
        /\ mode' = [mode EXCEPT ![Owner] = "dead"]
        /\ UNCHANGED listener
  /\ UNCHANGED <<backlog, connected, connMux, cast, lastThree, said, thread, streams,
                 typed, visits>>

Listen == Accept \/ Stop \/ Announce \/ Admit \/ Broadcast(Listener)

Receive(m) == Return(m) \/ Stick(m) \/ (m = Owner /\ (CloseStatus \/ CloseServer))

Use(m) == Connect(m) \/ Type(m) \/ LeaveRoom(m) \/ Detach(m)

Next ==
  \/ Listen
  \/ \E c \in Conns : Serve(c)
  \/ \E m \in Members : Use(m) \/ SendJoin(m) \/ Receive(m)
  \/ \E g \in Mortal : Die(g)
  \/ Reopen

\* The threads of the server and the receiving threads of the clients run; a
\* client that has connected joins.  Members need not type anything.
Fairness ==
  /\ WF_vars(Listen)
  /\ \A c \in Conns : WF_vars(Serve(c))
  /\ \A m \in Members : WF_vars(Receive(m)) /\ WF_vars(SendJoin(m))

Safety == Init /\ [][Next]_vars
Spec == Safety /\ Fairness

-----------------------------------------------------------------------------
(* Properties.                                                             *)

Records == {l \in Lines : l.text = "said"}
Frames ==
  Lines \cup {Half, Reset} \cup {ExitRoom("leave"), ExitRoom("close")}
  \cup [type : {"greeting"}, records : Seq(Records)]
ToBeRead ==
  [type : {"join", "leave", "detach", "end", "reset"}]
  \cup [type : {"line"}, number : 1 .. MaxSaid]

\* The variables stay in their sets; last_three never holds more than three.
TypeOK ==
  /\ process \in {"up", "gone"} /\ open \in BOOLEAN /\ opened \in 1 .. MaxOpened
  /\ listener \in [at : {"accept", "admit", "send", "failed", "off"}, conn : Conns \cup {None}]
  /\ backlog \in Seq(Threads)
  /\ connected \in Seq(Conns)
  /\ connMux \in Threads \cup {None}
  /\ cast \in [Threads -> [frame : Lines \cup {None}, next : Nat \ {0}]]
  /\ lastThree \in Seq(Records) /\ Len(lastThree) <= Recent
  /\ said \in Seq(Records)
  /\ thread \in [Conns -> [at : {"off", "greet", "half", "body", "loop", "post", "send",
                                 "bye", "end"},
                           text : Seq(Records)]]
  /\ toServer \in [Conns -> Seq(ToBeRead)]
  /\ toClient \in [Conns -> Seq(Frames)]
  /\ typed \in 0 .. MaxSaid
  /\ mode \in [Members -> {"bbs", "joining", "chat", "leaving", "closing", "stuck", "dead"}]
  /\ visits \in [Members -> 0 .. MaxVisits]

Greeted(c) == thread[c].at \in {"loop", "post", "send", "bye"}
GreetingOf(c) ==
  LET i == CHOOSE i \in 1 .. Len(toClient[c]) : toClient[c][i].type = "greeting"
  IN toClient[c][i].records

InProgress(l) ==
  \E c \in Conns :
    \/ thread[c].at = "post" /\ Head(thread[c].text) = l
    \/ thread[c].at = "send" /\ cast[c].frame = l

\* Nobody in the room misses a line: whatever has been said since the oldest
\* record of a member's greeting is in the greeting, was sent to the member, or
\* is about to be.  The list of receivers and the records have two locks, and a
\* newcomer is put into the one before it copies the other.
NoMissedLine ==
  \A i \in 1 .. Len(connected) : Greeted(connected[i]) =>
    LET c == connected[i]
        shown == GreetingOf(c)
    IN \A n \in 1 .. Len(said) :
         \/ said[n] \in ToSet(shown)
         \/ said[n] \in ToSet(toClient[c])
         \/ InProgress(said[n])
         \/ Len(shown) = Recent /\ \A k \in 1 .. n : said[k] # shown[1]

\* A greeting shows the latest three records of some moment, in their order.
GreetingIsRecent ==
  \A c \in Conns : Greeted(c) =>
    \E n \in 0 .. Len(said) :
      GreetingOf(c) = SubSeq(said, IF n > Recent THEN n - Recent + 1 ELSE 1, n)

\* Two lines are sent on a connection, the one before the other.
Before(c, l, k) ==
  \E j \in 1 .. Len(toClient[c]) :
    toClient[c][j] = k /\ \E i \in 1 .. j - 1 : toClient[c][i] = l

\* All members see the lines in the same order, whoever's thread sends them: of
\* what two members have both seen, neither saw two lines the other way round,
\* and nobody sees a line twice.
SameOrder ==
  \A l, k \in ToSet(said) : \A m, d \in Conns : Before(m, l, k) => ~Before(d, k, l)

\* Whoever is in the list of receivers has a thread that will take it off, once.
ConnectedAreServed ==
  /\ \A i \in 1 .. Len(connected) : thread[connected[i]].at \notin {"off", "end"}
  /\ IsInjective(connected)

\* Who was told to leave, or saw the room closed, is sent no line afterwards.
NoLineAfterExit ==
  \A c \in Conns : \A i, j \in 1 .. Len(toClient[c]) :
    toClient[c][i].type = "exit" /\ toClient[c][j].type = "line" => j < i

\* Who is told by the BBS that the room is open finds its port open: the status
\* is closed before the listener stops.  (The answer may be older.)
OpenRoomListens == open /\ process = "up" => listener.at # "off"

\* What is sent to a thread of the server is read: each line is recorded, each
\* command done, unless the process ends.
CommandsServed ==
  \A c \in Conns :
    (thread[c].at = "loop" /\ toServer[c] # <<>>)
      ~> (process = "gone" \/ thread[c].at = "end" \/ toServer[c] = <<>>)

\* leave-chatroom and the owner's detach bring the prompt back, or the room's
\* process ended or the stream cannot be read.
PromptReturns ==
  \A m \in Members :
    (mode[m] = "leaving" /\ thread[Conn(m)].at = "loop") ~> (mode[m] # "leaving")

\* "When the client newly joins or rejoins, the client will get the latest three
\* chat records" (the assignment): nothing comes between the halves of the greeting.
GreetingIntact == \A c \in Conns : ~Garbled(c)

\* "The chatroom TCP server can serve at least 5 clients" (the assignment): the end
\* of one of them does not end the server for the others.
ServerSurvivesGuests == process = "up"

\* Whoever has joined is admitted, whatever the other members do; unless the
\* listener has ended, because the room was closed or because a connection ended
\* before it joined, or the process has.
JoinServed ==
  \A m \in Members :
    (mode[m] = "chat" /\ thread[Conn(m)].at = "off")
      ~> \/ mode[m] # "chat" \/ thread[Conn(m)].at # "off"
         \/ listener.at \in {"failed", "off"} \/ process = "gone"
=============================================================================
