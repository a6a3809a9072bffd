------------------------- MODULE ClientThreadsProofs -------------------------
(***************************************************************************)
(* Proofs about ClientThreads, for any number of visits and listeners, any *)
(* typing and any overlap of the threads: the types, and that what the     *)
(* threads share is misused, or the process ended by its own listener,     *)
(* only after a command that came too early, or by what the main thread    *)
(* sends into a room that it is leaving.                                   *)
(***************************************************************************)
EXTENDS ClientThreads, SequenceTheorems, FiniteSetTheorems, TLAPS

Chats == {Chat(v) : v \in Visits}
Servers == {Server(l) : l \in Listeners}
Entering == {"ask", "test", "block", "asleep", "start", "new"}

\* The visits are counted as their sockets are made, the listeners as they start.
Counted ==
  /\ Visited \in 0 .. MaxVisits /\ Opened \in 0 .. MaxOpened
  /\ \A v \in Visits : conn[v].at # "off" <=> v <= Visited
  /\ \A l \in Listeners : listener[l].at # "none" <=> l <= Opened

\* What the main thread runs is one of its commands, and has a visit or a listener
\* left to use.
InBounds ==
  /\ main.at \in Entering => Visited < MaxVisits
  /\ main.at \in {"connect", "join"} => Visited > 0
  /\ main.at = "ask" /\ main.command \in {"create", "restart"} => Opened < MaxOpened
  /\ main.at = "send" => main.command \in ChatCommands

\* Who waits does so on a socket object of its own kind; only the visits made so far
\* wait to be accepted.
Pointers ==
  /\ \A v \in Visits : receiver[v].at = "reading" => receiver[v].on \in Chats
  /\ \A l \in Listeners : listener[l].at = "waiting" => listener[l].on \in Servers
  /\ bound \subseteq Servers
  /\ queue \in [Objects -> Seq(0 .. Visited)]

GenInv == Types /\ Counted /\ InBounds /\ Pointers

USE DEF front, back, net, Abort, Through, Main, MainTo, Receiver, ReceiverTo,
        Listener, ListenerTo

-----------------------------------------------------------------------------
(* Objects, lists and counts.                                              *)

LEMMA ObjectFacts ==
  /\ \A v, w \in Visits : Chat(v) = Chat(w) => v = w
  /\ \A v \in Visits : Chat(v) \in Objects /\ Chat(v)[2] = v /\ Chat(v) # None
  /\ \A v \in Visits : Chat(v) \in Chats /\ Chat(v) \notin Servers
  /\ \A l, k \in Listeners : Server(l) = Server(k) => l = k
  /\ \A l \in Listeners : Server(l) \in Objects /\ Server(l) # None
  /\ \A l \in Listeners : Server(l) \in Servers /\ Server(l) \notin Chats
  /\ Objects = Chats \cup Servers
  /\ None \notin Objects
BY NoneAssumption DEF Chat, Server, Objects, Chats, Servers

LEMMA Bounds == MaxVisits \in Nat /\ MaxOpened \in Nat
BY ClientThreadsAssumption

LEMMA VisitedSame ==
  ASSUME UNCHANGED conn
  PROVE  Visited' = Visited
BY DEF Visited

LEMMA OpenedSame ==
  ASSUME UNCHANGED listener
  PROVE  Opened' = Opened
BY DEF Opened

LEMMA VisitedIs ==
  ASSUME NEW n \in 0 .. MaxVisits, \A v \in Visits : conn'[v].at # "off" <=> v <= n
  PROVE  Visited' = n
<1>1. {v \in Visits : conn'[v].at # "off"} = 1 .. n
  BY Bounds DEF Visits
<1>2. Cardinality(1 .. n) = n
  BY Bounds, FS_Interval
<1> QED
  BY <1>1, <1>2 DEF Visited

LEMMA OpenedIs ==
  ASSUME NEW n \in 0 .. MaxOpened, \A l \in Listeners : listener'[l].at # "none" <=> l <= n
  PROVE  Opened' = n
<1>1. {l \in Listeners : listener'[l].at # "none"} = 1 .. n
  BY Bounds DEF Listeners
<1>2. Cardinality(1 .. n) = n
  BY Bounds, FS_Interval
<1> QED
  BY <1>1, <1>2 DEF Opened

\* A list of some of a set.
LEMMA WiderList ==
  ASSUME NEW S, NEW T, S \subseteq T, NEW q \in Seq(S)
  PROVE  q \in Seq(T)
OBVIOUS

LEMMA OnList ==
  ASSUME NEW S, NEW q \in Seq(S)
  PROVE  /\ ToSet(q) \subseteq S
         /\ q # <<>> => Head(q) \in S /\ Tail(q) \in Seq(S)
         /\ \A x \in S : Append(q, x) \in Seq(S) /\ ToSet(<<x>>) = {x}
BY DEF ToSet

\* The queues hold visits and the connection that stops a listener.
LEMMA QueueTypes ==
  ASSUME Counted, NEW q \in Seq(0 .. Visited)
  PROVE  q \in Seq(Visits \cup {Stop})
<1>1. 0 .. Visited \subseteq Visits \cup {Stop}
  BY Bounds DEF Counted, Visits, Stop
<1> QED
  BY <1>1, WiderList

-----------------------------------------------------------------------------
(* The types, a variable at a time.                                        *)

MainPlaces == {"prompt", "ask", "test", "block", "asleep", "start", "new", "connect",
               "join", "send"}
MainRecords == [at : MainPlaces, command : BbsCommands \cup ChatCommands \cup {None}]
ReceiverPlaces == {"none", "loop", "reading", "ask", "tell", "back", "delete", "null",
                   "ended"}
ReceiverRecords == [at : ReceiverPlaces, on : Chats \cup {None}]
ListenerPlaces == {"none", "new", "bind", "ready", "notify", "accept", "waiting", "delete",
                   "null", "unready", "ended"}
ListenerRecords == [at : ListenerPlaces, on : Servers \cup {None}]
ConnPlaces == {"off", "new", "joined", "served", "done", "cut"}
Sent == Seq({"leave", "detach"})
Orders == Seq({"leave", "close", "cut"})
ConnRecords == [at : ConnPlaces, own : BOOLEAN, sent : Sent, orders : Orders]
Queues == [Objects -> Seq(Visits \cup {Stop})]

LEMMA TypesOf ==
  Types <=> /\ fate \in {"running", "exited", "refused", "undefined"}
             /\ main \in MainRecords
             /\ mode \in {"bbs", "chat"}
             /\ sock \in Chats \cup {None}
             /\ heap \subseteq Objects
             /\ receiver \in [Visits -> ReceiverRecords]
             /\ ready \in BOOLEAN
             /\ listener \in [Listeners -> ListenerRecords]
             /\ listenSock \in Servers \cup {None}
             /\ bound \subseteq heap
             /\ queue \in Queues
             /\ conn \in [Visits -> ConnRecords]
             /\ room \in {"none", "open", "closed"}
BY DEF Types, MainRecords, MainPlaces, Chats, Servers, ReceiverRecords, ReceiverPlaces,
       ListenerRecords, ListenerPlaces, ConnRecords, ConnPlaces, Sent, Orders, Queues

LEMMA TypesThen ==
  Types' <=> /\ fate' \in {"running", "exited", "refused", "undefined"}
              /\ main' \in MainRecords
              /\ mode' \in {"bbs", "chat"}
              /\ sock' \in Chats \cup {None}
              /\ heap' \subseteq Objects
              /\ receiver' \in [Visits -> ReceiverRecords]
              /\ ready' \in BOOLEAN
              /\ listener' \in [Listeners -> ListenerRecords]
              /\ listenSock' \in Servers \cup {None}
              /\ bound' \subseteq heap'
              /\ queue' \in Queues
              /\ conn' \in [Visits -> ConnRecords]
              /\ room' \in {"none", "open", "closed"}
BY DEF Types, MainRecords, MainPlaces, Chats, Servers, ReceiverRecords, ReceiverPlaces,
       ListenerRecords, ListenerPlaces, ConnRecords, ConnPlaces, Sent, Orders, Queues

\* A thread moves on.
LEMMA MainMoves ==
  ASSUME Types, NEW p \in MainPlaces, MainTo(p)
  PROVE  main' \in MainRecords /\ main'.at = p /\ main'.command = main.command
<1>1. main \in MainRecords
  BY TypesOf
<1> QED
  BY <1>1 DEF MainRecords

LEMMA MainIs ==
  ASSUME NEW p \in MainPlaces, NEW c \in BbsCommands \cup ChatCommands \cup {None},
         main' = [at |-> p, command |-> c]
  PROVE  main' \in MainRecords /\ main'.at = p /\ main'.command = c
BY DEF MainRecords

LEMMA ReceiverMoves ==
  ASSUME Types, NEW v \in Visits, NEW p \in ReceiverPlaces, ReceiverTo(v, p)
  PROVE  /\ receiver' \in [Visits -> ReceiverRecords]
         /\ \A w \in Visits : /\ receiver'[w].at = IF w = v THEN p ELSE receiver[w].at
                              /\ receiver'[w].on = receiver[w].on
<1>1. receiver \in [Visits -> ReceiverRecords]
  BY TypesOf
<1>2. [receiver[v] EXCEPT !.at = p] \in ReceiverRecords
  BY <1>1 DEF ReceiverRecords
<1> QED
  BY <1>1, <1>2 DEF ReceiverRecords

LEMMA ListenerMoves ==
  ASSUME Types, NEW l \in Listeners, NEW p \in ListenerPlaces, ListenerTo(l, p)
  PROVE  /\ listener' \in [Listeners -> ListenerRecords]
         /\ \A k \in Listeners : /\ listener'[k].at = IF k = l THEN p ELSE listener[k].at
                                 /\ listener'[k].on = listener[k].on
<1>1. listener \in [Listeners -> ListenerRecords]
  BY TypesOf
<1>2. [listener[l] EXCEPT !.at = p] \in ListenerRecords
  BY <1>1 DEF ListenerRecords
<1> QED
  BY <1>1, <1>2 DEF ListenerRecords

LEMMA ConnMoves ==
  ASSUME Types, NEW v \in Visits, NEW p \in ConnPlaces, conn' = [conn EXCEPT ![v].at = p]
  PROVE  /\ conn' \in [Visits -> ConnRecords]
         /\ \A w \in Visits : /\ conn'[w].at = IF w = v THEN p ELSE conn[w].at
                              /\ conn'[w].own = conn[w].own
                              /\ conn'[w].sent = conn[w].sent
                              /\ conn'[w].orders = conn[w].orders
<1>1. conn \in [Visits -> ConnRecords]
  BY TypesOf
<1>2. [conn[v] EXCEPT !.at = p] \in ConnRecords
  BY <1>1 DEF ConnRecords
<1> QED
  BY <1>1, <1>2 DEF ConnRecords

LEMMA ConnFields ==
  ASSUME Types, NEW v \in Visits
  PROVE  /\ receiver[v].at \in ReceiverPlaces /\ receiver[v].on \in Chats \cup {None}
         /\ conn[v].at \in ConnPlaces /\ conn[v].own \in BOOLEAN
         /\ conn[v].sent \in Sent /\ conn[v].orders \in Orders
<1>1. receiver[v] \in ReceiverRecords /\ conn[v] \in ConnRecords
  BY TypesOf
<1> QED
  BY <1>1 DEF ReceiverRecords, ConnRecords

LEMMA ListenerFields ==
  ASSUME Types, NEW l \in Listeners
  PROVE  listener[l].at \in ListenerPlaces /\ listener[l].on \in Servers \cup {None}
<1>1. listener[l] \in ListenerRecords
  BY TypesOf
<1> QED
  BY <1>1 DEF ListenerRecords

LEMMA MainFields ==
  ASSUME Types
  PROVE  main.at \in MainPlaces /\ main.command \in BbsCommands \cup ChatCommands \cup {None}
<1>1. main \in MainRecords
  BY TypesOf
<1> QED
  BY <1>1 DEF MainRecords

-----------------------------------------------------------------------------
(* What the steps that touch a connection or a queue do to it.             *)

LEMMA TakeHead ==
  ASSUME Pointers, NEW s \in Objects, queue[s] # <<>>, queue' = [queue EXCEPT ![s] = Tail(@)]
  PROVE  queue' \in [Objects -> Seq(0 .. Visited)]
<1>1. queue \in [Objects -> Seq(0 .. Visited)]
  BY DEF Pointers
<1>2. queue[s] \in Seq(0 .. Visited)
  BY <1>1
<1>3. Tail(queue[s]) \in Seq(0 .. Visited)
  BY <1>2, OnList
<1> QED
  BY <1>1, <1>3

LEMMA WiderQueues ==
  ASSUME Pointers, Visited \in Nat
  PROVE  queue \in [Objects -> Seq(0 .. Visited + 1)]
<1>1. 0 .. Visited \subseteq 0 .. Visited + 1
  OBVIOUS
<1>2. \A s \in Objects : queue[s] \in Seq(0 .. Visited + 1)
  BY <1>1, WiderList DEF Pointers
<1> QED
  BY <1>2 DEF Pointers

\* A visit's connection with other fields.
LEMMA ConnIs ==
  ASSUME Types, NEW v \in Visits, NEW r \in ConnRecords, conn' = [conn EXCEPT ![v] = r]
  PROVE  /\ conn' \in [Visits -> ConnRecords]
         /\ \A w \in Visits : conn'[w] = IF w = v THEN r ELSE conn[w]
BY TypesOf

\* The connections once visit v has its new socket.
WithNew(v, own) == [conn EXCEPT ![v].at = "new", ![v].own = own]

LEMMA NewConn ==
  ASSUME Types, NEW v \in Visits, NEW own \in BOOLEAN, conn' = WithNew(v, own)
  PROVE  /\ conn' \in [Visits -> ConnRecords]
         /\ \A w \in Visits : /\ conn'[w].at = IF w = v THEN "new" ELSE conn[w].at
                              /\ conn'[w].own = IF w = v THEN own ELSE conn[w].own
                              /\ conn'[w].sent = conn[w].sent
                              /\ conn'[w].orders = conn[w].orders
<1> DEFINE r == [conn[v] EXCEPT !.at = "new", !.own = own]
<1>1. conn \in [Visits -> ConnRecords]
  BY TypesOf
<1>2. r \in ConnRecords /\ r.at = "new" /\ r.own = own /\ r.sent = conn[v].sent /\ r.orders = conn[v].orders
  BY <1>1 DEF ConnRecords, ConnPlaces
<1>3. \A w \in Visits : conn'[w] = IF w = v THEN r ELSE conn[w]
  BY <1>1 DEF WithNew
<1>4. conn' \in [Visits -> ConnRecords]
  BY <1>1, <1>2 DEF WithNew
<1> QED
  BY <1>2, <1>3, <1>4

LEMMA JoinConn ==
  ASSUME Types, Visited \in Visits, conn[Visited].at # "off", Join
  PROVE  /\ conn' \in [Visits -> ConnRecords]
         /\ \A v \in Visits : conn'[v].at = "off" <=> conn[v].at = "off"
<1>1. CASE sock \in heap
  <2>1. PICK p \in {"cut", "joined", "served"} : conn' = [conn EXCEPT ![Visited].at = p]
    BY <1>1 DEF Join
  <2>2. p \in ConnPlaces /\ p # "off"
    BY DEF ConnPlaces
  <2>3. /\ conn' \in [Visits -> ConnRecords]
        /\ \A v \in Visits : conn'[v].at = IF v = Visited THEN p ELSE conn[v].at
    BY <2>1, <2>2, ConnMoves
  <2> QED
    BY <2>2, <2>3
<1>2. CASE sock \notin heap
  BY <1>2, TypesOf DEF Join
<1> QED
  BY <1>1, <1>2

\* The command is sent on the connection of the socket.
LEMMA SendConn ==
  ASSUME Types, InBounds, SendCommand, sock \in heap, NEW v \in Visits, sock = Chat(v)
  PROVE  /\ conn' \in [Visits -> ConnRecords]
         /\ \A w \in Visits :
              /\ conn'[w].at = conn[w].at
              /\ conn'[w].own = conn[w].own
              /\ conn'[w].orders = conn[w].orders
              /\ conn'[w].sent = IF w = v /\ main.command # "line"
                                 THEN Append(conn[w].sent, main.command) ELSE conn[w].sent
<1>1. conn \in [Visits -> ConnRecords] /\ sock[2] = v
  BY TypesOf, ObjectFacts
<1>2. CASE main.command = "line"
  BY <1>1, <1>2 DEF SendCommand
<1>3. CASE main.command # "line"
  <2> DEFINE r == [conn[v] EXCEPT !.sent = Append(@, main.command)]
  <2>1. main.command \in {"leave", "detach"}
    BY <1>3 DEF SendCommand, InBounds, ChatCommands
  <2>2. Append(conn[v].sent, main.command) \in Sent
    BY <2>1, ConnFields DEF Sent
  <2>3. r \in ConnRecords /\ r.at = conn[v].at /\ r.own = conn[v].own /\ r.orders = conn[v].orders
        /\ r.sent = Append(conn[v].sent, main.command)
    BY <1>1, <2>2 DEF ConnRecords
  <2>4. \A w \in Visits : conn'[w] = IF w = v THEN r ELSE conn[w]
    BY <1>1, <1>3 DEF SendCommand
  <2>6. conn' = [conn EXCEPT ![v] = r]
    BY <1>1, <1>3 DEF SendCommand
  <2> HIDE DEF r
  <2>5. conn' \in [Visits -> ConnRecords]
    BY <1>1, <2>3, <2>6
  <2> QED
    BY <1>3, <2>3, <2>4, <2>5
<1> QED
  BY <1>2, <1>3

LEMMA CallRecvMoves ==
  ASSUME Types, NEW v \in Visits, CallRecv(v)
  PROVE  /\ receiver' \in [Visits -> ReceiverRecords]
         /\ sock \in heap =>
              /\ receiver'[v].at = "reading" /\ receiver'[v].on = sock /\ sock \in Chats
              /\ \A w \in Visits \ {v} : receiver'[w] = receiver[w]
         /\ sock \notin heap => receiver' = receiver
<1>1. receiver \in [Visits -> ReceiverRecords] /\ sock \in Chats \cup {None} /\ heap \subseteq Objects
  BY TypesOf
<1>2. CASE sock \in heap
  <2>1. sock \in Chats
    BY <1>1, <1>2, ObjectFacts
  <2>2. [at |-> "reading", on |-> sock] \in ReceiverRecords
    BY <2>1 DEF ReceiverRecords, ReceiverPlaces
  <2> QED
    BY <1>1, <1>2, <2>1, <2>2 DEF CallRecv
<1>3. CASE sock \notin heap
  BY <1>1, <1>3 DEF CallRecv
<1> QED
  BY <1>2, <1>3

\* The first order of the connection that is read is taken and obeyed.
LEMMA ReceiveMoves ==
  ASSUME Types, NEW v \in Visits, Receive(v), NEW c \in Visits, receiver[v].on = Chat(c)
  PROVE  /\ conn' \in [Visits -> ConnRecords]
         /\ conn[c].orders # <<>>
         /\ \A w \in Visits :
              /\ conn'[w].at = conn[w].at
              /\ conn'[w].own = conn[w].own
              /\ conn'[w].sent = conn[w].sent
              /\ conn'[w].orders = IF w = c THEN Tail(conn[w].orders) ELSE conn[w].orders
         /\ receiver' \in [Visits -> ReceiverRecords]
         /\ Head(conn[c].orders) \in {"leave", "close", "cut"}
         /\ \A w \in Visits :
              /\ receiver'[w].on = receiver[w].on
              /\ receiver'[w].at = IF w # v THEN receiver[w].at
                                   ELSE CASE Head(conn[c].orders) = "close" -> "ask"
                                          [] Head(conn[c].orders) = "leave" -> "back"
                                          [] Head(conn[c].orders) = "cut" -> "ended"
<1>1. conn \in [Visits -> ConnRecords] /\ receiver[v].on[2] = c
  BY TypesOf, ObjectFacts
<1>2. conn[c].orders # <<>> /\ conn' = [conn EXCEPT ![c].orders = Tail(@)]
  BY <1>1 DEF Receive
<1>3. Head(conn[c].orders) \in {"leave", "close", "cut"} /\ Tail(conn[c].orders) \in Orders
  BY <1>2, ConnFields, OnList DEF Orders
<1> DEFINE r == [conn[c] EXCEPT !.orders = Tail(@)]
           place == CASE Head(conn[c].orders) = "close" -> "ask"
                      [] Head(conn[c].orders) = "leave" -> "back"
                      [] Head(conn[c].orders) = "cut" -> "ended"
<1>4. r \in ConnRecords /\ r.at = conn[c].at /\ r.own = conn[c].own /\ r.sent = conn[c].sent
      /\ r.orders = Tail(conn[c].orders)
  BY <1>1, <1>3 DEF ConnRecords
<1>5. /\ \A w \in Visits : conn'[w] = IF w = c THEN r ELSE conn[w]
      /\ conn' \in [Visits -> ConnRecords]
  BY <1>1, <1>2, <1>4
<1>6. place \in ReceiverPlaces
  BY <1>3 DEF ReceiverPlaces
<1>7. ReceiverTo(v, place)
  BY <1>1 DEF Receive
<1> HIDE DEF place, r
<1>8. /\ receiver' \in [Visits -> ReceiverRecords]
      /\ \A w \in Visits : /\ receiver'[w].at = IF w = v THEN place ELSE receiver[w].at
                           /\ receiver'[w].on = receiver[w].on
  BY <1>6, <1>7, ReceiverMoves
<1> QED
  BY <1>2, <1>3, <1>4, <1>5, <1>8 DEF place

LEMMA CallAcceptMoves ==
  ASSUME Types, NEW l \in Listeners, CallAccept(l)
  PROVE  /\ listener' \in [Listeners -> ListenerRecords]
         /\ listenSock \in heap /\ listenSock \in bound =>
              /\ listener'[l].at = "waiting" /\ listener'[l].on = listenSock
              /\ listenSock \in Servers
              /\ \A k \in Listeners \ {l} : listener'[k] = listener[k]
         /\ listenSock \notin heap \/ listenSock \notin bound => listener' = listener
<1>1. listener \in [Listeners -> ListenerRecords] /\ listenSock \in Servers \cup {None}
      /\ heap \subseteq Objects
  BY TypesOf
<1>2. CASE listenSock \in heap /\ listenSock \in bound
  <2>1. listenSock \in Servers
    BY <1>1, <1>2, ObjectFacts
  <2>2. [at |-> "waiting", on |-> listenSock] \in ListenerRecords
    BY <2>1 DEF ListenerRecords, ListenerPlaces
  <2> QED
    BY <1>1, <1>2, <2>1, <2>2 DEF CallAccept
<1>3. CASE ~(listenSock \in heap /\ listenSock \in bound)
  BY <1>1, <1>3 DEF CallAccept
<1> QED
  BY <1>2, <1>3

\* The first to wait is served.
LEMMA AdmitConn ==
  ASSUME Types, Pointers, NEW l \in Listeners, Admit(l)
  PROVE  LET s == listener[l].on
             v == Head(queue[s]) IN
           /\ s \in Objects /\ queue[s] # <<>> /\ v \in Visits /\ conn[v].at = "joined"
           /\ conn' \in [Visits -> ConnRecords]
           /\ \A w \in Visits : /\ conn'[w].at = IF w = v THEN "served" ELSE conn[w].at
                                /\ conn'[w].own = conn[w].own
                                /\ conn'[w].sent = conn[w].sent
                                /\ conn'[w].orders = conn[w].orders
<1> DEFINE s == listener[l].on
           v == Head(queue[s])
<1>1. s \in Objects /\ queue[s] # <<>> /\ v # Stop /\ conn[v].at = "joined"
      /\ conn' = [conn EXCEPT ![v].at = "served"]
  BY ObjectFacts DEF Admit, Pointers
<1>2. queue[s] \in Seq(Visits \cup {Stop})
  BY <1>1, TypesOf DEF Queues
<1>3. v \in Visits
  BY <1>1, <1>2, OnList
<1>4. "served" \in ConnPlaces
  BY DEF ConnPlaces
<1> QED
  BY <1>1, <1>3, <1>4, ConnMoves

\* Who waits for the listener is cut off.
LEMMA CutConn ==
  ASSUME Types, NEW l \in Listeners, DeleteListenSocket(l), listenSock \in heap \cup {None}
  PROVE  /\ conn' \in [Visits -> ConnRecords]
         /\ \A v \in Visits :
              conn'[v] = IF listenSock # None /\ v \in ToSet(queue[listenSock])
                         THEN [conn[v] EXCEPT !.at = "cut", !.orders = Append(@, "cut")]
                         ELSE conn[v]
         /\ \A v \in Visits : conn'[v].at \in {conn[v].at, "cut"}
<1>1. conn \in [Visits -> ConnRecords]
  BY TypesOf
<1>2. conn' = [v \in Visits |->
                 IF listenSock # None /\ v \in ToSet(queue[listenSock])
                 THEN [conn[v] EXCEPT !.at = "cut", !.orders = Append(@, "cut")]
                 ELSE conn[v]]
  BY DEF DeleteListenSocket
<1>3. ASSUME NEW v \in Visits
      PROVE  LET r == [conn[v] EXCEPT !.at = "cut", !.orders = Append(@, "cut")] IN
               r \in ConnRecords /\ r.at = "cut"
  <2>1. Append(conn[v].orders, "cut") \in Orders
    BY ConnFields DEF Orders
  <2> QED
    BY <1>1, <2>1 DEF ConnRecords, ConnPlaces
<1> QED
  BY <1>1, <1>2, <1>3

LEMMA ServeConn ==
  ASSUME Types, NEW v \in Visits, ServeCommand(v)
  PROVE  LET h == Head(conn[v].sent) IN
         /\ h \in {"leave", "detach"}
         /\ conn' \in [Visits -> ConnRecords]
         /\ conn'[v].at = IF h = "leave" THEN "done" ELSE "served"
         /\ conn'[v].own = conn[v].own
         /\ conn'[v].sent = Tail(conn[v].sent)
         /\ conn'[v].orders = conn[v].orders \o Answer(h, conn[v].own)
         /\ \A w \in Visits \ {v} : conn'[w] = conn[w]
<1> DEFINE h == Head(conn[v].sent)
           a == Answer(h, conn[v].own)
           p == IF h = "leave" THEN "done" ELSE "served"
           r == [conn[v] EXCEPT !.sent = Tail(@), !.orders = @ \o a, !.at = p]
<1>1. conn \in [Visits -> ConnRecords]
  BY TypesOf
<1>2. h \in {"leave", "detach"} /\ Tail(conn[v].sent) \in Sent
  BY ConnFields, OnList DEF ServeCommand, Sent
<1>3. a \in Orders
  <2>1. <<"close">> \in Orders /\ <<"leave">> \in Orders /\ <<>> \in Orders
    BY DEF Orders
  <2> QED
    BY <2>1 DEF Answer
<1> HIDE DEF a
<1>4. conn[v].orders \o a \in Orders
  BY <1>3, ConnFields DEF Orders
<1>5. r \in ConnRecords /\ r.at = p /\ r.own = conn[v].own /\ r.sent = Tail(conn[v].sent)
      /\ r.orders = conn[v].orders \o a
  BY <1>1, <1>2, <1>4 DEF ConnRecords, ConnPlaces
<1>6. conn' = [conn EXCEPT ![v] = r]
  BY <1>1 DEF ServeCommand, a
<1> HIDE DEF r, p
<1>7. conn' \in [Visits -> ConnRecords] /\ \A w \in Visits : conn'[w] = IF w = v THEN r ELSE conn[w]
  BY <1>5, <1>6, ConnIs
<1> QED
  BY <1>2, <1>5, <1>7 DEF a, p

LEMMA AwayConn ==
  ASSUME Types, NEW v \in Visits, SendAway(v)
  PROVE  /\ conn' \in [Visits -> ConnRecords]
         /\ conn'[v].at = "done" /\ conn'[v].own = conn[v].own
         /\ conn'[v].sent = conn[v].sent /\ conn'[v].orders = Append(conn[v].orders, "leave")
         /\ \A w \in Visits \ {v} : conn'[w] = conn[w]
<1> DEFINE r == [conn[v] EXCEPT !.orders = Append(@, "leave"), !.at = "done"]
<1>1. conn \in [Visits -> ConnRecords]
  BY TypesOf
<1>2. Append(conn[v].orders, "leave") \in Orders
  BY ConnFields DEF Orders
<1>3. r \in ConnRecords /\ r.at = "done" /\ r.own = conn[v].own /\ r.sent = conn[v].sent
      /\ r.orders = Append(conn[v].orders, "leave")
  BY <1>1, <1>2 DEF ConnRecords, ConnPlaces
<1>4. conn' = [conn EXCEPT ![v] = r]
  BY <1>1 DEF SendAway
<1> HIDE DEF r
<1>5. conn' \in [Visits -> ConnRecords] /\ \A w \in Visits : conn'[w] = IF w = v THEN r ELSE conn[w]
  BY <1>3, <1>4, ConnIs
<1> QED
  BY <1>3, <1>5

-----------------------------------------------------------------------------
(* Each step keeps the types.                                              *)

LEMMA TypeGen ==
  ASSUME GenInv, NEW command \in BbsCommands \cup ChatCommands, Type(command)
  PROVE  GenInv'
<1>1. Types /\ Counted /\ InBounds /\ Pointers
  BY DEF GenInv
<1>2. main' \in MainRecords /\ main'.at \in {"ask", "send"} /\ main'.command = command
  BY MainIs DEF Type, MainPlaces
<1>3. \/ command \in BbsCommands /\ main'.at = "ask"
      \/ command \in ChatCommands /\ main'.at = "send"
  BY <1>2 DEF Type
<1>4. Types'
  BY <1>1, <1>2, <1>3, TypesOf, TypesThen DEF Type
<1>5. Visited' = Visited
  BY VisitedSame DEF Type
<1>6. Opened' = Opened
  BY OpenedSame DEF Type
<1>7. Counted'
  BY <1>1, <1>2, <1>3, <1>5, <1>6 DEF Counted, Type
<1>8. InBounds'
  BY <1>1, <1>2, <1>3, <1>5, <1>6 DEF InBounds, Entering, Type, BbsCommands, ChatCommands
<1>9. Pointers'
  BY <1>1, <1>2, <1>3, <1>5 DEF Pointers, Type
<1> QED
  BY <1>4, <1>7, <1>8, <1>9 DEF GenInv

LEMMA RefuseGen ==
  ASSUME GenInv, Refuse
  PROVE  GenInv'
<1>1. Types /\ Counted /\ InBounds /\ Pointers
  BY DEF GenInv
<1>2. main' \in MainRecords /\ main'.at = "prompt"
  BY MainIs DEF Refuse, MainPlaces
<1>3. Types'
  BY <1>1, <1>2, TypesOf, TypesThen DEF Refuse
<1>4. Visited' = Visited
  BY VisitedSame DEF Refuse
<1>5. Opened' = Opened
  BY OpenedSame DEF Refuse
<1>6. Counted'
  BY <1>1, <1>2, <1>4, <1>5 DEF Counted, Refuse
<1>7. InBounds'
  BY <1>1, <1>2, <1>4, <1>5 DEF InBounds, Entering, Refuse
<1>8. Pointers'
  BY <1>1, <1>2, <1>4 DEF Pointers, Refuse
<1> QED
  BY <1>3, <1>6, <1>7, <1>8 DEF GenInv

LEMMA StartServerGen ==
  ASSUME GenInv, StartServer
  PROVE  GenInv'
<1>1. Types /\ Counted /\ InBounds /\ Pointers
  BY DEF GenInv
<1>2. main' \in MainRecords /\ main'.at = "test" /\ main'.command = main.command
  BY <1>1, MainMoves, SMTT(30) DEF StartServer, MainPlaces
<1>3. Opened + 1 \in Listeners /\ Visited < MaxVisits
  BY <1>1, Bounds DEF StartServer, Counted, InBounds, Entering, Listeners
<1>4. /\ listener' \in [Listeners -> ListenerRecords]
      /\ \A l \in Listeners : /\ listener'[l].at = IF l = Opened + 1 THEN "new" ELSE listener[l].at
                              /\ listener'[l].on = listener[l].on
  BY <1>1, <1>3, ListenerMoves DEF StartServer, ListenerPlaces
<1>5. Types'
  BY <1>1, <1>2, <1>3, <1>4, TypesOf, TypesThen DEF StartServer
<1>6. Visited' = Visited
  BY VisitedSame DEF StartServer
<1>7. Opened' = Opened + 1
  <2>1. Opened \in Nat /\ \A l \in Listeners : l \in Int /\ (listener[l].at # "none" <=> l <= Opened)
    BY <1>1 DEF Counted, Listeners
  <2>2. \A l \in Listeners : l <= Opened + 1 <=> l = Opened + 1 \/ l <= Opened
    BY <2>1
  <2>3. \A l \in Listeners : listener'[l].at # "none" <=> l = Opened + 1 \/ listener[l].at # "none"
    BY <1>4
  <2>4. \A l \in Listeners : listener'[l].at # "none" <=> l <= Opened + 1
    BY <2>1, <2>2, <2>3
  <2>5. Opened + 1 \in 0 .. MaxOpened
    BY <1>3, Bounds DEF Listeners
  <2> QED BY <2>4, <2>5, OpenedIs
<1>8. Counted'
  BY <1>1, <1>3, <1>4, <1>6, <1>7, Bounds DEF Counted, Listeners, StartServer
<1>9. InBounds'
  BY <1>1, <1>2, <1>3, <1>4, <1>6, <1>7 DEF InBounds, Entering, StartServer
<1>10. Pointers'
  BY <1>1, <1>2, <1>3, <1>4, <1>6 DEF Pointers, StartServer
<1> QED
  BY <1>5, <1>8, <1>9, <1>10 DEF GenInv

LEMMA AttachGen ==
  ASSUME GenInv, Attach
  PROVE  GenInv'
<1>1. Types /\ Counted /\ InBounds /\ Pointers
  BY DEF GenInv
<1>2. main' \in MainRecords /\ main'.at = "start" /\ main'.command = main.command
  BY <1>1, MainMoves, SMTT(30) DEF Attach, MainPlaces
<1>3. Types'
  BY <1>1, <1>2, TypesOf, TypesThen DEF Attach
<1>4. Visited' = Visited
  BY VisitedSame DEF Attach
<1>5. Opened' = Opened
  BY OpenedSame DEF Attach
<1>6. Counted'
  BY <1>1, <1>2, <1>4, <1>5 DEF Counted, Attach
<1>7. InBounds'
  BY <1>1, <1>2, <1>4, <1>5 DEF InBounds, Entering, Attach
<1>8. Pointers'
  BY <1>1, <1>2, <1>4 DEF Pointers, Attach
<1> QED
  BY <1>3, <1>6, <1>7, <1>8 DEF GenInv

LEMMA TestConditionGen ==
  ASSUME GenInv, TestCondition
  PROVE  GenInv'
<1>1. Types /\ Counted /\ InBounds /\ Pointers
  BY DEF GenInv
<1>2. main' \in MainRecords /\ main'.at \in {"start", "block"} /\ main'.command = main.command
  BY <1>1, MainMoves, SMTT(30) DEF TestCondition, MainPlaces
<1>3. Types'
  BY <1>1, <1>2, TypesOf, TypesThen DEF TestCondition
<1>4. Visited' = Visited
  BY VisitedSame DEF TestCondition
<1>5. Opened' = Opened
  BY OpenedSame DEF TestCondition
<1>6. Counted'
  BY <1>1, <1>2, <1>4, <1>5 DEF Counted, TestCondition
<1>7. InBounds'
  BY <1>1, <1>2, <1>4, <1>5 DEF InBounds, Entering, TestCondition
<1>8. Pointers'
  BY <1>1, <1>2, <1>4 DEF Pointers, TestCondition
<1> QED
  BY <1>3, <1>6, <1>7, <1>8 DEF GenInv

LEMMA SleepGen ==
  ASSUME GenInv, Sleep
  PROVE  GenInv'
<1>1. Types /\ Counted /\ InBounds /\ Pointers
  BY DEF GenInv
<1>2. main' \in MainRecords /\ main'.at = "asleep" /\ main'.command = main.command
  BY <1>1, MainMoves, SMTT(30) DEF Sleep, MainPlaces
<1>3. Types'
  BY <1>1, <1>2, TypesOf, TypesThen DEF Sleep
<1>4. Visited' = Visited
  BY VisitedSame DEF Sleep
<1>5. Opened' = Opened
  BY OpenedSame DEF Sleep
<1>6. Counted'
  BY <1>1, <1>2, <1>4, <1>5 DEF Counted, Sleep
<1>7. InBounds'
  BY <1>1, <1>2, <1>4, <1>5 DEF InBounds, Entering, Sleep
<1>8. Pointers'
  BY <1>1, <1>2, <1>4 DEF Pointers, Sleep
<1> QED
  BY <1>3, <1>6, <1>7, <1>8 DEF GenInv

LEMMA SpuriousWakeGen ==
  ASSUME GenInv, SpuriousWake
  PROVE  GenInv'
<1>1. Types /\ Counted /\ InBounds /\ Pointers
  BY DEF GenInv
<1>2. main' \in MainRecords /\ main'.at = "test" /\ main'.command = main.command
  BY <1>1, MainMoves, SMTT(30) DEF SpuriousWake, MainPlaces
<1>3. Types'
  BY <1>1, <1>2, TypesOf, TypesThen DEF SpuriousWake
<1>4. Visited' = Visited
  BY VisitedSame DEF SpuriousWake
<1>5. Opened' = Opened
  BY OpenedSame DEF SpuriousWake
<1>6. Counted'
  BY <1>1, <1>2, <1>4, <1>5 DEF Counted, SpuriousWake
<1>7. InBounds'
  BY <1>1, <1>2, <1>4, <1>5 DEF InBounds, Entering, SpuriousWake
<1>8. Pointers'
  BY <1>1, <1>2, <1>4 DEF Pointers, SpuriousWake
<1> QED
  BY <1>3, <1>6, <1>7, <1>8 DEF GenInv

LEMMA StartChatGen ==
  ASSUME GenInv, StartChat
  PROVE  GenInv'
<1>1. Types /\ Counted /\ InBounds /\ Pointers
  BY DEF GenInv
<1>2. main' \in MainRecords /\ main'.at = "new" /\ main'.command = main.command
  BY <1>1, MainMoves, SMTT(30) DEF StartChat, MainPlaces
<1>3. Types'
  BY <1>1, <1>2, TypesOf, TypesThen DEF StartChat
<1>4. Visited' = Visited
  BY VisitedSame DEF StartChat
<1>5. Opened' = Opened
  BY OpenedSame DEF StartChat
<1>6. Counted'
  BY <1>1, <1>2, <1>4, <1>5 DEF Counted, StartChat
<1>7. InBounds'
  BY <1>1, <1>2, <1>4, <1>5 DEF InBounds, Entering, StartChat
<1>8. Pointers'
  BY <1>1, <1>2, <1>4 DEF Pointers, StartChat
<1> QED
  BY <1>3, <1>6, <1>7, <1>8 DEF GenInv

LEMMA NewSocketGen ==
  ASSUME GenInv, NewSocket
  PROVE  GenInv'
<1>1. Types /\ Counted /\ InBounds /\ Pointers
  BY DEF GenInv
<1>2. main' \in MainRecords /\ main'.at = "connect" /\ main'.command = main.command
  BY <1>1, MainMoves, SMTT(30) DEF NewSocket, MainPlaces
<1>3. Visited + 1 \in Visits /\ Visited \in 0 .. MaxVisits
  BY <1>1, Bounds DEF NewSocket, Counted, InBounds, Entering, Visits
<1>4. /\ conn' \in [Visits -> ConnRecords]
      /\ \A v \in Visits : conn'[v].at = IF v = Visited + 1 THEN "new" ELSE conn[v].at
  <2>1. PICK own \in BOOLEAN, u \in Visits : u = Visited + 1 /\ conn' = WithNew(u, own)
    BY <1>3 DEF NewSocket, WithNew
  <2>2. /\ conn' \in [Visits -> ConnRecords]
        /\ \A v \in Visits : conn'[v].at = IF v = u THEN "new" ELSE conn[v].at
    BY ONLY <1>1, <2>1, own \in BOOLEAN, u \in Visits, NewConn
  <2> QED
    BY <2>1, <2>2
<1>5. Types'
  BY <1>1, <1>2, <1>3, <1>4, TypesOf, TypesThen, <1>3, ObjectFacts DEF NewSocket
<1>6. Visited' = Visited + 1
  BY <1>1, <1>2, <1>3, <1>4, VisitedIs, Bounds DEF Counted, Visits
<1>7. Opened' = Opened
  BY OpenedSame DEF NewSocket
<1>8. Counted'
  BY <1>1, <1>3, <1>4, <1>6, <1>7, Bounds DEF Counted, Visits, NewSocket
<1>9. InBounds'
  BY <1>1, <1>2, <1>3, <1>4, <1>6, <1>7 DEF InBounds, Entering, NewSocket
<1>10. Pointers'
  BY <1>1, <1>2, <1>3, <1>4, <1>6, <1>3, WiderQueues DEF Pointers, NewSocket
<1> QED
  BY <1>5, <1>8, <1>9, <1>10 DEF GenInv

LEMMA ConnectGen ==
  ASSUME GenInv, Connect
  PROVE  GenInv'
<1>1. Types /\ Counted /\ InBounds /\ Pointers
  BY DEF GenInv
<1>2. main' \in MainRecords /\ (main' = main \/ main'.at = "join")
  BY <1>1, MainMoves, TypesOf DEF Connect, MainPlaces
<1>3. main.at = "connect" /\ Visited \in Visits /\ Visited \in 0 .. Visited
  BY <1>1, Bounds DEF Connect, Counted, InBounds, Visits
<1>4. queue' \in [Objects -> Seq(0 .. Visited)]
  <2>1. \A s \in Objects :
          queue[s] \in Seq(0 .. Visited) /\ Append(queue[s], Visited) \in Seq(0 .. Visited)
    BY <1>1, <1>3, OnList DEF Pointers
  <2>2. \/ queue' = queue
        \/ queue' = [s \in Objects |-> IF s \in bound THEN Append(queue[s], Visited) ELSE queue[s]]
    BY DEF Connect
  <2> QED
    BY <1>1, <2>1, <2>2 DEF Pointers
<1>5. queue' \in Queues
  BY <1>1, <1>4, QueueTypes DEF Queues
<1>6. Types'
  BY <1>1, <1>2, <1>3, <1>4, <1>5, TypesOf, TypesThen DEF Connect
<1>7. Visited' = Visited
  BY VisitedSame DEF Connect
<1>8. Opened' = Opened
  BY OpenedSame DEF Connect
<1>9. Counted'
  BY <1>1, <1>2, <1>3, <1>4, <1>5, <1>7, <1>8 DEF Counted, Connect
<1>10. InBounds'
  BY <1>1, <1>2, <1>3, <1>4, <1>5, <1>7, <1>8 DEF InBounds, Entering, Connect
<1>11. Pointers'
  BY <1>1, <1>2, <1>3, <1>4, <1>5, <1>7 DEF Pointers, Connect
<1> QED
  BY <1>6, <1>9, <1>10, <1>11 DEF GenInv

LEMMA JoinGen ==
  ASSUME GenInv, Join
  PROVE  GenInv'
<1>1. Types /\ Counted /\ InBounds /\ Pointers
  BY DEF GenInv
<1>2. main' \in MainRecords /\ (main' = main \/ main'.at = "prompt")
  BY <1>1, MainIs, TypesOf DEF Join, MainPlaces
<1>3. main.at = "join" /\ Visited \in Visits /\ conn[Visited].at # "off"
  BY <1>1, Bounds DEF Join, Counted, InBounds, Visits
<1>4. /\ conn' \in [Visits -> ConnRecords]
      /\ \A v \in Visits : conn'[v].at = "off" <=> conn[v].at = "off"
  BY <1>1, <1>3, TypesOf, JoinConn
<1>5. receiver' = receiver \/ receiver' = [receiver EXCEPT ![Visited].at = "loop"]
  BY DEF Join
<1>6. /\ receiver' \in [Visits -> ReceiverRecords]
      /\ \A v \in Visits : receiver'[v].at \in {receiver[v].at, "loop"} /\ receiver'[v].on = receiver[v].on
  BY <1>1, <1>3, <1>5, ReceiverMoves, TypesOf DEF ReceiverPlaces
<1>7. Types'
  BY <1>1, <1>2, <1>3, <1>4, <1>5, <1>6, TypesOf, TypesThen DEF Join
<1>8. Visited' = Visited
  BY <1>1, <1>2, <1>3, <1>4, <1>5, <1>6, VisitedIs DEF Counted
<1>9. Opened' = Opened
  BY OpenedSame DEF Join
<1>10. Counted'
  BY <1>1, <1>2, <1>3, <1>4, <1>5, <1>6, <1>8, <1>9 DEF Counted, Join
<1>11. InBounds'
  BY <1>1, <1>2, <1>3, <1>4, <1>5, <1>6, <1>8, <1>9 DEF InBounds, Entering, Join
<1>12. Pointers'
  BY <1>1, <1>2, <1>3, <1>4, <1>5, <1>6, <1>8 DEF Pointers, Join
<1> QED
  BY <1>7, <1>10, <1>11, <1>12 DEF GenInv

LEMMA SendCommandGen ==
  ASSUME GenInv, SendCommand
  PROVE  GenInv'
<1>1. Types /\ Counted /\ InBounds /\ Pointers
  BY DEF GenInv
<1>2. main' \in MainRecords /\ (main' = main \/ main'.at = "prompt")
  BY <1>1, MainIs, TypesOf DEF SendCommand, MainPlaces
<1>3. /\ conn' \in [Visits -> ConnRecords]
      /\ \A v \in Visits : conn'[v].at = conn[v].at
  <2>1. CASE sock \in heap
    <3>1. PICK v \in Visits : sock = Chat(v)
      BY <1>1, <2>1, TypesOf, ObjectFacts DEF Chats
    <3> QED
      BY <1>1, <2>1, <3>1, SendConn
  <2>2. CASE sock \notin heap
    BY <1>1, <2>2, TypesOf DEF SendCommand
  <2> QED
    BY <2>1, <2>2
<1>4. Types'
  BY <1>1, <1>2, <1>3, TypesOf, TypesThen DEF SendCommand
<1>5. Visited' = Visited
  BY <1>1, <1>2, <1>3, VisitedIs DEF Counted
<1>6. Opened' = Opened
  BY OpenedSame DEF SendCommand
<1>7. Counted'
  BY <1>1, <1>2, <1>3, <1>5, <1>6 DEF Counted, SendCommand
<1>8. InBounds'
  BY <1>1, <1>2, <1>3, <1>5, <1>6 DEF InBounds, Entering, SendCommand
<1>9. Pointers'
  BY <1>1, <1>2, <1>3, <1>5 DEF Pointers, SendCommand
<1> QED
  BY <1>4, <1>7, <1>8, <1>9 DEF GenInv

LEMMA CallRecvGen ==
  ASSUME GenInv, NEW v \in Visits, CallRecv(v)
  PROVE  GenInv'
<1>1. Types /\ Counted /\ InBounds /\ Pointers
  BY DEF GenInv
<1>2. /\ receiver' \in [Visits -> ReceiverRecords]
      /\ \A w \in Visits : receiver'[w] = receiver[w] \/ receiver'[w].on \in Chats
  BY <1>1, CallRecvMoves
<1>3. Types'
  BY <1>1, <1>2, TypesOf, TypesThen DEF CallRecv
<1>4. Visited' = Visited
  BY VisitedSame DEF CallRecv
<1>5. Opened' = Opened
  BY OpenedSame DEF CallRecv
<1>6. Counted'
  BY <1>1, <1>2, <1>4, <1>5 DEF Counted, CallRecv
<1>7. InBounds'
  BY <1>1, <1>2, <1>4, <1>5 DEF InBounds, Entering, CallRecv
<1>8. Pointers'
  BY <1>1, <1>2, <1>4 DEF Pointers, CallRecv
<1> QED
  BY <1>3, <1>6, <1>7, <1>8 DEF GenInv

LEMMA ReceiveGen ==
  ASSUME GenInv, NEW v \in Visits, Receive(v)
  PROVE  GenInv'
<1>1. Types /\ Counted /\ InBounds /\ Pointers
  BY DEF GenInv
<1>0. \E c \in Visits : receiver[v].on = Chat(c)
  BY <1>1 DEF Receive, Pointers, Chats
<1>2. /\ receiver' \in [Visits -> ReceiverRecords]
      /\ \A w \in Visits : receiver'[w].at = receiver[w].at \/ receiver'[w].at \in {"ask", "back", "ended"}
      /\ \A w \in Visits : receiver'[w].on = receiver[w].on
  BY <1>0, <1>1, ReceiveMoves
<1>3. /\ conn' \in [Visits -> ConnRecords]
      /\ \A w \in Visits : conn'[w].at = conn[w].at
  BY <1>0, <1>1, ReceiveMoves
<1>4. Types'
  BY <1>1, <1>2, <1>3, TypesOf, TypesThen DEF Receive
<1>5. Visited' = Visited
  BY <1>1, <1>2, <1>3, VisitedIs DEF Counted
<1>6. Opened' = Opened
  BY OpenedSame DEF Receive
<1>7. Counted'
  <2>1. listener' = listener
    BY DEF Receive
  <2> QED
    BY <1>1, <1>3, <1>5, <1>6, <2>1 DEF Counted
<1>8. InBounds'
  BY <1>1, <1>2, <1>3, <1>5, <1>6 DEF InBounds, Entering, Receive
<1>9. Pointers'
  BY <1>1, <1>2, <1>3, <1>5 DEF Pointers, Receive
<1> QED
  BY <1>4, <1>7, <1>8, <1>9 DEF GenInv

LEMMA CloseStatusGen ==
  ASSUME GenInv, NEW v \in Visits, CloseStatus(v)
  PROVE  GenInv'
<1>1. Types /\ Counted /\ InBounds /\ Pointers
  BY DEF GenInv
<1>2. /\ receiver' \in [Visits -> ReceiverRecords]
      /\ \A w \in Visits : receiver'[w].at = IF w = v THEN "tell" ELSE receiver[w].at
      /\ \A w \in Visits : receiver'[w].on = receiver[w].on
  <2>1. "tell" \in ReceiverPlaces
    BY DEF ReceiverPlaces
  <2>2. ReceiverTo(v, "tell")
    BY DEF CloseStatus
  <2> QED
    BY <1>1, <2>1, <2>2, ReceiverMoves
<1>3. Types'
  BY <1>1, <1>2, TypesOf, TypesThen DEF CloseStatus
<1>4. Visited' = Visited
  BY VisitedSame DEF CloseStatus
<1>5. Opened' = Opened
  BY OpenedSame DEF CloseStatus
<1>6. Counted'
  BY <1>1, <1>2, <1>4, <1>5 DEF Counted, CloseStatus
<1>7. InBounds'
  BY <1>1, <1>2, <1>4, <1>5 DEF InBounds, Entering, CloseStatus
<1>8. Pointers'
  BY <1>1, <1>2, <1>4 DEF Pointers, CloseStatus
<1> QED
  BY <1>3, <1>6, <1>7, <1>8 DEF GenInv

LEMMA TellListenerGen ==
  ASSUME GenInv, NEW v \in Visits, TellListener(v)
  PROVE  GenInv'
<1>1. Types /\ Counted /\ InBounds /\ Pointers
  BY DEF GenInv
<1>2. /\ receiver' \in [Visits -> ReceiverRecords]
      /\ \A w \in Visits : receiver'[w].at \in {receiver[w].at, "back"} /\ receiver'[w].on = receiver[w].on
  BY <1>1, ReceiverMoves, TypesOf DEF TellListener, ReceiverPlaces
<1>3. queue' \in [Objects -> Seq(0 .. Visited)]
  <2>1. \A s \in Objects :
          queue[s] \in Seq(0 .. Visited) /\ Append(queue[s], Stop) \in Seq(0 .. Visited)
    BY <1>1, OnList DEF Pointers, Counted, Stop
  <2>2. \/ queue' = queue
        \/ queue' = [s \in Objects |-> IF s \in bound THEN Append(queue[s], Stop) ELSE queue[s]]
    BY DEF TellListener
  <2> QED
    BY <1>1, <2>1, <2>2 DEF Pointers
<1>4. queue' \in Queues
  BY <1>1, <1>3, QueueTypes DEF Queues
<1>5. Types'
  BY <1>1, <1>2, <1>3, <1>4, TypesOf, TypesThen DEF TellListener
<1>6. Visited' = Visited
  BY VisitedSame DEF TellListener
<1>7. Opened' = Opened
  BY OpenedSame DEF TellListener
<1>8. Counted'
  BY <1>1, <1>2, <1>3, <1>4, <1>6, <1>7 DEF Counted, TellListener
<1>9. InBounds'
  BY <1>1, <1>2, <1>3, <1>4, <1>6, <1>7 DEF InBounds, Entering, TellListener
<1>10. Pointers'
  BY <1>1, <1>2, <1>3, <1>4, <1>6 DEF Pointers, TellListener
<1> QED
  BY <1>5, <1>8, <1>9, <1>10 DEF GenInv

LEMMA BackToBbsGen ==
  ASSUME GenInv, NEW v \in Visits, BackToBbs(v)
  PROVE  GenInv'
<1>1. Types /\ Counted /\ InBounds /\ Pointers
  BY DEF GenInv
<1>2. /\ receiver' \in [Visits -> ReceiverRecords]
      /\ \A w \in Visits : receiver'[w].at = IF w = v THEN "delete" ELSE receiver[w].at
      /\ \A w \in Visits : receiver'[w].on = receiver[w].on
  <2>1. "delete" \in ReceiverPlaces
    BY DEF ReceiverPlaces
  <2>2. ReceiverTo(v, "delete")
    BY DEF BackToBbs
  <2> QED
    BY <1>1, <2>1, <2>2, ReceiverMoves
<1>3. Types'
  BY <1>1, <1>2, TypesOf, TypesThen DEF BackToBbs
<1>4. Visited' = Visited
  BY VisitedSame DEF BackToBbs
<1>5. Opened' = Opened
  BY OpenedSame DEF BackToBbs
<1>6. Counted'
  BY <1>1, <1>2, <1>4, <1>5 DEF Counted, BackToBbs
<1>7. InBounds'
  BY <1>1, <1>2, <1>4, <1>5 DEF InBounds, Entering, BackToBbs
<1>8. Pointers'
  BY <1>1, <1>2, <1>4 DEF Pointers, BackToBbs
<1> QED
  BY <1>3, <1>6, <1>7, <1>8 DEF GenInv

LEMMA DeleteSocketGen ==
  ASSUME GenInv, NEW v \in Visits, DeleteSocket(v)
  PROVE  GenInv'
<1>1. Types /\ Counted /\ InBounds /\ Pointers
  BY DEF GenInv
<1>2. /\ receiver' \in [Visits -> ReceiverRecords]
      /\ \A w \in Visits : receiver'[w].at \in {receiver[w].at, "null"} /\ receiver'[w].on = receiver[w].on
  BY <1>1, ReceiverMoves, TypesOf DEF DeleteSocket, ReceiverPlaces
<1>3. sock \notin bound
  BY <1>1, TypesOf, ObjectFacts DEF Pointers, Chats, Servers
<1>4. Types'
  BY <1>1, <1>2, <1>3, TypesOf, TypesThen DEF DeleteSocket
<1>5. Visited' = Visited
  BY VisitedSame DEF DeleteSocket
<1>6. Opened' = Opened
  BY OpenedSame DEF DeleteSocket
<1>7. Counted'
  BY <1>1, <1>2, <1>3, <1>5, <1>6 DEF Counted, DeleteSocket
<1>8. InBounds'
  BY <1>1, <1>2, <1>3, <1>5, <1>6 DEF InBounds, Entering, DeleteSocket
<1>9. Pointers'
  BY <1>1, <1>2, <1>3, <1>5 DEF Pointers, DeleteSocket
<1> QED
  BY <1>4, <1>7, <1>8, <1>9 DEF GenInv

LEMMA ForgetSocketGen ==
  ASSUME GenInv, NEW v \in Visits, ForgetSocket(v)
  PROVE  GenInv'
<1>1. Types /\ Counted /\ InBounds /\ Pointers
  BY DEF GenInv
<1>2. /\ receiver' \in [Visits -> ReceiverRecords]
      /\ \A w \in Visits : receiver'[w].at = IF w = v THEN "ended" ELSE receiver[w].at
      /\ \A w \in Visits : receiver'[w].on = receiver[w].on
  BY <1>1, ReceiverMoves DEF ForgetSocket, ReceiverPlaces, ThrowExit
<1>3. Types'
  BY <1>1, <1>2, TypesOf, TypesThen DEF ForgetSocket
<1>4. Visited' = Visited
  BY VisitedSame DEF ForgetSocket
<1>5. Opened' = Opened
  BY OpenedSame DEF ForgetSocket
<1>6. Counted'
  BY <1>1, <1>2, <1>4, <1>5 DEF Counted, ForgetSocket
<1>7. InBounds'
  BY <1>1, <1>2, <1>4, <1>5 DEF InBounds, Entering, ForgetSocket
<1>8. Pointers'
  BY <1>1, <1>2, <1>4 DEF Pointers, ForgetSocket
<1> QED
  BY <1>3, <1>6, <1>7, <1>8 DEF GenInv

LEMMA NewListenSocketGen ==
  ASSUME GenInv, NEW l \in Listeners, NewListenSocket(l)
  PROVE  GenInv'
<1>1. Types /\ Counted /\ InBounds /\ Pointers
  BY DEF GenInv
<1>2. /\ listener' \in [Listeners -> ListenerRecords]
      /\ \A k \in Listeners : listener'[k].at = IF k = l THEN "bind" ELSE listener[k].at
      /\ \A k \in Listeners : listener'[k].on = listener[k].on
  <2>1. ListenerTo(l, "bind")
    BY DEF NewListenSocket
  <2>2. "bind" \in ListenerPlaces
    BY DEF ListenerPlaces
  <2> QED
    BY <1>1, <2>1, <2>2, ListenerMoves
<1>3. listener[l].at # "none"
  BY DEF NewListenSocket
<1>4. Types'
  BY <1>1, <1>2, <1>3, TypesOf, TypesThen, ObjectFacts DEF NewListenSocket
<1>5. Visited' = Visited
  BY VisitedSame DEF NewListenSocket
<1>6. Opened' = Opened
  BY <1>1, <1>2, <1>3, OpenedIs DEF Counted
<1>7. Counted'
  BY <1>1, <1>2, <1>3, <1>5, <1>6 DEF Counted, NewListenSocket
<1>8. InBounds'
  BY <1>1, <1>2, <1>3, <1>5, <1>6 DEF InBounds, Entering, NewListenSocket
<1>9. Pointers'
  BY <1>1, <1>2, <1>3, <1>5 DEF Pointers, NewListenSocket
<1> QED
  BY <1>4, <1>7, <1>8, <1>9 DEF GenInv

LEMMA BindAndListenGen ==
  ASSUME GenInv, NEW l \in Listeners, BindAndListen(l)
  PROVE  GenInv'
<1>1. Types /\ Counted /\ InBounds /\ Pointers
  BY DEF GenInv
<1>2. /\ listener' \in [Listeners -> ListenerRecords]
      /\ \A k \in Listeners :
           listener'[k].at = listener[k].at \/ (k = l /\ listener'[k].at = "ready")
      /\ \A k \in Listeners : listener'[k].on = listener[k].on
  <2>1. listener' = listener \/ ListenerTo(l, "ready")
    BY DEF BindAndListen
  <2>2. "ready" \in ListenerPlaces
    BY DEF ListenerPlaces
  <2> QED
    BY <1>1, <2>1, <2>2, ListenerMoves, TypesOf
<1>3. listener[l].at # "none"
  BY DEF BindAndListen
<1>4. Types'
  BY <1>1, <1>2, <1>3, TypesOf, TypesThen DEF BindAndListen
<1>5. Visited' = Visited
  BY VisitedSame DEF BindAndListen
<1>6. Opened' = Opened
  BY <1>1, <1>2, <1>3, OpenedIs DEF Counted
<1>7. Counted'
  BY <1>1, <1>2, <1>3, <1>5, <1>6 DEF Counted, BindAndListen
<1>8. InBounds'
  BY <1>1, <1>2, <1>3, <1>5, <1>6 DEF InBounds, Entering, BindAndListen
<1>9. Pointers'
  <2>1. bound' \subseteq Servers
    BY <1>1, TypesOf, ObjectFacts DEF Pointers, BindAndListen
  <2>2. UNCHANGED <<receiver, queue>>
    BY DEF BindAndListen
  <2> QED
    BY <1>1, <1>2, <1>5, <2>1, <2>2 DEF Pointers
<1> QED
  BY <1>4, <1>7, <1>8, <1>9 DEF GenInv

LEMMA SetReadyGen ==
  ASSUME GenInv, NEW l \in Listeners, SetReady(l)
  PROVE  GenInv'
<1>1. Types /\ Counted /\ InBounds /\ Pointers
  BY DEF GenInv
<1>2. /\ listener' \in [Listeners -> ListenerRecords]
      /\ \A k \in Listeners : listener'[k].at = IF k = l THEN "notify" ELSE listener[k].at
      /\ \A k \in Listeners : listener'[k].on = listener[k].on
  <2>1. ListenerTo(l, "notify")
    BY DEF SetReady
  <2>2. "notify" \in ListenerPlaces
    BY DEF ListenerPlaces
  <2> QED
    BY <1>1, <2>1, <2>2, ListenerMoves
<1>3. listener[l].at # "none"
  BY DEF SetReady
<1>4. Types'
  BY <1>1, <1>2, <1>3, TypesOf, TypesThen DEF SetReady
<1>5. Visited' = Visited
  BY VisitedSame DEF SetReady
<1>6. Opened' = Opened
  BY <1>1, <1>2, <1>3, OpenedIs DEF Counted
<1>7. Counted'
  BY <1>1, <1>2, <1>3, <1>5, <1>6 DEF Counted, SetReady
<1>8. InBounds'
  BY <1>1, <1>2, <1>3, <1>5, <1>6 DEF InBounds, Entering, SetReady
<1>9. Pointers'
  BY <1>1, <1>2, <1>3, <1>5 DEF Pointers, SetReady
<1> QED
  BY <1>4, <1>7, <1>8, <1>9 DEF GenInv

LEMMA NotifyGen ==
  ASSUME GenInv, NEW l \in Listeners, Notify(l)
  PROVE  GenInv'
<1>1. Types /\ Counted /\ InBounds /\ Pointers
  BY DEF GenInv
<1>2. /\ listener' \in [Listeners -> ListenerRecords]
      /\ \A k \in Listeners : listener'[k].at = IF k = l THEN "accept" ELSE listener[k].at
      /\ \A k \in Listeners : listener'[k].on = listener[k].on
  <2>1. ListenerTo(l, "accept")
    BY DEF Notify
  <2>2. "accept" \in ListenerPlaces
    BY DEF ListenerPlaces
  <2> QED
    BY <1>1, <2>1, <2>2, ListenerMoves
<1>3. listener[l].at # "none"
  BY DEF Notify
<1>4. /\ main' \in MainRecords 
      /\ main' = main \/ (main.at = "asleep" /\ main'.at = "test")
  BY <1>1, MainMoves, TypesOf DEF Notify, MainPlaces
<1>5. Types'
  BY <1>1, <1>2, <1>3, <1>4, TypesOf, TypesThen DEF Notify
<1>6. Visited' = Visited
  BY VisitedSame DEF Notify
<1>7. Opened' = Opened
  BY <1>1, <1>2, <1>3, <1>4, OpenedIs DEF Counted
<1>8. Counted'
  BY <1>1, <1>2, <1>3, <1>4, <1>6, <1>7 DEF Counted, Notify
<1>9. InBounds'
  BY <1>1, <1>2, <1>3, <1>4, <1>6, <1>7 DEF InBounds, Entering, Notify
<1>10. Pointers'
  BY <1>1, <1>2, <1>3, <1>4, <1>6 DEF Pointers, Notify
<1> QED
  BY <1>5, <1>8, <1>9, <1>10 DEF GenInv

LEMMA CallAcceptGen ==
  ASSUME GenInv, NEW l \in Listeners, CallAccept(l)
  PROVE  GenInv'
<1>1. Types /\ Counted /\ InBounds /\ Pointers
  BY DEF GenInv
<1>2. /\ listener' \in [Listeners -> ListenerRecords]
      /\ \A k \in Listeners :
           \/ listener'[k] = listener[k]
           \/ k = l /\ listener'[k].at = "waiting" /\ listener'[k].on \in Servers
  BY <1>1, CallAcceptMoves, TypesOf
<1>3. listener[l].at # "none"
  BY DEF CallAccept
<1>4. Types'
  BY <1>1, <1>2, <1>3, TypesOf, TypesThen DEF CallAccept
<1>5. Visited' = Visited
  BY VisitedSame DEF CallAccept
<1>6. Opened' = Opened
  BY <1>1, <1>2, <1>3, OpenedIs DEF Counted
<1>7. Counted'
  BY <1>1, <1>2, <1>3, <1>5, <1>6 DEF Counted, CallAccept
<1>8. InBounds'
  BY <1>1, <1>2, <1>3, <1>5, <1>6 DEF InBounds, Entering, CallAccept
<1>9. Pointers'
  BY <1>1, <1>2, <1>3, <1>5 DEF Pointers, CallAccept
<1> QED
  BY <1>4, <1>7, <1>8, <1>9 DEF GenInv

LEMMA AdmitGen ==
  ASSUME GenInv, NEW l \in Listeners, Admit(l)
  PROVE  GenInv'
<1>1. Types /\ Counted /\ InBounds /\ Pointers
  BY DEF GenInv
<1>2. /\ listener' \in [Listeners -> ListenerRecords]
      /\ \A k \in Listeners : listener'[k].at = IF k = l THEN "accept" ELSE listener[k].at
      /\ \A k \in Listeners : listener'[k].on = listener[k].on
  <2>1. ListenerTo(l, "accept")
    BY DEF Admit
  <2>2. "accept" \in ListenerPlaces
    BY DEF ListenerPlaces
  <2> QED
    BY <1>1, <2>1, <2>2, ListenerMoves
<1>3. listener[l].at # "none"
  BY DEF Admit
<1>4. queue' \in [Objects -> Seq(0 .. Visited)]
  BY <1>1, TakeHead DEF Admit, Pointers
<1>5. queue' \in Queues
  BY <1>1, <1>4, QueueTypes DEF Queues
<1>6. /\ conn' \in [Visits -> ConnRecords]
      /\ \A w \in Visits : conn'[w].at = "off" <=> conn[w].at = "off"
  BY <1>1, AdmitConn
<1>7. Types'
  BY <1>1, <1>2, <1>3, <1>4, <1>5, <1>6, TypesOf, TypesThen DEF Admit
<1>8. Visited' = Visited
  BY <1>1, <1>2, <1>3, <1>4, <1>5, <1>6, VisitedIs DEF Counted
<1>9. Opened' = Opened
  BY <1>1, <1>2, <1>3, <1>4, <1>5, <1>6, OpenedIs DEF Counted
<1>10. Counted'
  BY <1>1, <1>2, <1>3, <1>4, <1>5, <1>6, <1>8, <1>9, SMTT(30) DEF Counted, Admit
<1>11. InBounds'
  BY <1>1, <1>2, <1>3, <1>4, <1>5, <1>6, <1>8, <1>9 DEF InBounds, Entering, Admit
<1>12. Pointers'
  BY <1>1, <1>2, <1>3, <1>4, <1>5, <1>6, <1>8 DEF Pointers, Admit
<1> QED
  BY <1>7, <1>10, <1>11, <1>12 DEF GenInv

LEMMA TakeCloseGen ==
  ASSUME GenInv, NEW l \in Listeners, TakeClose(l)
  PROVE  GenInv'
<1>1. Types /\ Counted /\ InBounds /\ Pointers
  BY DEF GenInv
<1>2. /\ listener' \in [Listeners -> ListenerRecords]
      /\ \A k \in Listeners : listener'[k].at = IF k = l THEN "delete" ELSE listener[k].at
      /\ \A k \in Listeners : listener'[k].on = listener[k].on
  <2>1. ListenerTo(l, "delete")
    BY DEF TakeClose
  <2>2. "delete" \in ListenerPlaces
    BY DEF ListenerPlaces
  <2> QED
    BY <1>1, <2>1, <2>2, ListenerMoves
<1>3. listener[l].at # "none"
  BY DEF TakeClose
<1>4. queue' \in [Objects -> Seq(0 .. Visited)]
  BY <1>1, TakeHead DEF TakeClose, Pointers
<1>5. queue' \in Queues
  BY <1>1, <1>4, QueueTypes DEF Queues
<1>6. Types'
  BY <1>1, <1>2, <1>3, <1>4, <1>5, TypesOf, TypesThen DEF TakeClose
<1>7. Visited' = Visited
  BY VisitedSame DEF TakeClose
<1>8. Opened' = Opened
  BY <1>1, <1>2, <1>3, <1>4, <1>5, OpenedIs DEF Counted
<1>9. Counted'
  BY <1>1, <1>2, <1>3, <1>4, <1>5, <1>7, <1>8 DEF Counted, TakeClose
<1>10. InBounds'
  BY <1>1, <1>2, <1>3, <1>4, <1>5, <1>7, <1>8 DEF InBounds, Entering, TakeClose
<1>11. Pointers'
  BY <1>1, <1>2, <1>3, <1>4, <1>5, <1>7 DEF Pointers, TakeClose
<1> QED
  BY <1>6, <1>9, <1>10, <1>11 DEF GenInv

LEMMA DeleteListenSocketGen ==
  ASSUME GenInv, NEW l \in Listeners, DeleteListenSocket(l)
  PROVE  GenInv'
<1>1. Types /\ Counted /\ InBounds /\ Pointers
  BY DEF GenInv
<1>2. /\ listener' \in [Listeners -> ListenerRecords]
      /\ \A k \in Listeners :
           listener'[k].at = listener[k].at \/ (k = l /\ listener'[k].at = "null")
      /\ \A k \in Listeners : listener'[k].on = listener[k].on
  <2>1. listener' = listener \/ ListenerTo(l, "null")
    BY DEF DeleteListenSocket
  <2>2. "null" \in ListenerPlaces
    BY DEF ListenerPlaces
  <2> QED
    BY <1>1, <2>1, <2>2, ListenerMoves, TypesOf
<1>3. listener[l].at # "none"
  BY DEF DeleteListenSocket
<1>4. queue' \in [Objects -> Seq(0 .. Visited)]
  <2>1. \A s \in Objects : queue[s] \in Seq(0 .. Visited) /\ <<>> \in Seq(0 .. Visited)
    BY <1>1 DEF Pointers
  <2>2. \/ queue' = queue
        \/ queue' = [s \in Objects |-> IF s = listenSock THEN <<>> ELSE queue[s]]
    BY DEF DeleteListenSocket
  <2> QED
    BY <1>1, <2>1, <2>2 DEF Pointers
<1>5. queue' \in Queues
  BY <1>1, <1>4, QueueTypes DEF Queues
<1>6. /\ conn' \in [Visits -> ConnRecords]
      /\ \A w \in Visits : conn'[w].at = "off" <=> conn[w].at = "off"
  <2>1. CASE listenSock \in heap \cup {None}
    <3>1. /\ conn' \in [Visits -> ConnRecords]
          /\ \A w \in Visits : conn'[w].at \in {conn[w].at, "cut"}
          /\ \A w \in Visits : (listenSock # None /\ w \in ToSet(queue[listenSock])) \/ conn'[w] = conn[w]
      BY <1>1, <2>1, CutConn
    <3>2. listenSock = None \/ listenSock \in Objects
      BY <1>1, TypesOf, ObjectFacts
    <3>3. ASSUME listenSock # None, NEW w \in Visits, w \in ToSet(queue[listenSock])
          PROVE  conn[w].at # "off"
      <4>1. queue[listenSock] \in Seq(0 .. Visited)
        BY <1>1, <3>2, <3>3 DEF Pointers
      <4>2. w \in 0 .. Visited
        BY <3>3, <4>1, OnList
      <4> QED
        BY <1>1, <4>2 DEF Counted
    <3> QED
      BY <3>1, <3>3
  <2>2. CASE listenSock \notin heap \cup {None}
    BY <1>1, <2>2, TypesOf DEF DeleteListenSocket
  <2> QED
    BY <2>1, <2>2
<1>7. bound' \subseteq bound /\ bound' \subseteq heap' /\ heap' \subseteq heap
  BY <1>1, TypesOf DEF DeleteListenSocket, PortGiven
<1>8. Types'
  BY <1>1, <1>2, <1>3, <1>4, <1>5, <1>6, <1>7, TypesOf, TypesThen DEF DeleteListenSocket
<1>9. Visited' = Visited
  BY <1>1, <1>2, <1>3, <1>4, <1>5, <1>6, <1>7, VisitedIs DEF Counted
<1>10. Opened' = Opened
  BY <1>1, <1>2, <1>3, <1>4, <1>5, <1>6, <1>7, OpenedIs DEF Counted
<1>11. Counted'
  BY <1>1, <1>2, <1>3, <1>4, <1>5, <1>6, <1>7, <1>9, <1>10 DEF Counted, DeleteListenSocket
<1>12. InBounds'
  BY <1>1, <1>2, <1>3, <1>4, <1>5, <1>6, <1>7, <1>9, <1>10 DEF InBounds, Entering,
     DeleteListenSocket
<1>13. Pointers'
  BY <1>1, <1>2, <1>3, <1>4, <1>5, <1>6, <1>7, <1>9 DEF Pointers, DeleteListenSocket
<1> QED
  BY <1>8, <1>11, <1>12, <1>13 DEF GenInv

LEMMA ForgetListenSocketGen ==
  ASSUME GenInv, NEW l \in Listeners, ForgetListenSocket(l)
  PROVE  GenInv'
<1>1. Types /\ Counted /\ InBounds /\ Pointers
  BY DEF GenInv
<1>2. /\ listener' \in [Listeners -> ListenerRecords]
      /\ \A k \in Listeners : listener'[k].at = IF k = l THEN "unready" ELSE listener[k].at
      /\ \A k \in Listeners : listener'[k].on = listener[k].on
  <2>1. ListenerTo(l, "unready")
    BY DEF ForgetListenSocket
  <2>2. "unready" \in ListenerPlaces
    BY DEF ListenerPlaces
  <2> QED
    BY <1>1, <2>1, <2>2, ListenerMoves
<1>3. listener[l].at # "none"
  BY DEF ForgetListenSocket
<1>4. Types'
  BY <1>1, <1>2, <1>3, TypesOf, TypesThen DEF ForgetListenSocket
<1>5. Visited' = Visited
  BY VisitedSame DEF ForgetListenSocket
<1>6. Opened' = Opened
  BY <1>1, <1>2, <1>3, OpenedIs DEF Counted
<1>7. Counted'
  BY <1>1, <1>2, <1>3, <1>5, <1>6 DEF Counted, ForgetListenSocket
<1>8. InBounds'
  BY <1>1, <1>2, <1>3, <1>5, <1>6 DEF InBounds, Entering, ForgetListenSocket
<1>9. Pointers'
  BY <1>1, <1>2, <1>3, <1>5 DEF Pointers, ForgetListenSocket
<1> QED
  BY <1>4, <1>7, <1>8, <1>9 DEF GenInv

LEMMA UnreadyGen ==
  ASSUME GenInv, NEW l \in Listeners, Unready(l)
  PROVE  GenInv'
<1>1. Types /\ Counted /\ InBounds /\ Pointers
  BY DEF GenInv
<1>2. /\ listener' \in [Listeners -> ListenerRecords]
      /\ \A k \in Listeners : listener'[k].at = IF k = l THEN "ended" ELSE listener[k].at
      /\ \A k \in Listeners : listener'[k].on = listener[k].on
  <2>1. ListenerTo(l, "ended")
    BY DEF Unready
  <2>2. "ended" \in ListenerPlaces
    BY DEF ListenerPlaces
  <2> QED
    BY <1>1, <2>1, <2>2, ListenerMoves
<1>3. listener[l].at # "none"
  BY DEF Unready
<1>4. Types'
  BY <1>1, <1>2, <1>3, TypesOf, TypesThen  DEF Unready, ReadyWhenClosed
<1>5. Visited' = Visited
  BY VisitedSame DEF Unready
<1>6. Opened' = Opened
  BY <1>1, <1>2, <1>3, OpenedIs DEF Counted
<1>7. Counted'
  BY <1>1, <1>2, <1>3, <1>5, <1>6 DEF Counted, Unready
<1>8. InBounds'
  BY <1>1, <1>2, <1>3, <1>5, <1>6 DEF InBounds, Entering, Unready
<1>9. Pointers'
  BY <1>1, <1>2, <1>3, <1>5 DEF Pointers, Unready
<1> QED
  BY <1>4, <1>7, <1>8, <1>9 DEF GenInv

LEMMA ServeCommandGen ==
  ASSUME GenInv, NEW v \in Visits, ServeCommand(v)
  PROVE  GenInv'
<1>1. Types /\ Counted /\ InBounds /\ Pointers
  BY DEF GenInv
<1>2. /\ conn' \in [Visits -> ConnRecords]
      /\ \A w \in Visits : conn'[w].at = "off" <=> conn[w].at = "off"
  <2>1. conn[v].at # "off"
    BY DEF ServeCommand
  <2>2. /\ conn' \in [Visits -> ConnRecords] /\ conn'[v].at \in {"done", "served"}
        /\ \A w \in Visits \ {v} : conn'[w] = conn[w]
    BY <1>1, ServeConn
  <2> QED
    BY <2>1, <2>2
<1>3. Types'
  BY <1>1, <1>2, TypesOf, TypesThen DEF ServeCommand
<1>4. Visited' = Visited
  BY <1>1, <1>2, VisitedIs DEF Counted
<1>5. Opened' = Opened
  BY OpenedSame DEF ServeCommand
<1>6. Counted'
  BY <1>1, <1>2, <1>4, <1>5 DEF Counted, ServeCommand
<1>7. InBounds'
  BY <1>1, <1>2, <1>4, <1>5 DEF InBounds, Entering, ServeCommand
<1>8. Pointers'
  BY <1>1, <1>2, <1>4 DEF Pointers, ServeCommand
<1> QED
  BY <1>3, <1>6, <1>7, <1>8 DEF GenInv

LEMMA SendAwayGen ==
  ASSUME GenInv, NEW v \in Visits, SendAway(v)
  PROVE  GenInv'
<1>1. Types /\ Counted /\ InBounds /\ Pointers
  BY DEF GenInv
<1>2. /\ conn' \in [Visits -> ConnRecords]
      /\ \A w \in Visits : conn'[w].at = "off" <=> conn[w].at = "off"
  <2>1. conn[v].at # "off"
    BY DEF SendAway
  <2>2. /\ conn' \in [Visits -> ConnRecords] /\ conn'[v].at = "done"
        /\ \A w \in Visits \ {v} : conn'[w] = conn[w]
    BY <1>1, AwayConn
  <2> QED
    BY <2>1, <2>2
<1>3. Types'
  BY <1>1, <1>2, TypesOf, TypesThen DEF SendAway
<1>4. Visited' = Visited
  BY <1>1, <1>2, VisitedIs DEF Counted
<1>5. Opened' = Opened
  BY OpenedSame DEF SendAway
<1>6. Counted'
  BY <1>1, <1>2, <1>4, <1>5 DEF Counted, SendAway
<1>7. InBounds'
  BY <1>1, <1>2, <1>4, <1>5 DEF InBounds, Entering, SendAway
<1>8. Pointers'
  BY <1>1, <1>2, <1>4 DEF Pointers, SendAway
<1> QED
  BY <1>3, <1>6, <1>7, <1>8 DEF GenInv

-----------------------------------------------------------------------------
(* The types, whatever the user types and when.                            *)

LEMMA InitCounts ==
  ASSUME Init
  PROVE  Visited = 0 /\ Opened = 0
<1>1. {v \in Visits : conn[v].at # "off"} = {} /\ {l \in Listeners : listener[l].at # "none"} = {}
  BY DEF Init
<1> QED
  BY <1>1, FS_EmptySet DEF Visited, Opened

LEMMA GenInit ==
  ASSUME Init
  PROVE  GenInv
<1>1. Visited = 0 /\ Opened = 0
  BY InitCounts
<1>2. Types
  <2>1. main \in MainRecords
    BY DEF Init, MainRecords, MainPlaces
  <2>2. receiver \in [Visits -> ReceiverRecords]
    BY DEF Init, ReceiverRecords, ReceiverPlaces
  <2>3. listener \in [Listeners -> ListenerRecords]
    BY DEF Init, ListenerRecords, ListenerPlaces
  <2>4. conn \in [Visits -> ConnRecords]
    BY DEF Init, ConnRecords, ConnPlaces, Sent, Orders
  <2>5. queue \in Queues
    BY DEF Init, Queues
  <2> QED
    BY <2>1, <2>2, <2>3, <2>4, <2>5, TypesOf DEF Init
<1>3. Counted
  BY <1>1, Bounds DEF Counted, Init, Visits, Listeners
<1>4. InBounds
  BY DEF InBounds, Init, Entering
<1>5. Pointers
  BY <1>1 DEF Pointers, Init
<1> QED
  BY <1>2, <1>3, <1>4, <1>5 DEF GenInv

LEMMA GenStep ==
  ASSUME GenInv, [Next]_vars
  PROVE  GenInv'
<1>1. ASSUME NEW command \in BbsCommands \cup ChatCommands, Type(command)
      PROVE  GenInv'
  BY <1>1, TypeGen
<1>2. ASSUME RunMain
      PROVE  GenInv'
  BY <1>2, RefuseGen, StartServerGen, AttachGen, TestConditionGen, SleepGen, StartChatGen,
     NewSocketGen, ConnectGen, JoinGen, SendCommandGen DEF RunMain
<1>3. ASSUME SpuriousWake
      PROVE  GenInv'
  BY <1>3, SpuriousWakeGen
<1>4. ASSUME NEW v \in Visits, RunReceiver(v) \/ ServeCommand(v) \/ SendAway(v)
      PROVE  GenInv'
  BY <1>4, CallRecvGen, ReceiveGen, CloseStatusGen, TellListenerGen, BackToBbsGen,
     DeleteSocketGen, ForgetSocketGen, ServeCommandGen, SendAwayGen DEF RunReceiver
<1>5. ASSUME NEW l \in Listeners, RunListener(l)
      PROVE  GenInv'
  BY <1>5, NewListenSocketGen, BindAndListenGen, SetReadyGen, NotifyGen, CallAcceptGen,
     AdmitGen, TakeCloseGen, DeleteListenSocketGen, ForgetListenSocketGen, UnreadyGen
     DEF RunListener
<1>6. ASSUME UNCHANGED vars
      PROVE  GenInv'
  BY <1>6 DEF vars, GenInv, Types, Counted, InBounds, Pointers, Visited, Opened
<1> QED
  BY <1>1, <1>2, <1>3, <1>4, <1>5, <1>6 DEF Next

\* Whatever the user types and when: the variables stay in their sets, the visits and
\* the listeners are counted as they start, and whoever waits waits on a socket
\* object of its kind, also where a thread has used a stray pointer and the process
\* has stopped.
THEOREM GenInvHolds == Spec => []GenInv
<1>1. Init => GenInv
  BY GenInit
<1>2. GenInv /\ [Next]_vars => GenInv'
  BY GenStep
<1> QED
  BY <1>1, <1>2, PTL DEF Spec

\* The variables of the client's threads stay in their sets, for any number of visits
\* and listeners and any typing.
THEOREM ClientTypesHold == Spec => []TypeOK
<1>1. Init => hasty \in BOOLEAN
  BY DEF Init
<1>2. hasty \in BOOLEAN /\ [Next]_vars => (hasty \in BOOLEAN)'
  BY DEF Next, Type, vars
<1>3. GenInv /\ hasty \in BOOLEAN => TypeOK
  BY DEF GenInv, TypeOK
<1> QED
  BY <1>1, <1>2, <1>3, GenInvHolds, PTL DEF Spec

-----------------------------------------------------------------------------
(* As long as no command came too early: the visits.                       *)

Hearing == {"loop", "reading"}

\* Where the receiver of the last visit is; and the last listener.
Phase == IF Visited = 0 THEN "ended" ELSE receiver[Visited].at
Place == IF Opened = 0 THEN "none" ELSE listener[Opened].at

\* The visits and the listeners come one after the other: all but the last have
\* ended.
OneByOne ==
  /\ \A v \in Visits : /\ v < Visited => receiver[v].at = "ended"
                       /\ v > Visited => receiver[v].at = "none"
  /\ \A l \in Listeners : l < Opened => listener[l].at = "ended"

\* The main thread enters a room when no visit is under way; it may send into a
\* room while its receiver leaves.
MainFits ==
  /\ Phase = "none" <=> main.at \in {"connect", "join"}
  /\ main.at \in Entering => Phase = "ended"

\* The mode, the pointer and the objects follow the visit.
VisitFits ==
  /\ mode = IF Phase \in Hearing \cup {"none", "ask", "tell", "back"} \/ main.at = "new"
            THEN "chat" ELSE "bbs"
  /\ sock = IF Phase = "ended" THEN None ELSE Chat(Visited)
  /\ \A v \in Visits : Chat(v) \in heap <=> v = Visited /\ Phase \notin {"null", "ended"}
  /\ \A v \in Visits : receiver[v].at = "reading" => receiver[v].on = Chat(v)

\* Orders come from a chat server that has accepted the visit; who is told to close a
\* room is its owner, and nobody is cut off.
Ordered ==
  \A v \in Visits :
    /\ conn[v].orders # <<>> => conn[v].at \in {"served", "done"}
    /\ "close" \in ToSet(conn[v].orders) => conn[v].own
    /\ "cut" \notin ToSet(conn[v].orders)

-----------------------------------------------------------------------------
(* The own room.                                                           *)

\* The pointer, the objects, the port and the flag follow the listener.
ListenerFits ==
  /\ listenSock = IF Place \in {"none", "new", "unready", "ended"} THEN None
                  ELSE Server(Opened)
  /\ \A l \in Listeners : Server(l) \in heap <=>
       l = Opened /\ Place \notin {"none", "new", "null", "unready", "ended"}
  /\ bound = IF Place \in {"ready", "notify", "accept", "waiting", "delete"}
             THEN {Server(Opened)} ELSE {}
  /\ ready <=> Place \in {"notify", "accept", "waiting", "delete", "null", "unready"}
  /\ Place = "waiting" => listener[Opened].on = Server(Opened)

\* The listener can take what waits to be accepted.
Accepting == Place \in {"accept", "waiting"}
NothingWaits == \A s \in Objects : queue[s] = <<>>

\* What waits to be accepted: the owner's visit, or the connection that stops the
\* listener of a room that is closed.
OwnerWaits ==
  /\ queue[Server(Opened)] = <<Visited>> /\ Visited > 0 /\ room = "open"
  /\ conn[Visited].own /\ conn[Visited].at \in {"new", "joined"}
  /\ main.at = "join" \/ Phase \in Hearing
StopWaits == queue[Server(Opened)] = <<Stop>> /\ room = "closed" /\ Accepting

QueueFits ==
  \A s \in Objects : queue[s] # <<>> =>
    Opened > 0 /\ s = Server(Opened) /\ (OwnerWaits \/ StopWaits)

\* The listener of a room that is closed is told once.
RoomFits ==
  /\ room = "none" <=> Opened = 0
  /\ room = "open" => Place \in {"new", "bind", "ready", "notify", "accept", "waiting"}
  /\ room = "closed" => Accepting \/ Place \in {"delete", "null", "unready", "ended"}
  /\ room = "closed" /\ Accepting /\ Phase # "tell" => queue[Server(Opened)] = <<Stop>>
  /\ Phase = "tell" => room = "closed" /\ Accepting /\ NothingWaits
  /\ Phase = "ask" => room = "open" /\ Accepting /\ NothingWaits

\* The main thread waits for the listener before it connects; a room that is
\* restarted has no listener.
HostFits ==
  /\ main.at \in {"test", "block", "asleep"} => room = "open" /\ main.command # "join"
  /\ room = "open" /\ main.at \notin {"test", "block", "asleep"} => ready
  /\ main.at \in {"start", "new", "connect", "join"} /\ main.command # "join" => room = "open"
  /\ main.at = "ask" /\ main.command = "restart" /\ room = "closed" => Place = "ended"
  /\ main.at \in {"connect", "join"} =>
       conn[Visited].at = "new" /\ (conn[Visited].own <=> main.command # "join")

\* The owner in its own room.
OwnVisit ==
  Phase \in Hearing /\ conn[Visited].own =>
    /\ room = "open"
    /\ conn[Visited].at = "joined" \/
         (conn[Visited].at \in {"served", "done"} /\ Accepting /\ NothingWaits)

VisitInv == OneByOne /\ MainFits /\ VisitFits /\ Ordered
RoomInv == ListenerFits /\ QueueFits /\ RoomFits /\ HostFits /\ OwnVisit
Fits == fate = "running" /\ VisitInv /\ RoomInv

\* Where the process has stopped: another's room refused it, or the main thread sent
\* through a pointer that its receiver is clearing.
Stopped ==
  \/ fate = "refused"
  \/ fate = "undefined" /\ main.at = "send" /\ sock \notin heap
Sane == VisitInv /\ RoomInv /\ (fate = "running" \/ Stopped)

LEMMA FitsParts ==
  ASSUME Fits
  PROVE  /\ fate = "running" /\ OneByOne /\ MainFits /\ VisitFits /\ Ordered
         /\ ListenerFits /\ QueueFits /\ RoomFits /\ HostFits /\ OwnVisit
BY DEF Fits, VisitInv, RoomInv

LEMMA FitsThen ==
  ASSUME fate' = "running", OneByOne', MainFits', VisitFits', Ordered',
         ListenerFits', QueueFits', RoomFits', HostFits', OwnVisit'
  PROVE  Fits'
BY DEF Fits, VisitInv, RoomInv

\* A visit under way is the last, and so is a listener that runs.
LEMMA LastVisit ==
  ASSUME Counted, OneByOne, NEW v \in Visits, receiver[v].at \notin {"none", "ended"}
  PROVE  v = Visited /\ Visited # 0 /\ Phase = receiver[v].at
BY DEF Counted, OneByOne, Phase, Visits

LEMMA LastListener ==
  ASSUME Counted, OneByOne, NEW l \in Listeners, listener[l].at \notin {"none", "ended"}
  PROVE  l = Opened /\ Opened # 0 /\ Place = listener[l].at
BY DEF Counted, OneByOne, Place, Listeners

LEMMA PhaseAt ==
  ASSUME Types, Counted
  PROVE  /\ Visited # 0 => Visited \in Visits /\ Phase = receiver[Visited].at
         /\ Visited = 0 => Phase = "ended"
         /\ Phase \in ReceiverPlaces
<1>1. Visited # 0 => Visited \in Visits
  BY Bounds DEF Counted, Visits
<1> QED
  BY <1>1, ConnFields DEF Phase, ReceiverPlaces

LEMMA PlaceAt ==
  ASSUME Types, Counted
  PROVE  /\ Opened # 0 => /\ Opened \in Listeners /\ Place = listener[Opened].at
                          /\ Place # "none" /\ Server(Opened) \in Objects
         /\ Opened = 0 => Place = "none"
         /\ Place \in ListenerPlaces
<1>1. Opened # 0 => Opened \in Listeners
  BY Bounds DEF Counted, Listeners
<1>2. Opened # 0 => listener[Opened].at # "none"
  BY <1>1, Bounds DEF Counted
<1> QED
  BY <1>1, <1>2, ListenerFields, ObjectFacts DEF Place, ListenerPlaces

LEMMA PhaseSame ==
  ASSUME receiver' = receiver, Visited' = Visited
  PROVE  Phase' = Phase
BY DEF Phase

LEMMA PlaceSame ==
  ASSUME listener' = listener, Opened' = Opened
  PROVE  Place' = Place
BY DEF Place

LEMMA PhaseMoves ==
  ASSUME NEW v, v # 0, Visited' = v
  PROVE  Phase' = receiver'[v].at
BY DEF Phase

LEMMA PlaceMoves ==
  ASSUME NEW l, l # 0, Opened' = l
  PROVE  Place' = listener'[l].at
BY DEF Place

\* Lists of one element.
LEMMA OneItem ==
  /\ \A x : /\ Head(<<x>>) = x /\ Tail(<<x>>) = <<>> /\ <<x>> # <<>> /\ Append(<<>>, x) = <<x>>
            /\ <<>> \o <<x>> = <<x>>
            /\ ToSet(<<x>>) = {x}
  /\ ToSet(<<>>) = {}
  /\ \A x, y : <<x>> = <<y>> => x = y
  /\ <<>> \o <<>> = <<>>
BY DEF ToSet

\* What is on a list that loses its head, and on one that is made longer.
LEMMA Listed ==
  /\ \A S : \A q \in Seq(S) : q # <<>> => Head(q) \in ToSet(q) /\ ToSet(Tail(q)) \subseteq ToSet(q)
  /\ \A S : \A q \in Seq(S), x \in S : ToSet(Append(q, x)) \subseteq ToSet(q) \cup {x}
  /\ \A S : \A q, r \in Seq(S) : ToSet(q \o r) \subseteq ToSet(q) \cup ToSet(r)
BY DEF ToSet

-----------------------------------------------------------------------------
(* The steps of the user and of the main thread.                           *)

LEMMA TypeFits ==
  ASSUME GenInv, Fits, NEW command \in BbsCommands \cup ChatCommands, Type(command), ~hasty'
  PROVE  Fits'
<1>1. Types /\ Counted /\ InBounds /\ Pointers
  BY DEF GenInv
<1>2. /\ fate = "running" /\ OneByOne /\ MainFits /\ VisitFits /\ Ordered
      /\ ListenerFits /\ QueueFits /\ RoomFits /\ HostFits /\ OwnVisit
  BY FitsParts
<1>3. main'.command = command /\ main.at = "prompt"
  BY DEF Type
<1>4. \/ mode = "bbs" /\ command \in BbsCommands /\ main'.at = "ask"
      \/ mode = "chat" /\ command \in ChatCommands /\ main'.at = "send"
  BY DEF Type
<1>5. ~TooEarly(command)
  BY DEF Type
<1>6. command = "restart" => ~Closing
  BY <1>5 DEF TooEarly
<1>7. command \in BbsCommands => Phase = "ended"
  <2>1. SUFFICES ASSUME command \in BbsCommands
                 PROVE  Phase = "ended"
    OBVIOUS
  <2>2. mode = "bbs"
    BY <1>4, <2>1 DEF BbsCommands, ChatCommands
  <2>3. Phase \notin {"delete", "null"}
    BY <1>1, <1>5, <2>1, PhaseAt DEF TooEarly
  <2> QED
    BY <1>1, <1>2, <1>3, <2>2, <2>3, PhaseAt DEF VisitFits, MainFits, Hearing, ReceiverPlaces
<1>8. command = "restart" => command \in BbsCommands /\ command \notin ChatCommands
  BY DEF BbsCommands, ChatCommands
<1>9. command = "restart" /\ room = "closed" => Place = "ended"
  <2>1. SUFFICES ASSUME command = "restart", room = "closed"
                PROVE  Place = "ended"
    OBVIOUS
  <2>2. Opened # 0 /\ Server(Opened) \in Objects /\ Opened \in Listeners
    BY <1>1, <1>2, <2>1, PlaceAt DEF RoomFits
  <2>3. Place \notin {"delete", "null", "unready"}
    BY <1>1, <1>6, <2>1, <2>2, PlaceAt DEF Closing
  <2>4. queue[Server(Opened)] # <<Stop>>
    BY <1>6, <2>1, <2>2, OneItem DEF Closing
  <2> QED
    BY <1>2, <1>7, <1>8, <2>1, <2>3, <2>4 DEF RoomFits
<1>10. UNCHANGED <<fate, mode, sock, heap, receiver, ready, listener, listenSock, bound, queue, conn, room>>
  BY DEF Type
<1>11. Visited' = Visited
  BY VisitedSame, <1>10
<1>12. Opened' = Opened
  BY OpenedSame, <1>10
<1>13. Phase' = Phase
  BY PhaseSame, <1>10, <1>11
<1>14. Place' = Place
  BY PlaceSame, <1>10, <1>12
<1>15. OneByOne'
  BY <1>2, <1>10, <1>11, <1>12 DEF OneByOne
<1>16. MainFits'
  BY <1>2, <1>3, <1>4, <1>7, <1>13 DEF MainFits, Entering
<1>17. VisitFits'
  BY <1>2, <1>3, <1>4, <1>10, <1>11, <1>13 DEF VisitFits
<1>18. Ordered'
  BY <1>2, <1>10 DEF Ordered
<1>19. ListenerFits'
  BY <1>2, <1>10, <1>12, <1>14 DEF ListenerFits
<1>20. QueueFits'
  BY <1>2, <1>3, <1>4, <1>10, <1>11, <1>12, <1>13, <1>14 DEF QueueFits, OwnerWaits,
     StopWaits, Accepting
<1>21. RoomFits'
  BY <1>2, <1>10, <1>12, <1>13, <1>14 DEF RoomFits, Accepting, NothingWaits
<1>22. HostFits'
  BY <1>2, <1>3, <1>4, <1>8, <1>9, <1>10, <1>11, <1>14 DEF HostFits
<1>23. OwnVisit'
  BY <1>2, <1>10, <1>11, <1>13, <1>14 DEF OwnVisit, Accepting, NothingWaits, Hearing
<1> QED
  BY <1>2, <1>10, <1>15, <1>16, <1>17, <1>18, <1>19, <1>20, <1>21, <1>22, <1>23, FitsThen

LEMMA RefuseFits ==
  ASSUME GenInv, Fits, Refuse
  PROVE  Fits'
<1>1. Types /\ Counted /\ InBounds /\ Pointers
  BY DEF GenInv
<1>2. /\ fate = "running" /\ OneByOne /\ MainFits /\ VisitFits /\ Ordered
      /\ ListenerFits /\ QueueFits /\ RoomFits /\ HostFits /\ OwnVisit
  BY FitsParts
<1>3. main.at = "ask" /\ main'.at = "prompt"
  BY DEF Refuse
<1>4. UNCHANGED <<fate, mode, sock, heap, receiver, ready, listener, listenSock, bound, queue, conn, room>>
  BY DEF Refuse
<1>5. Visited' = Visited
  BY VisitedSame, <1>4
<1>6. Opened' = Opened
  BY OpenedSame, <1>4
<1>7. Phase' = Phase
  BY PhaseSame, <1>4, <1>5
<1>8. Place' = Place
  BY PlaceSame, <1>4, <1>6
<1>9. OneByOne'
  BY <1>2, <1>4, <1>5, <1>6 DEF OneByOne
<1>10. MainFits'
  BY <1>2, <1>3, <1>4, <1>5, <1>7 DEF MainFits, Entering, Hearing
<1>11. VisitFits'
  BY <1>2, <1>3, <1>4, <1>5, <1>7 DEF VisitFits, Hearing
<1>12. Ordered'
  BY <1>2, <1>4, <1>5, <1>7 DEF Ordered, Hearing
<1>13. ListenerFits'
  BY <1>2, <1>4, <1>6, <1>8 DEF ListenerFits
<1>14. QueueFits'
  BY <1>2, <1>3, <1>4, <1>5, <1>6, <1>7, <1>8 DEF QueueFits, OwnerWaits, StopWaits,
     Accepting, Hearing
<1>15. RoomFits'
  BY <1>2, <1>4, <1>6, <1>7, <1>8 DEF RoomFits, Accepting, NothingWaits
<1>16. HostFits'
  BY <1>2, <1>3, <1>4, <1>5, <1>8 DEF HostFits
<1>17. OwnVisit'
  BY <1>2, <1>4, <1>5, <1>7, <1>8 DEF OwnVisit, Accepting, NothingWaits, Hearing
<1> QED
  BY <1>2, <1>4, <1>9, <1>10, <1>11, <1>12, <1>13, <1>14, <1>15, <1>16, <1>17, FitsThen

LEMMA StartServerFits ==
  ASSUME GenInv, Fits, StartServer
  PROVE  Fits'
<1>1. Types /\ Counted /\ InBounds /\ Pointers
  BY DEF GenInv
<1>2. /\ fate = "running" /\ OneByOne /\ MainFits /\ VisitFits /\ Ordered
      /\ ListenerFits /\ QueueFits /\ RoomFits /\ HostFits /\ OwnVisit
  BY FitsParts
<1>3. main.at = "ask"
  BY DEF StartServer
<1>4. main'.at = "test" /\ main'.command = main.command
  BY <1>1, MainMoves, SMTT(30) DEF StartServer, MainPlaces
<1>5. main.command \in {"create", "restart"} /\ room' = "open"
  BY DEF StartServer
<1>6. Opened + 1 \in Listeners
  BY <1>1, <1>3, <1>5, Bounds DEF Counted, InBounds, Listeners
<1>7. \A l \in Listeners :
        /\ listener'[l].at = IF l = Opened + 1 THEN "new" ELSE listener[l].at
        /\ listener'[l].on = listener[l].on
  <2>1. ListenerTo(Opened + 1, "new")
    BY DEF StartServer
  <2>2. "new" \in ListenerPlaces
    BY DEF ListenerPlaces
  <2> QED
    BY <1>1, <1>6, <2>1, <2>2, ListenerMoves
<1>8. Place \in {"none", "ended"}
  BY <1>1, <1>2, <1>3, PlaceAt DEF StartServer, RoomFits, HostFits
<1>9. Phase = "ended" /\ NothingWaits
  BY <1>1, <1>2, <1>3, <1>8 DEF StartServer, MainFits, Entering, QueueFits, OwnerWaits,
     StopWaits, Accepting, NothingWaits, Hearing
<1>10. UNCHANGED <<fate, mode, sock, heap, receiver, ready, listenSock, bound, queue, conn>>
  BY DEF StartServer
<1>11. Visited' = Visited
  BY VisitedSame, <1>10
<1>12. Opened' = Opened + 1
  BY <1>1, <1>6, <1>7, OpenedIs, Bounds DEF Counted, Listeners
<1>13. Phase' = Phase
  BY PhaseSame, <1>10, <1>11
<1>14. Place' = "new"
  BY <1>12, <1>1, <1>3, <1>6, <1>7, <1>8, <1>9, PlaceMoves DEF Counted
<1>15. OneByOne'
  BY <1>2, <1>3, <1>6, <1>7, <1>8, <1>9, <1>10, <1>11, <1>12, <1>1, PlaceAt DEF OneByOne,
     Counted, Listeners
<1>16. MainFits'
  BY <1>2, <1>3, <1>4, <1>6, <1>8, <1>9, <1>10, <1>11, <1>13 DEF MainFits, Entering, Hearing
<1>17. VisitFits'
  BY <1>2, <1>3, <1>4, <1>6, <1>8, <1>9, <1>10, <1>11, <1>13 DEF VisitFits, Hearing
<1>18. Ordered'
  BY <1>2, <1>10, <1>11, <1>13 DEF Ordered, Hearing
<1>19. ListenerFits'
  BY <1>2, <1>3, <1>6, <1>7, <1>8, <1>9, <1>10, <1>12, <1>14, <1>1 DEF ListenerFits,
     Counted, Listeners
<1>20. QueueFits'
  BY <1>2, <1>3, <1>4, <1>5, <1>6, <1>8, <1>9, <1>10, <1>11, <1>12, <1>13, <1>14 DEF
     QueueFits, OwnerWaits, StopWaits, Accepting, Hearing, NothingWaits
<1>21. RoomFits'
  BY <1>2, <1>3, <1>5, <1>6, <1>8, <1>9, <1>10, <1>12, <1>13, <1>14, <1>1 DEF RoomFits,
     Accepting, NothingWaits, Counted
<1>22. HostFits'
  BY <1>2, <1>3, <1>4, <1>5, <1>6, <1>8, <1>9, <1>10, <1>11, <1>14 DEF HostFits
<1>23. OwnVisit'
  BY <1>2, <1>3, <1>5, <1>6, <1>8, <1>9, <1>10, <1>11, <1>13, <1>14 DEF OwnVisit, Accepting,
     NothingWaits, Hearing
<1> QED
  BY <1>2, <1>10, <1>15, <1>16, <1>17, <1>18, <1>19, <1>20, <1>21, <1>22, <1>23, FitsThen

LEMMA AttachFits ==
  ASSUME GenInv, Fits, Attach
  PROVE  Fits'
<1>1. Types /\ Counted /\ InBounds /\ Pointers
  BY DEF GenInv
<1>2. /\ fate = "running" /\ OneByOne /\ MainFits /\ VisitFits /\ Ordered
      /\ ListenerFits /\ QueueFits /\ RoomFits /\ HostFits /\ OwnVisit
  BY FitsParts
<1>3. main.at = "ask"
  BY DEF Attach
<1>4. main'.at = "start" /\ main'.command = main.command
  BY <1>1, MainMoves, SMTT(30) DEF Attach, MainPlaces
<1>5. main.command # "join" => room = "open"
  BY DEF Attach
<1>6. UNCHANGED <<fate, mode, sock, heap, receiver, ready, listener, listenSock, bound, queue, conn, room>>
  BY DEF Attach
<1>7. Visited' = Visited
  BY VisitedSame, <1>6
<1>8. Opened' = Opened
  BY OpenedSame, <1>6
<1>9. Phase' = Phase
  BY PhaseSame, <1>6, <1>7
<1>10. Place' = Place
  BY PlaceSame, <1>6, <1>8
<1>11. OneByOne'
  BY <1>2, <1>6, <1>7, <1>8 DEF OneByOne
<1>12. MainFits'
  BY <1>2, <1>3, <1>4, <1>5, <1>6, <1>7, <1>9 DEF MainFits, Entering, Hearing
<1>13. VisitFits'
  BY <1>2, <1>3, <1>4, <1>5, <1>6, <1>7, <1>9 DEF VisitFits, Hearing
<1>14. Ordered'
  BY <1>2, <1>6, <1>7, <1>9 DEF Ordered, Hearing
<1>15. ListenerFits'
  BY <1>2, <1>6, <1>8, <1>10 DEF ListenerFits
<1>16. QueueFits'
  BY <1>2, <1>3, <1>4, <1>5, <1>6, <1>7, <1>8, <1>9, <1>10 DEF QueueFits, OwnerWaits,
     StopWaits, Accepting, Hearing
<1>17. RoomFits'
  BY <1>2, <1>6, <1>8, <1>9, <1>10 DEF RoomFits, Accepting, NothingWaits
<1>18. HostFits'
  BY <1>2, <1>3, <1>4, <1>5, <1>6, <1>7, <1>10 DEF HostFits
<1>19. OwnVisit'
  BY <1>2, <1>6, <1>7, <1>9, <1>10 DEF OwnVisit, Accepting, NothingWaits, Hearing
<1> QED
  BY <1>2, <1>6, <1>11, <1>12, <1>13, <1>14, <1>15, <1>16, <1>17, <1>18, <1>19, FitsThen

LEMMA TestConditionFits ==
  ASSUME GenInv, Fits, TestCondition
  PROVE  Fits'
<1>1. Types /\ Counted /\ InBounds /\ Pointers
  BY DEF GenInv
<1>2. /\ fate = "running" /\ OneByOne /\ MainFits /\ VisitFits /\ Ordered
      /\ ListenerFits /\ QueueFits /\ RoomFits /\ HostFits /\ OwnVisit
  BY FitsParts
<1>3. main.at = "test"
  BY DEF TestCondition
<1>4. /\ main'.at = (IF ready THEN "start" ELSE "block")
      /\ main'.command = main.command
  BY <1>1, MainMoves DEF TestCondition, Condition, MainPlaces
<1>5. UNCHANGED <<fate, mode, sock, heap, receiver, ready, listener, listenSock, bound, queue, conn, room>>
  BY DEF TestCondition
<1>6. Visited' = Visited
  BY VisitedSame, <1>5
<1>7. Opened' = Opened
  BY OpenedSame, <1>5
<1>8. Phase' = Phase
  BY PhaseSame, <1>5, <1>6
<1>9. Place' = Place
  BY PlaceSame, <1>5, <1>7
<1>10. OneByOne'
  BY <1>2, <1>5, <1>6, <1>7 DEF OneByOne
<1>11. MainFits'
  BY <1>2, <1>3, <1>4, <1>5, <1>6, <1>8 DEF MainFits, Entering, Hearing
<1>12. VisitFits'
  BY <1>2, <1>3, <1>4, <1>5, <1>6, <1>8 DEF VisitFits, Hearing
<1>13. Ordered'
  BY <1>2, <1>5, <1>6, <1>8 DEF Ordered, Hearing
<1>14. ListenerFits'
  BY <1>2, <1>5, <1>7, <1>9 DEF ListenerFits
<1>15. QueueFits'
  BY <1>2, <1>3, <1>4, <1>5, <1>6, <1>7, <1>8, <1>9 DEF QueueFits, OwnerWaits, StopWaits,
     Accepting, Hearing
<1>16. RoomFits'
  BY <1>2, <1>5, <1>7, <1>8, <1>9 DEF RoomFits, Accepting, NothingWaits
<1>17. HostFits'
  BY <1>2, <1>3, <1>4, <1>5, <1>6, <1>9 DEF HostFits
<1>18. OwnVisit'
  BY <1>2, <1>5, <1>6, <1>8, <1>9 DEF OwnVisit, Accepting, NothingWaits, Hearing
<1> QED
  BY <1>2, <1>5, <1>10, <1>11, <1>12, <1>13, <1>14, <1>15, <1>16, <1>17, <1>18, FitsThen

LEMMA SleepFits ==
  ASSUME GenInv, Fits, Sleep
  PROVE  Fits'
<1>1. Types /\ Counted /\ InBounds /\ Pointers
  BY DEF GenInv
<1>2. /\ fate = "running" /\ OneByOne /\ MainFits /\ VisitFits /\ Ordered
      /\ ListenerFits /\ QueueFits /\ RoomFits /\ HostFits /\ OwnVisit
  BY FitsParts
<1>3. main.at = "block"
  BY DEF Sleep
<1>4. main'.at = "asleep" /\ main'.command = main.command
  BY <1>1, MainMoves, SMTT(30) DEF Sleep, MainPlaces
<1>5. UNCHANGED <<fate, mode, sock, heap, receiver, ready, listener, listenSock, bound, queue, conn, room>>
  BY DEF Sleep
<1>6. Visited' = Visited
  BY VisitedSame, <1>5
<1>7. Opened' = Opened
  BY OpenedSame, <1>5
<1>8. Phase' = Phase
  BY PhaseSame, <1>5, <1>6
<1>9. Place' = Place
  BY PlaceSame, <1>5, <1>7
<1>10. OneByOne'
  BY <1>2, <1>5, <1>6, <1>7 DEF OneByOne
<1>11. MainFits'
  BY <1>2, <1>3, <1>4, <1>5, <1>6, <1>8 DEF MainFits, Entering, Hearing
<1>12. VisitFits'
  BY <1>2, <1>3, <1>4, <1>5, <1>6, <1>8 DEF VisitFits, Hearing
<1>13. Ordered'
  BY <1>2, <1>5, <1>6, <1>8 DEF Ordered, Hearing
<1>14. ListenerFits'
  BY <1>2, <1>5, <1>7, <1>9 DEF ListenerFits
<1>15. QueueFits'
  BY <1>2, <1>3, <1>4, <1>5, <1>6, <1>7, <1>8, <1>9 DEF QueueFits, OwnerWaits, StopWaits,
     Accepting, Hearing
<1>16. RoomFits'
  BY <1>2, <1>5, <1>7, <1>8, <1>9 DEF RoomFits, Accepting, NothingWaits
<1>17. HostFits'
  BY <1>2, <1>3, <1>4, <1>5, <1>6, <1>9 DEF HostFits
<1>18. OwnVisit'
  BY <1>2, <1>5, <1>6, <1>8, <1>9 DEF OwnVisit, Accepting, NothingWaits, Hearing
<1> QED
  BY <1>2, <1>5, <1>10, <1>11, <1>12, <1>13, <1>14, <1>15, <1>16, <1>17, <1>18, FitsThen

LEMMA SpuriousWakeFits ==
  ASSUME GenInv, Fits, SpuriousWake
  PROVE  Fits'
<1>1. Types /\ Counted /\ InBounds /\ Pointers
  BY DEF GenInv
<1>2. /\ fate = "running" /\ OneByOne /\ MainFits /\ VisitFits /\ Ordered
      /\ ListenerFits /\ QueueFits /\ RoomFits /\ HostFits /\ OwnVisit
  BY FitsParts
<1>3. main.at = "asleep"
  BY DEF SpuriousWake
<1>4. main'.at = "test" /\ main'.command = main.command
  BY <1>1, MainMoves, SMTT(30) DEF SpuriousWake, MainPlaces
<1>5. UNCHANGED <<fate, mode, sock, heap, receiver, ready, listener, listenSock, bound, queue, conn, room>>
  BY DEF SpuriousWake
<1>6. Visited' = Visited
  BY VisitedSame, <1>5
<1>7. Opened' = Opened
  BY OpenedSame, <1>5
<1>8. Phase' = Phase
  BY PhaseSame, <1>5, <1>6
<1>9. Place' = Place
  BY PlaceSame, <1>5, <1>7
<1>10. OneByOne'
  BY <1>2, <1>5, <1>6, <1>7 DEF OneByOne
<1>11. MainFits'
  BY <1>2, <1>3, <1>4, <1>5, <1>6, <1>8 DEF MainFits, Entering, Hearing
<1>12. VisitFits'
  BY <1>2, <1>3, <1>4, <1>5, <1>6, <1>8 DEF VisitFits, Hearing
<1>13. Ordered'
  BY <1>2, <1>5, <1>6, <1>8 DEF Ordered, Hearing
<1>14. ListenerFits'
  BY <1>2, <1>5, <1>7, <1>9 DEF ListenerFits
<1>15. QueueFits'
  BY <1>2, <1>3, <1>4, <1>5, <1>6, <1>7, <1>8, <1>9 DEF QueueFits, OwnerWaits, StopWaits,
     Accepting, Hearing
<1>16. RoomFits'
  BY <1>2, <1>5, <1>7, <1>8, <1>9 DEF RoomFits, Accepting, NothingWaits
<1>17. HostFits'
  BY <1>2, <1>3, <1>4, <1>5, <1>6, <1>9 DEF HostFits
<1>18. OwnVisit'
  BY <1>2, <1>5, <1>6, <1>8, <1>9 DEF OwnVisit, Accepting, NothingWaits, Hearing
<1> QED
  BY <1>2, <1>5, <1>10, <1>11, <1>12, <1>13, <1>14, <1>15, <1>16, <1>17, <1>18, FitsThen

LEMMA StartChatFits ==
  ASSUME GenInv, Fits, StartChat
  PROVE  Fits'
<1>1. Types /\ Counted /\ InBounds /\ Pointers
  BY DEF GenInv
<1>2. /\ fate = "running" /\ OneByOne /\ MainFits /\ VisitFits /\ Ordered
      /\ ListenerFits /\ QueueFits /\ RoomFits /\ HostFits /\ OwnVisit
  BY FitsParts
<1>3. main.at = "start"
  BY DEF StartChat
<1>4. mode' = "chat"
  BY DEF StartChat
<1>5. main'.at = "new" /\ main'.command = main.command
  BY <1>1, MainMoves, SMTT(30) DEF StartChat, MainPlaces
<1>6. UNCHANGED <<fate, sock, heap, receiver, ready, listener, listenSock, bound, queue, conn, room>>
  BY DEF StartChat
<1>7. Visited' = Visited
  BY VisitedSame, <1>6
<1>8. Opened' = Opened
  BY OpenedSame, <1>6
<1>9. Phase' = Phase
  BY PhaseSame, <1>6, <1>7
<1>10. Place' = Place
  BY PlaceSame, <1>6, <1>8
<1>11. OneByOne'
  BY <1>2, <1>6, <1>7, <1>8 DEF OneByOne
<1>12. MainFits'
  BY <1>2, <1>3, <1>5, <1>6, <1>7, <1>9 DEF MainFits, Entering, Hearing
<1>13. VisitFits'
  BY <1>2, <1>3, <1>4, <1>5, <1>6, <1>7, <1>9 DEF VisitFits, Hearing
<1>14. Ordered'
  BY <1>2, <1>6, <1>7, <1>9 DEF Ordered, Hearing
<1>15. ListenerFits'
  BY <1>2, <1>6, <1>8, <1>10 DEF ListenerFits
<1>16. QueueFits'
  BY <1>2, <1>3, <1>5, <1>6, <1>7, <1>8, <1>9, <1>10 DEF QueueFits, OwnerWaits, StopWaits,
     Accepting, Hearing
<1>17. RoomFits'
  BY <1>2, <1>6, <1>8, <1>9, <1>10 DEF RoomFits, Accepting, NothingWaits
<1>18. HostFits'
  BY <1>2, <1>3, <1>5, <1>6, <1>7, <1>10 DEF HostFits
<1>19. OwnVisit'
  BY <1>2, <1>6, <1>7, <1>9, <1>10 DEF OwnVisit, Accepting, NothingWaits, Hearing
<1> QED
  BY <1>2, <1>6, <1>11, <1>12, <1>13, <1>14, <1>15, <1>16, <1>17, <1>18, <1>19, FitsThen

LEMMA NewSocketFits ==
  ASSUME GenInv, Fits, NewSocket
  PROVE  Fits'
<1>1. Types /\ Counted /\ InBounds /\ Pointers
  BY DEF GenInv
<1>2. /\ fate = "running" /\ OneByOne /\ MainFits /\ VisitFits /\ Ordered
      /\ ListenerFits /\ QueueFits /\ RoomFits /\ HostFits /\ OwnVisit
  BY FitsParts
<1>3. main.at = "new"
  BY DEF NewSocket
<1>4. main'.at = "connect" /\ main'.command = main.command
  BY <1>1, MainMoves, SMTT(30) DEF NewSocket, MainPlaces
<1>5. Visited + 1 \in Visits
  BY <1>1, <1>3, Bounds DEF Counted, InBounds, Entering, Visits
<1>6. sock' = Chat(Visited + 1) /\ heap' = heap \cup {Chat(Visited + 1)}
  BY DEF NewSocket
<1>7. \A v \in Visits :
        /\ conn'[v].at = IF v = Visited + 1 THEN "new" ELSE conn[v].at
        /\ v = Visited + 1 => (conn'[v].own <=> main.command # "join")
        /\ v # Visited + 1 => conn'[v].own = conn[v].own
        /\ conn'[v].sent = conn[v].sent
        /\ conn'[v].orders = conn[v].orders
  <2>1. PICK own \in BOOLEAN : (own <=> main.command # "join")
                           /\ conn' = [conn EXCEPT ![Visited + 1].at = "new", ![Visited + 1].own = own]
    BY DEF NewSocket
  <2>2. PICK u \in Visits : u = Visited + 1
    BY <1>5
  <2>3. conn' = WithNew(u, own)
    BY <2>1, <2>2 DEF WithNew
  <2>4. \A w \in Visits :
          /\ conn'[w].at = IF w = u THEN "new" ELSE conn[w].at
          /\ conn'[w].own = IF w = u THEN own ELSE conn[w].own
          /\ conn'[w].sent = conn[w].sent
          /\ conn'[w].orders = conn[w].orders
    <3>1. Types
      BY <1>1
    <3> QED
      BY ONLY <2>3, <3>1, own \in BOOLEAN, u \in Visits, NewConn
  <2>5. \A w \in Visits :
          /\ conn'[w].at = IF w = Visited + 1 THEN "new" ELSE conn[w].at
          /\ conn'[w].own = IF w = Visited + 1 THEN own ELSE conn[w].own
          /\ conn'[w].sent = conn[w].sent
          /\ conn'[w].orders = conn[w].orders
    BY <2>2, <2>4
  <2>6. \A w \in Visits : w = Visited + 1 => conn'[w].own = own
    BY <2>5
  <2>7. \A w \in Visits : w # Visited + 1 => conn'[w].own = conn[w].own
    BY <2>5
  <2> QED
    BY <2>1, <2>5, <2>6, <2>7
<1>8. Phase = "ended"
  BY <1>2, <1>3 DEF MainFits, Entering
<1>9. receiver[Visited + 1].at = "none"
  BY <1>1, <1>2, <1>5 DEF OneByOne, Counted, Visits
<1>10. UNCHANGED <<fate, mode, receiver, ready, listener, listenSock, bound, queue, room>>
  BY DEF NewSocket
<1>11. Visited' = Visited + 1
  BY <1>1, <1>5, <1>7, VisitedIs, Bounds DEF Counted, Visits
<1>12. Opened' = Opened
  BY OpenedSame, <1>10
<1>13. Phase' = "none"
  BY <1>11, <1>1, <1>3, <1>5, <1>8, <1>9, <1>10, PhaseMoves DEF Counted
<1>14. Place' = Place
  BY PlaceSame, <1>10, <1>12
<1>15. OneByOne'
  BY <1>2, <1>3, <1>5, <1>8, <1>9, <1>10, <1>11, <1>12, <1>1, PhaseAt DEF OneByOne, Counted,
     Visits
<1>16. MainFits'
  BY <1>2, <1>3, <1>4, <1>5, <1>7, <1>8, <1>9, <1>11, <1>13 DEF MainFits, Entering, Hearing
<1>17. VisitFits'
  BY <1>2, <1>3, <1>4, <1>5, <1>6, <1>8, <1>9, <1>10, <1>11, <1>13, ObjectFacts DEF
     VisitFits, Hearing
<1>18. Ordered'
  BY <1>2, <1>3, <1>5, <1>7, <1>8, <1>9, <1>11, <1>13, <1>1, OneItem DEF Ordered, Hearing,
     Counted, Visits
<1>19. ListenerFits'
  BY <1>2, <1>3, <1>5, <1>6, <1>8, <1>9, <1>10, <1>12, <1>14, <1>1, ObjectFacts, PlaceAt DEF
     ListenerFits
<1>20. QueueFits'
  BY <1>2, <1>3, <1>4, <1>5, <1>7, <1>8, <1>9, <1>10, <1>11, <1>12, <1>13, <1>14 DEF
     QueueFits, OwnerWaits, StopWaits, Accepting, Hearing
<1>21. RoomFits'
  BY <1>2, <1>3, <1>5, <1>8, <1>9, <1>10, <1>12, <1>13, <1>14 DEF RoomFits, Accepting,
     NothingWaits
<1>22. HostFits'
  BY <1>2, <1>3, <1>4, <1>5, <1>7, <1>8, <1>9, <1>10, <1>11, <1>14 DEF HostFits
<1>23. OwnVisit'
  BY <1>2, <1>3, <1>5, <1>7, <1>8, <1>9, <1>10, <1>11, <1>13, <1>14 DEF OwnVisit, Accepting,
     NothingWaits, Hearing
<1> QED
  BY <1>2, <1>10, <1>15, <1>16, <1>17, <1>18, <1>19, <1>20, <1>21, <1>22, <1>23, FitsThen

LEMMA ConnectFits ==
  ASSUME GenInv, Fits, Connect, fate' # "refused"
  PROVE  Fits'
<1>1. Types /\ Counted /\ InBounds /\ Pointers
  BY DEF GenInv
<1>2. /\ fate = "running" /\ OneByOne /\ MainFits /\ VisitFits /\ Ordered
      /\ ListenerFits /\ QueueFits /\ RoomFits /\ HostFits /\ OwnVisit
  BY FitsParts
<1>3. main.at = "connect" /\ Phase = "none" /\ Visited \in Visits /\ Visited # 0
  BY <1>1, <1>2, PhaseAt DEF Connect, MainFits
<1>4. sock \in heap
  BY <1>2, <1>3 DEF VisitFits
<1>5. conn[Visited].own => room = "open" /\ bound = {Server(Opened)} /\ Opened # 0 /\ Server(Opened) \in Objects
  BY <1>1, <1>2, <1>3, PlaceAt DEF HostFits, RoomFits, ListenerFits
<1>6. NothingWaits \/ ~conn[Visited].own
  BY <1>2, <1>3, <1>5 DEF QueueFits, OwnerWaits, StopWaits, NothingWaits, Hearing
<1>7. main' = [main EXCEPT !.at = "join"]
  BY <1>4, <1>5 DEF Connect
<1>8. main'.at = "join" /\ main'.command = main.command
  BY <1>1, <1>7, MainMoves DEF MainPlaces
<1>9. IF conn[Visited].own
      THEN \A s \in Objects : queue'[s] = IF s = Server(Opened) THEN <<Visited>> ELSE <<>>
      ELSE queue' = queue
  <2>1. queue' = IF conn[Visited].own
                 THEN [s \in Objects |-> IF s \in bound THEN Append(queue[s], Visited) ELSE queue[s]]
                 ELSE queue
    BY <1>4, <1>5 DEF Connect
  <2> QED
    BY <2>1, <1>5, <1>6, OneItem DEF NothingWaits
<1>10. UNCHANGED <<fate, mode, sock, heap, receiver, ready, listener, listenSock, bound, conn, room>>
  BY <1>1, <1>2, <1>3, <1>4, <1>5, <1>6, <1>7, <1>8, <1>9 DEF Connect
<1>11. Visited' = Visited
  BY VisitedSame, <1>10
<1>12. Opened' = Opened
  BY OpenedSame, <1>10
<1>13. Phase' = Phase
  BY PhaseSame, <1>10, <1>11
<1>14. Place' = Place
  BY PlaceSame, <1>10, <1>12
<1>15. OneByOne'
  BY <1>2, <1>10, <1>11, <1>12 DEF OneByOne
<1>16. MainFits'
  BY <1>2, <1>3, <1>4, <1>5, <1>6, <1>7, <1>8, <1>10, <1>11, <1>13 DEF MainFits, Entering,
     Hearing
<1>17. VisitFits'
  BY <1>2, <1>3, <1>4, <1>5, <1>6, <1>7, <1>8, <1>10, <1>11, <1>13 DEF VisitFits, Hearing
<1>18. Ordered'
  BY <1>2, <1>10, <1>11, <1>13 DEF Ordered, Hearing
<1>19. ListenerFits'
  BY <1>2, <1>10, <1>12, <1>14 DEF ListenerFits
<1>20. QueueFits'
  BY <1>2, <1>3, <1>4, <1>5, <1>6, <1>7, <1>8, <1>9, <1>10, <1>11, <1>12, <1>13, <1>14,
     <1>1, OneItem DEF QueueFits, OwnerWaits, StopWaits, Accepting, Hearing, HostFits,
     Counted
<1>21. RoomFits'
  BY <1>2, <1>3, <1>4, <1>5, <1>6, <1>9, <1>10, <1>12, <1>13, <1>14 DEF RoomFits, Accepting,
     NothingWaits
<1>22. HostFits'
  BY <1>2, <1>3, <1>4, <1>5, <1>6, <1>7, <1>8, <1>10, <1>11, <1>14 DEF HostFits
<1>23. OwnVisit'
  BY <1>2, <1>3, <1>4, <1>5, <1>6, <1>9, <1>10, <1>11, <1>13, <1>14 DEF OwnVisit, Accepting,
     NothingWaits, Hearing
<1> QED
  BY <1>2, <1>10, <1>15, <1>16, <1>17, <1>18, <1>19, <1>20, <1>21, <1>22, <1>23, FitsThen

LEMMA JoinFits ==
  ASSUME GenInv, Fits, Join
  PROVE  Fits'
<1>1. Types /\ Counted /\ InBounds /\ Pointers
  BY DEF GenInv
<1>2. /\ fate = "running" /\ OneByOne /\ MainFits /\ VisitFits /\ Ordered
      /\ ListenerFits /\ QueueFits /\ RoomFits /\ HostFits /\ OwnVisit
  BY FitsParts
<1>3. main.at = "join" /\ Phase = "none" /\ Visited \in Visits /\ Visited # 0
  BY <1>1, <1>2, PhaseAt DEF Join, MainFits
<1>4. sock \in heap /\ conn[Visited].at = "new"
  BY <1>2, <1>3 DEF VisitFits, HostFits
<1>5. main'.at = "prompt"
  BY <1>4 DEF Join
<1>6. \A v \in Visits :
        /\ receiver'[v].at = IF v = Visited THEN "loop" ELSE receiver[v].at
        /\ receiver'[v].on = receiver[v].on
  <2>1. ReceiverTo(Visited, "loop")
    BY <1>4 DEF Join
  <2>2. "loop" \in ReceiverPlaces
    BY DEF ReceiverPlaces
  <2> QED
    BY <1>1, <1>3, <2>1, <2>2, ReceiverMoves
<1>7. conn' = [conn EXCEPT ![Visited].at = IF conn[Visited].own THEN "joined" ELSE "served"]
  BY <1>1, <1>3, <1>4, TypesOf DEF Join
<1>8. \A v \in Visits :
        /\ conn'[v].at = IF v # Visited THEN conn[v].at
                         ELSE IF conn[v].own THEN "joined" ELSE "served"
        /\ conn'[v].own = conn[v].own
        /\ conn'[v].sent = conn[v].sent
        /\ conn'[v].orders = conn[v].orders
  <2> DEFINE p == IF conn[Visited].own THEN "joined" ELSE "served"
  <2>1. p \in ConnPlaces /\ conn' = [conn EXCEPT ![Visited].at = p]
    BY <1>7 DEF ConnPlaces
  <2> HIDE DEF p
  <2>2. \A v \in Visits :
          /\ conn'[v].at = IF v = Visited THEN p ELSE conn[v].at
          /\ conn'[v].own = conn[v].own
          /\ conn'[v].sent = conn[v].sent
          /\ conn'[v].orders = conn[v].orders
    BY <1>1, <1>3, <2>1, ConnMoves
  <2> QED
    BY <2>2 DEF p
<1>9. UNCHANGED <<fate, mode, sock, heap, ready, listener, listenSock, bound, queue, room>>
  BY <1>1, <1>2, <1>3, <1>4, <1>5, <1>6, <1>7, <1>8 DEF Join
<1>10. Visited' = Visited
  BY <1>1, <1>3, <1>4, <1>7, <1>8, VisitedIs DEF Counted
<1>11. Opened' = Opened
  BY OpenedSame, <1>9
<1>12. Phase' = "loop"
  BY <1>10, <1>3, <1>4, <1>6, PhaseMoves
<1>13. Place' = Place
  BY PlaceSame, <1>9, <1>11
<1>14. OneByOne'
  BY <1>2, <1>3, <1>4, <1>6, <1>9, <1>10, <1>11, <1>1 DEF OneByOne, Counted, Visits
<1>15. MainFits'
  BY <1>2, <1>3, <1>4, <1>5, <1>7, <1>8, <1>9, <1>10, <1>12 DEF MainFits, Entering, Hearing
<1>16. VisitFits'
  BY <1>2, <1>3, <1>4, <1>5, <1>6, <1>9, <1>10, <1>12 DEF VisitFits, Hearing
<1>17. Ordered'
  BY <1>2, <1>3, <1>4, <1>7, <1>8, <1>9, <1>10, <1>12 DEF Ordered, Hearing
<1>18. ListenerFits'
  BY <1>2, <1>9, <1>11, <1>13 DEF ListenerFits
<1>19. QueueFits'
  BY <1>2, <1>3, <1>4, <1>5, <1>7, <1>8, <1>9, <1>10, <1>11, <1>12, <1>13 DEF QueueFits,
     OwnerWaits, StopWaits, Accepting, Hearing
<1>20. RoomFits'
  BY <1>2, <1>3, <1>4, <1>9, <1>11, <1>12, <1>13 DEF RoomFits, Accepting, NothingWaits
<1>21. HostFits'
  BY <1>2, <1>3, <1>4, <1>5, <1>7, <1>8, <1>9, <1>10, <1>13 DEF HostFits
<1>22. OwnVisit'
  BY <1>2, <1>3, <1>4, <1>7, <1>8, <1>9, <1>10, <1>12, <1>13 DEF OwnVisit, Accepting,
     NothingWaits, Hearing, HostFits
<1> QED
  BY <1>2, <1>9, <1>14, <1>15, <1>16, <1>17, <1>18, <1>19, <1>20, <1>21, <1>22, FitsThen

LEMMA SendCommandFits ==
  ASSUME GenInv, Fits, SendCommand, sock \in heap
  PROVE  Fits'
<1>1. Types /\ Counted /\ InBounds /\ Pointers
  BY DEF GenInv
<1>2. /\ fate = "running" /\ OneByOne /\ MainFits /\ VisitFits /\ Ordered
      /\ ListenerFits /\ QueueFits /\ RoomFits /\ HostFits /\ OwnVisit
  BY FitsParts
<1>3. main.at = "send"
  BY DEF SendCommand
<1>4. Visited # 0 /\ Visited \in Visits
  BY <1>1, <1>2, PhaseAt, ObjectFacts, TypesOf DEF VisitFits
<1>5. sock \in heap /\ sock = Chat(Visited)
  BY <1>1, <1>2, <1>4, ObjectFacts, TypesOf DEF VisitFits
<1>6. main'.at = "prompt"
  BY <1>5 DEF SendCommand
<1>7. \A w \in Visits :
        /\ conn'[w].at = conn[w].at
        /\ conn'[w].own = conn[w].own
        /\ conn'[w].orders = conn[w].orders
        /\ conn'[w].sent = IF w = Visited /\ main.command # "line"
                           THEN Append(conn[w].sent, main.command) ELSE conn[w].sent
  BY <1>1, <1>4, <1>5, SendConn
<1>8. main.command \in {"leave", "detach", "line"}
  BY <1>1, <1>3 DEF InBounds, ChatCommands
<1>9. UNCHANGED <<fate, mode, sock, heap, receiver, ready, listener, listenSock, bound, queue, room>>
  BY <1>1, <1>2, <1>3, <1>4, <1>5, <1>6, <1>7, <1>8 DEF SendCommand
<1>10. Visited' = Visited
  BY <1>1, <1>3, <1>4, <1>5, <1>7, <1>8, VisitedIs DEF Counted
<1>11. Opened' = Opened
  BY OpenedSame, <1>9
<1>12. Phase' = Phase
  BY PhaseSame, <1>9, <1>10
<1>13. Place' = Place
  BY PlaceSame, <1>9, <1>11
<1>14. OneByOne'
  BY <1>2, <1>9, <1>10, <1>11 DEF OneByOne
<1>15. MainFits'
  BY <1>2, <1>3, <1>4, <1>5, <1>6, <1>7, <1>8, <1>9, <1>10, <1>12 DEF MainFits, Entering,
     Hearing
<1>16. VisitFits'
  BY <1>2, <1>3, <1>4, <1>5, <1>6, <1>8, <1>9, <1>10, <1>12 DEF VisitFits, Hearing
<1>17. Ordered'
  BY <1>2, <1>3, <1>4, <1>5, <1>7, <1>8, <1>9, <1>10, <1>12 DEF Ordered, Hearing
<1>18. ListenerFits'
  BY <1>2, <1>9, <1>11, <1>13 DEF ListenerFits
<1>19. QueueFits'
  BY <1>2, <1>3, <1>4, <1>5, <1>6, <1>7, <1>8, <1>9, <1>10, <1>11, <1>12, <1>13 DEF
     QueueFits, OwnerWaits, StopWaits, Accepting, Hearing
<1>20. RoomFits'
  BY <1>2, <1>9, <1>11, <1>12, <1>13 DEF RoomFits, Accepting, NothingWaits
<1>21. HostFits'
  BY <1>2, <1>3, <1>4, <1>5, <1>6, <1>7, <1>8, <1>9, <1>10, <1>13 DEF HostFits
<1>22. OwnVisit'
  BY <1>2, <1>3, <1>4, <1>5, <1>7, <1>8, <1>9, <1>10, <1>12, <1>13 DEF OwnVisit, Accepting,
     NothingWaits, Hearing
<1> QED
  BY <1>2, <1>9, <1>14, <1>15, <1>16, <1>17, <1>18, <1>19, <1>20, <1>21, <1>22, FitsThen

-----------------------------------------------------------------------------
(* The steps of the receiving thread.                                      *)

LEMMA CallRecvFits ==
  ASSUME GenInv, Fits, NEW v \in Visits, CallRecv(v)
  PROVE  Fits'
<1>1. Types /\ Counted /\ InBounds /\ Pointers
  BY DEF GenInv
<1>2. /\ fate = "running" /\ OneByOne /\ MainFits /\ VisitFits /\ Ordered
      /\ ListenerFits /\ QueueFits /\ RoomFits /\ HostFits /\ OwnVisit
  BY FitsParts
<1>3. receiver[v].at = "loop" /\ v = Visited /\ Visited # 0 /\ Phase = "loop" /\ Visited \in Visits
  BY <1>1, <1>2, LastVisit, PhaseAt DEF CallRecv
<1>4. sock = Chat(Visited) /\ sock \in heap
  BY <1>2, <1>3 DEF VisitFits
<1>5. /\ receiver'[Visited].at = "reading" /\ receiver'[Visited].on = Chat(Visited)
      /\ \A w \in Visits : w # Visited => receiver'[w] = receiver[w]
  BY <1>1, <1>3, <1>4, CallRecvMoves
<1>6. UNCHANGED <<fate, main, mode, sock, heap, ready, listener, listenSock, bound, queue, conn, room>>
  BY <1>1, <1>2, <1>3, <1>4, <1>5 DEF CallRecv
<1>7. Visited' = Visited
  BY VisitedSame, <1>6
<1>8. Opened' = Opened
  BY OpenedSame, <1>6
<1>9. Phase' = "reading"
  BY <1>7, <1>3, <1>4, <1>5, PhaseMoves
<1>10. Place' = Place
  BY PlaceSame, <1>6, <1>8
<1>11. OneByOne'
  BY <1>2, <1>3, <1>4, <1>5, <1>6, <1>7, <1>8, <1>1 DEF OneByOne, Counted, Visits
<1>12. MainFits'
  BY <1>2, <1>3, <1>4, <1>6, <1>7, <1>9 DEF MainFits, Entering, Hearing
<1>13. VisitFits'
  BY <1>2, <1>3, <1>4, <1>5, <1>6, <1>7, <1>9 DEF VisitFits, Hearing
<1>14. Ordered'
  BY <1>2, <1>3, <1>4, <1>6, <1>7, <1>9 DEF Ordered, Hearing
<1>15. ListenerFits'
  BY <1>2, <1>6, <1>8, <1>10 DEF ListenerFits
<1>16. QueueFits'
  BY <1>2, <1>3, <1>4, <1>6, <1>7, <1>8, <1>9, <1>10 DEF QueueFits, OwnerWaits, StopWaits,
     Accepting, Hearing
<1>17. RoomFits'
  BY <1>2, <1>3, <1>4, <1>6, <1>8, <1>9, <1>10 DEF RoomFits, Accepting, NothingWaits
<1>18. HostFits'
  BY <1>2, <1>6, <1>7, <1>10 DEF HostFits
<1>19. OwnVisit'
  BY <1>2, <1>3, <1>4, <1>6, <1>7, <1>9, <1>10 DEF OwnVisit, Accepting, NothingWaits,
     Hearing
<1> QED
  BY <1>2, <1>6, <1>11, <1>12, <1>13, <1>14, <1>15, <1>16, <1>17, <1>18, <1>19, FitsThen

LEMMA ReceiveFits ==
  ASSUME GenInv, Fits, NEW v \in Visits, Receive(v)
  PROVE  Fits'
<1>1. Types /\ Counted /\ InBounds /\ Pointers
  BY DEF GenInv
<1>2. /\ fate = "running" /\ OneByOne /\ MainFits /\ VisitFits /\ Ordered
      /\ ListenerFits /\ QueueFits /\ RoomFits /\ HostFits /\ OwnVisit
  BY FitsParts
<1>3. receiver[v].at = "reading" /\ v = Visited /\ Visited # 0 /\ Phase = "reading" /\ Visited \in Visits
  BY <1>1, <1>2, LastVisit, PhaseAt DEF Receive
<1>4. receiver[v].on = Chat(Visited)
  BY <1>2, <1>3 DEF VisitFits
<1> DEFINE order == Head(conn[Visited].orders)
<1>5. /\ conn[Visited].orders # <<>>
      /\ \A w \in Visits :
           /\ conn'[w].at = conn[w].at
           /\ conn'[w].own = conn[w].own
           /\ conn'[w].sent = conn[w].sent
           /\ conn'[w].orders = IF w = Visited THEN Tail(conn[w].orders) ELSE conn[w].orders
  BY <1>1, <1>3, <1>4, ReceiveMoves
<1>6. /\ order \in ToSet(conn[Visited].orders) /\ order \in {"leave", "close", "cut"}
      /\ ToSet(conn'[Visited].orders) \subseteq ToSet(conn[Visited].orders)
  BY <1>1, <1>3, <1>4, <1>5, ReceiveMoves, ConnFields, Listed DEF Orders
<1>7. order \in {"leave", "close"} /\ (order = "close" => conn[Visited].own)
  BY <1>2, <1>3, <1>6 DEF Ordered
<1> HIDE DEF order
<1>8. \A w \in Visits :
        /\ receiver'[w].on = receiver[w].on
        /\ w # Visited => receiver'[w].at = receiver[w].at
        /\ w = Visited => receiver'[w].at = IF order = "close" THEN "ask" ELSE "back"
  BY <1>1, <1>3, <1>4, <1>7, ReceiveMoves DEF order
<1>9. conn[Visited].at \in {"served", "done"}
  BY <1>2, <1>3, <1>5 DEF Ordered
<1>10. order = "close" => room = "open" /\ Accepting /\ NothingWaits
  BY <1>2, <1>3, <1>7, <1>9 DEF OwnVisit, Hearing
<1>11. ~OwnerWaits
  BY <1>9 DEF OwnerWaits
<1>12. UNCHANGED <<fate, main, mode, sock, heap, ready, listener, listenSock, bound, queue, room>>
  BY DEF Receive
<1>13. Visited' = Visited
  BY <1>1, <1>5, VisitedIs DEF Counted
<1>14. Opened' = Opened
  BY OpenedSame, <1>12
<1>15. Phase' = IF order = "close" THEN "ask" ELSE "back"
  BY <1>13, <1>3, <1>8, PhaseMoves
<1>16. Place' = Place
  BY PlaceSame, <1>12, <1>14
<1>17. OneByOne'
  BY <1>1, <1>2, <1>3, <1>8, <1>12, <1>13, <1>14 DEF OneByOne, Counted, Visits
<1>18. MainFits'
  BY <1>2, <1>3, <1>12, <1>15 DEF MainFits
<1>19. VisitFits'
  BY <1>2, <1>3, <1>8, <1>12, <1>13, <1>15 DEF VisitFits, Hearing
<1>20. Ordered'
  BY <1>2, <1>3, <1>5, <1>6, <1>9 DEF Ordered
<1>21. ListenerFits'
  BY <1>2, <1>12, <1>14, <1>16 DEF ListenerFits
<1>22. QueueFits'
  BY <1>2, <1>11, <1>12, <1>14, <1>16 DEF QueueFits, StopWaits, Accepting
<1>23. RoomFits'
  BY <1>2, <1>3, <1>10, <1>12, <1>14, <1>15, <1>16 DEF RoomFits, Accepting, NothingWaits
<1>24. HostFits'
  BY <1>2, <1>3, <1>5, <1>12, <1>13, <1>16 DEF HostFits
<1>25. OwnVisit'
  BY <1>15 DEF OwnVisit, Hearing
<1> QED
  BY <1>2, <1>12, <1>17, <1>18, <1>19, <1>20, <1>21, <1>22, <1>23, <1>24, <1>25, FitsThen

LEMMA CloseStatusFits ==
  ASSUME GenInv, Fits, NEW v \in Visits, CloseStatus(v)
  PROVE  Fits'
<1>1. Types /\ Counted /\ InBounds /\ Pointers
  BY DEF GenInv
<1>2. /\ fate = "running" /\ OneByOne /\ MainFits /\ VisitFits /\ Ordered
      /\ ListenerFits /\ QueueFits /\ RoomFits /\ HostFits /\ OwnVisit
  BY FitsParts
<1>3. receiver[v].at = "ask" /\ v = Visited /\ Visited # 0 /\ Phase = "ask" /\ Visited \in Visits
  BY <1>1, <1>2, LastVisit, PhaseAt DEF CloseStatus
<1>4. \A w \in Visits :
        /\ receiver'[w].at = IF w = Visited THEN "tell" ELSE receiver[w].at
        /\ receiver'[w].on = receiver[w].on
  <2>1. ReceiverTo(Visited, "tell")
    BY <1>3 DEF CloseStatus
  <2>2. "tell" \in ReceiverPlaces
    BY DEF ReceiverPlaces
  <2> QED
    BY <1>1, <1>3, <2>1, <2>2, ReceiverMoves
<1>5. room' = "closed"
  BY DEF CloseStatus
<1>6. room = "open" /\ Accepting /\ NothingWaits /\ Opened # 0
  BY <1>1, <1>2, <1>3 DEF RoomFits
<1>7. UNCHANGED <<fate, main, mode, sock, heap, ready, listener, listenSock, bound, queue, conn>>
  BY DEF CloseStatus
<1>8. Visited' = Visited
  BY VisitedSame, <1>7
<1>9. Opened' = Opened
  BY OpenedSame, <1>7
<1>10. Phase' = "tell"
  BY <1>8, <1>3, <1>4, <1>6, PhaseMoves
<1>11. Place' = Place
  BY PlaceSame, <1>7, <1>9
<1>12. OneByOne'
  BY <1>2, <1>3, <1>4, <1>6, <1>7, <1>8, <1>9, <1>1 DEF OneByOne, Counted, Visits
<1>13. MainFits'
  BY <1>2, <1>3, <1>6, <1>7, <1>8, <1>10 DEF MainFits, Entering, Hearing
<1>14. VisitFits'
  BY <1>2, <1>3, <1>4, <1>6, <1>7, <1>8, <1>10 DEF VisitFits, Hearing
<1>15. Ordered'
  BY <1>2, <1>3, <1>6, <1>7, <1>8, <1>10 DEF Ordered, Hearing
<1>16. ListenerFits'
  BY <1>2, <1>7, <1>9, <1>11 DEF ListenerFits
<1>17. QueueFits'
  BY <1>2, <1>3, <1>5, <1>6, <1>7, <1>8, <1>9, <1>10, <1>11 DEF QueueFits, OwnerWaits,
     StopWaits, Accepting, Hearing, NothingWaits
<1>18. RoomFits'
  BY <1>2, <1>3, <1>5, <1>6, <1>7, <1>9, <1>10, <1>11 DEF RoomFits, Accepting, NothingWaits
<1>19. HostFits'
  BY <1>2, <1>3, <1>5, <1>6, <1>7, <1>8, <1>11 DEF HostFits, MainFits, Entering
<1>20. OwnVisit'
  BY <1>2, <1>3, <1>5, <1>6, <1>7, <1>8, <1>10, <1>11 DEF OwnVisit, Accepting, NothingWaits,
     Hearing
<1> QED
  BY <1>2, <1>7, <1>12, <1>13, <1>14, <1>15, <1>16, <1>17, <1>18, <1>19, <1>20, FitsThen

LEMMA TellListenerFits ==
  ASSUME GenInv, Fits, NEW v \in Visits, TellListener(v)
  PROVE  Fits'
<1>1. Types /\ Counted /\ InBounds /\ Pointers
  BY DEF GenInv
<1>2. /\ fate = "running" /\ OneByOne /\ MainFits /\ VisitFits /\ Ordered
      /\ ListenerFits /\ QueueFits /\ RoomFits /\ HostFits /\ OwnVisit
  BY FitsParts
<1>3. receiver[v].at = "tell" /\ v = Visited /\ Visited # 0 /\ Phase = "tell" /\ Visited \in Visits
  BY <1>1, <1>2, LastVisit, PhaseAt DEF TellListener
<1>4. room = "closed" /\ Accepting /\ NothingWaits /\ Opened # 0
  BY <1>1, <1>2, <1>3 DEF RoomFits
<1>5. bound = {Server(Opened)} /\ Server(Opened) \in Objects
  BY <1>1, <1>2, <1>4, PlaceAt DEF ListenerFits, Accepting
<1>6. \A w \in Visits :
        /\ receiver'[w].at = IF w = Visited THEN "back" ELSE receiver[w].at
        /\ receiver'[w].on = receiver[w].on
  <2>1. ReceiverTo(Visited, "back")
    BY <1>3, <1>5 DEF TellListener
  <2>2. "back" \in ReceiverPlaces
    BY DEF ReceiverPlaces
  <2> QED
    BY <1>1, <1>3, <2>1, <2>2, ReceiverMoves
<1>7. \A s \in Objects : queue'[s] = IF s = Server(Opened) THEN <<Stop>> ELSE <<>>
  <2>1. queue' = [s \in Objects |-> IF s \in bound THEN Append(queue[s], Stop) ELSE queue[s]]
    BY <1>5 DEF TellListener
  <2> QED
    BY <1>4, <1>5, <2>1, OneItem DEF NothingWaits
<1>8. UNCHANGED <<fate, main, mode, sock, heap, ready, listener, listenSock, bound, conn, room>>
  BY <1>1, <1>2, <1>3, <1>4, <1>5, <1>6, <1>7 DEF TellListener
<1>9. Visited' = Visited
  BY VisitedSame, <1>8
<1>10. Opened' = Opened
  BY OpenedSame, <1>8
<1>11. Phase' = "back"
  BY <1>9, <1>3, <1>4, <1>5, <1>6, PhaseMoves
<1>12. Place' = Place
  BY PlaceSame, <1>8, <1>10
<1>13. OneByOne'
  BY <1>2, <1>3, <1>4, <1>5, <1>6, <1>8, <1>9, <1>10, <1>1 DEF OneByOne, Counted, Visits
<1>14. MainFits'
  BY <1>2, <1>3, <1>4, <1>5, <1>8, <1>9, <1>11 DEF MainFits, Entering, Hearing
<1>15. VisitFits'
  BY <1>2, <1>3, <1>4, <1>5, <1>6, <1>8, <1>9, <1>11 DEF VisitFits, Hearing
<1>16. Ordered'
  BY <1>2, <1>3, <1>4, <1>5, <1>8, <1>9, <1>11 DEF Ordered, Hearing
<1>17. ListenerFits'
  BY <1>2, <1>8, <1>10, <1>12 DEF ListenerFits
<1>18. QueueFits'
  BY <1>2, <1>3, <1>4, <1>5, <1>7, <1>8, <1>9, <1>10, <1>11, <1>12, <1>1 DEF QueueFits,
     OwnerWaits, StopWaits, Accepting, Hearing, Counted
<1>19. RoomFits'
  BY <1>2, <1>3, <1>4, <1>5, <1>7, <1>8, <1>10, <1>11, <1>12 DEF RoomFits, Accepting,
     NothingWaits
<1>20. HostFits'
  BY <1>2, <1>8, <1>9, <1>12 DEF HostFits
<1>21. OwnVisit'
  BY <1>2, <1>3, <1>4, <1>5, <1>7, <1>8, <1>9, <1>11, <1>12 DEF OwnVisit, Accepting,
     NothingWaits, Hearing
<1> QED
  BY <1>2, <1>8, <1>13, <1>14, <1>15, <1>16, <1>17, <1>18, <1>19, <1>20, <1>21, FitsThen

LEMMA BackToBbsFits ==
  ASSUME GenInv, Fits, NEW v \in Visits, BackToBbs(v)
  PROVE  Fits'
<1>1. Types /\ Counted /\ InBounds /\ Pointers
  BY DEF GenInv
<1>2. /\ fate = "running" /\ OneByOne /\ MainFits /\ VisitFits /\ Ordered
      /\ ListenerFits /\ QueueFits /\ RoomFits /\ HostFits /\ OwnVisit
  BY FitsParts
<1>3. receiver[v].at = "back" /\ v = Visited /\ Visited # 0 /\ Phase = "back" /\ Visited \in Visits
  BY <1>1, <1>2, LastVisit, PhaseAt DEF BackToBbs
<1>4. \A w \in Visits :
        /\ receiver'[w].at = IF w = Visited THEN "delete" ELSE receiver[w].at
        /\ receiver'[w].on = receiver[w].on
  <2>1. ReceiverTo(Visited, "delete")
    BY <1>3 DEF BackToBbs
  <2>2. "delete" \in ReceiverPlaces
    BY DEF ReceiverPlaces
  <2> QED
    BY <1>1, <1>3, <2>1, <2>2, ReceiverMoves
<1>5. mode' = "bbs"
  BY DEF BackToBbs
<1>6. UNCHANGED <<fate, main, sock, heap, ready, listener, listenSock, bound, queue, conn, room>>
  BY DEF BackToBbs
<1>7. Visited' = Visited
  BY VisitedSame, <1>6
<1>8. Opened' = Opened
  BY OpenedSame, <1>6
<1>9. Phase' = "delete"
  BY <1>7, <1>3, <1>4, PhaseMoves
<1>10. Place' = Place
  BY PlaceSame, <1>6, <1>8
<1>11. OneByOne'
  BY <1>2, <1>3, <1>4, <1>6, <1>7, <1>8, <1>1 DEF OneByOne, Counted, Visits
<1>12. MainFits'
  BY <1>2, <1>3, <1>6, <1>7, <1>9 DEF MainFits, Entering, Hearing
<1>13. VisitFits'
  BY <1>2, <1>3, <1>4, <1>5, <1>6, <1>7, <1>9 DEF VisitFits, Hearing, MainFits, Entering
<1>14. Ordered'
  BY <1>2, <1>3, <1>6, <1>7, <1>9 DEF Ordered, Hearing
<1>15. ListenerFits'
  BY <1>2, <1>6, <1>8, <1>10 DEF ListenerFits
<1>16. QueueFits'
  BY <1>2, <1>3, <1>6, <1>7, <1>8, <1>9, <1>10 DEF QueueFits, OwnerWaits, StopWaits,
     Accepting, Hearing
<1>17. RoomFits'
  BY <1>2, <1>3, <1>6, <1>8, <1>9, <1>10 DEF RoomFits, Accepting, NothingWaits
<1>18. HostFits'
  BY <1>2, <1>6, <1>7, <1>10 DEF HostFits
<1>19. OwnVisit'
  BY <1>2, <1>3, <1>6, <1>7, <1>9, <1>10 DEF OwnVisit, Accepting, NothingWaits, Hearing
<1> QED
  BY <1>2, <1>6, <1>11, <1>12, <1>13, <1>14, <1>15, <1>16, <1>17, <1>18, <1>19, FitsThen

LEMMA DeleteSocketFits ==
  ASSUME GenInv, Fits, NEW v \in Visits, DeleteSocket(v)
  PROVE  Fits'
<1>1. Types /\ Counted /\ InBounds /\ Pointers
  BY DEF GenInv
<1>2. /\ fate = "running" /\ OneByOne /\ MainFits /\ VisitFits /\ Ordered
      /\ ListenerFits /\ QueueFits /\ RoomFits /\ HostFits /\ OwnVisit
  BY FitsParts
<1>3. receiver[v].at = "delete" /\ v = Visited /\ Visited # 0 /\ Phase = "delete" /\ Visited \in Visits
  BY <1>1, <1>2, LastVisit, PhaseAt DEF DeleteSocket
<1>4. sock = Chat(Visited) /\ sock \in heap
  BY <1>2, <1>3 DEF VisitFits
<1>5. heap' = heap \ {Chat(Visited)}
  BY <1>4 DEF DeleteSocket
<1>6. \A w \in Visits :
        /\ receiver'[w].at = IF w = Visited THEN "null" ELSE receiver[w].at
        /\ receiver'[w].on = receiver[w].on
  <2>1. ReceiverTo(Visited, "null")
    BY <1>3, <1>4 DEF DeleteSocket
  <2>2. "null" \in ReceiverPlaces
    BY DEF ReceiverPlaces
  <2> QED
    BY <1>1, <1>3, <2>1, <2>2, ReceiverMoves
<1>7. UNCHANGED <<fate, main, mode, sock, ready, listener, listenSock, bound, queue, conn, room>>
  BY <1>1, <1>2, <1>3, <1>4, <1>5, <1>6 DEF DeleteSocket
<1>8. Visited' = Visited
  BY VisitedSame, <1>7
<1>9. Opened' = Opened
  BY OpenedSame, <1>7
<1>10. Phase' = "null"
  BY <1>8, <1>3, <1>4, <1>6, PhaseMoves
<1>11. Place' = Place
  BY PlaceSame, <1>7, <1>9
<1>12. OneByOne'
  BY <1>2, <1>3, <1>4, <1>6, <1>7, <1>8, <1>9, <1>1 DEF OneByOne, Counted, Visits
<1>13. MainFits'
  BY <1>2, <1>3, <1>4, <1>7, <1>8, <1>10 DEF MainFits, Entering, Hearing
<1>14. VisitFits'
  BY <1>2, <1>3, <1>4, <1>5, <1>6, <1>7, <1>8, <1>10, ObjectFacts DEF VisitFits, Hearing
<1>15. Ordered'
  BY <1>2, <1>3, <1>4, <1>7, <1>8, <1>10 DEF Ordered, Hearing
<1>16. ListenerFits'
  BY <1>2, <1>3, <1>4, <1>5, <1>7, <1>9, <1>11, ObjectFacts, <1>1 DEF ListenerFits, Visits,
     Chats, Servers
<1>17. QueueFits'
  BY <1>2, <1>3, <1>4, <1>7, <1>8, <1>9, <1>10, <1>11 DEF QueueFits, OwnerWaits, StopWaits,
     Accepting, Hearing
<1>18. RoomFits'
  BY <1>2, <1>3, <1>4, <1>7, <1>9, <1>10, <1>11 DEF RoomFits, Accepting, NothingWaits
<1>19. HostFits'
  BY <1>2, <1>7, <1>8, <1>11 DEF HostFits
<1>20. OwnVisit'
  BY <1>2, <1>3, <1>4, <1>7, <1>8, <1>10, <1>11 DEF OwnVisit, Accepting, NothingWaits,
     Hearing
<1> QED
  BY <1>2, <1>7, <1>12, <1>13, <1>14, <1>15, <1>16, <1>17, <1>18, <1>19, <1>20, FitsThen

LEMMA ForgetSocketFits ==
  ASSUME GenInv, Fits, NEW v \in Visits, ForgetSocket(v)
  PROVE  Fits'
<1>1. Types /\ Counted /\ InBounds /\ Pointers
  BY DEF GenInv
<1>2. /\ fate = "running" /\ OneByOne /\ MainFits /\ VisitFits /\ Ordered
      /\ ListenerFits /\ QueueFits /\ RoomFits /\ HostFits /\ OwnVisit
  BY FitsParts
<1>3. receiver[v].at = "null" /\ v = Visited /\ Visited # 0 /\ Phase = "null" /\ Visited \in Visits
  BY <1>1, <1>2, LastVisit, PhaseAt DEF ForgetSocket
<1>4. \A w \in Visits :
        /\ receiver'[w].at = IF w = Visited THEN "ended" ELSE receiver[w].at
        /\ receiver'[w].on = receiver[w].on
  <2>1. ReceiverTo(Visited, "ended")
    BY <1>3 DEF ForgetSocket, ThrowExit
  <2>2. "ended" \in ReceiverPlaces
    BY DEF ReceiverPlaces
  <2> QED
    BY <1>1, <1>3, <2>1, <2>2, ReceiverMoves
<1>5. sock' = None
  BY DEF ForgetSocket
<1>6. UNCHANGED <<fate, main, mode, heap, ready, listener, listenSock, bound, queue, conn, room>>
  BY DEF ForgetSocket
<1>7. Visited' = Visited
  BY VisitedSame, <1>6
<1>8. Opened' = Opened
  BY OpenedSame, <1>6
<1>9. Phase' = "ended"
  BY <1>7, <1>3, <1>4, PhaseMoves
<1>10. Place' = Place
  BY PlaceSame, <1>6, <1>8
<1>11. OneByOne'
  BY <1>2, <1>3, <1>4, <1>6, <1>7, <1>8, <1>1 DEF OneByOne, Counted, Visits
<1>12. MainFits'
  BY <1>2, <1>3, <1>6, <1>7, <1>9 DEF MainFits, Entering, Hearing
<1>13. VisitFits'
  BY <1>2, <1>3, <1>4, <1>5, <1>6, <1>7, <1>9 DEF VisitFits, Hearing
<1>14. Ordered'
  BY <1>2, <1>3, <1>6, <1>7, <1>9 DEF Ordered, Hearing
<1>15. ListenerFits'
  BY <1>2, <1>6, <1>8, <1>10 DEF ListenerFits
<1>16. QueueFits'
  BY <1>2, <1>3, <1>6, <1>7, <1>8, <1>9, <1>10 DEF QueueFits, OwnerWaits, StopWaits,
     Accepting, Hearing
<1>17. RoomFits'
  BY <1>2, <1>3, <1>6, <1>8, <1>9, <1>10 DEF RoomFits, Accepting, NothingWaits
<1>18. HostFits'
  BY <1>2, <1>6, <1>7, <1>10 DEF HostFits
<1>19. OwnVisit'
  BY <1>2, <1>3, <1>6, <1>7, <1>9, <1>10 DEF OwnVisit, Accepting, NothingWaits, Hearing
<1> QED
  BY <1>2, <1>6, <1>11, <1>12, <1>13, <1>14, <1>15, <1>16, <1>17, <1>18, <1>19, FitsThen

-----------------------------------------------------------------------------
(* The steps of the listener.                                              *)

LEMMA NewListenSocketFits ==
  ASSUME GenInv, Fits, NEW l \in Listeners, NewListenSocket(l)
  PROVE  Fits'
<1>1. Types /\ Counted /\ InBounds /\ Pointers
  BY DEF GenInv
<1>2. /\ fate = "running" /\ OneByOne /\ MainFits /\ VisitFits /\ Ordered
      /\ ListenerFits /\ QueueFits /\ RoomFits /\ HostFits /\ OwnVisit
  BY FitsParts
<1>3. /\ listener[l].at = "new" /\ l = Opened /\ Opened # 0 /\ Place = "new"
      /\ Opened \in Listeners /\ Server(Opened) \in Objects
  BY <1>1, <1>2, LastListener, PlaceAt DEF NewListenSocket
<1>4. \A k \in Listeners :
        /\ listener'[k].at = IF k = Opened THEN "bind" ELSE listener[k].at
        /\ listener'[k].on = listener[k].on
  <2>1. ListenerTo(Opened, "bind")
    BY <1>3 DEF NewListenSocket
  <2>2. "bind" \in ListenerPlaces
    BY DEF ListenerPlaces
  <2> QED
    BY <1>1, <1>3, <2>1, <2>2, ListenerMoves
<1>5. listenSock' = Server(Opened) /\ heap' = heap \cup {Server(Opened)}
  BY <1>3 DEF NewListenSocket
<1>6. UNCHANGED <<fate, main, mode, sock, receiver, ready, bound, queue, conn, room>>
  BY DEF NewListenSocket
<1>7. Visited' = Visited
  BY VisitedSame, <1>6
<1>8. Opened' = Opened
  BY <1>1, <1>3, <1>4, OpenedIs DEF Counted
<1>9. Phase' = Phase
  BY PhaseSame, <1>6, <1>7
<1>10. Place' = "bind"
  BY <1>8, <1>3, <1>4, PlaceMoves
<1>11. OneByOne'
  BY <1>2, <1>3, <1>4, <1>6, <1>7, <1>8, <1>1 DEF OneByOne, Counted, Listeners
<1>12. MainFits'
  BY <1>2, <1>6, <1>7, <1>9 DEF MainFits, Entering, Hearing
<1>13. VisitFits'
  BY <1>2, <1>3, <1>5, <1>6, <1>7, <1>9, ObjectFacts, <1>1 DEF VisitFits, Hearing
<1>14. Ordered'
  BY <1>2, <1>6, <1>7, <1>9 DEF Ordered, Hearing
<1>15. ListenerFits'
  BY <1>2, <1>3, <1>4, <1>5, <1>6, <1>8, <1>10, ObjectFacts DEF ListenerFits
<1>16. QueueFits'
  BY <1>2, <1>3, <1>6, <1>7, <1>8, <1>9, <1>10 DEF QueueFits, OwnerWaits, StopWaits,
     Accepting, Hearing
<1>17. RoomFits'
  BY <1>2, <1>3, <1>6, <1>8, <1>9, <1>10 DEF RoomFits, Accepting, NothingWaits
<1>18. HostFits'
  BY <1>2, <1>3, <1>6, <1>7, <1>10 DEF HostFits
<1>19. OwnVisit'
  BY <1>2, <1>3, <1>6, <1>7, <1>9, <1>10 DEF OwnVisit, Accepting, NothingWaits, Hearing
<1> QED
  BY <1>2, <1>6, <1>11, <1>12, <1>13, <1>14, <1>15, <1>16, <1>17, <1>18, <1>19, FitsThen

LEMMA BindAndListenFits ==
  ASSUME GenInv, Fits, NEW l \in Listeners, BindAndListen(l)
  PROVE  Fits'
<1>1. Types /\ Counted /\ InBounds /\ Pointers
  BY DEF GenInv
<1>2. /\ fate = "running" /\ OneByOne /\ MainFits /\ VisitFits /\ Ordered
      /\ ListenerFits /\ QueueFits /\ RoomFits /\ HostFits /\ OwnVisit
  BY FitsParts
<1>3. /\ listener[l].at = "bind" /\ l = Opened /\ Opened # 0 /\ Place = "bind"
      /\ Opened \in Listeners /\ Server(Opened) \in Objects
  BY <1>1, <1>2, LastListener, PlaceAt DEF BindAndListen
<1>4. bound = {} /\ listenSock = Server(Opened) /\ listenSock \in heap
  BY <1>2, <1>3 DEF ListenerFits
<1>5. \A k \in Listeners :
        /\ listener'[k].at = IF k = Opened THEN "ready" ELSE listener[k].at
        /\ listener'[k].on = listener[k].on
  <2>1. ListenerTo(Opened, "ready")
    BY <1>3, <1>4 DEF BindAndListen
  <2>2. "ready" \in ListenerPlaces
    BY DEF ListenerPlaces
  <2> QED
    BY <1>1, <1>3, <2>1, <2>2, ListenerMoves
<1>6. bound' = {Server(Opened)}
  BY <1>4 DEF BindAndListen
<1>7. UNCHANGED <<fate, main, mode, sock, heap, receiver, ready, listenSock, queue, conn, room>>
  BY <1>1, <1>2, <1>3, <1>4, <1>5, <1>6 DEF BindAndListen
<1>8. Visited' = Visited
  BY VisitedSame, <1>7
<1>9. Opened' = Opened
  BY <1>1, <1>3, <1>4, <1>5, OpenedIs DEF Counted
<1>10. Phase' = Phase
  BY PhaseSame, <1>7, <1>8
<1>11. Place' = "ready"
  BY <1>9, <1>3, <1>4, <1>5, PlaceMoves
<1>12. OneByOne'
  BY <1>2, <1>3, <1>4, <1>5, <1>7, <1>8, <1>9, <1>1 DEF OneByOne, Counted, Listeners
<1>13. MainFits'
  BY <1>2, <1>7, <1>8, <1>10 DEF MainFits, Entering, Hearing
<1>14. VisitFits'
  BY <1>2, <1>7, <1>8, <1>10 DEF VisitFits, Hearing
<1>15. Ordered'
  BY <1>2, <1>7, <1>8, <1>10 DEF Ordered, Hearing
<1>16. ListenerFits'
  BY <1>2, <1>3, <1>4, <1>5, <1>6, <1>7, <1>9, <1>11 DEF ListenerFits
<1>17. QueueFits'
  BY <1>2, <1>3, <1>4, <1>7, <1>8, <1>9, <1>10, <1>11 DEF QueueFits, OwnerWaits, StopWaits,
     Accepting, Hearing
<1>18. RoomFits'
  BY <1>2, <1>3, <1>4, <1>7, <1>9, <1>10, <1>11 DEF RoomFits, Accepting, NothingWaits
<1>19. HostFits'
  BY <1>2, <1>3, <1>4, <1>7, <1>8, <1>11 DEF HostFits
<1>20. OwnVisit'
  BY <1>2, <1>3, <1>4, <1>7, <1>8, <1>10, <1>11 DEF OwnVisit, Accepting, NothingWaits,
     Hearing
<1> QED
  BY <1>2, <1>7, <1>12, <1>13, <1>14, <1>15, <1>16, <1>17, <1>18, <1>19, <1>20, FitsThen

LEMMA SetReadyFits ==
  ASSUME GenInv, Fits, NEW l \in Listeners, SetReady(l)
  PROVE  Fits'
<1>1. Types /\ Counted /\ InBounds /\ Pointers
  BY DEF GenInv
<1>2. /\ fate = "running" /\ OneByOne /\ MainFits /\ VisitFits /\ Ordered
      /\ ListenerFits /\ QueueFits /\ RoomFits /\ HostFits /\ OwnVisit
  BY FitsParts
<1>3. /\ listener[l].at = "ready" /\ l = Opened /\ Opened # 0 /\ Place = "ready"
      /\ Opened \in Listeners /\ Server(Opened) \in Objects
  BY <1>1, <1>2, LastListener, PlaceAt DEF SetReady
<1>4. \A k \in Listeners :
        /\ listener'[k].at = IF k = Opened THEN "notify" ELSE listener[k].at
        /\ listener'[k].on = listener[k].on
  <2>1. ListenerTo(Opened, "notify")
    BY <1>3 DEF SetReady
  <2>2. "notify" \in ListenerPlaces
    BY DEF ListenerPlaces
  <2> QED
    BY <1>1, <1>3, <2>1, <2>2, ListenerMoves
<1>5. ready' = TRUE
  BY DEF SetReady
<1>6. UNCHANGED <<fate, main, mode, sock, heap, receiver, listenSock, bound, queue, conn, room>>
  BY DEF SetReady
<1>7. Visited' = Visited
  BY VisitedSame, <1>6
<1>8. Opened' = Opened
  BY <1>1, <1>3, <1>4, OpenedIs DEF Counted
<1>9. Phase' = Phase
  BY PhaseSame, <1>6, <1>7
<1>10. Place' = "notify"
  BY <1>8, <1>3, <1>4, PlaceMoves
<1>11. OneByOne'
  BY <1>2, <1>3, <1>4, <1>6, <1>7, <1>8, <1>1 DEF OneByOne, Counted, Listeners
<1>12. MainFits'
  BY <1>2, <1>6, <1>7, <1>9 DEF MainFits, Entering, Hearing
<1>13. VisitFits'
  BY <1>2, <1>6, <1>7, <1>9 DEF VisitFits, Hearing
<1>14. Ordered'
  BY <1>2, <1>6, <1>7, <1>9 DEF Ordered, Hearing
<1>15. ListenerFits'
  BY <1>2, <1>3, <1>4, <1>5, <1>6, <1>8, <1>10 DEF ListenerFits
<1>16. QueueFits'
  BY <1>2, <1>3, <1>6, <1>7, <1>8, <1>9, <1>10 DEF QueueFits, OwnerWaits, StopWaits,
     Accepting, Hearing
<1>17. RoomFits'
  BY <1>2, <1>3, <1>6, <1>8, <1>9, <1>10 DEF RoomFits, Accepting, NothingWaits
<1>18. HostFits'
  BY <1>2, <1>3, <1>5, <1>6, <1>7, <1>10 DEF HostFits
<1>19. OwnVisit'
  BY <1>2, <1>3, <1>6, <1>7, <1>9, <1>10 DEF OwnVisit, Accepting, NothingWaits, Hearing
<1> QED
  BY <1>2, <1>6, <1>11, <1>12, <1>13, <1>14, <1>15, <1>16, <1>17, <1>18, <1>19, FitsThen

LEMMA NotifyFits ==
  ASSUME GenInv, Fits, NEW l \in Listeners, Notify(l)
  PROVE  Fits'
<1>1. Types /\ Counted /\ InBounds /\ Pointers
  BY DEF GenInv
<1>2. /\ fate = "running" /\ OneByOne /\ MainFits /\ VisitFits /\ Ordered
      /\ ListenerFits /\ QueueFits /\ RoomFits /\ HostFits /\ OwnVisit
  BY FitsParts
<1>3. /\ listener[l].at = "notify" /\ l = Opened /\ Opened # 0 /\ Place = "notify"
      /\ Opened \in Listeners /\ Server(Opened) \in Objects
  BY <1>1, <1>2, LastListener, PlaceAt DEF Notify
<1>4. \A k \in Listeners :
        /\ listener'[k].at = IF k = Opened THEN "accept" ELSE listener[k].at
        /\ listener'[k].on = listener[k].on
  <2>1. ListenerTo(Opened, "accept")
    BY <1>3 DEF Notify
  <2>2. "accept" \in ListenerPlaces
    BY DEF ListenerPlaces
  <2> QED
    BY <1>1, <1>3, <2>1, <2>2, ListenerMoves
<1>5. main' = main \/ (main.at = "asleep" /\ main'.at = "test" /\ main'.command = main.command)
  BY <1>1, MainMoves, SMTT(30) DEF Notify, MainPlaces
<1>6. UNCHANGED <<fate, mode, sock, heap, receiver, ready, listenSock, bound, queue, conn, room>>
  BY DEF Notify
<1>7. Visited' = Visited
  BY VisitedSame, <1>6
<1>8. Opened' = Opened
  BY <1>1, <1>3, <1>4, OpenedIs DEF Counted
<1>9. Phase' = Phase
  BY PhaseSame, <1>6, <1>7
<1>10. Place' = "accept"
  BY <1>8, <1>3, <1>4, PlaceMoves
<1>11. OneByOne'
  BY <1>2, <1>3, <1>4, <1>6, <1>7, <1>8, <1>1 DEF OneByOne, Counted, Listeners
<1>12. MainFits'
  BY <1>2, <1>3, <1>5, <1>6, <1>7, <1>9 DEF MainFits, Entering, Hearing
<1>13. VisitFits'
  BY <1>2, <1>3, <1>5, <1>6, <1>7, <1>9 DEF VisitFits, Hearing
<1>14. Ordered'
  BY <1>2, <1>6, <1>7, <1>9 DEF Ordered, Hearing
<1>15. ListenerFits'
  BY <1>2, <1>3, <1>4, <1>6, <1>8, <1>10 DEF ListenerFits
<1>16. QueueFits'
  BY <1>2, <1>3, <1>5, <1>6, <1>7, <1>8, <1>9, <1>10 DEF QueueFits, OwnerWaits, StopWaits,
     Accepting, Hearing
<1>17. RoomFits'
  BY <1>2, <1>3, <1>6, <1>8, <1>9, <1>10 DEF RoomFits, Accepting, NothingWaits
<1>18. HostFits'
  BY <1>2, <1>3, <1>5, <1>6, <1>7, <1>10 DEF HostFits
<1>19. OwnVisit'
  BY <1>2, <1>3, <1>6, <1>7, <1>9, <1>10 DEF OwnVisit, Accepting, NothingWaits, Hearing
<1> QED
  BY <1>2, <1>6, <1>11, <1>12, <1>13, <1>14, <1>15, <1>16, <1>17, <1>18, <1>19, FitsThen

LEMMA CallAcceptFits ==
  ASSUME GenInv, Fits, NEW l \in Listeners, CallAccept(l)
  PROVE  Fits'
<1>1. Types /\ Counted /\ InBounds /\ Pointers
  BY DEF GenInv
<1>2. /\ fate = "running" /\ OneByOne /\ MainFits /\ VisitFits /\ Ordered
      /\ ListenerFits /\ QueueFits /\ RoomFits /\ HostFits /\ OwnVisit
  BY FitsParts
<1>3. /\ listener[l].at = "accept" /\ l = Opened /\ Opened # 0 /\ Place = "accept"
      /\ Opened \in Listeners /\ Server(Opened) \in Objects
  BY <1>1, <1>2, LastListener, PlaceAt DEF CallAccept
<1>4. listenSock = Server(Opened) /\ listenSock \in heap /\ listenSock \in bound
  BY <1>2, <1>3 DEF ListenerFits
<1>5. /\ listener'[Opened].at = "waiting" /\ listener'[Opened].on = Server(Opened)
      /\ \A k \in Listeners : k # Opened => listener'[k] = listener[k]
  BY <1>1, <1>3, <1>4, CallAcceptMoves
<1>6. UNCHANGED <<fate, main, mode, sock, heap, receiver, ready, listenSock, bound, queue, conn, room>>
  BY <1>1, <1>2, <1>3, <1>4, <1>5 DEF CallAccept
<1>7. Visited' = Visited
  BY VisitedSame, <1>6
<1>8. Opened' = Opened
  BY <1>1, <1>3, <1>4, <1>5, OpenedIs DEF Counted
<1>9. Phase' = Phase
  BY PhaseSame, <1>6, <1>7
<1>10. Place' = "waiting"
  BY <1>8, <1>3, <1>4, <1>5, PlaceMoves
<1>11. OneByOne'
  BY <1>2, <1>3, <1>4, <1>5, <1>6, <1>7, <1>8, <1>1 DEF OneByOne, Counted, Listeners
<1>12. MainFits'
  BY <1>2, <1>6, <1>7, <1>9 DEF MainFits, Entering, Hearing
<1>13. VisitFits'
  BY <1>2, <1>6, <1>7, <1>9 DEF VisitFits, Hearing
<1>14. Ordered'
  BY <1>2, <1>6, <1>7, <1>9 DEF Ordered, Hearing
<1>15. ListenerFits'
  BY <1>2, <1>3, <1>4, <1>5, <1>6, <1>8, <1>10 DEF ListenerFits
<1>16. QueueFits'
  BY <1>2, <1>3, <1>4, <1>6, <1>7, <1>8, <1>9, <1>10 DEF QueueFits, OwnerWaits, StopWaits,
     Accepting, Hearing
<1>17. RoomFits'
  BY <1>2, <1>3, <1>4, <1>6, <1>8, <1>9, <1>10 DEF RoomFits, Accepting, NothingWaits
<1>18. HostFits'
  BY <1>2, <1>3, <1>4, <1>6, <1>7, <1>10 DEF HostFits
<1>19. OwnVisit'
  BY <1>2, <1>3, <1>4, <1>6, <1>7, <1>9, <1>10 DEF OwnVisit, Accepting, NothingWaits,
     Hearing
<1> QED
  BY <1>2, <1>6, <1>11, <1>12, <1>13, <1>14, <1>15, <1>16, <1>17, <1>18, <1>19, FitsThen

LEMMA AdmitFits ==
  ASSUME GenInv, Fits, NEW l \in Listeners, Admit(l)
  PROVE  Fits'
<1>1. Types /\ Counted /\ InBounds /\ Pointers
  BY DEF GenInv
<1>2. /\ fate = "running" /\ OneByOne /\ MainFits /\ VisitFits /\ Ordered
      /\ ListenerFits /\ QueueFits /\ RoomFits /\ HostFits /\ OwnVisit
  BY FitsParts
<1>3. /\ listener[l].at = "waiting" /\ l = Opened /\ Opened # 0 /\ Place = "waiting"
      /\ Opened \in Listeners /\ Server(Opened) \in Objects
  BY <1>1, <1>2, LastListener, PlaceAt DEF Admit
<1>4. listener[l].on = Server(Opened)
  BY <1>2, <1>3 DEF ListenerFits
<1>5. queue[Server(Opened)] = <<Visited>> /\ OwnerWaits
  <2>1. queue[Server(Opened)] # <<>> /\ Head(queue[Server(Opened)]) # Stop
    BY <1>4 DEF Admit
  <2>2. queue[Server(Opened)] # <<Stop>>
    BY <2>1, OneItem
  <2> QED
    BY <1>2, <1>3, <2>1, <2>2 DEF QueueFits, OwnerWaits, StopWaits
<1>6. Head(queue[Server(Opened)]) = Visited /\ Visited \in Visits /\ Visited # 0
  BY <1>1, <1>5, OneItem, PhaseAt DEF OwnerWaits, Counted
<1>7. /\ conn[Visited].at = "joined"
      /\ \A w \in Visits :
           /\ conn'[w].at = IF w = Visited THEN "served" ELSE conn[w].at
           /\ conn'[w].own = conn[w].own
           /\ conn'[w].sent = conn[w].sent
           /\ conn'[w].orders = conn[w].orders
  BY <1>1, <1>4, <1>6, AdmitConn
<1>8. \A s \in Objects : queue'[s] = IF s = Server(Opened) THEN <<>> ELSE queue[s]
  <2>1. queue' = [queue EXCEPT ![Server(Opened)] = Tail(@)]
    BY <1>4 DEF Admit
  <2>2. Tail(queue[Server(Opened)]) = <<>>
    BY <1>5, OneItem
  <2>3. queue \in Queues
    BY <1>1, TypesOf
  <2> QED
    BY <2>1, <2>2, <2>3 DEF Queues
<1>9. NothingWaits'
  BY <1>2, <1>8 DEF QueueFits, NothingWaits
<1>10. \A k \in Listeners :
        /\ listener'[k].at = IF k = Opened THEN "accept" ELSE listener[k].at
        /\ listener'[k].on = listener[k].on
  <2>1. ListenerTo(Opened, "accept")
    BY <1>3 DEF Admit
  <2>2. "accept" \in ListenerPlaces
    BY DEF ListenerPlaces
  <2> QED
    BY <1>1, <1>3, <2>1, <2>2, ListenerMoves
<1>11. conn[Visited].own /\ room = "open"
  BY <1>5 DEF OwnerWaits
<1>12. UNCHANGED <<fate, main, mode, sock, heap, receiver, ready, listenSock, bound, room>>
  BY DEF Admit
<1>13. Visited' = Visited
  BY <1>1, <1>7, VisitedIs DEF Counted
<1>14. Opened' = Opened
  BY <1>1, <1>3, <1>4, <1>5, <1>6, <1>10, <1>11, OpenedIs DEF Counted
<1>15. Phase' = Phase
  BY PhaseSame, <1>12, <1>13
<1>16. Place' = "accept"
  BY <1>14, <1>3, <1>4, <1>5, <1>6, <1>10, <1>11, PlaceMoves
<1>17. OneByOne'
  BY <1>2, <1>3, <1>4, <1>5, <1>6, <1>10, <1>11, <1>12, <1>13, <1>14, <1>1 DEF OneByOne,
     Counted, Listeners
<1>18. MainFits'
  BY <1>2, <1>3, <1>4, <1>5, <1>6, <1>7, <1>11, <1>12, <1>13, <1>15 DEF MainFits, Entering,
     Hearing
<1>19. VisitFits'
  BY <1>2, <1>12, <1>13, <1>15 DEF VisitFits, Hearing
<1>20. Ordered'
  BY <1>2, <1>3, <1>4, <1>5, <1>6, <1>7, <1>11, <1>12, <1>13, <1>15 DEF Ordered, Hearing
<1>21. ListenerFits'
  BY <1>2, <1>3, <1>4, <1>5, <1>6, <1>10, <1>11, <1>12, <1>14, <1>16 DEF ListenerFits
<1>22. QueueFits'
  BY <1>2, <1>3, <1>4, <1>5, <1>6, <1>7, <1>8, <1>9, <1>11, <1>12, <1>13, <1>14, <1>15,
     <1>16 DEF QueueFits, OwnerWaits, StopWaits, Accepting, Hearing, NothingWaits
<1>23. RoomFits'
  BY <1>2, <1>3, <1>4, <1>5, <1>6, <1>8, <1>9, <1>11, <1>12, <1>14, <1>15, <1>16 DEF
     RoomFits, Accepting, NothingWaits
<1>24. HostFits'
  BY <1>2, <1>3, <1>4, <1>5, <1>6, <1>7, <1>11, <1>12, <1>13, <1>16 DEF HostFits
<1>25. OwnVisit'
  BY <1>2, <1>3, <1>4, <1>5, <1>6, <1>7, <1>8, <1>9, <1>11, <1>12, <1>13, <1>15, <1>16 DEF
     OwnVisit, Accepting, NothingWaits, Hearing
<1> QED
  BY <1>2, <1>12, <1>17, <1>18, <1>19, <1>20, <1>21, <1>22, <1>23, <1>24, <1>25, FitsThen

LEMMA TakeCloseFits ==
  ASSUME GenInv, Fits, NEW l \in Listeners, TakeClose(l)
  PROVE  Fits'
<1>1. Types /\ Counted /\ InBounds /\ Pointers
  BY DEF GenInv
<1>2. /\ fate = "running" /\ OneByOne /\ MainFits /\ VisitFits /\ Ordered
      /\ ListenerFits /\ QueueFits /\ RoomFits /\ HostFits /\ OwnVisit
  BY FitsParts
<1>3. /\ listener[l].at = "waiting" /\ l = Opened /\ Opened # 0 /\ Place = "waiting"
      /\ Opened \in Listeners /\ Server(Opened) \in Objects
  BY <1>1, <1>2, LastListener, PlaceAt DEF TakeClose
<1>4. listener[l].on = Server(Opened)
  BY <1>2, <1>3 DEF ListenerFits
<1>5. StopWaits
  <2>1. queue[Server(Opened)] # <<>> /\ Head(queue[Server(Opened)]) = Stop
    BY <1>4 DEF TakeClose
  <2>2. Visited > 0 => queue[Server(Opened)] # <<Visited>>
    BY <1>1, <2>1, OneItem DEF Stop, Counted
  <2> QED
    BY <1>2, <1>3, <2>1, <2>2 DEF QueueFits, OwnerWaits, StopWaits
<1>6. \A s \in Objects : queue'[s] = IF s = Server(Opened) THEN <<>> ELSE queue[s]
  <2>1. queue' = [queue EXCEPT ![Server(Opened)] = Tail(@)]
    BY <1>4 DEF TakeClose
  <2>2. Tail(queue[Server(Opened)]) = <<>>
    BY <1>5, OneItem DEF StopWaits
  <2>3. queue \in Queues
    BY <1>1, TypesOf
  <2> QED
    BY <2>1, <2>2, <2>3 DEF Queues
<1>7. NothingWaits'
  BY <1>2, <1>6 DEF QueueFits, NothingWaits
<1>8. room = "closed" /\ ~NothingWaits
  BY <1>3, <1>5, OneItem DEF StopWaits, NothingWaits
<1>9. \A k \in Listeners :
        /\ listener'[k].at = IF k = Opened THEN "delete" ELSE listener[k].at
        /\ listener'[k].on = listener[k].on
  <2>1. ListenerTo(Opened, "delete")
    BY <1>3 DEF TakeClose
  <2>2. "delete" \in ListenerPlaces
    BY DEF ListenerPlaces
  <2> QED
    BY <1>1, <1>3, <2>1, <2>2, ListenerMoves
<1>10. UNCHANGED <<fate, main, mode, sock, heap, receiver, ready, listenSock, bound, conn, room>>
  BY DEF TakeClose
<1>11. Visited' = Visited
  BY VisitedSame, <1>10
<1>12. Opened' = Opened
  BY <1>1, <1>3, <1>4, <1>5, <1>8, <1>9, OpenedIs DEF Counted
<1>13. Phase' = Phase
  BY PhaseSame, <1>10, <1>11
<1>14. Place' = "delete"
  BY <1>12, <1>3, <1>4, <1>5, <1>8, <1>9, PlaceMoves
<1>15. OneByOne'
  BY <1>2, <1>3, <1>4, <1>5, <1>8, <1>9, <1>10, <1>11, <1>12, <1>1 DEF OneByOne, Counted,
     Listeners
<1>16. MainFits'
  BY <1>2, <1>10, <1>11, <1>13 DEF MainFits, Entering, Hearing
<1>17. VisitFits'
  BY <1>2, <1>10, <1>11, <1>13 DEF VisitFits, Hearing
<1>18. Ordered'
  BY <1>2, <1>10, <1>11, <1>13 DEF Ordered, Hearing
<1>19. ListenerFits'
  BY <1>2, <1>3, <1>4, <1>5, <1>8, <1>9, <1>10, <1>12, <1>14 DEF ListenerFits
<1>20. QueueFits'
  BY <1>2, <1>3, <1>4, <1>5, <1>6, <1>7, <1>8, <1>10, <1>11, <1>12, <1>13, <1>14 DEF
     QueueFits, OwnerWaits, StopWaits, Accepting, Hearing, NothingWaits
<1>21. RoomFits'
  BY <1>2, <1>3, <1>4, <1>5, <1>6, <1>7, <1>8, <1>10, <1>12, <1>13, <1>14 DEF RoomFits,
     Accepting, NothingWaits
<1>22. HostFits'
  BY <1>2, <1>3, <1>4, <1>5, <1>8, <1>10, <1>11, <1>14 DEF HostFits
<1>23. OwnVisit'
  BY <1>2, <1>3, <1>4, <1>5, <1>6, <1>7, <1>8, <1>10, <1>11, <1>13, <1>14 DEF OwnVisit,
     Accepting, NothingWaits, Hearing
<1> QED
  BY <1>2, <1>10, <1>15, <1>16, <1>17, <1>18, <1>19, <1>20, <1>21, <1>22, <1>23, FitsThen

LEMMA DeleteListenSocketFits ==
  ASSUME GenInv, Fits, NEW l \in Listeners, DeleteListenSocket(l)
  PROVE  Fits'
<1>1. Types /\ Counted /\ InBounds /\ Pointers
  BY DEF GenInv
<1>2. /\ fate = "running" /\ OneByOne /\ MainFits /\ VisitFits /\ Ordered
      /\ ListenerFits /\ QueueFits /\ RoomFits /\ HostFits /\ OwnVisit
  BY FitsParts
<1>3. /\ listener[l].at = "delete" /\ l = Opened /\ Opened # 0 /\ Place = "delete"
      /\ Opened \in Listeners /\ Server(Opened) \in Objects
  BY <1>1, <1>2, LastListener, PlaceAt DEF DeleteListenSocket
<1>4. listenSock = Server(Opened) /\ listenSock \in heap /\ listenSock # None /\ bound = {Server(Opened)}
  BY <1>2, <1>3, ObjectFacts DEF ListenerFits
<1>5. room = "closed" /\ NothingWaits
  BY <1>1, <1>2, <1>3, TypesOf DEF RoomFits, QueueFits, OwnerWaits, StopWaits, Accepting,
     NothingWaits
<1>6. /\ heap' = heap \ {Server(Opened)} /\ bound' = {}
      /\ queue' = [s \in Objects |-> IF s = listenSock THEN <<>> ELSE queue[s]]
  BY <1>4 DEF DeleteListenSocket, PortGiven
<1>7. NothingWaits'
  BY <1>5, <1>6 DEF NothingWaits
<1>8. conn' = conn
  <2>1. ToSet(queue[listenSock]) = {}
    BY <1>3, <1>4, <1>5 DEF NothingWaits, ToSet
  <2>2. \A v \in Visits : conn'[v] = conn[v]
    BY <1>1, <1>4, <2>1, CutConn
  <2>3. conn \in [Visits -> ConnRecords] /\ conn' \in [Visits -> ConnRecords]
    BY <1>1, <1>4, CutConn, TypesOf
  <2> QED
    BY <2>2, <2>3
<1>9. \A k \in Listeners :
        /\ listener'[k].at = IF k = Opened THEN "null" ELSE listener[k].at
        /\ listener'[k].on = listener[k].on
  <2>1. ListenerTo(Opened, "null")
    BY <1>3, <1>4 DEF DeleteListenSocket
  <2>2. "null" \in ListenerPlaces
    BY DEF ListenerPlaces
  <2> QED
    BY <1>1, <1>3, <2>1, <2>2, ListenerMoves
<1>10. UNCHANGED <<fate, main, mode, sock, receiver, ready, listenSock, room>>
  BY <1>1, <1>2, <1>3, <1>4, <1>5, <1>6, <1>7, <1>8, <1>9 DEF DeleteListenSocket
<1>11. Visited' = Visited
  BY VisitedSame, <1>8
<1>12. Opened' = Opened
  BY <1>1, <1>3, <1>4, <1>5, <1>9, OpenedIs DEF Counted
<1>13. Phase' = Phase
  BY PhaseSame, <1>10, <1>11
<1>14. Place' = "null"
  BY <1>12, <1>3, <1>4, <1>5, <1>9, PlaceMoves
<1>15. OneByOne'
  BY <1>2, <1>3, <1>4, <1>5, <1>9, <1>10, <1>11, <1>12, <1>1 DEF OneByOne, Counted,
     Listeners
<1>16. MainFits'
  BY <1>2, <1>3, <1>4, <1>5, <1>8, <1>10, <1>11, <1>13 DEF MainFits, Entering, Hearing
<1>17. VisitFits'
  BY <1>2, <1>3, <1>4, <1>5, <1>6, <1>10, <1>11, <1>13, ObjectFacts DEF VisitFits, Hearing
<1>18. Ordered'
  BY <1>2, <1>3, <1>4, <1>5, <1>8, <1>10, <1>11, <1>13 DEF Ordered, Hearing
<1>19. ListenerFits'
  BY <1>2, <1>3, <1>4, <1>5, <1>6, <1>9, <1>10, <1>12, <1>14, ObjectFacts DEF ListenerFits
<1>20. QueueFits'
  BY <1>2, <1>3, <1>4, <1>5, <1>6, <1>7, <1>8, <1>10, <1>11, <1>12, <1>13, <1>14 DEF
     QueueFits, OwnerWaits, StopWaits, Accepting, Hearing, NothingWaits
<1>21. RoomFits'
  BY <1>2, <1>3, <1>4, <1>5, <1>6, <1>7, <1>10, <1>12, <1>13, <1>14 DEF RoomFits, Accepting,
     NothingWaits
<1>22. HostFits'
  BY <1>2, <1>3, <1>4, <1>5, <1>8, <1>10, <1>11, <1>14 DEF HostFits
<1>23. OwnVisit'
  BY <1>2, <1>3, <1>4, <1>5, <1>6, <1>7, <1>8, <1>10, <1>11, <1>13, <1>14 DEF OwnVisit,
     Accepting, NothingWaits, Hearing
<1> QED
  BY <1>2, <1>10, <1>15, <1>16, <1>17, <1>18, <1>19, <1>20, <1>21, <1>22, <1>23, FitsThen

LEMMA ForgetListenSocketFits ==
  ASSUME GenInv, Fits, NEW l \in Listeners, ForgetListenSocket(l)
  PROVE  Fits'
<1>1. Types /\ Counted /\ InBounds /\ Pointers
  BY DEF GenInv
<1>2. /\ fate = "running" /\ OneByOne /\ MainFits /\ VisitFits /\ Ordered
      /\ ListenerFits /\ QueueFits /\ RoomFits /\ HostFits /\ OwnVisit
  BY FitsParts
<1>3. /\ listener[l].at = "null" /\ l = Opened /\ Opened # 0 /\ Place = "null"
      /\ Opened \in Listeners /\ Server(Opened) \in Objects
  BY <1>1, <1>2, LastListener, PlaceAt DEF ForgetListenSocket
<1>4. \A k \in Listeners :
        /\ listener'[k].at = IF k = Opened THEN "unready" ELSE listener[k].at
        /\ listener'[k].on = listener[k].on
  <2>1. ListenerTo(Opened, "unready")
    BY <1>3 DEF ForgetListenSocket
  <2>2. "unready" \in ListenerPlaces
    BY DEF ListenerPlaces
  <2> QED
    BY <1>1, <1>3, <2>1, <2>2, ListenerMoves
<1>5. listenSock' = None
  BY DEF ForgetListenSocket
<1>6. UNCHANGED <<fate, main, mode, sock, heap, receiver, ready, bound, queue, conn, room>>
  BY DEF ForgetListenSocket
<1>7. Visited' = Visited
  BY VisitedSame, <1>6
<1>8. Opened' = Opened
  BY <1>1, <1>3, <1>4, OpenedIs DEF Counted
<1>9. Phase' = Phase
  BY PhaseSame, <1>6, <1>7
<1>10. Place' = "unready"
  BY <1>8, <1>3, <1>4, PlaceMoves
<1>11. OneByOne'
  BY <1>2, <1>3, <1>4, <1>6, <1>7, <1>8, <1>1 DEF OneByOne, Counted, Listeners
<1>12. MainFits'
  BY <1>2, <1>6, <1>7, <1>9 DEF MainFits, Entering, Hearing
<1>13. VisitFits'
  BY <1>2, <1>6, <1>7, <1>9 DEF VisitFits, Hearing
<1>14. Ordered'
  BY <1>2, <1>6, <1>7, <1>9 DEF Ordered, Hearing
<1>15. ListenerFits'
  BY <1>2, <1>3, <1>4, <1>5, <1>6, <1>8, <1>10 DEF ListenerFits
<1>16. QueueFits'
  BY <1>2, <1>3, <1>6, <1>7, <1>8, <1>9, <1>10 DEF QueueFits, OwnerWaits, StopWaits,
     Accepting, Hearing
<1>17. RoomFits'
  BY <1>2, <1>3, <1>6, <1>8, <1>9, <1>10 DEF RoomFits, Accepting, NothingWaits
<1>18. HostFits'
  BY <1>2, <1>3, <1>6, <1>7, <1>10 DEF HostFits
<1>19. OwnVisit'
  BY <1>2, <1>3, <1>6, <1>7, <1>9, <1>10 DEF OwnVisit, Accepting, NothingWaits, Hearing
<1> QED
  BY <1>2, <1>6, <1>11, <1>12, <1>13, <1>14, <1>15, <1>16, <1>17, <1>18, <1>19, FitsThen

LEMMA UnreadyFits ==
  ASSUME GenInv, Fits, NEW l \in Listeners, Unready(l)
  PROVE  Fits'
<1>1. Types /\ Counted /\ InBounds /\ Pointers
  BY DEF GenInv
<1>2. /\ fate = "running" /\ OneByOne /\ MainFits /\ VisitFits /\ Ordered
      /\ ListenerFits /\ QueueFits /\ RoomFits /\ HostFits /\ OwnVisit
  BY FitsParts
<1>3. /\ listener[l].at = "unready" /\ l = Opened /\ Opened # 0 /\ Place = "unready"
      /\ Opened \in Listeners /\ Server(Opened) \in Objects
  BY <1>1, <1>2, LastListener, PlaceAt DEF Unready
<1>4. \A k \in Listeners :
        /\ listener'[k].at = IF k = Opened THEN "ended" ELSE listener[k].at
        /\ listener'[k].on = listener[k].on
  <2>1. ListenerTo(Opened, "ended")
    BY <1>3 DEF Unready
  <2>2. "ended" \in ListenerPlaces
    BY DEF ListenerPlaces
  <2> QED
    BY <1>1, <1>3, <2>1, <2>2, ListenerMoves
<1>5. ready' = FALSE
  BY DEF Unready, ReadyWhenClosed
<1>6. room = "closed"
  BY <1>1, <1>2, <1>3, TypesOf DEF RoomFits
<1>7. UNCHANGED <<fate, main, mode, sock, heap, receiver, listenSock, bound, queue, conn, room>>
  BY DEF Unready
<1>8. Visited' = Visited
  BY VisitedSame, <1>7
<1>9. Opened' = Opened
  BY <1>1, <1>3, <1>4, <1>6, OpenedIs DEF Counted
<1>10. Phase' = Phase
  BY PhaseSame, <1>7, <1>8
<1>11. Place' = "ended"
  BY <1>9, <1>3, <1>4, <1>6, PlaceMoves
<1>12. OneByOne'
  BY <1>2, <1>3, <1>4, <1>6, <1>7, <1>8, <1>9, <1>1 DEF OneByOne, Counted, Listeners
<1>13. MainFits'
  BY <1>2, <1>7, <1>8, <1>10 DEF MainFits, Entering, Hearing
<1>14. VisitFits'
  BY <1>2, <1>7, <1>8, <1>10 DEF VisitFits, Hearing
<1>15. Ordered'
  BY <1>2, <1>7, <1>8, <1>10 DEF Ordered, Hearing
<1>16. ListenerFits'
  BY <1>2, <1>3, <1>4, <1>5, <1>6, <1>7, <1>9, <1>11 DEF ListenerFits
<1>17. QueueFits'
  BY <1>2, <1>3, <1>6, <1>7, <1>8, <1>9, <1>10, <1>11 DEF QueueFits, OwnerWaits, StopWaits,
     Accepting, Hearing
<1>18. RoomFits'
  BY <1>2, <1>3, <1>6, <1>7, <1>9, <1>10, <1>11 DEF RoomFits, Accepting, NothingWaits
<1>19. HostFits'
  BY <1>2, <1>3, <1>5, <1>6, <1>7, <1>8, <1>11 DEF HostFits
<1>20. OwnVisit'
  BY <1>2, <1>3, <1>6, <1>7, <1>8, <1>10, <1>11 DEF OwnVisit, Accepting, NothingWaits,
     Hearing
<1> QED
  BY <1>2, <1>7, <1>12, <1>13, <1>14, <1>15, <1>16, <1>17, <1>18, <1>19, <1>20, FitsThen

-----------------------------------------------------------------------------
(* The answers of the chat servers.                                        *)

LEMMA ServeCommandFits ==
  ASSUME GenInv, Fits, NEW v \in Visits, ServeCommand(v)
  PROVE  Fits'
<1>1. Types /\ Counted /\ InBounds /\ Pointers
  BY DEF GenInv
<1>2. /\ fate = "running" /\ OneByOne /\ MainFits /\ VisitFits /\ Ordered
      /\ ListenerFits /\ QueueFits /\ RoomFits /\ HostFits /\ OwnVisit
  BY FitsParts
<1>3. conn[v].at = "served" /\ conn[v].sent # <<>>
  BY DEF ServeCommand
<1> DEFINE a == Answer(Head(conn[v].sent), conn[v].own)
<1>4. /\ conn'[v].at = IF Head(conn[v].sent) = "leave" THEN "done" ELSE "served"
      /\ conn'[v].own = conn[v].own
      /\ conn'[v].orders = conn[v].orders \o a
      /\ \A w \in Visits \ {v} : conn'[w] = conn[w]
  BY <1>1, ServeConn
<1> HIDE DEF a
<1>5. /\ conn'[v].at \in {"served", "done"} /\ conn'[v].own = conn[v].own
      /\ \A w \in Visits : w # v => conn'[w] = conn[w]
      /\ \A w \in Visits : conn'[w].at # "off" <=> conn[w].at # "off"
  BY <1>3, <1>4
<1>6. ToSet(conn'[v].orders) \subseteq ToSet(conn[v].orders) \cup (IF conn[v].own THEN {"leave", "close"} ELSE {"leave"})
  <2>1. a \in {<<>>, <<"leave">>} \/ (conn[v].own /\ a = <<"close">>)
    BY DEF a, Answer
  <2>2. /\ <<>> \in Orders /\ <<"leave">> \in Orders /\ <<"close">> \in Orders
        /\ conn[v].orders \in Orders
    BY <1>1, ConnFields DEF Orders
  <2>5. a \in Orders
    BY <2>1, <2>2
  <2>3. ToSet(conn[v].orders \o a) \subseteq ToSet(conn[v].orders) \cup ToSet(a)
    BY <2>2, <2>5, Listed DEF Orders
  <2>4. ToSet(a) \subseteq IF conn[v].own THEN {"leave", "close"} ELSE {"leave"}
    BY <2>1, OneItem
  <2> QED
    BY <1>4, <2>3, <2>4
<1>7. Phase \in Hearing \cup {"ask", "tell", "back", "delete", "null", "ended"} \/ v # Visited
  BY <1>1, <1>2, <1>3, PhaseAt DEF MainFits, HostFits, ReceiverPlaces, Hearing
<1>8. /\ Phase # "none" \/ v # Visited
      /\ v = Visited => ~OwnerWaits
      /\ v # Visited => conn'[Visited] = conn[Visited] \/ Visited = 0
  BY <1>1, <1>3, <1>5, <1>7, PhaseAt DEF OwnerWaits, Hearing
<1>9. \A w \in Visits : conn'[w].own = conn[w].own
  BY <1>5
<1>10. UNCHANGED <<fate, main, mode, sock, heap, receiver, ready, listener, listenSock, bound, queue, room>>
  BY DEF ServeCommand
<1>11. Visited' = Visited
  BY <1>1, <1>5, VisitedIs DEF Counted
<1>12. Opened' = Opened
  BY OpenedSame, <1>10
<1>13. Phase' = Phase
  BY PhaseSame, <1>10, <1>11
<1>14. Place' = Place
  BY PlaceSame, <1>10, <1>12
<1>15. OneByOne'
  BY <1>2, <1>10, <1>11, <1>12 DEF OneByOne
<1>16. MainFits'
  BY <1>2, <1>10, <1>13 DEF MainFits
<1>17. VisitFits'
  BY <1>2, <1>10, <1>11, <1>13 DEF VisitFits
<1>18. Ordered'
  BY <1>2, <1>3, <1>5, <1>6 DEF Ordered
<1>19. ListenerFits'
  BY <1>2, <1>10, <1>12, <1>14 DEF ListenerFits
<1>20. QueueFits'
  BY <1>1, <1>2, <1>7, <1>8, <1>10, <1>11, <1>12, <1>13, <1>14 DEF QueueFits, OwnerWaits,
     StopWaits, Accepting, Counted, Visits
<1>21. RoomFits'
  BY <1>2, <1>10, <1>12, <1>13, <1>14 DEF RoomFits, Accepting, NothingWaits
<1>22. HostFits'
  BY <1>1, <1>2, <1>3, <1>7, <1>8, <1>10, <1>11, <1>14, PhaseAt DEF HostFits, MainFits,
     Counted, Visits
<1>23. OwnVisit'
  <2>1. SUFFICES ASSUME Phase \in Hearing, conn'[Visited].own
                 PROVE  /\ room = "open"
                        /\ conn'[Visited].at = "joined" \/
                             (conn'[Visited].at \in {"served", "done"} /\ Accepting /\ NothingWaits)
    BY <1>10, <1>11, <1>13, <1>14 DEF OwnVisit, Accepting, NothingWaits
  <2>2. Visited \in Visits /\ Visited # 0 /\ conn[Visited].own
    BY <1>1, <1>9, <2>1, PhaseAt DEF Hearing
  <2>3. room = "open" /\ (conn[Visited].at # "joined" => Accepting /\ NothingWaits)
    BY <1>2, <2>1, <2>2 DEF OwnVisit
  <2> QED
    BY <1>2, <1>3, <1>5, <1>8, <2>1, <2>2, <2>3 DEF OwnVisit
<1> QED
  BY <1>2, <1>10, <1>15, <1>16, <1>17, <1>18, <1>19, <1>20, <1>21, <1>22, <1>23, FitsThen

LEMMA SendAwayFits ==
  ASSUME GenInv, Fits, NEW v \in Visits, SendAway(v)
  PROVE  Fits'
<1>1. Types /\ Counted /\ InBounds /\ Pointers
  BY DEF GenInv
<1>2. /\ fate = "running" /\ OneByOne /\ MainFits /\ VisitFits /\ Ordered
      /\ ListenerFits /\ QueueFits /\ RoomFits /\ HostFits /\ OwnVisit
  BY FitsParts
<1>3. conn[v].at = "served" /\ ~conn[v].own
  BY DEF SendAway
<1>4. /\ conn'[v].at = "done" /\ conn'[v].own = conn[v].own
      /\ conn'[v].orders = Append(conn[v].orders, "leave")
      /\ \A w \in Visits \ {v} : conn'[w] = conn[w]
  BY <1>1, AwayConn
<1>5. /\ conn'[v].at \in {"served", "done"} /\ conn'[v].own = conn[v].own
      /\ \A w \in Visits : w # v => conn'[w] = conn[w]
      /\ \A w \in Visits : conn'[w].at # "off" <=> conn[w].at # "off"
  BY <1>3, <1>4
<1>6. ToSet(conn'[v].orders) \subseteq ToSet(conn[v].orders) \cup {"leave"}
  BY <1>1, <1>4, ConnFields, Listed DEF Orders
<1>7. Phase \in Hearing \cup {"ask", "tell", "back", "delete", "null", "ended"} \/ v # Visited
  BY <1>1, <1>2, <1>3, PhaseAt DEF MainFits, HostFits, ReceiverPlaces, Hearing
<1>8. /\ Phase # "none" \/ v # Visited
      /\ v = Visited => ~OwnerWaits
      /\ v # Visited => conn'[Visited] = conn[Visited] \/ Visited = 0
  BY <1>1, <1>3, <1>5, <1>7, PhaseAt DEF OwnerWaits, Hearing
<1>9. \A w \in Visits : conn'[w].own = conn[w].own
  BY <1>5
<1>10. UNCHANGED <<fate, main, mode, sock, heap, receiver, ready, listener, listenSock, bound, queue, room>>
  BY DEF SendAway
<1>11. Visited' = Visited
  BY <1>1, <1>5, VisitedIs DEF Counted
<1>12. Opened' = Opened
  BY OpenedSame, <1>10
<1>13. Phase' = Phase
  BY PhaseSame, <1>10, <1>11
<1>14. Place' = Place
  BY PlaceSame, <1>10, <1>12
<1>15. OneByOne'
  BY <1>2, <1>10, <1>11, <1>12 DEF OneByOne
<1>16. MainFits'
  BY <1>2, <1>10, <1>13 DEF MainFits
<1>17. VisitFits'
  BY <1>2, <1>10, <1>11, <1>13 DEF VisitFits
<1>18. Ordered'
  BY <1>2, <1>3, <1>5, <1>6 DEF Ordered
<1>19. ListenerFits'
  BY <1>2, <1>10, <1>12, <1>14 DEF ListenerFits
<1>20. QueueFits'
  BY <1>1, <1>2, <1>7, <1>8, <1>10, <1>11, <1>12, <1>13, <1>14 DEF QueueFits, OwnerWaits,
     StopWaits, Accepting, Counted, Visits
<1>21. RoomFits'
  BY <1>2, <1>10, <1>12, <1>13, <1>14 DEF RoomFits, Accepting, NothingWaits
<1>22. HostFits'
  BY <1>1, <1>2, <1>3, <1>7, <1>8, <1>10, <1>11, <1>14, PhaseAt DEF HostFits, MainFits,
     Counted, Visits
<1>23. OwnVisit'
  <2>1. SUFFICES ASSUME Phase \in Hearing, conn'[Visited].own
                 PROVE  /\ room = "open"
                        /\ conn'[Visited].at = "joined" \/
                             (conn'[Visited].at \in {"served", "done"} /\ Accepting /\ NothingWaits)
    BY <1>10, <1>11, <1>13, <1>14 DEF OwnVisit, Accepting, NothingWaits
  <2>2. Visited \in Visits /\ Visited # 0 /\ conn[Visited].own
    BY <1>1, <1>9, <2>1, PhaseAt DEF Hearing
  <2>3. room = "open" /\ (conn[Visited].at # "joined" => Accepting /\ NothingWaits)
    BY <1>2, <2>1, <2>2 DEF OwnVisit
  <2> QED
    BY <1>2, <1>3, <1>5, <1>8, <2>1, <2>2, <2>3 DEF OwnVisit
<1> QED
  BY <1>2, <1>10, <1>15, <1>16, <1>17, <1>18, <1>19, <1>20, <1>21, <1>22, <1>23, FitsThen

-----------------------------------------------------------------------------
(* As long as no command came too early.                                   *)

LEMMA FitsInit ==
  ASSUME Init
  PROVE  Fits
<1>1. Visited = 0 /\ Opened = 0
  BY InitCounts
<1>2. Phase = "ended" /\ Place = "none"
  BY <1>1 DEF Phase, Place
<1>3. OneByOne
  BY <1>1 DEF Init, OneByOne, Visits, Listeners
<1>4. MainFits
  BY <1>2 DEF Init, MainFits, Entering
<1>5. VisitFits
  BY <1>2 DEF Init, VisitFits, Hearing
<1>6. Ordered
  BY <1>2, OneItem DEF Init, Ordered, Hearing
<1>7. ListenerFits
  BY <1>2 DEF Init, ListenerFits
<1>8. QueueFits
  BY DEF Init, QueueFits
<1>9. RoomFits
  BY <1>1, <1>2 DEF Init, RoomFits
<1>10. HostFits
  BY DEF Init, HostFits
<1>11. OwnVisit
  BY <1>2 DEF OwnVisit, Hearing
<1> QED
  BY <1>3, <1>4, <1>5, <1>6, <1>7, <1>8, <1>9, <1>10, <1>11 DEF Init, Fits, VisitInv,
     RoomInv

\* What is said of the process stays true of one that has stopped.
LEMMA KeepsInv ==
  ASSUME VisitInv, RoomInv,
         UNCHANGED <<main, mode, sock, heap, receiver, ready, listener, listenSock, bound,
                     queue, conn, room>>
  PROVE  VisitInv' /\ RoomInv'
<1>1. Visited' = Visited /\ Opened' = Opened
  BY VisitedSame, OpenedSame
<1>2. Phase' = Phase /\ Place' = Place
  BY <1>1, PhaseSame, PlaceSame
<1> QED
  BY <1>1, <1>2 DEF VisitInv, RoomInv, OneByOne, MainFits, VisitFits, Ordered, ListenerFits,
     QueueFits, OwnerWaits, StopWaits, Accepting, NothingWaits, RoomFits, HostFits, OwnVisit

LEMMA FitsSane ==
  /\ Fits => Sane
  /\ Sane /\ fate = "running" => Fits
BY DEF Fits, Sane

\* Another's room may refuse who enters it.
LEMMA ConnectSane ==
  ASSUME GenInv, Fits, Connect
  PROVE  Sane'
<1>1. CASE fate' # "refused"
  BY <1>1, ConnectFits DEF Fits, Sane
<1>2. CASE fate' = "refused"
  <2>1. UNCHANGED <<main, mode, sock, heap, receiver, ready, listener, listenSock, bound,
                    queue, conn, room>>
    BY <1>2 DEF Connect, Fits
  <2>2. VisitInv' /\ RoomInv'
    BY <2>1, KeepsInv DEF Fits
  <2> QED
    BY <1>2, <2>2 DEF Sane, Stopped
<1> QED
  BY <1>1, <1>2

\* The receiver may have deleted what the main thread sends through.
LEMMA SendCommandSane ==
  ASSUME GenInv, Fits, SendCommand
  PROVE  Sane'
<1>1. CASE sock \in heap
  BY <1>1, SendCommandFits DEF Fits, Sane
<1>2. CASE sock \notin heap
  <2>1. /\ UNCHANGED <<main, mode, sock, heap, receiver, ready, listener, listenSock, bound,
                       queue, conn, room>>
        /\ fate' = "undefined" /\ main.at = "send"
    BY <1>2 DEF SendCommand
  <2>2. VisitInv' /\ RoomInv'
    BY <2>1, KeepsInv DEF Fits
  <2> QED
    BY <1>2, <2>1, <2>2 DEF Sane, Stopped
<1> QED
  BY <1>1, <1>2

LEMMA SaneStep ==
  ASSUME GenInv, Sane, [Next]_vars, ~hasty'
  PROVE  Sane'
<1>1. ASSUME Fits, NEW command \in BbsCommands \cup ChatCommands, Type(command)
      PROVE  Sane'
  BY <1>1, TypeFits DEF Fits, Sane
<1>2. ASSUME Fits, RunMain
      PROVE  Sane'
  BY <1>2, RefuseFits, StartServerFits, AttachFits, TestConditionFits, SleepFits,
     StartChatFits, NewSocketFits, ConnectSane, JoinFits, SendCommandSane
     DEF RunMain, Fits, Sane
<1>3. ASSUME Fits, SpuriousWake
      PROVE  Sane'
  BY <1>3, SpuriousWakeFits DEF Fits, Sane
<1>4. ASSUME Fits, NEW v \in Visits, RunReceiver(v) \/ ServeCommand(v) \/ SendAway(v)
      PROVE  Sane'
  BY <1>4, CallRecvFits, ReceiveFits, CloseStatusFits, TellListenerFits, BackToBbsFits,
     DeleteSocketFits, ForgetSocketFits, ServeCommandFits, SendAwayFits
     DEF RunReceiver, Fits, Sane
<1>5. ASSUME Fits, NEW l \in Listeners, RunListener(l)
      PROVE  Sane'
  BY <1>5, NewListenSocketFits, BindAndListenFits, SetReadyFits, NotifyFits, CallAcceptFits,
     AdmitFits, TakeCloseFits, DeleteListenSocketFits, ForgetListenSocketFits, UnreadyFits
     DEF RunListener, Fits, Sane
<1>6. ASSUME UNCHANGED vars
      PROVE  Sane'
  <2>1. UNCHANGED <<fate, main, mode, sock, heap, receiver, ready, listener, listenSock, bound,
                    queue, conn, room>>
    BY <1>6 DEF vars
  <2>2. VisitInv' /\ RoomInv'
    BY <2>1, KeepsInv DEF Sane
  <2> QED
    BY <2>1, <2>2 DEF Sane, Stopped
<1>7. Next => fate = "running"
  BY DEF Next, Type, RunMain, SpuriousWake, RunReceiver, RunListener, ServeCommand, SendAway,
     Refuse, StartServer, Attach, TestCondition, Sleep, StartChat, NewSocket, Connect, Join,
     SendCommand, CallRecv, Receive, CloseStatus, TellListener, BackToBbs, DeleteSocket,
     ForgetSocket, NewListenSocket, BindAndListen, SetReady, Notify, CallAccept, Admit,
     TakeClose, DeleteListenSocket, ForgetListenSocket, Unready
<1>8. CASE Next
  <2>1. Fits
    BY <1>7, <1>8, FitsSane
  <2> QED
    BY <1>1, <1>2, <1>3, <1>4, <1>5, <1>8, <2>1 DEF Next
<1> QED
  BY <1>6, <1>8

\* As long as no command came too early, whatever else the user types and however the
\* three threads overlap: the visits follow one another; mode, pointers, objects, port
\* and flag follow the last visit and the last listener; and the process runs on, or
\* another's room refused it, or the main thread sent into a room it was leaving.
THEOREM SaneHolds == Spec => [](hasty \/ Sane)
<1>1. Init => Sane
  BY FitsInit, FitsSane
<1>2. GenInv /\ (hasty \/ Sane) /\ [Next]_vars => (hasty \/ Sane)'
  <2>1. ASSUME hasty, [Next]_vars
        PROVE  hasty'
    BY <2>1 DEF Next, Type, vars
  <2> QED
    BY <2>1, SaneStep
<1> QED
  BY <1>1, <1>2, GenInvHolds, PTL DEF Spec

LEMMA SaneStray ==
  ASSUME GenInv, Sane, fate = "undefined"
  PROVE  /\ main.at = "send" /\ sock \notin heap
         /\ \A v \in Visits : receiver[v].at \in {"none", "null", "ended"}
         /\ \A l \in Listeners :
              listener[l].at \in {"bind", "accept", "delete"} => listenSock \in heap
<1>1. Types /\ Counted /\ OneByOne /\ VisitFits /\ ListenerFits
  BY DEF GenInv, Sane, VisitInv, RoomInv
<1>2. main.at = "send" /\ sock \notin heap
  BY DEF Sane, Stopped
<1>3. ASSUME NEW v \in Visits, receiver[v].at \notin {"none", "null", "ended"}
      PROVE  FALSE
  <2>1. v = Visited /\ Phase = receiver[v].at
    BY <1>1, <1>3, LastVisit
  <2>2. sock = Chat(Visited) /\ sock \in heap
    BY <1>1, <1>3, <2>1 DEF VisitFits
  <2> QED
    BY <1>2, <2>2
<1>4. ASSUME NEW l \in Listeners, listener[l].at \in {"bind", "accept", "delete"}
      PROVE  listenSock \in heap
  <2>1. l = Opened /\ Place = listener[l].at
    BY <1>1, <1>4, LastListener
  <2> QED
    BY <1>1, <1>4, <2>1 DEF ListenerFits
<1> QED
  BY <1>2, <1>3, <1>4

\* Whatever the user types and however the threads overlap, a deleted socket object or
\* a null pointer is used only after a command that came in one of the two windows, or
\* by what the main thread sends into a room that its receiver has left: never by a
\* receiver or by a listener.
THEOREM StrayOnlyTypedTheorem == Spec => []StrayOnlyTyped
<1>1. GenInv /\ (hasty \/ Sane) => StrayOnlyTyped
  BY SaneStray DEF StrayOnlyTyped
<1> QED
  BY <1>1, GenInvHolds, SaneHolds, PTL

\* Nor do bind, accept or a connection to the own port ever end the process, unless a
\* command came too early: the owner connects when its listener listens, and a listener
\* binds when the one before it has let the port go.
THEOREM NoRefusalTheorem == Spec => []NoRefusal
<1>1. hasty \/ Sane => NoRefusal
  BY DEF Sane, Stopped, NoRefusal
<1> QED
  BY <1>1, SaneHolds, PTL

=============================================================================
