--------------------------- MODULE SessionsProofs ---------------------------
(***************************************************************************)
(* Proofs about Sessions, for any clients, users and tokens.  The first    *)
(* part has the types, that a running client's session is its own until it *)
(* logs out, and that nobody opens or closes another user's room; the      *)
(* second that login_mutex excludes the handlers, and that no room is      *)
(* stored that another handler changed after it was read; the third that   *)
(* an open room has one client in charge of it, which is what a chat       *)
(* server, its port and the logout of its owner depend on.                 *)
(***************************************************************************)
EXTENDS Sessions, TLAPS

InRoom == {"starting", "connecting", "chat", "stuck"}
Busy == {"insert", "held", "room", "store"}

\* One request is under way at a time, and the client waits for it; a client
\* that died leaves at most its request behind.
OneRequest(c) ==
  /\ client[c].mode \in {"bbs"} \cup InRoom =>
       request[c].op = "none" /\ reply[c].op = "none" /\ handler[c].at = "recv"
  /\ ~Alive(c) => reply[c].op = "none"
  /\ reply[c].op # "none" => request[c].op = "none" /\ handler[c].at = "recv"

\* Where a handler is, it has the request of that place.
PlaceOfRequest(c) ==
  /\ handler[c].at = "insert" => request[c].op = "login" /\ request[c].token = None
  /\ handler[c].at = "held" => request[c].op \in {"logout", "create", "restart", "close"}
  /\ handler[c].at = "room" => request[c].op \in {"join", "attach"}
  /\ handler[c].at = "store" => request[c].op \in {"restart", "close"}
  /\ handler[c].at = "end" => request[c].op = "none" /\ (Alive(c) => client[c].token = None)

\* A request has the number and the user of its client.
RequestOfClient(c) ==
  /\ request[c].op \notin {"none", "close"} => request[c].token = client[c].token
  /\ request[c].op = "login" /\ request[c].token = None =>
       request[c].user = client[c].user
  /\ request[c].op = "close" => request[c].user = client[c].user
  /\ request[c].op = "exit" => client[c].mode = "exited"

\* The name a handler works with, and that of the client's room, are the user.
NameIsUser(c) ==
  /\ handler[c].at \in {"room", "store"} =>
       handler[c].name \in Users /\ handler[c].name = client[c].user
  /\ reply[c].op \in RoomOps /\ reply[c].code = 0 => reply[c].user = client[c].user
  /\ client[c].mode \in InRoom =>
       client[c].name \in Users /\ client[c].name = client[c].user /\ client[c].room \in Users

Local(c) == OneRequest(c) /\ PlaceOfRequest(c) /\ RequestOfClient(c) /\ NameIsUser(c)

\* The numbers that the client, its request under way or its reply stand for.
Claimed(c) ==
  {k \in Tokens :
     \/ /\ client[c].token = k
        /\ (Alive(c) /\ ~LoggedOut(c)) \/ request[c].op # "none"
     \/ reply[c].op = "login" /\ reply[c].token = k}

\* They are in logins, with the client's user, and no two clients share one.
ClaimsHold ==
  /\ \A c \in Clients : \A k \in Claimed(c) :
       k \in DOMAIN logins /\ logins[k] = client[c].user
  /\ \A c, d \in Clients : c # d => Claimed(c) \cap Claimed(d) = {}

\* TypeOK is about the registry and about the connections.
RegistryTypes ==
  /\ DOMAIN logins \subseteq Tokens
  /\ logins \in [DOMAIN logins -> Users]
  /\ DOMAIN rooms \subseteq Users
  /\ rooms \in [DOMAIN rooms -> BOOLEAN]

Handlers ==
  [at : {"recv", "insert", "held", "room", "store", "end"},
   name : Users \cup {None}, opened : BOOLEAN]

ConnectionTypes ==
  /\ loginMutex \in Clients \cup {None}
  /\ request \in [Clients -> Requests]
  /\ reply \in [Clients -> Replies]
  /\ handler \in [Clients -> Handlers]
  /\ client \in [Clients -> Processes]

Inv ==
  /\ RegistryTypes
  /\ ConnectionTypes
  /\ \A c \in Clients : Local(c)
  /\ ClaimsHold

-----------------------------------------------------------------------------
(* Records.                                                                *)

\* What the field op says of the other fields of a request and of a reply.
LEMMA RequestFields ==
  ASSUME NEW r \in Requests
  PROVE  /\ r.op \in {"none", "login", "close", "logout", "create", "restart", "attach",
                      "exit", "join"}
         /\ r.op = "none" <=> r = Nothing
         /\ r.op # "none" => r.token \in Tokens \cup {None}
         /\ r.op \in {"login", "close"} => r.user \in Users
         /\ r.op = "join" => r.room \in Users
BY DEF Requests, Nothing

LEMMA ReplyFields ==
  ASSUME NEW r \in Replies
  PROVE  /\ r.op \in {"none", "login", "logout", "close"} \cup RoomOps
         /\ r.op = "none" <=> r = Nothing
         /\ r.op = "login" => r.token \in Tokens \cup {None}
         /\ r.op = "logout" => r.code \in 0 .. 2
         /\ r.op \in RoomOps => r.code \in 0 .. 3
         /\ r.op \in RoomOps /\ r.code = 0 => r.user \in Users /\ r.room \in Users
BY DEF Replies, Nothing, RoomOps

LEMMA ProcessFields ==
  ASSUME NEW p \in Processes
  PROVE  /\ p.mode \in {"bbs", "wait", "dead", "exited"} \cup InRoom
         /\ p.token \in Tokens \cup {None}
         /\ p.user \in Users \cup {None}
         /\ p.name \in Users \cup {None}
         /\ p.room \in Users \cup {None}
BY DEF Processes, InRoom

-----------------------------------------------------------------------------
(* The parts of a step.                                                    *)

\* Only c is touched.
Only(c) ==
  \A d \in Clients \ {c} :
    /\ request'[d] = request[d]
    /\ reply'[d] = reply[d]
    /\ handler'[d] = handler[d]
    /\ client'[d] = client[d]

LEMMA OthersLocal ==
  ASSUME \A d \in Clients : Local(d), NEW c \in Clients, Only(c), Local(c)'
  PROVE  \A d \in Clients : Local(d)'
<1> SUFFICES ASSUME NEW d \in Clients \ {c} PROVE Local(d)'
  OBVIOUS
<1>1. /\ request'[d] = request[d] /\ reply'[d] = reply[d]
      /\ handler'[d] = handler[d] /\ client'[d] = client[d]
  BY DEF Only
<1>2. Local(d)
  OBVIOUS
<1> QED
  BY <1>1, <1>2 DEF Local, OneRequest, PlaceOfRequest, RequestOfClient, NameIsUser, Alive

LEMMA OthersClaim ==
  ASSUME NEW c \in Clients, Only(c), NEW d \in Clients \ {c}
  PROVE  Claimed(d)' = Claimed(d)
BY DEF Only, Claimed, Alive, LoggedOut

\* No session is added or removed, and c claims no more than before.
LEMMA ClaimsKept ==
  ASSUME ClaimsHold, NEW c \in Clients, Only(c), logins' = logins,
         Claimed(c)' \subseteq Claimed(c),
         client'[c].user = client[c].user \/ Claimed(c)' = {}
  PROVE  ClaimsHold'
<1>1. \A d \in Clients \ {c} : Claimed(d)' = Claimed(d) /\ client'[d] = client[d]
  BY OthersClaim DEF Only
<1> QED BY <1>1 DEF ClaimsHold

\* The session that c claims ends, or none does.
LEMMA ClaimsErased ==
  ASSUME ClaimsHold, NEW c \in Clients, Only(c), NEW k,
         k \in Tokens => k \in Claimed(c),
         logins' = Restrict(logins, DOMAIN logins \ {k}),
         Claimed(c)' \subseteq Claimed(c) \ {k},
         client'[c].user = client[c].user
  PROVE  ClaimsHold'
<1>1. \A d \in Clients \ {c} : Claimed(d)' = Claimed(d) /\ client'[d] = client[d]
  BY OthersClaim DEF Only
<1>2. \A d \in Clients : Claimed(d) \subseteq Tokens
  BY DEF Claimed
<1>3. \A j \in DOMAIN logins \ {k} : j \in DOMAIN logins' /\ logins'[j] = logins[j]
  BY DEF Restrict
<1>4. \A d \in Clients \ {c} : k \notin Claimed(d)
  BY <1>2 DEF ClaimsHold
<1>5. ASSUME NEW d \in Clients, NEW j \in Claimed(d)'
      PROVE  j \in DOMAIN logins' /\ logins'[j] = client'[d].user
  <2>1. j \in Claimed(d) /\ j # k /\ client'[d].user = client[d].user
    BY <1>1, <1>4, <1>5
  <2> QED BY <2>1, <1>3 DEF ClaimsHold
<1>6. \A a, b \in Clients : a # b => (Claimed(a) \cap Claimed(b))' = {}
  BY <1>1 DEF ClaimsHold
<1> QED BY <1>5, <1>6 DEF ClaimsHold

\* A number that is not in use becomes the session of c.
LEMMA ClaimsInserted ==
  ASSUME ClaimsHold, NEW c \in Clients, Only(c), NEW k \in Tokens \ DOMAIN logins,
         logins' = Set(logins, k, client[c].user),
         Claimed(c)' \subseteq Claimed(c) \cup {k},
         client'[c].user = client[c].user
  PROVE  ClaimsHold'
<1>1. \A d \in Clients \ {c} : Claimed(d)' = Claimed(d) /\ client'[d] = client[d]
  BY OthersClaim DEF Only
<1>2. /\ k \in DOMAIN logins' /\ logins'[k] = client[c].user
      /\ \A j \in DOMAIN logins : j \in DOMAIN logins' /\ logins'[j] = logins[j]
  BY DEF Set
<1>3. \A d \in Clients : k \notin Claimed(d)
  BY DEF ClaimsHold
<1> QED BY <1>1, <1>2, <1>3 DEF ClaimsHold

-----------------------------------------------------------------------------
(* What a step does to the connections.                                    *)

\* The connection of c has the given request, reply, handler and process.
Becomes(c, q, a, h, p) ==
  /\ request' = [request EXCEPT ![c] = q]
  /\ reply' = [reply EXCEPT ![c] = a]
  /\ handler' = [handler EXCEPT ![c] = h]
  /\ client' = [client EXCEPT ![c] = p]

LEMMA BecomesTyped ==
  ASSUME ConnectionTypes, NEW c \in Clients,
         NEW q \in Requests, NEW a \in Replies, NEW h \in Handlers, NEW p \in Processes,
         Becomes(c, q, a, h, p), loginMutex' \in Clients \cup {None}
  PROVE  /\ ConnectionTypes'
         /\ Only(c)
         /\ request'[c] = q /\ reply'[c] = a /\ handler'[c] = h /\ client'[c] = p
BY DEF ConnectionTypes, Becomes, Only

\* A handler at work has a request, and its client waits for the reply.
LEMMA BusyRequest ==
  ASSUME NEW c \in Clients, Local(c), handler[c].at \in Busy
  PROVE  request[c].op # "none"
BY DEF Local, PlaceOfRequest, Busy

\* While a request is under way its client's number is claimed.
LEMMA RequestClaims ==
  ASSUME Inv, NEW c \in Clients, request[c].op \notin {"none", "close"},
         request[c].token # None
  PROVE  /\ request[c].token \in Claimed(c)
         /\ request[c].token \in DOMAIN logins
         /\ logins[request[c].token] = client[c].user
         /\ client[c].user \in Users
<1>1. request[c].token = client[c].token
  BY DEF Inv, Local, RequestOfClient
<1>2. client[c].token \in Tokens
  BY <1>1, ProcessFields DEF Inv, ConnectionTypes
<1>3. request[c].token \in Claimed(c)
  BY <1>1, <1>2 DEF Claimed
<1>4. request[c].token \in DOMAIN logins /\ logins[request[c].token] = client[c].user
  BY <1>3 DEF Inv, ClaimsHold
<1> QED BY <1>3, <1>4 DEF Inv, RegistryTypes

\* A handler moves on: the request, the reply and the client stay.
LEMMA HandlerMoves ==
  ASSUME Inv, NEW c \in Clients, NEW h \in Handlers, request[c].op # "none",
         handler' = [handler EXCEPT ![c] = h],
         UNCHANGED <<request, reply, client>>, loginMutex' \in Clients \cup {None},
         h.at \in Busy,
         h.at = "insert" => request[c].op = "login" /\ request[c].token = None,
         h.at = "held" => request[c].op \in {"logout", "create", "restart", "close"},
         h.at = "room" => request[c].op \in {"join", "attach"},
         h.at = "store" => request[c].op \in {"restart", "close"},
         h.at \in {"room", "store"} => h.name \in Users /\ h.name = client[c].user
  PROVE  ConnectionTypes' /\ Only(c) /\ Local(c)' /\ Claimed(c)' = Claimed(c)
<1>1. Becomes(c, request[c], reply[c], h, client[c])
  BY DEF Becomes, Inv, ConnectionTypes
<1>2. request[c] \in Requests /\ reply[c] \in Replies /\ client[c] \in Processes
  BY DEF Inv, ConnectionTypes
<1>3. ConnectionTypes' /\ Only(c) /\ handler'[c] = h
  BY <1>1, <1>2, BecomesTyped DEF Inv
<1>4. Local(c)
  BY DEF Inv
<1>5. OneRequest(c)'
  BY <1>3, <1>4 DEF Local, OneRequest, Alive
<1>6. PlaceOfRequest(c)'
  BY <1>3 DEF PlaceOfRequest, Busy
<1>7. RequestOfClient(c)'
  BY <1>4 DEF Local, RequestOfClient
<1>8. NameIsUser(c)'
  BY <1>3, <1>4 DEF Local, NameIsUser
<1>9. Claimed(c)' = Claimed(c)
  BY DEF Claimed, Alive, LoggedOut
<1> QED BY <1>3, <1>5, <1>6, <1>7, <1>8, <1>9 DEF Local

\* The lock after a handler's scope is a client's or free.
LEMMA ReleasedType ==
  ASSUME ConnectionTypes, NEW c \in Clients
  PROVE  ReleasedMutex(c) \in Clients \cup {None}
BY DEF ConnectionTypes, ReleasedMutex

\* A reply ends the request; what c claims after it, it claimed before, but for
\* the number of a new session, and not after a logout.
LEMMA Answered ==
  ASSUME Inv, NEW c \in Clients, NEW r \in Replies, r.op # "none",
         request[c].op # "none", Answer(c, r),
         r.op \in RoomOps /\ r.code = 0 => r.user = client[c].user
  PROVE  /\ ConnectionTypes' /\ Only(c) /\ Local(c)'
         /\ client'[c] = client[c]
         /\ r.op # "login" => Claimed(c)' \subseteq Claimed(c)
         /\ r.op = "login" => Claimed(c)' \subseteq Claimed(c) \cup {r.token}
         /\ r = [op |-> "logout", code |-> 0] =>
              Claimed(c)' \subseteq Claimed(c) \ {client[c].token}
<1> DEFINE h == [at |-> "recv", name |-> None, opened |-> FALSE]
           a == IF Alive(c) THEN r ELSE Nothing
<1>1. Becomes(c, Nothing, a, h, client[c])
  BY DEF Becomes, Inv, ConnectionTypes, Answer
<1>2. /\ Nothing \in Requests /\ a \in Replies /\ h \in Handlers
      /\ client[c] \in Processes /\ loginMutex' \in Clients \cup {None}
  BY ReleasedType DEF Inv, ConnectionTypes, Requests, Replies, Handlers, Answer
<1>3. /\ ConnectionTypes' /\ Only(c) /\ request'[c] = Nothing /\ reply'[c] = a
      /\ handler'[c] = h /\ client'[c] = client[c]
  BY <1>1, <1>2, BecomesTyped DEF Inv
<1>4. Local(c) /\ reply'[c].op = (IF Alive(c) THEN r.op ELSE "none")
  BY <1>3 DEF Inv, Nothing
<1>5. client[c].mode \notin {"bbs"} \cup InRoom
  BY <1>4 DEF Local, OneRequest
<1>6. OneRequest(c)'
  BY <1>3, <1>4, <1>5 DEF OneRequest, Alive, Nothing
<1>7. PlaceOfRequest(c)' /\ RequestOfClient(c)'
  BY <1>3 DEF PlaceOfRequest, RequestOfClient, Nothing
<1>8. NameIsUser(c)'
  BY <1>3, <1>4, <1>5 DEF NameIsUser, RoomOps
<1>9. \A k \in Claimed(c)' : k \in Claimed(c) \/ (r.op = "login" /\ k = r.token)
  BY <1>3, <1>4 DEF Claimed, Alive, Nothing
<1>10. ASSUME r = [op |-> "logout", code |-> 0], NEW k \in Claimed(c)' PROVE k # client[c].token
  BY <1>3, <1>4, <1>10 DEF Claimed, Alive, Nothing, LoggedOut
<1> QED BY <1>3, <1>6, <1>7, <1>8, <1>9, <1>10 DEF Local

\* An exception ends the handler of a client that has no session, or is gone.
LEMMA Thrown ==
  ASSUME Inv, NEW c \in Clients, request[c].op # "none", Throw(c),
         Alive(c) => client[c].token = None
  PROVE  /\ ConnectionTypes' /\ Only(c) /\ Local(c)'
         /\ client'[c] = client[c]
         /\ Claimed(c)' \subseteq Claimed(c)
<1> DEFINE h == [handler[c] EXCEPT !.at = "end"]
<1>1. Becomes(c, Nothing, reply[c], h, client[c])
  BY DEF Becomes, Inv, ConnectionTypes, Throw, Goto
<1>2. /\ Nothing \in Requests /\ reply[c] \in Replies /\ h \in Handlers
      /\ client[c] \in Processes /\ loginMutex' \in Clients \cup {None}
  BY ReleasedType DEF Inv, ConnectionTypes, Requests, Handlers, Throw
<1>3. /\ ConnectionTypes' /\ Only(c) /\ request'[c] = Nothing /\ reply'[c] = reply[c]
      /\ handler'[c] = h /\ client'[c] = client[c]
  BY <1>1, <1>2, BecomesTyped DEF Inv
<1>4. Local(c) /\ h.at = "end"
  BY DEF Inv, ConnectionTypes, Handlers
<1>5. client[c].mode \notin {"bbs"} \cup InRoom /\ reply[c].op = "none"
  BY <1>4 DEF Local, OneRequest
<1>6. OneRequest(c)'
  BY <1>3, <1>5 DEF OneRequest, Alive, Nothing
<1>7. PlaceOfRequest(c)' /\ RequestOfClient(c)'
  BY <1>3, <1>4 DEF PlaceOfRequest, RequestOfClient, Nothing, Alive
<1>8. NameIsUser(c)'
  BY <1>3, <1>4, <1>5 DEF NameIsUser, RoomOps
<1>9. \A k \in Claimed(c)' : k \in Claimed(c)
  BY <1>3, <1>5 DEF Claimed, Alive, Nothing
<1> QED BY <1>3, <1>6, <1>7, <1>8, <1>9 DEF Local

-----------------------------------------------------------------------------
(* The steps of the handlers.                                              *)

LEMMA Concluded ==
  ASSUME Inv, NEW c \in Clients, RegistryTypes', ConnectionTypes', Only(c), Local(c)',
         ClaimsHold'
  PROVE  Inv'
BY OthersLocal DEF Inv

\* A step of c that keeps logins, and claims nothing new.
LEMMA SameSessions ==
  ASSUME Inv, NEW c \in Clients, RegistryTypes', ConnectionTypes', Only(c), Local(c)',
         logins' = logins, Claimed(c)' \subseteq Claimed(c),
         client'[c].user = client[c].user \/ Claimed(c)' = {}
  PROVE  Inv'
BY ClaimsKept, Concluded DEF Inv

LEMMA AnswerInv ==
  ASSUME Inv, NEW c \in Clients, NEW r \in Replies, r.op \notin {"none", "login"},
         request[c].op # "none", Answer(c, r),
         r.op \in RoomOps /\ r.code = 0 => r.user = client[c].user,
         logins' = logins, RegistryTypes'
  PROVE  Inv'
BY Answered, SameSessions

LEMMA ThrowInv ==
  ASSUME Inv, NEW c \in Clients, request[c].op # "none", Throw(c),
         Alive(c) => client[c].token = None, UNCHANGED registry
  PROVE  Inv'
BY Thrown, SameSessions DEF registry, Inv, RegistryTypes

LEMMA MoveInv ==
  ASSUME Inv, NEW c \in Clients, NEW h \in Handlers, request[c].op # "none",
         handler' = [handler EXCEPT ![c] = h],
         UNCHANGED <<registry, request, reply, client>>, loginMutex' \in Clients \cup {None},
         h.at \in Busy,
         h.at = "insert" => request[c].op = "login" /\ request[c].token = None,
         h.at = "held" => request[c].op \in {"logout", "create", "restart", "close"},
         h.at = "room" => request[c].op \in {"join", "attach"},
         h.at = "store" => request[c].op \in {"restart", "close"},
         h.at \in {"room", "store"} => h.name \in Users /\ h.name = client[c].user
  PROVE  Inv'
<1>1. ConnectionTypes' /\ Only(c) /\ Local(c)' /\ Claimed(c)' = Claimed(c)
  BY HandlerMoves
<1>2. RegistryTypes' /\ logins' = logins
  BY DEF registry, Inv, RegistryTypes
<1> QED BY <1>1, <1>2, SameSessions

\* Goto is a move that keeps the locals.
LEMMA GotoHandler ==
  ASSUME ConnectionTypes, NEW c \in Clients, NEW p \in {"insert", "held", "end"}, Goto(c, p)
  PROVE  \E h \in Handlers : h.at = p /\ handler' = [handler EXCEPT ![c] = h]
<1>1. [handler[c] EXCEPT !.at = p] \in Handlers /\ [handler[c] EXCEPT !.at = p].at = p
  BY DEF ConnectionTypes, Handlers
<1>2. handler' = [handler EXCEPT ![c] = [handler[c] EXCEPT !.at = p]]
  BY DEF Goto
<1> QED BY <1>1, <1>2

LEMMA CheckLoginInv ==
  ASSUME Inv, NEW c \in Clients, CheckLogin(c)
  PROVE  Inv'
<1>1. /\ request[c].op = "login" /\ UNCHANGED registry
      /\ request[c] \in Requests /\ Local(c)
      /\ logins' = logins /\ RegistryTypes'
  BY DEF CheckLogin, Reading, Inv, ConnectionTypes, registry, RegistryTypes
<1>2. request[c].token = client[c].token /\ request[c].token \in Tokens \cup {None}
  BY <1>1, RequestFields DEF Local, RequestOfClient
<1>3. ASSUME NEW k \in {request[c].token}, Answer(c, [op |-> "login", token |-> k])
      PROVE  Inv'
  <2> DEFINE r == [op |-> "login", token |-> k]
  <2>1. r \in Replies /\ r.op = "login" /\ r.token = k
    BY <1>2 DEF Replies
  <2>2. /\ ConnectionTypes' /\ Only(c) /\ Local(c)' /\ client'[c] = client[c]
        /\ Claimed(c)' \subseteq Claimed(c) \cup {k}
    BY <1>1, <1>3, <2>1, Answered DEF RoomOps
  <2>3. Claimed(c)' \subseteq Tokens
    BY DEF Claimed
  <2>4. k # None => k \in Claimed(c)
    BY <1>1, RequestClaims
  <2>5. Claimed(c)' \subseteq Claimed(c)
    BY <2>2, <2>3, <2>4, SessionsAssumption
  <2> QED BY <1>1, <2>2, <2>5, SameSessions
<1>4. ASSUME request[c].token = None, Throw(c) PROVE Inv'
  BY <1>1, <1>2, <1>4, ThrowInv
<1>5. ASSUME request[c].token = None, Goto(c, "insert"),
             UNCHANGED <<loginMutex, request, reply, client>>
      PROVE  Inv'
  <2>1. PICK h \in Handlers : h.at = "insert" /\ handler' = [handler EXCEPT ![c] = h]
    BY <1>5, GotoHandler DEF Inv
  <2>2. loginMutex' \in Clients \cup {None}
    BY <1>5 DEF Inv, ConnectionTypes
  <2> QED BY <1>1, <1>5, <2>1, <2>2, MoveInv DEF Busy
<1> QED BY <1>3, <1>4, <1>5 DEF CheckLogin

LEMMA InsertLoginInv ==
  ASSUME Inv, NEW c \in Clients, InsertLogin(c)
  PROVE  Inv'
<1>1. /\ request[c].op = "login" /\ request[c].token = None
      /\ request[c] \in Requests /\ request[c].user = client[c].user
  BY DEF InsertLogin, Inv, Local, PlaceOfRequest, RequestOfClient, ConnectionTypes
<1>2. request[c].user \in Users
  BY <1>1, RequestFields
<1>3. PICK k \in Tokens \ DOMAIN logins :
        /\ logins' = Set(logins, k, client[c].user)
        /\ Answer(c, [op |-> "login", token |-> k])
  BY <1>1 DEF InsertLogin, Fresh
<1>4. RegistryTypes'
  BY <1>1, <1>2, <1>3 DEF InsertLogin, Inv, RegistryTypes, Set
<1> DEFINE r == [op |-> "login", token |-> k]
<1>5. r \in Replies /\ r.op = "login" /\ r.token = k
  BY DEF Replies
<1>6. /\ ConnectionTypes' /\ Only(c) /\ Local(c)' /\ client'[c] = client[c]
      /\ Claimed(c)' \subseteq Claimed(c) \cup {k}
  BY <1>1, <1>3, <1>5, Answered DEF RoomOps
<1>7. ClaimsHold'
  BY <1>3, <1>6, ClaimsInserted DEF Inv
<1> QED BY <1>4, <1>6, <1>7, Concluded

LEMMA AcquireInv ==
  ASSUME Inv, NEW c \in Clients, Acquire(c)
  PROVE  Inv'
<1>1. /\ request[c].op \in {"logout", "create", "restart", "close"}
      /\ loginMutex' \in Clients \cup {None}
      /\ UNCHANGED <<registry, request, reply, client>>
  BY DEF Acquire, Locked, Inv, ConnectionTypes
<1>2. PICK h \in Handlers : h.at = "held" /\ handler' = [handler EXCEPT ![c] = h]
  BY GotoHandler DEF Acquire, Inv
<1> QED BY <1>1, <1>2, MoveInv DEF Busy

LEMMA UnknownInv ==
  ASSUME Inv, NEW c \in Clients, Unknown(c)
  PROVE  Inv'
<1>1. /\ request[c].op \in {"logout", "create", "restart"}
      /\ UNCHANGED registry /\ logins' = logins /\ RegistryTypes'
  BY DEF Unknown, registry, Inv, RegistryTypes
<1>2. ASSUME Answer(c, [op |-> request[c].op, code |-> 1]) PROVE Inv'
  <2>1. [op |-> request[c].op, code |-> 1] \in Replies
    BY <1>1 DEF Replies, RoomOps
  <2> QED BY <1>1, <1>2, <2>1, AnswerInv
<1>3. ASSUME request[c].token # None, ~Session(c) PROVE FALSE
  BY <1>1, <1>3, RequestClaims DEF Session
<1> QED BY <1>2, <1>3 DEF Unknown

LEMMA LogoutInv ==
  ASSUME Inv, NEW c \in Clients, Logout(c)
  PROVE  Inv'
<1>1. /\ request[c].op = "logout" /\ rooms' = rooms
      /\ request[c].token \in DOMAIN logins /\ request[c].token = client[c].token
  BY DEF Logout, Held, Session, Inv, Local, RequestOfClient
<1>2. request[c].token # None
  BY <1>1, SessionsAssumption DEF Inv, RegistryTypes
<1>3. ASSUME Answer(c, [op |-> "logout", code |-> 2]), logins' = logins PROVE Inv'
  <2>1. [op |-> "logout", code |-> 2] \in Replies
    BY DEF Replies
  <2>2. RegistryTypes'
    BY <1>1, <1>3 DEF Inv, RegistryTypes
  <2> QED BY <1>1, <1>3, <2>1, <2>2, AnswerInv DEF RoomOps
<1>4. ASSUME logins' = Restrict(logins, DOMAIN logins \ {request[c].token}),
             Answer(c, [op |-> "logout", code |-> 0])
      PROVE  Inv'
  <2> DEFINE r == [op |-> "logout", code |-> 0]
  <2>1. r \in Replies /\ r.op = "logout"
    BY DEF Replies
  <2>2. RegistryTypes'
    BY <1>1, <1>4 DEF Inv, RegistryTypes, Restrict
  <2>3. /\ ConnectionTypes' /\ Only(c) /\ Local(c)' /\ client'[c] = client[c]
        /\ Claimed(c)' \subseteq Claimed(c) \ {request[c].token}
    BY <1>1, <1>4, <2>1, Answered DEF RoomOps
  <2>4. request[c].token \in Claimed(c)
    BY <1>1, <1>2, RequestClaims
  <2>5. ClaimsHold'
    BY <1>4, <2>3, <2>4, ClaimsErased DEF Inv
  <2> QED BY <2>2, <2>3, <2>5, Concluded
<1> QED BY <1>3, <1>4 DEF Logout

\* The session of a room's handler is its client's.
LEMMA NameOfClient ==
  ASSUME Inv, NEW c \in Clients, Session(c), request[c].op \notin {"none", "close"}
  PROVE  Name(c) = client[c].user /\ Name(c) \in Users
<1>1. request[c].token # None
  BY SessionsAssumption DEF Session, Inv, RegistryTypes
<1> QED BY <1>1, RequestClaims DEF Name

LEMMA CreateRoomInv ==
  ASSUME Inv, NEW c \in Clients, CreateRoom(c)
  PROVE  Inv'
<1>1. request[c].op = "create" /\ Session(c) /\ logins' = logins
  BY DEF CreateRoom, Held
<1>2. Name(c) = client[c].user /\ Name(c) \in Users
  BY <1>1, NameOfClient
<1>3. ASSUME Answer(c, [op |-> "create", code |-> 2]), rooms' = rooms PROVE Inv'
  <2>1. [op |-> "create", code |-> 2] \in Replies
    BY DEF Replies, RoomOps
  <2>2. RegistryTypes'
    BY <1>1, <1>3 DEF Inv, RegistryTypes
  <2> QED BY <1>1, <1>3, <2>1, <2>2, AnswerInv
<1>4. ASSUME rooms' = Set(rooms, Name(c), TRUE),
             Answer(c, Entrance("create", Name(c), Name(c)))
      PROVE  Inv'
  <2> DEFINE r == Entrance("create", Name(c), Name(c))
  <2>1. r \in Replies /\ r.op = "create" /\ r.user = Name(c)
    BY <1>2 DEF Replies, RoomOps, Entrance
  <2>2. RegistryTypes'
    BY <1>1, <1>2, <1>4 DEF Inv, RegistryTypes, Set
  <2> QED BY <1>1, <1>2, <1>4, <2>1, <2>2, AnswerInv
<1> QED BY <1>3, <1>4 DEF CreateRoom

\* getRoom's copy.
LEMMA CopyInv ==
  ASSUME Inv, NEW c \in Clients, NEW u \in Users, u \in DOMAIN rooms, u = client[c].user,
         request[c].op \in {"restart", "close"}, Copy(c, u), UNCHANGED registry
  PROVE  Inv'
<1> DEFINE h == [at |-> "store", name |-> u, opened |-> rooms[u]]
<1>1. rooms[u] \in BOOLEAN
  BY DEF Inv, RegistryTypes
<1>2. h \in Handlers /\ h.at = "store" /\ h.name = u
  BY <1>1 DEF Handlers
<1>3. loginMutex' \in Clients \cup {None}
  BY DEF Copy, Inv, ConnectionTypes
<1>4. handler' = [handler EXCEPT ![c] = h] /\ UNCHANGED <<request, reply, client>>
  BY DEF Copy
<1> HIDE DEF h
<1> QED BY <1>2, <1>3, <1>4, MoveInv DEF Busy

LEMMA RestartInv ==
  ASSUME Inv, NEW c \in Clients, Restart(c)
  PROVE  Inv'
<1>1. /\ request[c].op = "restart" /\ Session(c) /\ UNCHANGED registry
      /\ logins' = logins /\ RegistryTypes'
  BY DEF Restart, Held, registry, Inv, RegistryTypes
<1>2. Name(c) = client[c].user /\ Name(c) \in Users
  BY <1>1, NameOfClient
<1>3. ASSUME NEW n \in 2 .. 3, Answer(c, [op |-> "restart", code |-> n]) PROVE Inv'
  <2>1. [op |-> "restart", code |-> n] \in Replies
    BY DEF Replies, RoomOps
  <2> QED BY <1>1, <1>3, <2>1, AnswerInv
<1>4. ASSUME Name(c) \in DOMAIN rooms, Copy(c, Name(c)) PROVE Inv'
  BY <1>1, <1>2, <1>4, CopyInv
<1> QED BY <1>3, <1>4 DEF Restart

LEMMA CloseInv ==
  ASSUME Inv, NEW c \in Clients, Close(c)
  PROVE  Inv'
<1>1. /\ request[c].op = "close" /\ UNCHANGED registry
      /\ request[c].user = client[c].user /\ request[c].user \in DOMAIN rooms
      /\ Copy(c, request[c].user)
  BY DEF Close, Held, Inv, Local, RequestOfClient
<1>2. request[c].user \in Users
  BY <1>1 DEF Inv, RegistryTypes
<1> QED BY <1>1, <1>2, CopyInv

LEMMA StoreRoomInv ==
  ASSUME Inv, NEW c \in Clients, StoreRoom(c)
  PROVE  Inv'
<1>1. /\ request[c].op \in {"restart", "close"} /\ logins' = logins
      /\ handler[c].name \in Users /\ handler[c].name = client[c].user
      /\ Answer(c, Entrance(request[c].op, handler[c].name, handler[c].name))
      /\ rooms' = [rooms EXCEPT ![handler[c].name] = (request[c].op = "restart")]
  BY DEF StoreRoom, Inv, Local, PlaceOfRequest, NameIsUser
<1> DEFINE r == Entrance(request[c].op, handler[c].name, handler[c].name)
<1>2. r \in Replies /\ r.op = request[c].op /\ r.user = client[c].user
  BY <1>1 DEF Replies, RoomOps, Entrance
<1>3. RegistryTypes'
  BY <1>1 DEF Inv, RegistryTypes
<1> QED BY <1>1, <1>2, <1>3, AnswerInv

LEMMA ReadNameInv ==
  ASSUME Inv, NEW c \in Clients, ReadName(c)
  PROVE  Inv'
<1>1. /\ request[c].op \in {"join", "attach"} /\ UNCHANGED registry
      /\ logins' = logins /\ RegistryTypes'
  BY DEF ReadName, registry, Inv, RegistryTypes
<1>2. ASSUME Answer(c, [op |-> request[c].op, code |-> 1]) PROVE Inv'
  <2>1. [op |-> request[c].op, code |-> 1] \in Replies
    BY <1>1 DEF Replies, RoomOps
  <2> QED BY <1>1, <1>2, <2>1, AnswerInv
<1>3. ASSUME request[c].token # None, ~Session(c) PROVE FALSE
  BY <1>1, <1>3, RequestClaims DEF Session
<1>4. ASSUME Session(c), UNCHANGED <<loginMutex, request, reply, client>>,
             handler' = [handler EXCEPT ![c] =
                           [at |-> "room", name |-> Name(c), opened |-> FALSE]]
      PROVE  Inv'
  <2> DEFINE h == [at |-> "room", name |-> Name(c), opened |-> FALSE]
  <2>1. Name(c) = client[c].user /\ Name(c) \in Users
    BY <1>1, <1>4, NameOfClient
  <2>2. h \in Handlers /\ h.at = "room" /\ h.name = Name(c)
    BY <2>1 DEF Handlers
  <2>3. handler' = [handler EXCEPT ![c] = h] /\ loginMutex' \in Clients \cup {None}
    BY <1>4 DEF Inv, ConnectionTypes
  <2> HIDE DEF h
  <2> QED BY <1>1, <1>4, <2>1, <2>2, <2>3, MoveInv DEF Busy
<1> QED BY <1>2, <1>3, <1>4 DEF ReadName

LEMMA ReadRoomInv ==
  ASSUME Inv, NEW c \in Clients, ReadRoom(c)
  PROVE  Inv'
<1>1. /\ request[c].op \in {"join", "attach"} /\ request[c] \in Requests
      /\ logins' = logins /\ RegistryTypes'
      /\ handler[c].name \in Users /\ handler[c].name = client[c].user
  BY DEF ReadRoom, registry, Inv, RegistryTypes, ConnectionTypes, Local, PlaceOfRequest,
         NameIsUser
<1> DEFINE u == handler[c].name
           r == IF request[c].op = "join" THEN request[c].room ELSE u
<1>2. r \in Users
  BY <1>1, RequestFields
<1>3. ASSUME NEW n \in 2 .. 3, Answer(c, [op |-> request[c].op, code |-> n]) PROVE Inv'
  <2>1. [op |-> request[c].op, code |-> n] \in Replies
    BY <1>1 DEF Replies, RoomOps
  <2> QED BY <1>1, <1>3, <2>1, AnswerInv
<1>4. ASSUME Answer(c, Entrance(request[c].op, u, r)) PROVE Inv'
  <2> DEFINE e == Entrance(request[c].op, u, r)
  <2>1. e \in Replies /\ e.op = request[c].op /\ e.user = client[c].user
    BY <1>1, <1>2 DEF Replies, RoomOps, Entrance
  <2> HIDE DEF r
  <2> QED BY <1>1, <1>4, <2>1, AnswerInv
<1> QED BY <1>3, <1>4 DEF ReadRoom

\* on_C_exit, whether its erasure is lost or not.
LEMMA HandleExitInv ==
  ASSUME Inv, NEW c \in Clients, HandleExit(c)
  PROVE  Inv'
<1>1. /\ request[c].op = "exit" /\ UNCHANGED <<rooms, loginMutex, reply, client>>
      /\ request' = [request EXCEPT ![c] = Nothing]
      /\ request[c].token = client[c].token
      /\ client[c].mode = "exited" /\ reply[c].op = "none"
  BY DEF HandleExit, Reading, Inv, Local, OneRequest, RequestOfClient, Alive
<1>2. PICK h \in Handlers : h.at = "end" /\ handler' = [handler EXCEPT ![c] = h]
  BY GotoHandler DEF HandleExit, Inv
<1>3. Becomes(c, Nothing, reply[c], h, client[c])
  BY <1>1, <1>2 DEF Becomes, Inv, ConnectionTypes
<1>4. /\ Nothing \in Requests /\ reply[c] \in Replies /\ client[c] \in Processes
      /\ loginMutex' \in Clients \cup {None}
  BY <1>1 DEF Inv, ConnectionTypes, Requests
<1>5. /\ ConnectionTypes' /\ Only(c) /\ request'[c] = Nothing /\ reply'[c] = reply[c]
      /\ handler'[c] = h /\ client'[c] = client[c]
  BY <1>3, <1>4, BecomesTyped DEF Inv
<1>6. Local(c)'
  BY <1>1, <1>2, <1>5
  DEF Local, OneRequest, PlaceOfRequest, RequestOfClient, NameIsUser, Alive, Nothing,
      RoomOps, InRoom
<1>7. Claimed(c)' = {}
  BY <1>1, <1>5 DEF Claimed, Alive, Nothing
<1>8. CASE logins' = logins
  <2>1. RegistryTypes'
    BY <1>1, <1>8 DEF Inv, RegistryTypes
  <2> QED BY <1>5, <1>6, <1>7, <1>8, <2>1, SameSessions
<1>9. CASE logins' = Restrict(logins, DOMAIN logins \ {request[c].token})
  <2>1. RegistryTypes'
    BY <1>1, <1>9 DEF Inv, RegistryTypes, Restrict
  <2>2. request[c].token \in Tokens => request[c].token \in Claimed(c)
    BY <1>1 DEF Claimed
  <2>3. ClaimsHold'
    BY <1>5, <1>7, <1>9, <2>2, ClaimsErased DEF Inv
  <2> QED BY <1>5, <1>6, <2>1, <2>3, Concluded
<1> QED BY <1>8, <1>9 DEF HandleExit

LEMMA DisconnectInv ==
  ASSUME Inv, NEW c \in Clients, Disconnect(c)
  PROVE  Inv'
<1>1. /\ request[c] = Nothing /\ client[c].mode = "dead" /\ reply[c].op = "none"
      /\ UNCHANGED <<registry, loginMutex, request, reply, client>>
      /\ logins' = logins /\ RegistryTypes'
  BY DEF Disconnect, Inv, Local, OneRequest, Alive, registry, RegistryTypes
<1>2. PICK h \in Handlers : h.at = "end" /\ handler' = [handler EXCEPT ![c] = h]
  BY GotoHandler DEF Disconnect, Inv
<1>3. Becomes(c, request[c], reply[c], h, client[c])
  BY <1>1, <1>2 DEF Becomes, Inv, ConnectionTypes
<1>4. /\ request[c] \in Requests /\ reply[c] \in Replies /\ client[c] \in Processes
      /\ loginMutex' \in Clients \cup {None}
  BY <1>1 DEF Inv, ConnectionTypes
<1>5. ConnectionTypes' /\ Only(c) /\ handler'[c] = h
  BY <1>3, <1>4, BecomesTyped DEF Inv
<1>6. Local(c)'
  BY <1>1, <1>2, <1>5
  DEF Local, OneRequest, PlaceOfRequest, RequestOfClient, NameIsUser, Alive, Nothing,
      RoomOps, InRoom
<1>7. Claimed(c)' = Claimed(c)
  BY <1>1 DEF Claimed, Alive, LoggedOut
<1> QED BY <1>1, <1>5, <1>6, <1>7, SameSessions

-----------------------------------------------------------------------------
(* The steps of the client programs.                                       *)

LEMMA RunMoves ==
  ASSUME Inv, NEW c \in Clients, NEW q \in Requests, NEW a \in Replies, NEW p \in Processes,
         Becomes(c, q, a, handler[c], p), UNCHANGED registry, UNCHANGED loginMutex
  PROVE  /\ RegistryTypes' /\ ConnectionTypes' /\ Only(c) /\ logins' = logins
         /\ request'[c] = q /\ reply'[c] = a /\ handler'[c] = handler[c] /\ client'[c] = p
<1>1. handler[c] \in Handlers /\ loginMutex' \in Clients \cup {None}
  BY DEF Inv, ConnectionTypes
<1>2. RegistryTypes' /\ logins' = logins
  BY DEF Inv, RegistryTypes, registry
<1> QED BY <1>1, <1>2, BecomesTyped DEF Inv

\* A request of a client that has the prompt or is in a room.
LEMMA RequestInv ==
  ASSUME Inv, NEW c \in Clients, client[c].mode \in {"bbs", "chat"},
         NEW q \in Requests, NEW p \in Processes, q.op # "none",
         request' = [request EXCEPT ![c] = q], client' = [client EXCEPT ![c] = p],
         UNCHANGED <<registry, loginMutex, reply, handler>>,
         p.mode = (IF q.op = "exit" THEN "exited" ELSE "wait"),
         p.token = client[c].token,
         p.user = client[c].user \/ client[c].token = None,
         q.op # "close" => q.token = client[c].token,
         q.op = "login" /\ q.token = None => q.user = p.user,
         q.op = "close" => q.user = p.user
  PROVE  Inv'
<1>1. /\ reply[c] \in Replies /\ Local(c) /\ Becomes(c, q, reply[c], handler[c], p)
      /\ UNCHANGED registry /\ UNCHANGED loginMutex
  BY DEF Inv, ConnectionTypes, Becomes
<1>2. /\ RegistryTypes' /\ ConnectionTypes' /\ Only(c) /\ logins' = logins
      /\ request'[c] = q /\ reply'[c] = reply[c] /\ handler'[c] = handler[c]
      /\ client'[c] = p
  BY <1>1, RunMoves
<1>3. reply[c].op = "none" /\ handler[c].at = "recv" /\ Alive(c)
  BY <1>1 DEF Local, OneRequest, InRoom, Alive
<1>4. Local(c)'
  BY <1>2, <1>3
  DEF Local, OneRequest, PlaceOfRequest, RequestOfClient, NameIsUser, Alive, InRoom, RoomOps
<1>5. \A k \in Claimed(c)' : k \in Claimed(c)
  BY <1>2, <1>3 DEF Claimed, LoggedOut
<1>6. client[c].token = None => Claimed(c)' = {}
  BY <1>2, <1>3, SessionsAssumption DEF Claimed
<1> QED BY <1>2, <1>4, <1>5, <1>6, SameSessions

LEMMA LoginInv ==
  ASSUME Inv, NEW c \in Clients, NEW u \in Users, Login(c, u)
  PROVE  Inv'
<1> DEFINE q == [op |-> "login", token |-> client[c].token, user |-> u]
           w == IF client[c].token = None THEN u ELSE client[c].user
           p == [client[c] EXCEPT !.mode = "wait", !.user = w]
<1>1. client[c] \in Processes
  BY DEF Inv, ConnectionTypes
<1>2. q \in Requests /\ q.op = "login" /\ q.token = client[c].token /\ q.user = u
  BY <1>1, ProcessFields DEF Requests
<1>3. /\ p \in Processes /\ p.mode = "wait" /\ p.user = w
      /\ p.token = client[c].token
  BY <1>1 DEF Processes
<1>4. /\ client' = [client EXCEPT ![c] = p] /\ request' = [request EXCEPT ![c] = q]
      /\ client[c].mode = "bbs" /\ UNCHANGED <<registry, loginMutex, reply, handler>>
  BY DEF Login, Send
<1>5. client[c].token = None => w = u
  OBVIOUS
<1>6. client[c].token # None => w = client[c].user
  OBVIOUS
<1> HIDE DEF p, q, w
<1> QED BY <1>2, <1>3, <1>4, <1>5, <1>6, RequestInv

\* A client that waits, with nothing else changed.
LEMMA Waiting ==
  ASSUME Inv, NEW c \in Clients
  PROVE  /\ [client[c] EXCEPT !.mode = "wait"] \in Processes
         /\ [client[c] EXCEPT !.mode = "wait"].mode = "wait"
         /\ [client[c] EXCEPT !.mode = "wait"].token = client[c].token
         /\ [client[c] EXCEPT !.mode = "wait"].user = client[c].user
BY DEF Inv, ConnectionTypes, Processes

LEMMA AskInv ==
  ASSUME Inv, NEW c \in Clients,
         NEW op \in {"logout", "create", "restart", "attach"}, Ask(c, op)
  PROVE  Inv'
<1> DEFINE q == [op |-> op, token |-> client[c].token]
           p == [client[c] EXCEPT !.mode = "wait"]
<1>1. client[c].token \in Tokens \cup {None}
  BY ProcessFields DEF Inv, ConnectionTypes
<1>2. q \in Requests /\ q.op = op /\ q.token = client[c].token
  BY <1>1 DEF Requests
<1>3. /\ p \in Processes /\ p.mode = "wait" /\ p.token = client[c].token
      /\ p.user = client[c].user
  BY Waiting
<1>4. /\ client' = [client EXCEPT ![c] = p] /\ request' = [request EXCEPT ![c] = q]
      /\ client[c].mode = "bbs" /\ UNCHANGED <<registry, loginMutex, reply, handler>>
  BY DEF Ask, Send, Wait
<1> HIDE DEF p, q
<1> QED BY <1>2, <1>3, <1>4, RequestInv

LEMMA JoinInv ==
  ASSUME Inv, NEW c \in Clients, NEW r \in Users, Join(c, r)
  PROVE  Inv'
<1> DEFINE q == [op |-> "join", token |-> client[c].token, room |-> r]
           p == [client[c] EXCEPT !.mode = "wait"]
<1>1. client[c].token \in Tokens \cup {None}
  BY ProcessFields DEF Inv, ConnectionTypes
<1>2. q \in Requests /\ q.op = "join" /\ q.token = client[c].token
  BY <1>1 DEF Requests
<1>3. /\ p \in Processes /\ p.mode = "wait" /\ p.token = client[c].token
      /\ p.user = client[c].user
  BY Waiting
<1>4. /\ client' = [client EXCEPT ![c] = p] /\ request' = [request EXCEPT ![c] = q]
      /\ client[c].mode = "bbs" /\ UNCHANGED <<registry, loginMutex, reply, handler>>
  BY DEF Join, Send, Wait
<1> HIDE DEF p, q
<1> QED BY <1>2, <1>3, <1>4, RequestInv

LEMMA ExitInv ==
  ASSUME Inv, NEW c \in Clients, Exit(c)
  PROVE  Inv'
<1> DEFINE q == [op |-> "exit", token |-> client[c].token]
           p == [client[c] EXCEPT !.mode = "exited", !.server = "off"]
<1>1. client[c] \in Processes
  BY DEF Inv, ConnectionTypes
<1>2. q \in Requests /\ q.op = "exit" /\ q.token = client[c].token
  BY <1>1, ProcessFields DEF Requests
<1>3. /\ p \in Processes /\ p.mode = "exited" /\ p.token = client[c].token
      /\ p.user = client[c].user
  BY <1>1 DEF Processes
<1>4. /\ client' = [client EXCEPT ![c] = p] /\ request' = [request EXCEPT ![c] = q]
      /\ client[c].mode = "bbs" /\ UNCHANGED <<registry, loginMutex, reply, handler>>
  BY DEF Exit, Send, Ended
<1> HIDE DEF p, q
<1> QED BY <1>2, <1>3, <1>4, RequestInv

LEMMA LeaveOwnerInv ==
  ASSUME Inv, NEW c \in Clients, LeaveOwner(c)
  PROVE  Inv'
<1> DEFINE q == [op |-> "close", token |-> None, user |-> client[c].name]
           p == [client[c] EXCEPT !.mode = "wait"]
<1>1. client[c].name \in Users /\ client[c].name = client[c].user
  BY DEF LeaveOwner, Inv, Local, NameIsUser, InRoom
<1>2. q \in Requests /\ q.op = "close" /\ q.user = client[c].user
  BY <1>1 DEF Requests
<1>3. /\ p \in Processes /\ p.mode = "wait" /\ p.token = client[c].token
      /\ p.user = client[c].user
  BY Waiting
<1>4. /\ client' = [client EXCEPT ![c] = p] /\ request' = [request EXCEPT ![c] = q]
      /\ client[c].mode = "chat" /\ UNCHANGED <<registry, loginMutex, reply, handler>>
  BY DEF LeaveOwner, Wait
<1> HIDE DEF p, q
<1> QED BY <1>2, <1>3, <1>4, RequestInv

\* The process ends, with whatever reply was on its way.
LEMMA EndedInv ==
  ASSUME Inv, NEW c \in Clients, Alive(c), Ended(c, "dead"),
         reply' = [reply EXCEPT ![c] = Nothing],
         UNCHANGED <<registry, loginMutex, request, handler>>
  PROVE  Inv'
<1> DEFINE p == [client[c] EXCEPT !.mode = "dead", !.server = "off"]
<1>1. /\ client[c] \in Processes /\ request[c] \in Requests /\ Nothing \in Replies
      /\ UNCHANGED registry /\ UNCHANGED loginMutex /\ Local(c)
  BY DEF Inv, ConnectionTypes, Replies
<1>2. /\ p \in Processes /\ p.mode = "dead" /\ p.token = client[c].token
      /\ p.user = client[c].user
  BY <1>1 DEF Processes
<1>3. Becomes(c, request[c], Nothing, handler[c], p)
  BY DEF Ended, Becomes, Inv, ConnectionTypes
<1> HIDE DEF p
<1>4. /\ RegistryTypes' /\ ConnectionTypes' /\ Only(c) /\ logins' = logins
      /\ request'[c] = request[c] /\ reply'[c] = Nothing /\ handler'[c] = handler[c]
      /\ client'[c] = p
  BY <1>1, <1>2, <1>3, RunMoves
<1>5. Nothing.op = "none"
  BY DEF Nothing
<1>6. request[c].op # "exit"
  BY <1>1 DEF Local, RequestOfClient, Alive
<1>7. Local(c)'
  BY <1>1, <1>2, <1>4, <1>5, <1>6
  DEF Local, OneRequest, PlaceOfRequest, RequestOfClient, NameIsUser, Alive, InRoom, RoomOps
<1>8. \A k \in Claimed(c)' : k \in Claimed(c)
  <2>1. request[c].op # "none" \/ Claimed(c)' = {}
    BY <1>2, <1>4, <1>5 DEF Claimed, Alive
  <2> QED BY <2>1, <1>2, <1>4, <1>5 DEF Claimed
<1> QED BY <1>2, <1>4, <1>7, <1>8, SameSessions

LEMMA CrashInv ==
  ASSUME Inv, NEW c \in Clients, Crash(c)
  PROVE  Inv'
BY EndedInv DEF Crash

\* A client that gives up while nothing is under way.
LEMMA GivesUp ==
  ASSUME Inv, NEW c \in Clients, Alive(c), reply[c].op = "none", Ended(c, "dead"), Inert
  PROVE  Inv'
<1>1. reply[c] = Nothing
  BY ReplyFields DEF Inv, ConnectionTypes
<1>2. reply' = [reply EXCEPT ![c] = Nothing]
  BY <1>1 DEF Inert, Inv, ConnectionTypes
<1> QED BY <1>2, EndedInv DEF Inert

LEMMA ServerGoneInv ==
  ASSUME Inv, NEW c \in Clients, ServerGone(c)
  PROVE  Inv'
<1>1. Alive(c) /\ reply[c].op = "none"
  BY DEF ServerGone, Alive, Nothing
<1> QED BY <1>1, GivesUp DEF ServerGone

\* A client that has nothing under way, and changes its mode only.
LEMMA ModeInv ==
  ASSUME Inv, NEW c \in Clients, NEW p \in Processes, Inert,
         client' = [client EXCEPT ![c] = p],
         p.token = client[c].token, p.user = client[c].user,
         \/ p.mode = client[c].mode
         \/ client[c].mode \in InRoom /\ p.mode \in {"bbs"} \cup InRoom,
         p.mode \in InRoom => p.name = client[c].name /\ p.room = client[c].room
  PROVE  Inv'
<1>1. /\ request[c] \in Requests /\ reply[c] \in Replies /\ Local(c)
      /\ Becomes(c, request[c], reply[c], handler[c], p)
      /\ UNCHANGED registry /\ UNCHANGED loginMutex
  BY DEF Inv, ConnectionTypes, Inert, Becomes
<1>2. /\ RegistryTypes' /\ ConnectionTypes' /\ Only(c) /\ logins' = logins
      /\ request'[c] = request[c] /\ reply'[c] = reply[c] /\ handler'[c] = handler[c]
      /\ client'[c] = p
  BY <1>1, RunMoves
<1>3. Alive(c)' = Alive(c)
  BY <1>2 DEF Alive, InRoom
<1>4. OneRequest(c)' /\ PlaceOfRequest(c)'
  BY <1>1, <1>2, <1>3 DEF Local, OneRequest, PlaceOfRequest
<1>5. RequestOfClient(c)'
  BY <1>1, <1>2 DEF Local, OneRequest, RequestOfClient, InRoom
<1>6. NameIsUser(c)'
  BY <1>1, <1>2 DEF Local, NameIsUser, InRoom
<1>7. Claimed(c)' = Claimed(c)
  BY <1>2, <1>3 DEF Claimed, LoggedOut
<1> QED BY <1>2, <1>4, <1>5, <1>6, <1>7, SameSessions DEF Local

\* A reply is taken: the client goes on with what it claimed, or with nothing.
LEMMA ReplyTaken ==
  ASSUME Inv, NEW c \in Clients, client[c].mode = "wait", reply[c].op # "none",
         NEW p \in Processes, Becomes(c, request[c], Nothing, handler[c], p),
         UNCHANGED registry, UNCHANGED loginMutex,
         p.mode \in {"bbs"} \cup InRoom,
         p.token = None \/ p.token \in Claimed(c),
         p.user = client[c].user \/ p.token = None,
         p.mode \in InRoom => p.name \in Users /\ p.name = p.user /\ p.room \in Users
  PROVE  Inv'
<1>1. request[c] \in Requests /\ Nothing \in Replies /\ Nothing.op = "none" /\ Local(c)
  BY DEF Inv, ConnectionTypes, Replies, Nothing
<1>2. /\ RegistryTypes' /\ ConnectionTypes' /\ Only(c) /\ logins' = logins
      /\ request'[c] = request[c] /\ reply'[c] = Nothing /\ handler'[c] = handler[c]
      /\ client'[c] = p
  BY <1>1, RunMoves
<1>3. request[c].op = "none" /\ handler[c].at = "recv"
  BY <1>1 DEF Local, OneRequest
<1>4. Local(c)'
  BY <1>1, <1>2, <1>3
  DEF Local, OneRequest, PlaceOfRequest, RequestOfClient, NameIsUser, Alive, InRoom, RoomOps
<1>5. \A k \in Claimed(c)' : k = p.token /\ k \in Tokens
  BY <1>1, <1>2, <1>3 DEF Claimed
<1>6. Claimed(c)' \subseteq Claimed(c) /\ (p.token = None => Claimed(c)' = {})
  BY <1>5, SessionsAssumption
<1> QED BY <1>2, <1>4, <1>6, SameSessions

\* What Receive does besides the client.
LEMMA ReceiveFrame ==
  ASSUME Inv, NEW c \in Clients, Receive(c), NEW p, client' = [client EXCEPT ![c] = p]
  PROVE  /\ Becomes(c, request[c], Nothing, handler[c], p)
         /\ UNCHANGED registry /\ UNCHANGED loginMutex
         /\ client[c].mode = "wait" /\ reply[c] \in Replies
         /\ client[c] \in Processes
BY DEF Receive, Becomes, Inv, ConnectionTypes

\* A client that waits for anything but the reply to its logout has its session.
LEMMA OwnToken ==
  ASSUME Inv, NEW c \in Clients, client[c].mode = "wait", ~LoggedOut(c),
         client[c].token # None
  PROVE  client[c].token \in Claimed(c)
<1>1. client[c].token \in Tokens
  BY ProcessFields DEF Inv, ConnectionTypes
<1> QED BY <1>1 DEF Claimed, Alive

LEMMA ReceiveSessionInv ==
  ASSUME Inv, NEW c \in Clients, Receive(c), ReceiveSession(c)
  PROVE  Inv'
<1> DEFINE token == IF Receiving(c, "login") THEN reply[c].token
                    ELSE IF reply[c].code = 0 THEN None ELSE client[c].token
           user == IF token = None THEN None ELSE client[c].user
           p == [client[c] EXCEPT !.mode = "bbs", !.token = token, !.user = user]
<1>1. client' = [client EXCEPT ![c] = p] /\ reply[c].op \in {"login", "logout"}
  BY DEF ReceiveSession
<1>2. /\ client[c].mode = "wait" /\ reply[c] \in Replies
      /\ client[c] \in Processes
  BY DEF Receive, Inv, ConnectionTypes
<1>3. token \in Tokens \cup {None} /\ user \in Users \cup {None}
  BY <1>1, <1>2, ReplyFields, ProcessFields DEF Receiving
<1>4. ASSUME token # None PROVE token \in Claimed(c)
  <2>1. CASE reply[c].op = "login"
    BY <1>3, <1>4, <2>1 DEF Receiving, Claimed
  <2>2. CASE reply[c].op = "logout"
    <3>1. token = client[c].token /\ reply[c].code # 0
      BY <1>4, <2>2 DEF Receiving
    <3>2. ~LoggedOut(c)
      BY <3>1 DEF LoggedOut
    <3> QED BY <1>2, <1>4, <3>1, <3>2, OwnToken
  <2> QED BY <1>1, <2>1, <2>2
<1>5. user = client[c].user \/ token = None
  OBVIOUS
<1> HIDE DEF token, user
<1>6. /\ p \in Processes /\ p.mode = "bbs" /\ p.token = token /\ p.user = user
  BY <1>2, <1>3 DEF Processes
<1> HIDE DEF p
<1>7. /\ Becomes(c, request[c], Nothing, handler[c], p)
      /\ UNCHANGED registry /\ UNCHANGED loginMutex
  BY <1>1, ReceiveFrame
<1> QED BY <1>1, <1>2, <1>4, <1>5, <1>6, <1>7, ReplyTaken DEF InRoom

LEMMA ReceiveRoomInv ==
  ASSUME Inv, NEW c \in Clients, Receive(c), ReceiveRoom(c)
  PROVE  Inv'
<1>1. /\ client[c].mode = "wait" /\ reply[c] \in Replies /\ reply[c].op \in RoomOps
      /\ client[c] \in Processes
  BY DEF Receive, ReceiveRoom, Inv, ConnectionTypes, RoomOps
<1>2. ~LoggedOut(c) /\ reply[c].op # "none"
  BY <1>1 DEF LoggedOut, RoomOps
<1>3. client[c].token = None \/ client[c].token \in Claimed(c)
  BY <1>1, <1>2, OwnToken
<1>4. ASSUME client' = [client EXCEPT ![c].mode = "bbs"] PROVE Inv'
  <2> DEFINE p == [client[c] EXCEPT !.mode = "bbs"]
  <2>1. p \in Processes /\ p.mode = "bbs" /\ p.token = client[c].token /\ p.user = client[c].user
    BY <1>1 DEF Processes
  <2>2. client' = [client EXCEPT ![c] = p]
    BY <1>4
  <2> HIDE DEF p
  <2>3. /\ Becomes(c, request[c], Nothing, handler[c], p)
        /\ UNCHANGED registry /\ UNCHANGED loginMutex
    BY <2>2, ReceiveFrame
  <2> QED BY <1>1, <1>2, <1>3, <2>1, <2>3, ReplyTaken DEF InRoom
<1>5. ASSUME reply[c].code = 0,
             NEW mode \in {"starting", "connecting"},
             client' = [client EXCEPT ![c].mode = mode, ![c].name = reply[c].user,
                                      ![c].room = reply[c].room]
      PROVE  Inv'
  <2> DEFINE p == [client[c] EXCEPT !.mode = mode, !.name = reply[c].user,
                                    !.room = reply[c].room]
  <2>1. reply[c].user \in Users /\ reply[c].room \in Users /\ reply[c].user = client[c].user
    BY <1>1, <1>5, ReplyFields DEF Inv, Local, NameIsUser
  <2>2. /\ p \in Processes /\ p.mode \in InRoom /\ p.token = client[c].token
        /\ p.user = client[c].user /\ p.name = reply[c].user /\ p.room = reply[c].room
    BY <1>1, <2>1 DEF Processes, InRoom
  <2>3. client' = [client EXCEPT ![c] = p]
    BY <1>5
  <2> HIDE DEF p
  <2>4. /\ Becomes(c, request[c], Nothing, handler[c], p)
        /\ UNCHANGED registry /\ UNCHANGED loginMutex
    BY <2>3, ReceiveFrame
  <2> QED BY <1>1, <1>2, <1>3, <2>1, <2>2, <2>4, ReplyTaken
<1> DEFINE next == IF reply[c].op \in {"create", "restart"} THEN "starting" ELSE "connecting"
<1>6. next \in {"starting", "connecting"}
  OBVIOUS
<1>7. \/ client' = [client EXCEPT ![c].mode = "bbs"]
      \/ /\ reply[c].code = 0
         /\ client' = [client EXCEPT ![c].mode = next, ![c].name = reply[c].user,
                                     ![c].room = reply[c].room]
  BY DEF ReceiveRoom
<1> HIDE DEF next
<1> QED BY <1>4, <1>5, <1>6, <1>7

\* The reply to close: back to the prompt.
LEMMA ReceivePromptInv ==
  ASSUME Inv, NEW c \in Clients, Receive(c), reply[c].op = "close",
         NEW p \in Processes, client' = [client EXCEPT ![c] = p], p.mode = "bbs",
         p.token = client[c].token, p.user = client[c].user
  PROVE  Inv'
<1>1. /\ Becomes(c, request[c], Nothing, handler[c], p)
      /\ UNCHANGED registry /\ UNCHANGED loginMutex /\ client[c].mode = "wait"
  BY ReceiveFrame
<1>2. ~LoggedOut(c) /\ reply[c].op # "none"
  BY DEF LoggedOut
<1>3. p.token = None \/ p.token \in Claimed(c)
  BY <1>1, <1>2, OwnToken
<1> QED BY <1>1, <1>2, <1>3, ReplyTaken DEF InRoom

LEMMA ReceiveInv ==
  ASSUME Inv, NEW c \in Clients, Receive(c)
  PROVE  Inv'
<1>1. client[c] \in Processes
  BY DEF Inv, ConnectionTypes
<1>2. CASE ReceiveClose(c)
  <2> DEFINE server == IF client[c].server = "on" THEN "stopping" ELSE client[c].server
             p == [client[c] EXCEPT !.mode = "bbs", !.room = None, !.host = None,
                                    !.server = server]
  <2>1. /\ p \in Processes /\ p.mode = "bbs" /\ p.token = client[c].token
        /\ p.user = client[c].user
    BY <1>1 DEF Processes
  <2>2. client' = [client EXCEPT ![c] = p] /\ reply[c].op = "close"
    BY <1>2 DEF ReceiveClose, Receiving
  <2> HIDE DEF p
  <2> QED BY <2>1, <2>2, ReceivePromptInv
<1> QED BY <1>2, ReceiveSessionInv, ReceiveRoomInv DEF Receive

\* A client on its way to a room has no reply under way.
LEMMA InRoomQuiet ==
  ASSUME Inv, NEW c \in Clients, client[c].mode \in InRoom
  PROVE  Alive(c) /\ reply[c].op = "none"
BY DEF Inv, Local, OneRequest, Alive, InRoom

LEMMA StartServerInv ==
  ASSUME Inv, NEW c \in Clients, StartServer(c)
  PROVE  Inv'
<1>1. client[c] \in Processes /\ client[c].mode \in InRoom /\ Inert
  BY DEF StartServer, Inv, ConnectionTypes, InRoom
<1>2. CASE Ended(c, "dead")
  BY <1>1, <1>2, InRoomQuiet, GivesUp
<1>3. CASE client' = [client EXCEPT ![c].mode = "connecting", ![c].server = "on"]
  <2> DEFINE p == [client[c] EXCEPT !.mode = "connecting", !.server = "on"]
  <2>1. /\ p \in Processes /\ p.mode \in InRoom /\ p.token = client[c].token
        /\ p.user = client[c].user /\ p.name = client[c].name /\ p.room = client[c].room
    BY <1>1 DEF Processes, InRoom
  <2>2. client' = [client EXCEPT ![c] = p]
    BY <1>3
  <2> HIDE DEF p
  <2> QED BY <1>1, <2>1, <2>2, ModeInv
<1> QED BY <1>2, <1>3 DEF StartServer

LEMMA ConnectInv ==
  ASSUME Inv, NEW c \in Clients, Connect(c)
  PROVE  Inv'
<1>1. client[c] \in Processes /\ client[c].mode \in InRoom /\ Inert
  BY DEF Connect, Inv, ConnectionTypes, InRoom
<1>2. CASE Ended(c, "dead")
  BY <1>1, <1>2, InRoomQuiet, GivesUp
<1>3. ASSUME NEW d \in Clients, NEW mode \in {"chat", "stuck"},
             client' = [client EXCEPT ![c].mode = mode, ![c].host = d]
      PROVE  Inv'
  <2> DEFINE p == [client[c] EXCEPT !.mode = mode, !.host = d]
  <2>1. /\ p \in Processes /\ p.mode \in InRoom /\ p.token = client[c].token
        /\ p.user = client[c].user /\ p.name = client[c].name /\ p.room = client[c].room
    BY <1>1 DEF Processes, InRoom
  <2>2. client' = [client EXCEPT ![c] = p]
    BY <1>3
  <2> HIDE DEF p
  <2> QED BY <1>1, <2>1, <2>2, ModeInv
<1> QED BY <1>2, <1>3 DEF Connect

LEMMA LeaveRoomInv ==
  ASSUME Inv, NEW c \in Clients, LeaveRoom(c)
  PROVE  Inv'
<1>1. client[c] \in Processes /\ client[c].mode \in InRoom /\ Inert
  BY DEF LeaveRoom, Inv, ConnectionTypes, InRoom
<1> DEFINE p == [client[c] EXCEPT !.mode = "bbs", !.room = None, !.host = None]
<1>2. /\ p \in Processes /\ p.mode = "bbs" /\ p.token = client[c].token
      /\ p.user = client[c].user
  BY <1>1 DEF Processes
<1>3. client' = [client EXCEPT ![c] = p]
  BY DEF LeaveRoom
<1> HIDE DEF p
<1> QED BY <1>1, <1>2, <1>3, ModeInv DEF InRoom

LEMMA ListenerStopsInv ==
  ASSUME Inv, NEW c \in Clients, ListenerStops(c)
  PROVE  Inv'
<1>1. client[c] \in Processes /\ Inert
  BY DEF ListenerStops, Inv, ConnectionTypes
<1> DEFINE p == [client[c] EXCEPT !.server = "off"]
<1>2. /\ p \in Processes /\ p.mode = client[c].mode /\ p.token = client[c].token
      /\ p.user = client[c].user /\ p.name = client[c].name /\ p.room = client[c].room
  BY <1>1 DEF Processes
<1>3. client' = [client EXCEPT ![c] = p]
  BY DEF ListenerStops
<1> HIDE DEF p
<1> QED BY <1>1, <1>2, <1>3, ModeInv

-----------------------------------------------------------------------------
(* The invariant, and the theorems.                                        *)

LEMMA InitInv == Init => Inv
<1> SUFFICES ASSUME Init PROVE Inv
  OBVIOUS
<1>1. RegistryTypes
  BY DEF Init, RegistryTypes
<1>2. ConnectionTypes
  BY DEF Init, ConnectionTypes, Requests, Replies, Handlers, Processes
<1>3. \A c \in Clients :
        /\ request[c].op = "none" /\ reply[c].op = "none" /\ handler[c].at = "recv"
        /\ client[c].mode = "bbs" /\ client[c].token = None
  BY DEF Init, Nothing
<1>4. \A c \in Clients : Local(c)
  BY <1>3 DEF Local, OneRequest, PlaceOfRequest, RequestOfClient, NameIsUser, Alive, InRoom,
              RoomOps
<1>5. \A c \in Clients : Claimed(c) = {}
  BY <1>3, SessionsAssumption DEF Claimed
<1> QED BY <1>1, <1>2, <1>4, <1>5 DEF Inv, ClaimsHold

LEMMA HandleInv ==
  ASSUME Inv, NEW c \in Clients, Handle(c)
  PROVE  Inv'
BY CheckLoginInv, InsertLoginInv, AcquireInv, UnknownInv, LogoutInv, CreateRoomInv,
   RestartInv, CloseInv, StoreRoomInv, ReadNameInv, ReadRoomInv, HandleExitInv,
   DisconnectInv DEF Handle

LEMMA RunInv ==
  ASSUME Inv, NEW c \in Clients, Run(c)
  PROVE  Inv'
BY LoginInv, JoinInv, AskInv, ExitInv, CrashInv, ReceiveInv, ServerGoneInv, StartServerInv,
   ConnectInv, LeaveOwnerInv, LeaveRoomInv, ListenerStopsInv DEF Run

\* Nothing happens.
LEMMA StutterInv ==
  ASSUME Inv, UNCHANGED vars
  PROVE  Inv'
<1> USE DEF vars, registry
<1>1. RegistryTypes' /\ ConnectionTypes'
  BY DEF Inv, RegistryTypes, ConnectionTypes
<1>2. ASSUME NEW c \in Clients PROVE Local(c)' /\ Claimed(c)' = Claimed(c)
  BY DEF Inv, Local, OneRequest, PlaceOfRequest, RequestOfClient, NameIsUser, Alive, Claimed,
         LoggedOut
<1> QED BY <1>1, <1>2 DEF Inv, ClaimsHold

\* The connections and what the clients claim, in every state of Sessions.
THEOREM InvariantHolds == Spec => [](Inv /\ loginCap \in LoginCaps)
<1>1. Init => Inv /\ loginCap \in LoginCaps
  BY InitInv DEF Init
<1>2. Inv /\ loginCap \in LoginCaps /\ [Next]_vars => (Inv /\ loginCap \in LoginCaps)'
  BY HandleInv, RunInv, StutterInv DEF Next, vars
<1> QED BY <1>1, <1>2, PTL DEF Spec

\* The variables of the handlers and of the clients keep their types.
THEOREM TypeCorrect == Spec => []TypeOK
<1>1. Inv /\ loginCap \in LoginCaps => TypeOK
  BY DEF Inv, RegistryTypes, ConnectionTypes, Handlers, TypeOK
<1> QED BY <1>1, InvariantHolds, PTL

\* A running client's number names its user until it logs out, whatever the other
\* clients do, and however many of them died: on_C_login draws numbers that are not
\* in use, and logout and exit erase that of their own client.
THEOREM SessionIntactTheorem == Spec => []SessionIntact
<1>1. ASSUME Inv PROVE SessionIntact
  <2> SUFFICES ASSUME NEW c \in Clients, Alive(c)
               PROVE  /\ client[c].token # None /\ ~LoggedOut(c) =>
                           client[c].token \in DOMAIN logins
                           /\ logins[client[c].token] = client[c].user
                      /\ Receiving(c, "login") /\ reply[c].token # None =>
                           reply[c].token \in DOMAIN logins
                           /\ logins[reply[c].token] = client[c].user
                      /\ handler[c].at = "end" => client[c].token = None
    BY DEF SessionIntact
  <2>1. client[c].token \in Tokens \cup {None}
    BY <1>1, ProcessFields DEF Inv, ConnectionTypes
  <2>2. Receiving(c, "login") => reply[c].token \in Tokens \cup {None}
    BY <1>1, ReplyFields DEF Inv, ConnectionTypes, Receiving
  <2>3. client[c].token # None /\ ~LoggedOut(c) => client[c].token \in Claimed(c)
    BY <2>1 DEF Claimed
  <2>4. Receiving(c, "login") /\ reply[c].token # None => reply[c].token \in Claimed(c)
    BY <2>2 DEF Claimed, Receiving
  <2>5. handler[c].at = "end" => client[c].token = None
    BY <1>1 DEF Inv, Local, PlaceOfRequest
  <2> QED BY <1>1, <2>3, <2>4, <2>5 DEF Inv, ClaimsHold
<1> QED BY <1>1, InvariantHolds, PTL

\* What each handler does to the registry of rooms.
LEMMA HandleRooms ==
  ASSUME Inv, NEW c \in Clients, Handle(c), rooms' # rooms
  PROVE  /\ handler'[c] # handler[c]
         /\ \A u \in Users : Status(u)' # Status(u) => u = client[c].user
<1>1. ASSUME CreateRoom(c)
      PROVE  /\ handler[c].at = "held" /\ client[c].user \in Users
             /\ \A u \in Users : Status(u)' # Status(u) => u = client[c].user
             /\ \E r : Answer(c, r)
  <2>1. Session(c) /\ request[c].op = "create"
    BY <1>1 DEF CreateRoom, Held
  <2>2. Name(c) = client[c].user /\ Name(c) \in Users
    BY <2>1, NameOfClient
  <2>3. rooms' = Set(rooms, Name(c), TRUE)
    BY <1>1 DEF CreateRoom
  <2> QED BY <1>1, <2>2, <2>3 DEF CreateRoom, Held, Status, Set
<1>2. ASSUME StoreRoom(c)
      PROVE  /\ handler[c].at = "store"
             /\ \A u \in Users : Status(u)' # Status(u) => u = client[c].user
             /\ \E r : Answer(c, r)
  <2>1. /\ handler[c].at = "store" /\ handler[c].name = client[c].user
        /\ rooms' = [rooms EXCEPT ![handler[c].name] = (request[c].op = "restart")]
        /\ rooms \in [DOMAIN rooms -> BOOLEAN]
    BY <1>2 DEF StoreRoom, Inv, Local, NameIsUser, RegistryTypes
  <2>2. ASSUME NEW u \in Users, u # client[c].user PROVE Status(u)' = Status(u)
    BY <2>1, <2>2 DEF Status
  <2> QED BY <1>2, <2>1, <2>2 DEF StoreRoom
<1>3. ASSUME NEW r, Answer(c, r), handler[c].at \in {"held", "store"}
      PROVE  handler'[c] # handler[c]
  <2>1. handler'[c].at = "recv"
    BY <1>3 DEF Answer, Inv, ConnectionTypes
  <2> QED BY <1>3, <2>1
<1>4. CreateRoom(c) \/ StoreRoom(c)
  BY DEF Handle, CheckLogin, InsertLogin, Acquire, Unknown, Logout, Restart, Close,
         ReadName, ReadRoom, HandleExit, Disconnect, registry
<1> QED BY <1>1, <1>2, <1>3, <1>4

\* No client's step touches the registry.
LEMMA RunRooms ==
  ASSUME NEW c \in Clients, Run(c)
  PROVE  rooms' = rooms
BY DEF Run, Login, Join, Ask, Send, Exit, Crash, Receive, ServerGone, StartServer, Connect,
       LeaveOwner, LeaveRoom, ListenerStops, Inert, registry

\* on_C_close_chatroom goes by the name that the client sends, and yet nobody opens
\* or closes a room that is another user's.
THEOREM RoomsChangedByOwnerTheorem == Spec => RoomsChangedByOwner
<1> DEFINE Own == \A u \in Users : Status(u) # Status(u)' =>
                    \E c \in Clients : client[c].user = u /\ handler[c] # handler'[c]
<1>1. Inv /\ [Next]_vars => [Own]_vars
  <2> SUFFICES ASSUME Inv, Next, rooms' # rooms PROVE Own
    BY DEF vars, registry, Status
  <2>1. PICK c \in Clients : Handle(c)
    BY RunRooms DEF Next
  <2> QED BY <2>1, HandleRooms
<1>2. Spec => [][Next]_vars
  BY DEF Spec
<1>3. RoomsChangedByOwner <=> [][Own]_vars
  BY DEF RoomsChangedByOwner
<1> HIDE DEF Own
<1> QED BY <1>1, <1>2, <1>3, InvariantHolds, PTL

-----------------------------------------------------------------------------
(* Part two: login_mutex and the copies of rooms.                          *)

\* A handler is a record of its place, a name and the status of a room.
HandlerShape ==
  /\ DOMAIN handler = Clients
  /\ handler = [c \in Clients |-> handler[c]]
  /\ \A c \in Clients : DOMAIN handler[c] = {"at", "name", "opened"}
  /\ \A c \in Clients : handler[c] = [f \in {"at", "name", "opened"} |-> handler[c][f]]

\* The registry is a map; a room that is about to be stored is in it.
RoomsShape == rooms = [u \in DOMAIN rooms |-> rooms[u]]
StoresKnownRoom ==
  \A c \in Clients : handler[c].at = "store" => handler[c].name \in DOMAIN rooms

LockInv ==
  /\ HandlerShape
  /\ RoomsShape
  /\ InsideHoldsLock
  /\ NoStaleRoomWrite
  /\ StoresKnownRoom

Inside == {"held", "store"}

-----------------------------------------------------------------------------
(* What a step does to the handlers.                                       *)

\* Only the handler of c is touched; it is afterwards at p.
Moves(c, p) ==
  /\ HandlerShape'
  /\ handler'[c].at = p
  /\ \A d \in Clients \ {c} : handler'[d] = handler[d]

\* The three ways in which a handler moves.
LEMMA GotoMoves ==
  ASSUME HandlerShape, NEW c \in Clients, NEW p, Goto(c, p)
  PROVE  Moves(c, p)
BY DEF HandlerShape, Goto, Moves

LEMMA AnswerMoves ==
  ASSUME HandlerShape, NEW c \in Clients, NEW r, Answer(c, r)
  PROVE  Moves(c, "recv") /\ loginMutex' = ReleasedMutex(c)
BY DEF HandlerShape, Answer, Moves

LEMMA CopyMoves ==
  ASSUME HandlerShape, NEW c \in Clients, NEW u, Copy(c, u)
  PROVE  /\ Moves(c, "store")
         /\ handler'[c].name = u
         /\ handler'[c].opened = rooms[u]
         /\ loginMutex' = loginMutex
BY DEF HandlerShape, Copy, Moves

\* The handler of c is outside afterwards, without the lock; rooms changed only
\* if it was inside before.
LEMMA GoesOut ==
  ASSUME LockInv, NEW c \in Clients, NEW p, p \notin Inside,
         Moves(c, p), loginMutex' = ReleasedMutex(c),
         RoomsShape', DOMAIN rooms \subseteq DOMAIN rooms',
         rooms' = rooms \/ handler[c].at \in Inside
  PROVE  LockInv'
<1>1. InsideHoldsLock'
  BY SessionsAssumption DEF LockInv, InsideHoldsLock, Moves, ReleasedMutex, Inside
<1>2. ASSUME NEW d \in Clients, handler'[d].at = "store"
      PROVE  rooms'[handler'[d].name] = handler'[d].opened
             /\ handler'[d].name \in DOMAIN rooms'
  <2>1. d # c /\ handler'[d] = handler[d]
    BY <1>2 DEF Moves, Inside
  <2>2. rooms' = rooms
    BY <1>2, <2>1 DEF LockInv, InsideHoldsLock, Inside
  <2> QED BY <1>2, <2>1, <2>2 DEF LockInv, NoStaleRoomWrite, StoresKnownRoom
<1> QED BY <1>1, <1>2 DEF LockInv, Moves, NoStaleRoomWrite, StoresKnownRoom

\* A step outside that leaves the lock alone.
LEMMA StaysOut ==
  ASSUME LockInv, NEW c \in Clients, NEW p, p \notin Inside, handler[c].at \notin Inside,
         Moves(c, p), UNCHANGED <<loginMutex, rooms>>
  PROVE  LockInv'
BY DEF LockInv, InsideHoldsLock, Moves, Inside, NoStaleRoomWrite, StoresKnownRoom, RoomsShape

-----------------------------------------------------------------------------
(* The initial state, the clients, and each handler's step.                *)

\* At the start every handler waits for a request and the lock is free.
LEMMA LockInvInitial == Init => LockInv
<1> SUFFICES ASSUME Init PROVE LockInv
  OBVIOUS
<1>1. HandlerShape
  BY DEF Init, HandlerShape
<1>2. RoomsShape
  BY DEF Init, RoomsShape
<1>3. \A c \in Clients : handler[c].at = "recv" /\ loginMutex # c
  BY SessionsAssumption DEF Init
<1> QED
  BY <1>1, <1>2, <1>3 DEF LockInv, InsideHoldsLock, NoStaleRoomWrite, StoresKnownRoom

\* No client touches the handlers, the lock or the registry.
LEMMA RunIsApart ==
  ASSUME NEW c \in Clients, Run(c)
  PROVE  UNCHANGED <<handler, loginMutex, rooms>>
<1>1. ASSUME NEW u \in Users, Login(c, u) PROVE UNCHANGED <<handler, loginMutex, rooms>>
  BY <1>1 DEF Login, Send, registry
<1>2. ASSUME NEW u \in Users, Join(c, u) PROVE UNCHANGED <<handler, loginMutex, rooms>>
  BY <1>2 DEF Join, Send, registry
<1>3. ASSUME NEW op, Ask(c, op) PROVE UNCHANGED <<handler, loginMutex, rooms>>
  BY <1>3 DEF Ask, Send, registry
<1>4. CASE Exit(c) BY <1>4 DEF Exit, Send, registry
<1>5. CASE Crash(c) BY <1>5 DEF Crash, registry
<1>6. CASE Receive(c) BY <1>6 DEF Receive, registry
<1>7. CASE ServerGone(c) BY <1>7 DEF ServerGone, Inert, registry
<1>8. CASE StartServer(c) BY <1>8 DEF StartServer, Inert, registry
<1>9. CASE Connect(c) BY <1>9 DEF Connect, Inert, registry
<1>10. CASE LeaveOwner(c) BY <1>10 DEF LeaveOwner, registry
<1>11. CASE LeaveRoom(c) BY <1>11 DEF LeaveRoom, Inert, registry
<1>12. CASE ListenerStops(c) BY <1>12 DEF ListenerStops, Inert, registry
<1> QED
  BY <1>1, <1>2, <1>3, <1>4, <1>5, <1>6, <1>7, <1>8, <1>9, <1>10, <1>11, <1>12 DEF Run

\* A step that touches none of the three.
LEMMA Untouched ==
  ASSUME LockInv, UNCHANGED <<handler, loginMutex, rooms>>
  PROVE  LockInv'
BY DEF LockInv, HandlerShape, RoomsShape, InsideHoldsLock, NoStaleRoomWrite, StoresKnownRoom

\* A reply that leaves the registry of rooms alone.
LEMMA AnswerLockInv ==
  ASSUME LockInv, NEW c \in Clients, NEW r, Answer(c, r), rooms' = rooms
  PROVE  LockInv'
<1>1. Moves(c, "recv") /\ loginMutex' = ReleasedMutex(c)
  BY AnswerMoves DEF LockInv
<1> QED BY <1>1, GoesOut DEF Inside, LockInv, RoomsShape

\* An exception leaves the registry of rooms alone.
LEMMA ThrowLockInv ==
  ASSUME LockInv, NEW c \in Clients, Throw(c), rooms' = rooms
  PROVE  LockInv'
<1>1. Moves(c, "end") /\ loginMutex' = ReleasedMutex(c)
  BY GotoMoves DEF LockInv, Throw
<1> QED BY <1>1, GoesOut DEF Inside, LockInv, RoomsShape

\* A copy of a room is taken by a handler that is inside.
LEMMA CopyLockInv ==
  ASSUME LockInv, NEW c \in Clients, NEW u \in DOMAIN rooms, Copy(c, u),
         handler[c].at = "held", rooms' = rooms
  PROVE  LockInv'
<1>1. /\ Moves(c, "store") /\ loginMutex' = loginMutex
      /\ handler'[c].name = u /\ handler'[c].opened = rooms[u]
  BY CopyMoves DEF LockInv
<1>2. InsideHoldsLock'
  BY <1>1 DEF LockInv, InsideHoldsLock, Moves
<1>3. NoStaleRoomWrite' /\ StoresKnownRoom'
  BY <1>1 DEF LockInv, Moves, NoStaleRoomWrite, StoresKnownRoom
<1> QED BY <1>1, <1>2, <1>3 DEF LockInv, Moves, RoomsShape

-----------------------------------------------------------------------------
(* The steps of the handlers, and the theorems.                            *)

LEMMA HandleLockInv ==
  ASSUME LockInv, NEW c \in Clients, Handle(c)
  PROVE  LockInv'
<1>1. CASE CheckLogin(c)
  <2>1. rooms' = rooms
    BY <1>1 DEF CheckLogin, registry
  <2>2. ASSUME Goto(c, "insert"), UNCHANGED loginMutex PROVE LockInv'
    <3>1. Moves(c, "insert") BY <2>2, GotoMoves DEF LockInv
    <3>2. handler[c].at \notin Inside BY <1>1 DEF CheckLogin, Reading, Inside
    <3> QED BY <2>1, <2>2, <3>1, <3>2, StaysOut DEF Inside
  <2> QED BY <1>1, <2>1, <2>2, AnswerLockInv, ThrowLockInv DEF CheckLogin
<1>2. CASE InsertLogin(c)
  BY <1>2, AnswerLockInv DEF InsertLogin
<1>3. CASE Acquire(c)
  <2>1. /\ Moves(c, "held")
        /\ rooms' = rooms
        /\ handler[c].at = "recv"
        /\ loginMutex = None
        /\ loginMutex' = c
    BY <1>3, GotoMoves DEF Acquire, LockInv, registry, Locked, Free
  <2>2. InsideHoldsLock'
    BY <2>1, SessionsAssumption DEF LockInv, InsideHoldsLock, Moves
  <2>3. NoStaleRoomWrite' /\ StoresKnownRoom'
    BY <2>1 DEF LockInv, Moves, NoStaleRoomWrite, StoresKnownRoom
  <2> QED BY <2>1, <2>2, <2>3 DEF LockInv, Moves, RoomsShape
<1>4. CASE Unknown(c)
  BY <1>4, AnswerLockInv, ThrowLockInv DEF Unknown, registry
<1>5. CASE Logout(c)
  BY <1>5, AnswerLockInv DEF Logout
<1>6. CASE CreateRoom(c)
  <2>1. CASE rooms' = rooms
    BY <1>6, <2>1, AnswerLockInv DEF CreateRoom
  <2>2. CASE rooms' # rooms
    <3>1. /\ rooms' = Set(rooms, Name(c), TRUE)
          /\ Answer(c, Entrance("create", Name(c), Name(c)))
          /\ handler[c].at \in Inside
      BY <1>6, <2>2 DEF CreateRoom, Held, Inside
    <3>2. RoomsShape' /\ DOMAIN rooms \subseteq DOMAIN rooms'
      BY <3>1 DEF Set, RoomsShape
    <3>3. Moves(c, "recv") /\ loginMutex' = ReleasedMutex(c)
      BY <3>1, AnswerMoves DEF LockInv
    <3> QED BY <3>1, <3>2, <3>3, GoesOut DEF Inside
  <2> QED BY <2>1, <2>2
<1>7. CASE Restart(c)
  <2>1. rooms' = rooms /\ handler[c].at = "held"
    BY <1>7 DEF Restart, registry, Held
  <2> QED BY <1>7, <2>1, AnswerLockInv, CopyLockInv DEF Restart
<1>8. CASE Close(c)
  <2>1. rooms' = rooms /\ handler[c].at = "held"
    BY <1>8 DEF Close, registry, Held
  <2> QED BY <1>8, <2>1, CopyLockInv DEF Close
<1>9. CASE StoreRoom(c)
  <2>1. /\ rooms' = [rooms EXCEPT ![handler[c].name] = (request[c].op = "restart")]
        /\ handler[c].at \in Inside
    BY <1>9 DEF StoreRoom, Inside
  <2>2. RoomsShape' /\ DOMAIN rooms \subseteq DOMAIN rooms'
    BY <2>1 DEF LockInv, RoomsShape
  <2>3. Moves(c, "recv") /\ loginMutex' = ReleasedMutex(c)
    BY <1>9, AnswerMoves DEF StoreRoom, LockInv
  <2> QED BY <2>1, <2>2, <2>3, GoesOut DEF Inside
<1>10. CASE ReadName(c)
  <2>1. rooms' = rooms /\ handler[c].at = "recv"
    BY <1>10 DEF ReadName, registry
  <2>2. ASSUME handler' = [handler EXCEPT ![c] =
                             [at |-> "room", name |-> Name(c), opened |-> FALSE]],
               UNCHANGED loginMutex
        PROVE  LockInv'
    <3>1. Moves(c, "room") BY <2>2 DEF LockInv, HandlerShape, Moves
    <3> QED BY <2>1, <2>2, <3>1, StaysOut DEF Inside
  <2> QED BY <1>10, <2>1, <2>2, AnswerLockInv, ThrowLockInv DEF ReadName
<1>11. CASE ReadRoom(c)
  BY <1>11, AnswerLockInv DEF ReadRoom, registry
<1>12. CASE HandleExit(c)
  <2>1. Moves(c, "end") /\ UNCHANGED <<loginMutex, rooms>> /\ handler[c].at \notin Inside
    BY <1>12, GotoMoves DEF HandleExit, LockInv, Reading, Inside
  <2> QED BY <2>1, StaysOut DEF Inside
<1>13. CASE Disconnect(c)
  <2>1. Moves(c, "end") /\ UNCHANGED <<loginMutex, rooms>> /\ handler[c].at \notin Inside
    BY <1>13, GotoMoves DEF Disconnect, LockInv, registry, Inside
  <2> QED BY <2>1, StaysOut DEF Inside
<1> QED
  BY <1>1, <1>2, <1>3, <1>4, <1>5, <1>6, <1>7, <1>8, <1>9, <1>10, <1>11, <1>12,
     <1>13 DEF Handle

\* The handlers of server.cpp keep the invariant of login_mutex and the copies.
THEOREM LockInvHolds == Spec => []LockInv
<1>1. Init => LockInv
  BY LockInvInitial
<1>2. LockInv /\ [Next]_vars => LockInv'
  <2> SUFFICES ASSUME LockInv, [Next]_vars PROVE LockInv'
    OBVIOUS
  <2>1. CASE UNCHANGED vars
    BY <2>1, Untouched DEF vars, registry
  <2>2. ASSUME NEW c \in Clients, Handle(c) PROVE LockInv'
    BY <2>2, HandleLockInv
  <2>3. ASSUME NEW c \in Clients, Run(c) PROVE LockInv'
    BY <2>3, RunIsApart, Untouched
  <2> QED BY <2>1, <2>2, <2>3 DEF Next
<1> QED BY <1>1, <1>2, PTL DEF Spec

\* A handler is at work on a room or on the end of a session exactly while it
\* has login_mutex: the handlers of server.cpp that take it exclude each other,
\* and none keeps it when it replies or throws.
THEOREM InsideHoldsLockTheorem == Spec => []InsideHoldsLock
<1>1. LockInv => InsideHoldsLock
  BY DEF LockInv
<1> QED BY <1>1, LockInvHolds, PTL

\* Though on_C_restart_chatroom and on_C_close_chatroom change a copy of the room
\* and store it in a second call of the database, no status is overwritten unseen.
THEOREM NoStaleRoomWriteTheorem == Spec => []NoStaleRoomWrite
<1>1. LockInv => NoStaleRoomWrite
  BY DEF LockInv
<1> QED BY <1>1, LockInvHolds, PTL

-----------------------------------------------------------------------------
(* Part three: the rooms and those who serve them.                         *)

\* A client that the registry's entry of its user stands for: its room was just
\* opened, or it serves the room, or its request to close it is under way.
Opened(c) == reply[c].op \in {"create", "restart"} /\ reply[c].code = 0
InCharge(c) ==
  \/ Opened(c)
  \/ client[c].mode = "starting"
  \/ client[c].server = "on" /\ reply[c].op # "close"
  \/ request[c].op = "close"

\* The room of whoever is in charge is open, and nobody else is in charge of it.
ChargeOfOpenRoom == \A c \in Clients : InCharge(c) => IsOpen(client[c].user)
OneInCharge ==
  \A c, d \in Clients : InCharge(c) /\ InCharge(d) /\ client[c].user = client[d].user => c = d

\* A user runs one client.
OneClientOfUser ==
  \A c, d \in Clients :
    Alive(c) /\ Alive(d) /\ client[c].user = client[d].user /\ client[c].user # None => c = d

\* A listener has the port of its own room, and no two have the same while one
\* takes guests.
OnePort ==
  \A c, d \in Clients :
    client[c].server = "on" /\ client[d].server # "off" /\ client[c].name = client[d].name
      => c = d

\* The session of a client that has a listener, or is about to, is not over.
ServerOfSession(c) ==
  /\ client[c].server = "on" =>
       client[c].user = client[c].name /\ client[c].token # None /\ ~LoggedOut(c)
  /\ client[c].server # "off" =>
       Alive(c) /\ client[c].name \in Users /\ client[c].user \in {client[c].name, None}
  /\ Opened(c) \/ client[c].mode = "starting" =>
       client[c].server # "on" /\ client[c].token # None

\* An owner in its chatroom serves it; a login of who has a session gives it the
\* number it has; a room to be reopened was read as closed, by who has a session.
RoomOfClient(c) ==
  /\ client[c].mode = "chat" /\ Owner(c) => client[c].server = "on"
  /\ Receiving(c, "login") /\ client[c].token # None => reply[c].token = client[c].token
  /\ handler[c].at = "store" /\ request[c].op = "restart" =>
       ~handler[c].opened /\ request[c].token # None

RoomsInv ==
  /\ ChargeOfOpenRoom
  /\ OneInCharge
  /\ OneClientOfUser
  /\ OnePort
  /\ \A c \in Clients : ServerOfSession(c) /\ RoomOfClient(c)
  /\ OpenRoomKeepsSession

-----------------------------------------------------------------------------
(* The parts of RoomsInv that a step of c keeps.                           *)

LEMMA RoomsParts ==
  ASSUME RoomsInv, NEW c \in Clients, Only(c), ChargeOfOpenRoom', OneInCharge',
         OneClientOfUser', OnePort', OpenRoomKeepsSession', ServerOfSession(c)',
         RoomOfClient(c)'
  PROVE  RoomsInv'
<1>1. ASSUME NEW d \in Clients, d # c PROVE ServerOfSession(d)' /\ RoomOfClient(d)'
  <2>1. /\ request'[d] = request[d] /\ reply'[d] = reply[d]
        /\ handler'[d] = handler[d] /\ client'[d] = client[d]
    BY <1>1 DEF Only
  <2>2. ServerOfSession(d) /\ RoomOfClient(d)
    BY DEF RoomsInv
  <2> QED BY <2>1, <2>2 DEF ServerOfSession, RoomOfClient, LoggedOut, Alive, Opened, Owner,
                            Receiving
<1> QED BY <1>1 DEF RoomsInv

LEMMA OthersCharge ==
  ASSUME NEW c \in Clients, Only(c), NEW d \in Clients \ {c}
  PROVE  InCharge(d)' = InCharge(d) /\ client'[d] = client[d]
BY DEF Only, InCharge, Opened

\* c comes into charge of nothing new, and no room is closed.
LEMMA ChargeKept ==
  ASSUME RoomsInv, NEW c \in Clients, Only(c),
         InCharge(c)' => InCharge(c) /\ client'[c].user = client[c].user,
         \A u : IsOpen(u) => IsOpen(u)'
  PROVE  ChargeOfOpenRoom' /\ OneInCharge'
<1>1. \A d \in Clients : InCharge(d)' => InCharge(d) /\ client'[d].user = client[d].user
  BY OthersCharge
<1> QED BY <1>1 DEF RoomsInv, ChargeOfOpenRoom, OneInCharge

LEMMA ClientKept ==
  ASSUME RoomsInv, NEW c \in Clients, Only(c), Alive(c)' => Alive(c),
         client'[c].user \in {client[c].user, None} \/ ~Alive(c)'
  PROVE  OneClientOfUser'
<1>1. \A d \in Clients \ {c} : client'[d] = client[d] /\ Alive(d)' = Alive(d)
  BY DEF Only, Alive
<1> QED BY <1>1 DEF RoomsInv, OneClientOfUser

LEMMA PortKept ==
  ASSUME RoomsInv, NEW c \in Clients, Only(c),
         client'[c].server = "on" => client[c].server = "on",
         client'[c].server # "off" =>
           client[c].server # "off" /\ client'[c].name = client[c].name
  PROVE  OnePort'
<1>1. \A d \in Clients \ {c} : client'[d] = client[d]
  BY DEF Only
<1> QED BY <1>1 DEF RoomsInv, OnePort

\* No session ends and no room is opened.
LEMMA SessionsKept ==
  ASSUME RoomsInv, NEW c \in Clients, Only(c), rooms' = rooms,
         \A k \in DOMAIN logins : k \in DOMAIN logins' /\ logins'[k] = logins[k],
         client[c].mode = "exited" =>
           client'[c].mode = "exited" /\ client'[c].user = client[c].user
  PROVE  OpenRoomKeepsSession'
<1>1. \A d \in Clients : client[d].mode = "exited" =>
        client'[d].mode = "exited" /\ client'[d].user = client[d].user
  BY DEF Only
<1> QED BY <1>1 DEF RoomsInv, OpenRoomKeepsSession

-----------------------------------------------------------------------------
(* The handlers.                                                           *)

\* A handler's step that leaves the rooms alone.
LEMMA HandlerRooms ==
  ASSUME RoomsInv, NEW c \in Clients, Only(c), UNCHANGED <<rooms, client>>,
         InCharge(c)' => InCharge(c), OpenRoomKeepsSession',
         ServerOfSession(c)', RoomOfClient(c)'
  PROVE  RoomsInv'
<1>1. ChargeOfOpenRoom' /\ OneInCharge'
  BY ChargeKept DEF IsOpen
<1>2. OneClientOfUser' /\ OnePort'
  BY DEF RoomsInv, OneClientOfUser, OnePort, Alive
<1> QED BY <1>1, <1>2, RoomsParts

\* What Answer does to the connection of c.
LEMMA AnswerMeans ==
  ASSUME Inv, NEW c \in Clients, NEW r, request[c].op # "none", Answer(c, r)
  PROVE  /\ Only(c) /\ client' = client /\ request'[c] = Nothing
         /\ reply'[c] = IF Alive(c) THEN r ELSE Nothing
         /\ handler'[c].at = "recv"
         /\ client[c].mode \notin {"bbs"} \cup InRoom /\ reply[c].op = "none"
<1>1. /\ Only(c) /\ client' = client /\ request'[c] = Nothing
      /\ reply'[c] = IF Alive(c) THEN r ELSE Nothing
      /\ handler'[c].at = "recv"
  BY DEF Answer, Inv, ConnectionTypes, Only
<1>2. OneRequest(c)
  BY DEF Inv, Local
<1> QED BY <1>1, <1>2 DEF OneRequest

\* A reply that opens nothing.
LEMMA PlainAnswer ==
  ASSUME Inv, RoomsInv, NEW c \in Clients, NEW r, request[c].op # "none", Answer(c, r),
         r.op # "close", ~(r.op \in {"create", "restart"} /\ r.code = 0),
         r.op = "login" /\ client[c].token # None => r.token = client[c].token,
         r = [op |-> "logout", code |-> 0] => client[c].server # "on",
         rooms' = rooms, OpenRoomKeepsSession'
  PROVE  RoomsInv'
<1>1. /\ Only(c) /\ client' = client /\ request'[c] = Nothing
      /\ reply'[c] = IF Alive(c) THEN r ELSE Nothing
      /\ handler'[c].at = "recv"
      /\ client[c].mode \notin {"bbs"} \cup InRoom /\ reply[c].op = "none"
  BY AnswerMeans
<1>2. ~Opened(c)'
  BY <1>1 DEF Opened, Nothing
<1>3. InCharge(c)' => InCharge(c)
  BY <1>1, <1>2 DEF InCharge, Nothing, InRoom
<1>4. ServerOfSession(c) /\ RoomOfClient(c)
  BY DEF RoomsInv
<1>5. ServerOfSession(c)'
  BY <1>1, <1>2, <1>4 DEF ServerOfSession, LoggedOut, Nothing, Alive, InRoom
<1>6. RoomOfClient(c)'
  BY <1>1, <1>4 DEF RoomOfClient, Receiving, Nothing, Owner
<1> QED BY <1>1, <1>3, <1>5, <1>6, HandlerRooms

\* The same when no session ends, which is so but for logout.
LEMMA PlainAnswerKeeps ==
  ASSUME Inv, RoomsInv, NEW c \in Clients, NEW r, request[c].op # "none", Answer(c, r),
         r.op \notin {"close", "login"}, r # [op |-> "logout", code |-> 0],
         ~(r.op \in {"create", "restart"} /\ r.code = 0), UNCHANGED registry
  PROVE  RoomsInv'
<1>1. Only(c) /\ client' = client /\ rooms' = rooms /\ logins' = logins
  BY AnswerMeans DEF registry
<1>2. OpenRoomKeepsSession'
  BY <1>1, SessionsKept
<1> QED BY <1>1, <1>2, PlainAnswer

\* The handler moves on, or ends; only a restart becomes a copy.
LEMMA MoveRooms ==
  ASSUME Inv, RoomsInv, NEW c \in Clients, Only(c), UNCHANGED <<registry, client>>,
         reply'[c] = reply[c], request'[c] = request[c] \/ request'[c] = Nothing,
         handler'[c].at = "store" /\ request'[c].op = "restart" =>
           ~handler'[c].opened /\ request'[c].token # None
  PROVE  RoomsInv'
<1>1. OpenRoomKeepsSession' /\ rooms' = rooms
  BY SessionsKept DEF registry
<1>2. ServerOfSession(c) /\ RoomOfClient(c)
  BY DEF RoomsInv
<1>3. ServerOfSession(c)'
  BY <1>2 DEF ServerOfSession, LoggedOut, Alive, Opened
<1>4. RoomOfClient(c)'
  BY <1>2 DEF RoomOfClient, Owner, Receiving
<1>5. InCharge(c)' => InCharge(c)
  BY DEF InCharge, Opened, Nothing
<1> QED BY <1>1, <1>3, <1>4, <1>5, HandlerRooms

LEMMA GotoRooms ==
  ASSUME Inv, RoomsInv, NEW c \in Clients, NEW p \in {"insert", "held", "end"}, Goto(c, p),
         UNCHANGED <<registry, reply, client>>,
         request' = request \/ request' = [request EXCEPT ![c] = Nothing]
  PROVE  RoomsInv'
<1>1. /\ Only(c) /\ handler'[c].at = p /\ reply'[c] = reply[c]
      /\ request'[c] = request[c] \/ request'[c] = Nothing
  BY DEF Goto, Inv, ConnectionTypes, Only
<1> QED BY <1>1, MoveRooms

LEMMA CheckLoginRooms ==
  ASSUME Inv, RoomsInv, NEW c \in Clients, CheckLogin(c)
  PROVE  RoomsInv'
<1>1. /\ request[c].op = "login" /\ UNCHANGED registry
      /\ request[c].token = client[c].token
  BY DEF CheckLogin, Reading, Inv, Local, RequestOfClient
<1>2. ASSUME NEW k \in {request[c].token}, Answer(c, [op |-> "login", token |-> k])
      PROVE  RoomsInv'
  <2>1. Only(c) /\ client' = client /\ rooms' = rooms /\ logins' = logins
    BY <1>1, <1>2, AnswerMeans DEF registry
  <2>2. OpenRoomKeepsSession'
    BY <2>1, SessionsKept
  <2> QED BY <1>1, <1>2, <2>1, <2>2, PlainAnswer
<1>3. ASSUME Throw(c) PROVE RoomsInv'
  BY <1>1, <1>3, GotoRooms DEF Throw
<1>4. ASSUME Goto(c, "insert"), UNCHANGED <<loginMutex, request, reply, client>>
      PROVE  RoomsInv'
  BY <1>1, <1>4, GotoRooms
<1> QED BY <1>2, <1>3, <1>4 DEF CheckLogin

LEMMA InsertLoginRooms ==
  ASSUME Inv, RoomsInv, NEW c \in Clients, InsertLogin(c)
  PROVE  RoomsInv'
<1>1. /\ request[c].op = "login" /\ rooms' = rooms
      /\ request[c].token = None /\ request[c].token = client[c].token
  BY DEF InsertLogin, Inv, Local, PlaceOfRequest, RequestOfClient
<1>2. PICK k \in Tokens : /\ k \notin DOMAIN logins
                          /\ logins' = Set(logins, k, request[c].user)
                          /\ Answer(c, [op |-> "login", token |-> k])
  BY DEF InsertLogin, Fresh
<1>3. Only(c) /\ client' = client
  BY <1>1, <1>2, AnswerMeans
<1>4. \A j \in DOMAIN logins : j \in DOMAIN logins' /\ logins'[j] = logins[j]
  BY <1>2 DEF Set
<1>5. OpenRoomKeepsSession'
  BY <1>1, <1>3, <1>4, SessionsKept
<1> QED BY <1>1, <1>2, <1>5, PlainAnswer

\* A logout is refused while the room is open.
LEMMA LogoutRooms ==
  ASSUME Inv, RoomsInv, NEW c \in Clients, Logout(c)
  PROVE  RoomsInv'
<1>1. request[c].op = "logout" /\ Session(c) /\ rooms' = rooms
  BY DEF Logout, Held
<1>2. Name(c) = client[c].user /\ Name(c) \in Users /\ request[c].token \in DOMAIN logins
  BY <1>1, NameOfClient DEF Session
<1>3. ASSUME Answer(c, [op |-> "logout", code |-> 2]), logins' = logins PROVE RoomsInv'
  BY <1>1, <1>3, PlainAnswerKeeps DEF registry
<1>4. ASSUME MayLogout(Name(c)),
             logins' = Restrict(logins, DOMAIN logins \ {request[c].token}),
             Answer(c, [op |-> "logout", code |-> 0])
      PROVE  RoomsInv'
  <2>1. ~IsOpen(client[c].user)
    BY <1>2, <1>4 DEF MayLogout, IsOpen
  <2>2. ~InCharge(c) /\ reply[c].op = "none"
    BY <1>1, <1>4, <2>1, AnswerMeans DEF RoomsInv, ChargeOfOpenRoom
  <2>3. client[c].server # "on"
    BY <2>2 DEF InCharge
  <2>4. \A k \in DOMAIN logins : k # request[c].token =>
          k \in DOMAIN logins' /\ logins'[k] = logins[k]
    BY <1>4 DEF Restrict
  <2>5. client' = client
    BY <1>1, <1>4, AnswerMeans
  <2>6. OpenRoomKeepsSession'
    BY <1>1, <1>2, <2>1, <2>4, <2>5 DEF RoomsInv, OpenRoomKeepsSession, IsOpen, Name
  <2> QED BY <1>1, <1>4, <2>3, <2>6, PlainAnswer
<1> QED BY <1>3, <1>4 DEF Logout

\* The room of c is opened by its reply, while nobody was in charge of it.
LEMMA OpenedRooms ==
  ASSUME Inv, RoomsInv, NEW c \in Clients, NEW r, request[c].op \in {"create", "restart"},
         Answer(c, r), r.op \in {"create", "restart"}, r.code = 0,
         ~IsOpen(client[c].user), IsOpen(client[c].user)',
         \A u : u # client[c].user => IsOpen(u)' = IsOpen(u),
         request[c].token # None, logins' = logins
  PROVE  RoomsInv'
<1>1. /\ Only(c) /\ client' = client /\ request'[c] = Nothing
      /\ reply'[c] = IF Alive(c) THEN r ELSE Nothing
      /\ handler'[c].at = "recv"
      /\ client[c].mode \notin {"bbs"} \cup InRoom /\ reply[c].op = "none"
  BY AnswerMeans
<1>2. \A d \in Clients : InCharge(d) => client[d].user # client[c].user
  BY DEF RoomsInv, ChargeOfOpenRoom
<1>3. ChargeOfOpenRoom' /\ OneInCharge'
  <2>1. \A d \in Clients \ {c} : InCharge(d)' => InCharge(d) /\ client[d].user # client[c].user
    BY <1>1, <1>2, OthersCharge
  <2> QED BY <1>1, <2>1 DEF RoomsInv, ChargeOfOpenRoom, OneInCharge
<1>4. OneClientOfUser' /\ OnePort'
  BY <1>1 DEF RoomsInv, OneClientOfUser, OnePort, Alive
<1>5. /\ request[c].token \in DOMAIN logins /\ logins[request[c].token] = client[c].user
      /\ request[c].token = client[c].token
  BY RequestClaims DEF Inv, Local, RequestOfClient
<1>6. OpenRoomKeepsSession'
  <2>1. ASSUME NEW u \in DOMAIN rooms', rooms'[u]
        PROVE  \/ \E k \in DOMAIN logins : logins[k] = u
               \/ \E d \in Clients : client[d].mode = "exited" /\ client[d].user = u
    <3>1. CASE u = client[c].user
      BY <1>5, <3>1
    <3>2. CASE u # client[c].user
      <4>1. IsOpen(u)
        BY <2>1, <3>2 DEF IsOpen
      <4> QED BY <4>1 DEF RoomsInv, OpenRoomKeepsSession, IsOpen
    <3> QED BY <3>1, <3>2
  <2> QED BY <1>1, <2>1 DEF OpenRoomKeepsSession
<1>7. ServerOfSession(c) /\ RoomOfClient(c) /\ client[c].server # "on"
  BY <1>1, <1>2 DEF RoomsInv, InCharge
<1>8. ServerOfSession(c)'
  BY <1>1, <1>5, <1>7 DEF ServerOfSession, LoggedOut, Nothing, Alive, InRoom
<1>9. RoomOfClient(c)'
  BY <1>1, <1>7 DEF RoomOfClient, Receiving, Nothing, Owner
<1> QED BY <1>1, <1>3, <1>4, <1>6, <1>8, <1>9, RoomsParts

LEMMA CreateRoomRooms ==
  ASSUME Inv, RoomsInv, NEW c \in Clients, CreateRoom(c)
  PROVE  RoomsInv'
<1>1. request[c].op = "create" /\ Session(c) /\ logins' = logins
  BY DEF CreateRoom, Held
<1>2. Name(c) = client[c].user /\ Name(c) \in Users
  BY <1>1, NameOfClient
<1>3. request[c].token # None
  BY <1>1, SessionsAssumption DEF Session, Inv, RegistryTypes
<1>4. ASSUME Answer(c, [op |-> "create", code |-> 2]), rooms' = rooms PROVE RoomsInv'
  BY <1>1, <1>4, PlainAnswerKeeps DEF registry
<1>5. ASSUME Name(c) \notin DOMAIN rooms, rooms' = Set(rooms, Name(c), TRUE),
             Answer(c, Entrance("create", Name(c), Name(c)))
      PROVE  RoomsInv'
  <2>1. /\ ~IsOpen(client[c].user) /\ IsOpen(client[c].user)'
        /\ \A u : u # client[c].user => IsOpen(u)' = IsOpen(u)
    <3>1. client' = client
      BY <1>1, <1>5, AnswerMeans
    <3> QED BY <1>2, <1>5, <3>1 DEF IsOpen, Set
  <2> QED BY <1>1, <1>3, <1>5, <2>1, OpenedRooms DEF Entrance
<1> QED BY <1>4, <1>5 DEF CreateRoom

\* getRoom's copy: a room to be reopened is closed, and its user has a session.
LEMMA CopyRooms ==
  ASSUME Inv, RoomsInv, NEW c \in Clients, NEW u, Copy(c, u), UNCHANGED registry,
         request[c].op = "restart" => ~rooms[u] /\ request[c].token # None
  PROVE  RoomsInv'
<1>1. /\ Only(c) /\ handler'[c].opened = rooms[u]
      /\ request' = request /\ reply' = reply /\ client' = client
  BY DEF Copy, Inv, ConnectionTypes, Only
<1> QED BY <1>1, MoveRooms

LEMMA RestartRooms ==
  ASSUME Inv, RoomsInv, NEW c \in Clients, Restart(c)
  PROVE  RoomsInv'
<1>1. request[c].op = "restart" /\ Session(c) /\ UNCHANGED registry
  BY DEF Restart, Held
<1>2. request[c].token # None
  BY <1>1, SessionsAssumption DEF Session, Inv, RegistryTypes
<1>3. ASSUME NEW k \in {2, 3}, Answer(c, [op |-> "restart", code |-> k]) PROVE RoomsInv'
  BY <1>1, <1>3, PlainAnswerKeeps
<1>4. ASSUME Restartable(Name(c)), Copy(c, Name(c)) PROVE RoomsInv'
  BY <1>1, <1>2, <1>4, CopyRooms DEF Restartable
<1> QED BY <1>3, <1>4 DEF Restart

\* setRoom: restart opens a room that is closed; close closes the room of who is
\* in charge of it.
LEMMA StoreRoomRooms ==
  ASSUME Inv, LockInv, RoomsInv, NEW c \in Clients, StoreRoom(c)
  PROVE  RoomsInv'
<1> DEFINE r == Entrance(request[c].op, handler[c].name, handler[c].name)
<1>1. /\ handler[c].at = "store" /\ request[c].op \in {"restart", "close"}
      /\ handler[c].name = client[c].user /\ handler[c].name \in DOMAIN rooms
      /\ rooms[handler[c].name] = handler[c].opened
      /\ rooms' = [rooms EXCEPT ![handler[c].name] = (request[c].op = "restart")]
      /\ Answer(c, r) /\ logins' = logins
  BY DEF StoreRoom, Inv, Local, PlaceOfRequest, NameIsUser, LockInv, StoresKnownRoom,
         NoStaleRoomWrite
<1>2. r.op = request[c].op /\ r.code = 0
  BY DEF Entrance
<1> HIDE DEF r
<1>3. /\ Only(c) /\ client' = client /\ request'[c] = Nothing
      /\ reply'[c] = IF Alive(c) THEN r ELSE Nothing
      /\ handler'[c].at = "recv"
      /\ client[c].mode \notin {"bbs"} \cup InRoom /\ reply[c].op = "none"
  BY <1>1, AnswerMeans
<1>4. \A u : u # client[c].user => IsOpen(u)' = IsOpen(u)
  BY <1>1 DEF IsOpen
<1>5. CASE request[c].op = "restart"
  <2>1. ~IsOpen(client[c].user) /\ request[c].token # None
    BY <1>1, <1>5 DEF RoomsInv, RoomOfClient, IsOpen
  <2>2. IsOpen(client[c].user)'
    BY <1>1, <1>3, <1>5 DEF IsOpen
  <2> QED BY <1>1, <1>2, <1>4, <1>5, <2>1, <2>2, OpenedRooms
<1>6. CASE request[c].op = "close"
  <2>1. InCharge(c) /\ ~Opened(c)'
    BY <1>2, <1>3, <1>6 DEF InCharge, Opened, Nothing
  <2>2. ~InCharge(c)'
    <3>1. CASE Alive(c)
      BY <1>2, <1>3, <1>6, <2>1, <3>1 DEF InCharge, InRoom, Nothing
    <3>2. CASE ~Alive(c)
      BY <1>3, <2>1, <3>2 DEF InCharge, InRoom, Nothing, RoomsInv, ServerOfSession
    <3> QED BY <3>1, <3>2
  <2>3. \A d \in Clients : InCharge(d)' =>
          d # c /\ InCharge(d) /\ client'[d].user = client[d].user
          /\ client[d].user # client[c].user
    <3> SUFFICES ASSUME NEW d \in Clients, InCharge(d)'
                 PROVE  d # c /\ InCharge(d) /\ client'[d].user = client[d].user
                        /\ client[d].user # client[c].user
      OBVIOUS
    <3>1. d # c
      BY <2>2
    <3>2. InCharge(d) /\ client'[d] = client[d]
      BY <1>3, <3>1, OthersCharge
    <3> QED BY <2>1, <3>1, <3>2 DEF RoomsInv, OneInCharge
  <2>4. ChargeOfOpenRoom' /\ OneInCharge'
    BY <1>4, <2>3 DEF RoomsInv, ChargeOfOpenRoom, OneInCharge
  <2>5. OneClientOfUser' /\ OnePort'
    BY <1>3 DEF RoomsInv, OneClientOfUser, OnePort, Alive
  <2>6. OpenRoomKeepsSession'
    <3>1. DOMAIN rooms' = DOMAIN rooms /\ \A u \in DOMAIN rooms : rooms'[u] => rooms[u]
      BY <1>1, <1>6
    <3>2. client' = client /\ logins' = logins
      BY <1>1, <1>3
    <3> QED BY <3>1, <3>2 DEF RoomsInv, OpenRoomKeepsSession
  <2>7. ServerOfSession(c) /\ RoomOfClient(c)
    BY DEF RoomsInv
  <2>8. ServerOfSession(c)'
    BY <1>2, <1>3, <1>6, <2>1, <2>7 DEF ServerOfSession, LoggedOut, Nothing, Alive, InRoom
  <2>9. RoomOfClient(c)'
    BY <1>2, <1>3, <1>6, <2>7 DEF RoomOfClient, Receiving, Nothing, Owner
  <2> QED BY <1>3, <2>4, <2>5, <2>6, <2>8, <2>9, RoomsParts
<1> QED BY <1>1, <1>5, <1>6

\* The handlers that answer and change nothing.
LEMMA AnswersRooms ==
  ASSUME Inv, RoomsInv, NEW c \in Clients,
         Unknown(c) \/ ReadName(c) \/ ReadRoom(c)
  PROVE  RoomsInv'
<1>1. UNCHANGED registry
  BY DEF Unknown, ReadName, ReadRoom
<1>2. CASE Unknown(c)
  <2>1. request[c].op \in {"logout", "create", "restart"}
    BY <1>2 DEF Unknown
  <2>2. ASSUME Answer(c, [op |-> request[c].op, code |-> 1]) PROVE RoomsInv'
    BY <1>1, <2>1, <2>2, PlainAnswerKeeps
  <2>3. ASSUME Throw(c) PROVE RoomsInv'
    BY <1>1, <2>3, GotoRooms DEF Throw
  <2> QED BY <1>2, <2>2, <2>3 DEF Unknown
<1>3. CASE ReadName(c)
  <2>1. request[c].op \in {"join", "attach"}
    BY <1>3 DEF ReadName
  <2>2. ASSUME Answer(c, [op |-> request[c].op, code |-> 1]) PROVE RoomsInv'
    BY <1>1, <2>1, <2>2, PlainAnswerKeeps
  <2>3. ASSUME Throw(c) PROVE RoomsInv'
    BY <1>1, <2>3, GotoRooms DEF Throw
  <2>4. ASSUME handler' = [handler EXCEPT ![c] =
                             [at |-> "room", name |-> Name(c), opened |-> FALSE]],
               UNCHANGED <<loginMutex, request, reply, client>>
        PROVE  RoomsInv'
    <3>1. Only(c) /\ handler'[c].at = "room"
      BY <2>4 DEF Inv, ConnectionTypes, Only
    <3> QED BY <1>1, <2>4, <3>1, MoveRooms
  <2> QED BY <1>3, <2>2, <2>3, <2>4 DEF ReadName
<1>4. CASE ReadRoom(c)
  <2>1. request[c].op \in {"join", "attach"}
    BY <1>4 DEF ReadRoom, Inv, Local, PlaceOfRequest
  <2>2. ASSUME NEW r, r.op = request[c].op, Answer(c, r) PROVE RoomsInv'
    BY <1>1, <2>1, <2>2, PlainAnswerKeeps
  <2> QED BY <1>4, <2>2 DEF ReadRoom, Entrance
<1> QED BY <1>2, <1>3, <1>4

\* exit erases its own session: the client has left by exit.
LEMMA HandleExitRooms ==
  ASSUME Inv, RoomsInv, NEW c \in Clients, HandleExit(c)
  PROVE  RoomsInv'
<1>1. /\ request[c].op = "exit" /\ rooms' = rooms /\ client' = client
      /\ reply' = reply /\ Goto(c, "end")
      /\ request' = [request EXCEPT ![c] = Nothing]
  BY DEF HandleExit, Reading
<1>2. Only(c) /\ handler'[c].at = "end" /\ request'[c] = Nothing
  BY <1>1 DEF Goto, Inv, ConnectionTypes, Only
<1>3. client[c].mode = "exited"
  BY <1>1 DEF Inv, Local, RequestOfClient
<1>4. request[c].token = None \/ (/\ request[c].token \in DOMAIN logins
                                  /\ logins[request[c].token] = client[c].user)
  BY <1>1, RequestClaims
<1>5. \A k \in DOMAIN logins : k # request[c].token =>
        k \in DOMAIN logins' /\ logins'[k] = logins[k]
  BY DEF HandleExit, Restrict
<1>6. None \notin DOMAIN logins
  BY SessionsAssumption DEF Inv, RegistryTypes
<1>7. OpenRoomKeepsSession'
  BY <1>1, <1>3, <1>4, <1>5, <1>6 DEF RoomsInv, OpenRoomKeepsSession
<1>8. ServerOfSession(c) /\ RoomOfClient(c)
  BY DEF RoomsInv
<1>9. ServerOfSession(c)' /\ RoomOfClient(c)'
  BY <1>1, <1>2, <1>8 DEF ServerOfSession, RoomOfClient, LoggedOut, Alive, Opened, Owner,
                          Receiving
<1>10. InCharge(c)' => InCharge(c)
  BY <1>1, <1>2 DEF InCharge, Opened, Nothing
<1> QED BY <1>1, <1>2, <1>7, <1>9, <1>10, HandlerRooms

LEMMA HandleRoomsInv ==
  ASSUME Inv, LockInv, RoomsInv, NEW c \in Clients, Handle(c)
  PROVE  RoomsInv'
<1>1. CASE Acquire(c)
  BY <1>1, GotoRooms DEF Acquire
<1>2. CASE Close(c)
  BY <1>2, CopyRooms DEF Close, Held
<1>3. CASE Disconnect(c)
  BY <1>3, GotoRooms DEF Disconnect
<1> QED BY <1>1, <1>2, <1>3, CheckLoginRooms, InsertLoginRooms, LogoutRooms, CreateRoomRooms,
           RestartRooms, StoreRoomRooms, AnswersRooms, HandleExitRooms DEF Handle

-----------------------------------------------------------------------------
(* The clients.                                                            *)

\* A client's step that leaves the registry alone and starts no listener.
LEMMA QuietRun ==
  ASSUME RoomsInv, NEW c \in Clients, Only(c), UNCHANGED registry,
         InCharge(c)' => InCharge(c) /\ client'[c].user = client[c].user,
         Alive(c)' => Alive(c),
         client'[c].user \in {client[c].user, None} \/ ~Alive(c)',
         client'[c].server = "on" => client[c].server = "on",
         client'[c].server # "off" =>
           client[c].server # "off" /\ client'[c].name = client[c].name,
         client[c].mode # "exited",
         ServerOfSession(c)', RoomOfClient(c)'
  PROVE  RoomsInv'
<1>1. ChargeOfOpenRoom' /\ OneInCharge'
  BY ChargeKept DEF registry, IsOpen
<1>2. OneClientOfUser' /\ OnePort' /\ OpenRoomKeepsSession'
  BY ClientKept, PortKept, SessionsKept DEF registry
<1> QED BY <1>1, <1>2, RoomsParts

\* A client that ends, by itself or not, takes its listener with it.
LEMMA EndedRooms ==
  ASSUME Inv, RoomsInv, NEW c \in Clients, NEW m \in {"dead", "exited"}, Ended(c, m),
         Alive(c), UNCHANGED <<registry, handler>>,
         reply' = reply \/ reply' = [reply EXCEPT ![c] = Nothing],
         NEW q, request' = [request EXCEPT ![c] = q],
         q = request[c] \/ q.op = "exit"
  PROVE  RoomsInv'
<1>1. /\ Only(c) /\ client'[c].mode = m /\ client'[c].server = "off"
      /\ client'[c].user = client[c].user /\ client'[c].token = client[c].token
      /\ reply'[c] = reply[c] \/ reply'[c] = Nothing
      /\ handler'[c] = handler[c] /\ request'[c] = q
  BY DEF Ended, Inv, ConnectionTypes, Processes, Only
<1>2. ServerOfSession(c) /\ RoomOfClient(c)
  BY DEF RoomsInv
<1>3. Opened(c)' => Opened(c)
  BY <1>1 DEF Opened, Nothing
<1>4. ServerOfSession(c)' /\ RoomOfClient(c)'
  BY <1>1, <1>2, <1>3 DEF ServerOfSession, RoomOfClient, Receiving, Nothing, Alive, Owner
<1>5. InCharge(c)' => InCharge(c)
  BY <1>1, <1>3 DEF InCharge
<1>6. ~Alive(c)' /\ client[c].mode # "exited"
  BY <1>1 DEF Alive
<1> QED BY <1>1, <1>4, <1>5, <1>6, QuietRun

\* The process of c, with only c touched.
LEMMA ProcessSteps ==
  ASSUME Inv, NEW c \in Clients, NEW p, client' = [client EXCEPT ![c] = p],
         UNCHANGED handler,
         NEW q, request' = [request EXCEPT ![c] = q],
         NEW a, reply' = [reply EXCEPT ![c] = a]
  PROVE  /\ Only(c) /\ client'[c] = p /\ request'[c] = q /\ reply'[c] = a
         /\ handler'[c] = handler[c]
BY DEF Inv, ConnectionTypes, Only

\* At the prompt a client has nothing under way.
LEMMA PromptQuiet ==
  ASSUME Inv, NEW c \in Clients, client[c].mode \in {"bbs"} \cup InRoom
  PROVE  request[c].op = "none" /\ reply[c].op = "none" /\ handler[c].at = "recv"
BY DEF Inv, Local, OneRequest

LEMMA LoginRooms ==
  ASSUME Inv, RoomsInv, NEW c \in Clients, NEW u \in Users, Login(c, u)
  PROVE  RoomsInv'
<1> DEFINE user == IF client[c].token = None THEN u ELSE client[c].user
           p == [client[c] EXCEPT !.mode = "wait", !.user = user]
           q == [op |-> "login", token |-> client[c].token, user |-> u]
<1>1. /\ client[c].mode = "bbs" /\ client[c].server # "stopping" /\ UNCHANGED registry
      /\ \A d \in Clients \ {c} : Alive(d) => client[d].user # u
      /\ client' = [client EXCEPT ![c] = p] /\ request' = [request EXCEPT ![c] = q]
      /\ reply' = [reply EXCEPT ![c] = reply[c]] /\ UNCHANGED handler
  BY DEF Login, Send, Inv, ConnectionTypes
<1>2. /\ p.mode = "wait" /\ p.user = user /\ p.token = client[c].token
      /\ p.name = client[c].name /\ p.server = client[c].server
  BY DEF Inv, ConnectionTypes, Processes
<1>3. q.op = "login"
  OBVIOUS
<1> HIDE DEF p, q
<1>4. /\ Only(c) /\ client'[c] = p /\ request'[c] = q /\ reply'[c] = reply[c]
      /\ handler'[c] = handler[c]
  BY <1>1, ProcessSteps
<1>5. reply[c].op = "none" /\ handler[c].at = "recv"
  BY <1>1, PromptQuiet
<1>6. ServerOfSession(c) /\ RoomOfClient(c) /\ client[c].server \in {"off", "on", "stopping"}
  BY DEF RoomsInv, Inv, ConnectionTypes, Processes
<1>7. client[c].server # "off" => user = client[c].user
  BY <1>1, <1>6 DEF ServerOfSession
<1>8. ServerOfSession(c)' /\ RoomOfClient(c)'
  BY <1>1, <1>2, <1>3, <1>4, <1>5, <1>6, <1>7
     DEF ServerOfSession, RoomOfClient, Opened, LoggedOut, Alive, Receiving
<1>9. ChargeOfOpenRoom' /\ OneInCharge'
  <2>1. InCharge(c)' => InCharge(c) /\ client'[c].user = client[c].user
    BY <1>2, <1>3, <1>4, <1>5, <1>7 DEF InCharge, Opened
  <2> QED BY <1>1, <1>4, <2>1, ChargeKept DEF registry, IsOpen
<1>10. OneClientOfUser'
  <2>1. \A d \in Clients \ {c} : client'[d] = client[d] /\ Alive(d)' = Alive(d)
    BY <1>4 DEF Only, Alive
  <2>2. Alive(c)
    BY <1>1 DEF Alive
  <2> QED BY <1>1, <1>2, <1>4, <2>1, <2>2 DEF RoomsInv, OneClientOfUser
<1>11. OnePort' /\ OpenRoomKeepsSession'
  BY <1>1, <1>2, <1>4, PortKept, SessionsKept DEF registry
<1> QED BY <1>4, <1>8, <1>9, <1>10, <1>11, RoomsParts

\* A command that sends a request and waits; the owner's leaving is one.
LEMMA AskRooms ==
  ASSUME Inv, RoomsInv, NEW c \in Clients, Wait(c),
         client[c].mode = "bbs" \/ (client[c].mode = "chat" /\ client[c].server = "on"),
         UNCHANGED <<registry, reply, handler>>,
         NEW q, request' = [request EXCEPT ![c] = q],
         q.op = "close" => client[c].server = "on"
  PROVE  RoomsInv'
<1> DEFINE p == [client[c] EXCEPT !.mode = "wait"]
<1>1. /\ client' = [client EXCEPT ![c] = p] /\ reply' = [reply EXCEPT ![c] = reply[c]]
  BY DEF Wait, Inv, ConnectionTypes
<1>2. /\ p.mode = "wait" /\ p.user = client[c].user /\ p.token = client[c].token
      /\ p.name = client[c].name /\ p.server = client[c].server
  BY DEF Inv, ConnectionTypes, Processes
<1> HIDE DEF p
<1>3. /\ Only(c) /\ client'[c] = p /\ request'[c] = q /\ reply'[c] = reply[c]
      /\ handler'[c] = handler[c]
  BY <1>1, ProcessSteps
<1>4. reply[c].op = "none" /\ handler[c].at = "recv"
  BY PromptQuiet DEF InRoom
<1>5. ServerOfSession(c) /\ RoomOfClient(c) /\ Alive(c) /\ Alive(c)'
  BY <1>2, <1>3 DEF RoomsInv, Alive
<1>6. ServerOfSession(c)' /\ RoomOfClient(c)'
  BY <1>2, <1>3, <1>4, <1>5
     DEF ServerOfSession, RoomOfClient, Opened, LoggedOut, Receiving
<1>7. InCharge(c)' => InCharge(c)
  BY <1>2, <1>3, <1>4 DEF InCharge, Opened
<1>8. client[c].mode # "exited"
  OBVIOUS
<1> QED BY <1>2, <1>3, <1>5, <1>6, <1>7, <1>8, QuietRun

LEMMA ExitRooms ==
  ASSUME Inv, RoomsInv, NEW c \in Clients, Exit(c)
  PROVE  RoomsInv'
<1>1. Alive(c) /\ UNCHANGED <<registry, handler, reply>>
  BY DEF Exit, Send, Alive
<1> DEFINE q == [op |-> "exit", token |-> client[c].token]
<1>2. request' = [request EXCEPT ![c] = q] /\ q.op = "exit" /\ Ended(c, "exited")
  BY DEF Exit, Send
<1> HIDE DEF q
<1> QED BY <1>1, <1>2, EndedRooms

\* A client that dies leaves its request as it is.
LEMMA DeadRooms ==
  ASSUME Inv, RoomsInv, NEW c \in Clients, Ended(c, "dead"), Alive(c),
         UNCHANGED <<registry, handler, request>>,
         reply' = reply \/ reply' = [reply EXCEPT ![c] = Nothing]
  PROVE  RoomsInv'
<1>1. request' = [request EXCEPT ![c] = request[c]]
  BY DEF Inv, ConnectionTypes
<1> QED BY <1>1, EndedRooms

\* The client takes a reply and is at the prompt again.
LEMMA PromptRooms ==
  ASSUME Inv, RoomsInv, NEW c \in Clients, Receive(c), NEW p \in Processes,
         client' = [client EXCEPT ![c] = p], p.mode = "bbs", p.name = client[c].name,
         \/ p.server = client[c].server
         \/ client[c].server = "on" /\ p.server = "stopping",
         p.user = client[c].user \/ p.user = None,
         p.server = "on" => p.user = client[c].user /\ p.token # None
                            /\ reply[c].op # "close"
  PROVE  RoomsInv'
<1>1. /\ client[c].mode = "wait" /\ reply' = [reply EXCEPT ![c] = Nothing]
      /\ UNCHANGED registry /\ UNCHANGED handler
      /\ request' = [request EXCEPT ![c] = request[c]]
  BY DEF Receive, Inv, ConnectionTypes
<1>2. reply[c].op # "none"
  BY DEF Receive, ReceiveSession, ReceiveRoom, ReceiveClose, Receiving
<1>3. request[c].op = "none" /\ handler[c].at = "recv"
  BY <1>2 DEF Inv, Local, OneRequest
<1>4. /\ Only(c) /\ client'[c] = p /\ request'[c] = request[c] /\ reply'[c] = Nothing
      /\ handler'[c] = handler[c]
  BY <1>1, ProcessSteps
<1>5. ServerOfSession(c) /\ RoomOfClient(c) /\ Alive(c)
  BY <1>1 DEF RoomsInv, Alive
<1>6. ServerOfSession(c)' /\ RoomOfClient(c)'
  BY <1>3, <1>4, <1>5
     DEF ServerOfSession, RoomOfClient, Opened, LoggedOut, Receiving, Nothing, Alive
<1>7. InCharge(c)' => InCharge(c) /\ client'[c].user = client[c].user
  BY <1>3, <1>4 DEF InCharge, Opened, Nothing
<1> QED BY <1>1, <1>4, <1>5, <1>6, <1>7, QuietRun

LEMMA ReceiveSessionRooms ==
  ASSUME Inv, RoomsInv, NEW c \in Clients, Receive(c), ReceiveSession(c)
  PROVE  RoomsInv'
<1> DEFINE token == IF Receiving(c, "login") THEN reply[c].token
                    ELSE IF reply[c].code = 0 THEN None ELSE client[c].token
           user == IF token = None THEN None ELSE client[c].user
           p == [client[c] EXCEPT !.mode = "bbs", !.token = token, !.user = user]
<1>1. /\ client' = [client EXCEPT ![c] = p] /\ reply[c].op \in {"login", "logout"}
      /\ client[c] \in Processes /\ reply[c] \in Replies
  BY DEF ReceiveSession, Inv, ConnectionTypes
<1>2. token \in Tokens \cup {None} /\ user \in {client[c].user, None}
  BY <1>1, ReplyFields, ProcessFields DEF Receiving
<1>3. client[c].server = "on" => token # None
  <2>1. ServerOfSession(c) /\ RoomOfClient(c)
    BY DEF RoomsInv
  <2>2. reply[c].op = "logout" /\ reply[c].code = 0 => LoggedOut(c)
    BY <1>1 DEF LoggedOut, Replies, Nothing, RoomOps
  <2> QED BY <1>1, <2>1, <2>2 DEF ServerOfSession, RoomOfClient, Receiving
<1>4. token # None => user = client[c].user
  OBVIOUS
<1> HIDE DEF token, user
<1>5. /\ p \in Processes /\ p.mode = "bbs" /\ p.token = token /\ p.user = user
      /\ p.name = client[c].name /\ p.server = client[c].server
  BY <1>1, <1>2 DEF Processes
<1> HIDE DEF p
<1> QED BY <1>1, <1>2, <1>3, <1>4, <1>5, PromptRooms

LEMMA ReceiveRoomRooms ==
  ASSUME Inv, RoomsInv, NEW c \in Clients, Receive(c), ReceiveRoom(c)
  PROVE  RoomsInv'
<1>1. /\ reply[c] \in Replies /\ reply[c].op \in {"create", "restart", "join", "attach"}
      /\ client[c] \in Processes /\ client[c].mode = "wait"
  BY DEF Receive, ReceiveRoom, Inv, ConnectionTypes
<1>2. ServerOfSession(c) /\ RoomOfClient(c) /\ Alive(c)
  BY <1>1 DEF RoomsInv, Alive
<1>3. ASSUME client' = [client EXCEPT ![c].mode = "bbs"] PROVE RoomsInv'
  <2> DEFINE p == [client[c] EXCEPT !.mode = "bbs"]
  <2>1. /\ p \in Processes /\ p.mode = "bbs" /\ p.token = client[c].token
        /\ p.user = client[c].user /\ p.name = client[c].name
        /\ p.server = client[c].server /\ client' = [client EXCEPT ![c] = p]
    BY <1>1, <1>3 DEF Processes
  <2> HIDE DEF p
  <2> QED BY <1>1, <1>2, <2>1, PromptRooms DEF ServerOfSession
<1> DEFINE next == IF reply[c].op \in {"create", "restart"} THEN "starting" ELSE "connecting"
<1>4. ASSUME reply[c].code = 0,
             client' = [client EXCEPT ![c].mode = next, ![c].name = reply[c].user,
                                      ![c].room = reply[c].room]
      PROVE  RoomsInv'
  <2> DEFINE p == [client[c] EXCEPT !.mode = next, !.name = reply[c].user,
                                    !.room = reply[c].room]
  <2>1. reply[c].user \in Users /\ reply[c].user = client[c].user
    BY <1>1, <1>4, ReplyFields DEF Inv, Local, NameIsUser, RoomOps
  <2>2. /\ client' = [client EXCEPT ![c] = p] /\ UNCHANGED registry /\ UNCHANGED handler
        /\ reply' = [reply EXCEPT ![c] = Nothing]
        /\ request' = [request EXCEPT ![c] = request[c]]
    BY <1>4 DEF Receive, Inv, ConnectionTypes
  <2>3. /\ p.mode = next /\ p.name = reply[c].user
        /\ p.user = client[c].user /\ p.token = client[c].token
        /\ p.server = client[c].server
    BY <1>1 DEF Processes
  <2> HIDE DEF p
  <2>4. /\ Only(c) /\ client'[c] = p /\ request'[c] = request[c] /\ reply'[c] = Nothing
        /\ handler'[c] = handler[c]
    BY <2>2, ProcessSteps
  <2>5. request[c].op = "none" /\ handler[c].at = "recv"
    BY <1>1 DEF Inv, Local, OneRequest
  <2>6. client[c].server # "off" => reply[c].user = client[c].name
    BY <1>2, <2>1, SessionsAssumption DEF ServerOfSession
  <2>7. next = "starting" => Opened(c)
    BY <1>1, <1>4 DEF Opened
  <2>8. next \in {"starting", "connecting"}
    OBVIOUS
  <2> HIDE DEF next
  <2>9. ServerOfSession(c)' /\ RoomOfClient(c)'
    BY <1>2, <2>1, <2>3, <2>4, <2>5, <2>6, <2>7, <2>8
       DEF ServerOfSession, RoomOfClient, Opened, LoggedOut, Receiving, Nothing, Alive
  <2>10. InCharge(c)' => InCharge(c)
    BY <1>1, <2>3, <2>4, <2>5, <2>7, <2>8 DEF InCharge, Opened, Nothing
  <2>11. /\ UNCHANGED registry /\ client[c].mode # "exited"
         /\ client'[c].user = client[c].user /\ client'[c].server = client[c].server
         /\ client'[c].server # "off" => client'[c].name = client[c].name
    BY <1>1, <2>1, <2>2, <2>3, <2>4, <2>6
  <2> QED BY <1>2, <2>4, <2>9, <2>10, <2>11, QuietRun
<1> QED BY <1>3, <1>4 DEF ReceiveRoom

LEMMA ReceiveRooms ==
  ASSUME Inv, RoomsInv, NEW c \in Clients, Receive(c)
  PROVE  RoomsInv'
<1>1. client[c] \in Processes /\ client[c].mode = "wait" /\ ServerOfSession(c)
  BY DEF Inv, ConnectionTypes, Receive, RoomsInv
<1>2. CASE ReceiveClose(c)
  <2> DEFINE server == IF client[c].server = "on" THEN "stopping" ELSE client[c].server
             p == [client[c] EXCEPT !.mode = "bbs", !.room = None, !.host = None,
                                    !.server = server]
  <2>1. /\ p \in Processes /\ p.mode = "bbs" /\ p.token = client[c].token
        /\ p.user = client[c].user /\ p.name = client[c].name /\ p.server = server
    BY <1>1 DEF Processes
  <2>2. client' = [client EXCEPT ![c] = p]
    BY <1>2 DEF ReceiveClose
  <2>3. server # "on"
    OBVIOUS
  <2> HIDE DEF p
  <2> QED BY <2>1, <2>2, <2>3, PromptRooms
<1> QED BY <1>2, ReceiveSessionRooms, ReceiveRoomRooms DEF Receive

\* A client in a room, or on its way, that goes on without a reply.
LEMMA ModeRooms ==
  ASSUME Inv, RoomsInv, NEW c \in Clients, Inert, NEW p,
         client' = [client EXCEPT ![c] = p],
         p.user = client[c].user, p.name = client[c].name, p.token = client[c].token,
         p.mode # "starting" \/ p.mode = client[c].mode,
         p.mode = client[c].mode \/ p.mode \in {"bbs", "chat", "stuck"},
         p.mode = "chat" /\ p.room = p.name => p.server = "on",
         p.server = client[c].server \/ p.server = "off",
         Alive(c)
  PROVE  RoomsInv'
<1>1. /\ UNCHANGED registry /\ UNCHANGED handler
      /\ reply' = [reply EXCEPT ![c] = reply[c]]
      /\ request' = [request EXCEPT ![c] = request[c]]
  BY DEF Inert, Inv, ConnectionTypes
<1>2. /\ Only(c) /\ client'[c] = p /\ request'[c] = request[c] /\ reply'[c] = reply[c]
      /\ handler'[c] = handler[c]
  BY <1>1, ProcessSteps
<1>3. ServerOfSession(c) /\ RoomOfClient(c) /\ client[c].mode # "exited"
  BY DEF RoomsInv, Alive
<1>4. Alive(c)'
  BY <1>2 DEF Alive
<1>5. ServerOfSession(c)'
  BY <1>2, <1>3, <1>4 DEF ServerOfSession, LoggedOut, Opened
<1>6. RoomOfClient(c)'
  BY <1>2, <1>3 DEF RoomOfClient, Owner, Receiving
<1>7. InCharge(c)' => InCharge(c)
  BY <1>2 DEF InCharge, Opened
<1> QED BY <1>1, <1>2, <1>3, <1>5, <1>6, <1>7, QuietRun

\* Nobody has the port when a listener starts.
LEMMA StartServerRooms ==
  ASSUME Inv, RoomsInv, NEW c \in Clients, StartServer(c)
  PROVE  RoomsInv'
<1>1. client[c] \in Processes /\ client[c].mode = "starting" /\ Inert /\ Alive(c)
  BY DEF StartServer, Inv, ConnectionTypes, Alive
<1>2. CASE Ended(c, "dead")
  BY <1>1, <1>2, DeadRooms DEF Inert
<1>3. ASSUME \A d \in Clients : ~Listens(d, client[c].name),
             client' = [client EXCEPT ![c].mode = "connecting", ![c].server = "on"]
      PROVE  RoomsInv'
  <2> DEFINE p == [client[c] EXCEPT !.mode = "connecting", !.server = "on"]
  <2>1. /\ p.mode = "connecting" /\ p.token = client[c].token /\ p.server = "on"
        /\ p.user = client[c].user /\ p.name = client[c].name
    BY <1>1 DEF Processes
  <2>2. /\ client' = [client EXCEPT ![c] = p] /\ UNCHANGED registry /\ UNCHANGED handler
        /\ reply' = [reply EXCEPT ![c] = reply[c]]
        /\ request' = [request EXCEPT ![c] = request[c]]
    BY <1>1, <1>3 DEF Inert, Inv, ConnectionTypes
  <2> HIDE DEF p
  <2>3. /\ Only(c) /\ client'[c] = p /\ request'[c] = request[c] /\ reply'[c] = reply[c]
        /\ handler'[c] = handler[c]
    BY <2>2, ProcessSteps
  <2>4. /\ request[c].op = "none" /\ reply[c].op = "none" /\ handler[c].at = "recv"
        /\ client[c].name \in Users /\ client[c].name = client[c].user
    BY <1>1, PromptQuiet DEF InRoom, Inv, Local, NameIsUser
  <2>5. ServerOfSession(c) /\ RoomOfClient(c)
    BY DEF RoomsInv
  <2>6. ServerOfSession(c)' /\ RoomOfClient(c)'
    BY <1>1, <2>1, <2>3, <2>4, <2>5
       DEF ServerOfSession, RoomOfClient, Opened, LoggedOut, Receiving, Alive
  <2>7. ChargeOfOpenRoom' /\ OneInCharge'
    <3>1. InCharge(c)
      BY <1>1 DEF InCharge
    <3> QED BY <2>1, <2>2, <2>3, <3>1, ChargeKept DEF registry, IsOpen
  <2>8. OnePort'
    <3>1. \A d \in Clients \ {c} :
            client'[d] = client[d] /\ ~(client[d].server # "off" /\ client[d].name = p.name)
      <4>1. \A d \in Clients \ {c} : client'[d] = client[d]
        BY <2>3 DEF Only
      <4>2. \A d \in Clients \ {c} : ~(client[d].server # "off" /\ client[d].name = p.name)
        BY <1>3, <2>1 DEF Listens
      <4> QED BY <4>1, <4>2
    <3> QED BY <2>3, <3>1 DEF RoomsInv, OnePort
  <2>9. OneClientOfUser' /\ OpenRoomKeepsSession'
    BY <1>1, <2>1, <2>2, <2>3, ClientKept, SessionsKept DEF registry
  <2> QED BY <2>3, <2>6, <2>7, <2>8, <2>9, RoomsParts
<1> QED BY <1>2, <1>3 DEF StartServer

\* Whoever finds the listener of its own room taking guests is its owner.
LEMMA ConnectRooms ==
  ASSUME Inv, RoomsInv, NEW c \in Clients, Connect(c)
  PROVE  RoomsInv'
<1>1. client[c] \in Processes /\ client[c].mode = "connecting" /\ Inert /\ Alive(c)
  BY DEF Connect, Inv, ConnectionTypes, Alive
<1>2. CASE Ended(c, "dead")
  BY <1>1, <1>2, DeadRooms DEF Inert
<1>3. ASSUME NEW d \in Clients, Listens(d, client[c].room),
             client' = [client EXCEPT
               ![c].mode = IF client[d].server = "on" THEN "chat" ELSE "stuck",
               ![c].host = d]
      PROVE  RoomsInv'
  <2> DEFINE mode == IF client[d].server = "on" THEN "chat" ELSE "stuck"
             p == [client[c] EXCEPT !.mode = mode, !.host = d]
  <2>1. /\ p.mode = mode /\ p.token = client[c].token /\ p.user = client[c].user
        /\ p.name = client[c].name /\ p.room = client[c].room
        /\ p.server = client[c].server /\ client' = [client EXCEPT ![c] = p]
    BY <1>1, <1>3 DEF Processes
  <2>2. mode = "chat" => client[d].server = "on"
    OBVIOUS
  <2>3. mode \in {"chat", "stuck"}
    OBVIOUS
  <2> HIDE DEF p, mode
  <2>4. client[c].name \in Users /\ client[c].name = client[c].user
    BY <1>1 DEF InRoom, Inv, Local, NameIsUser
  <2>5. ASSUME mode = "chat", client[c].room = client[c].name
        PROVE  client[c].server = "on"
    <3>1. client[d].name = client[c].name /\ client[d].server = "on"
      BY <1>3, <2>2, <2>5 DEF Listens
    <3>2. client[d].user = client[d].name /\ Alive(d)
      BY <3>1 DEF RoomsInv, ServerOfSession
    <3>3. c = d
      BY <1>1, <2>4, <3>1, <3>2, SessionsAssumption DEF RoomsInv, OneClientOfUser
    <3> QED BY <3>1, <3>3
  <2> QED BY <1>1, <2>1, <2>3, <2>5, ModeRooms
<1> QED BY <1>2, <1>3 DEF Connect

LEMMA LeaveRooms ==
  ASSUME Inv, RoomsInv, NEW c \in Clients, LeaveOwner(c) \/ LeaveRoom(c)
  PROVE  RoomsInv'
<1>1. client[c] \in Processes /\ client[c].mode = "chat" /\ Alive(c)
  BY DEF LeaveOwner, LeaveRoom, Inv, ConnectionTypes, Alive
<1>2. CASE LeaveOwner(c)
  <2>1. client[c].server = "on"
    BY <1>2 DEF LeaveOwner, RoomsInv, RoomOfClient
  <2> QED BY <1>1, <1>2, <2>1, AskRooms DEF LeaveOwner
<1>3. CASE LeaveRoom(c)
  <2> DEFINE p == [client[c] EXCEPT !.mode = "bbs", !.room = None, !.host = None]
  <2>1. /\ p.mode = "bbs" /\ p.token = client[c].token /\ p.user = client[c].user
        /\ p.name = client[c].name /\ p.server = client[c].server
        /\ client' = [client EXCEPT ![c] = p] /\ Inert
    BY <1>1, <1>3 DEF LeaveRoom, Processes
  <2> HIDE DEF p
  <2> QED BY <1>1, <2>1, ModeRooms
<1> QED BY <1>2, <1>3

LEMMA ListenerStopsRooms ==
  ASSUME Inv, RoomsInv, NEW c \in Clients, ListenerStops(c)
  PROVE  RoomsInv'
<1>1. client[c] \in Processes /\ client[c].server = "stopping" /\ Inert
      /\ ServerOfSession(c) /\ RoomOfClient(c)
  BY DEF ListenerStops, Inv, ConnectionTypes, RoomsInv
<1> DEFINE p == [client[c] EXCEPT !.server = "off"]
<1>2. /\ p.mode = client[c].mode /\ p.token = client[c].token
      /\ p.user = client[c].user /\ p.name = client[c].name /\ p.room = client[c].room
      /\ p.server = "off" /\ client' = [client EXCEPT ![c] = p]
  BY <1>1 DEF ListenerStops, Processes
<1> HIDE DEF p
<1>3. Alive(c) /\ ~(p.mode = "chat" /\ p.room = p.name)
  BY <1>1, <1>2 DEF ServerOfSession, RoomOfClient, Owner
<1> QED BY <1>1, <1>2, <1>3, ModeRooms

LEMMA RunRoomsInv ==
  ASSUME Inv, RoomsInv, NEW c \in Clients, Run(c)
  PROVE  RoomsInv'
<1>1. ASSUME NEW u \in Users, Join(c, u) PROVE RoomsInv'
  <2> DEFINE q == [op |-> "join", token |-> client[c].token, room |-> u]
  <2>1. /\ request' = [request EXCEPT ![c] = q] /\ q.op = "join" /\ client[c].mode = "bbs"
        /\ UNCHANGED <<registry, reply, handler>> /\ Wait(c)
    BY <1>1 DEF Join, Send
  <2> HIDE DEF q
  <2> QED BY <2>1, AskRooms
<1>2. ASSUME NEW op \in {"logout", "create", "restart", "attach"}, Ask(c, op)
      PROVE  RoomsInv'
  <2> DEFINE q == [op |-> op, token |-> client[c].token]
  <2>1. /\ request' = [request EXCEPT ![c] = q] /\ q.op # "close" /\ client[c].mode = "bbs"
        /\ UNCHANGED <<registry, reply, handler>> /\ Wait(c)
    BY <1>2 DEF Ask, Send
  <2> HIDE DEF q
  <2> QED BY <2>1, AskRooms
<1>3. CASE Crash(c)
  BY <1>3, DeadRooms DEF Crash
<1>4. CASE ServerGone(c)
  BY <1>4, DeadRooms DEF ServerGone, Inert, Alive
<1> QED BY <1>1, <1>2, <1>3, <1>4, LoginRooms, ExitRooms, ReceiveRooms, StartServerRooms,
           ConnectRooms, LeaveRooms, ListenerStopsRooms DEF Run

-----------------------------------------------------------------------------
(* The invariant, and the theorems.                                        *)

LEMMA InitRooms == Init => RoomsInv
<1> SUFFICES ASSUME Init PROVE RoomsInv
  OBVIOUS
<1>1. \A c \in Clients :
        /\ request[c].op = "none" /\ reply[c].op = "none" /\ handler[c].at = "recv"
        /\ client[c].mode = "bbs" /\ client[c].server = "off" /\ client[c].user = None
  BY DEF Init, Nothing
<1>2. \A c \in Clients : ~InCharge(c) /\ ServerOfSession(c) /\ RoomOfClient(c)
  BY <1>1 DEF InCharge, Opened, ServerOfSession, RoomOfClient, LoggedOut, Receiving
<1>3. OneClientOfUser /\ OnePort /\ OpenRoomKeepsSession
  BY <1>1 DEF Init, OneClientOfUser, OnePort, OpenRoomKeepsSession
<1> QED BY <1>2, <1>3 DEF RoomsInv, ChargeOfOpenRoom, OneInCharge

LEMMA StutterRooms ==
  ASSUME RoomsInv, UNCHANGED vars
  PROVE  RoomsInv'
BY DEF vars, registry, RoomsInv, ChargeOfOpenRoom, OneInCharge, OneClientOfUser, OnePort,
       OpenRoomKeepsSession, InCharge, Opened, IsOpen, Alive, ServerOfSession, RoomOfClient,
       LoggedOut, Receiving, Owner

\* Who is in charge of which room, in every state of Sessions.
THEOREM RoomsInvHolds == Spec => [](Inv /\ RoomsInv)
<1>1. Init => RoomsInv
  BY InitRooms
<1>2. Inv /\ LockInv /\ RoomsInv /\ [Next]_vars => RoomsInv'
  BY HandleRoomsInv, RunRoomsInv, StutterRooms DEF Next
<1> QED BY <1>1, <1>2, InvariantHolds, LockInvHolds, PTL DEF Spec

\* logout is refused while the user's room is open, and no other way of ending a
\* session leaves an open room behind, but exit: on_C_logout looks at the room
\* under the same login_mutex under which rooms are opened.
THEOREM OpenRoomKeepsSessionTheorem == Spec => []OpenRoomKeepsSession
<1>1. RoomsInv => OpenRoomKeepsSession
  BY DEF RoomsInv
<1> QED BY <1>1, RoomsInvHolds, PTL

\* A chat server that takes guests is that of a room which the registry shows as
\* open, and alone on its port, however many clients died while they closed or
\* reopened the room.
THEOREM ServedRoomIsOpenTheorem == Spec => []ServedRoomIsOpen
<1>1. ASSUME Inv, RoomsInv PROVE ServedRoomIsOpen
  <2> SUFFICES ASSUME NEW c \in Clients, NEW d \in Clients, client[c].server = "on"
               PROVE  /\ IsOpen(client[c].name) \/ Closing(c)
                      /\ Listens(d, client[c].name) => d = c
    BY DEF ServedRoomIsOpen
  <2>1. client[c].user = client[c].name
    BY <1>1 DEF RoomsInv, ServerOfSession
  <2>2. IsOpen(client[c].name) \/ Closing(c)
    BY <1>1, <2>1 DEF RoomsInv, ChargeOfOpenRoom, InCharge, Closing
  <2>3. Listens(d, client[c].name) => d = c
    BY <1>1 DEF RoomsInv, OnePort, Listens
  <2> QED BY <2>2, <2>3
<1> QED BY <1>1, RoomsInvHolds, PTL

\* The bind of a room that was just opened meets at most a listener that was told
\* to stop: the BBS opens a room only when nobody serves it.
THEOREM PortFreeUntilServedTheorem == Spec => []PortFreeUntilServed
<1>1. ASSUME Inv, RoomsInv PROVE PortFreeUntilServed
  <2> SUFFICES ASSUME NEW c \in Clients, NEW d \in Clients, client[c].mode = "starting",
                      client[d].server = "on", client[d].name = client[c].name
               PROVE  FALSE
    BY <1>1 DEF PortFreeUntilServed, Listens, Inv, ConnectionTypes, Processes
  <2>1. client[c].name = client[c].user /\ client[c].name \in Users
    BY <1>1 DEF Inv, Local, NameIsUser, InRoom
  <2>2. client[d].user = client[d].name /\ Alive(d) /\ Alive(c)
    BY <1>1 DEF RoomsInv, ServerOfSession, Alive
  <2>3. c = d
    BY <1>1, <2>1, <2>2, SessionsAssumption DEF RoomsInv, OneClientOfUser
  <2> QED BY <1>1, <2>3 DEF RoomsInv, ServerOfSession
<1> QED BY <1>1, RoomsInvHolds, PTL
=============================================================================
