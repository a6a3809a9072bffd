------------------------------ MODULE Sessions ------------------------------
(***************************************************************************)
(* Sessions and the chatroom registry: the login and chatroom handlers of  *)
(* server.cpp, one thread per connection, with the client programs that    *)
(* drive them.                                                             *)
(*                                                                         *)
(* A client sends one request at a time and waits for its reply; its       *)
(* process may die at any time, and its request is then still handled.     *)
(* A dead client does not come back: a user who starts the program again   *)
(* is another element of Clients.  The ports are left out: every room has  *)
(* a port of its own and keeps it, so "the port of the room" is the room.  *)
(***************************************************************************)
EXTENDS Integers, FiniteSets, Functions

CONSTANTS
  Clients,    \* client processes, each with its connection and its handler
  Users,      \* registered users; a user's room has the user's name
  Tokens,     \* the numbers dis(randEngine) draws from
  LoginCaps,  \* the sizes of logins at which on_C_login may give up: 1000 in the code
  None        \* no token, no user, no holder

ASSUME SessionsAssumption ==
  /\ LoginCaps \subseteq Nat
  /\ None \notin Clients \cup Users \cup Tokens

VARIABLES
  loginCap,    \* the size at which on_C_login gives up
  logins,      \* token -> user, the map of server.cpp
  rooms,       \* user -> is the room open: Database::rooms
  loginMutex,  \* the handler that holds login_mutex, or None
  request,     \* the request on each connection
  reply,       \* the reply on each connection
  handler,     \* each handler's place and its local variables
  client       \* each client process

registry == <<logins, rooms>>
vars == <<loginCap, registry, loginMutex, request, reply, handler, client>>

Nothing == [op |-> "none"]

Alive(c) == client[c].mode \notin {"dead", "exited"}

Init ==
  /\ loginCap \in LoginCaps
  /\ logins = [k \in {} |-> None]
  /\ rooms = [u \in {} |-> FALSE]
  /\ loginMutex = None
  /\ request = [c \in Clients |-> Nothing]
  /\ reply = [c \in Clients |-> Nothing]
  /\ handler = [c \in Clients |-> [at |-> "recv", name |-> None, opened |-> FALSE]]
  /\ client = [c \in Clients |->
                 [mode |-> "bbs", token |-> None, user |-> None,
                  name |-> None, room |-> None, host |-> None, server |-> "off"]]

Set(map, key, value) ==
  [k \in DOMAIN map \cup {key} |-> IF k = key THEN value ELSE map[k]]

-----------------------------------------------------------------------------
(* The handlers.                                                           *)

\* create, restart and close hold the lock throughout, and logout up to its
\* reply; the others hold it for the lookup or the insertion only.
LockedWithoutRestart(op) == op \in {"logout", "create", "close"}
Locked(op) == op \in {"logout", "create", "restart", "close"}

Free == loginMutex = None

\* The lock after a handler's scope is left, by return or by an exception; and
\* a lock that is left taken.
KeepMutex(c) == loginMutex
ReleasedMutex(c) == IF loginMutex = c THEN None ELSE loginMutex

Reading(c, op) == handler[c].at = "recv" /\ request[c].op = op
Goto(c, at) == handler' = [handler EXCEPT ![c].at = at]

\* The reply ends the request; a reply to a dead client goes nowhere.
Answer(c, r) ==
  /\ reply' = [reply EXCEPT ![c] =
                 IF Alive(c) THEN r ELSE Nothing]
  /\ request' = [request EXCEPT ![c] = Nothing]
  /\ handler' = [handler EXCEPT ![c] = [at |-> "recv", name |-> None, opened |-> FALSE]]
  /\ loginMutex' = ReleasedMutex(c)
  /\ UNCHANGED client

\* The user's name and the room (its port) that the client is to go to; and a
\* reply in which the name was forgotten.
EntranceUnnamed(op, u, r) == [op |-> op, code |-> 0, user |-> None, room |-> r]
Entrance(op, u, r) == [op |-> op, code |-> 0, user |-> u, room |-> r]

\* An exception leaves handleTCP: the locks are released, the socket closed.
Throw(c) ==
  /\ Goto(c, "end")
  /\ request' = [request EXCEPT ![c] = Nothing]
  /\ loginMutex' = ReleasedMutex(c)
  /\ UNCHANGED <<reply, client>>

\* The password is checked by the user table; then, before the lock is
\* taken, the number of sessions.
CheckLogin(c) ==
  /\ Reading(c, "login")
  /\ \/ /\ request[c].token # None
        /\ Answer(c, [op |-> "login", token |-> request[c].token])
     \/ /\ request[c].token = None
        /\ Answer(c, [op |-> "login", token |-> None])
     \/ /\ request[c].token = None
        /\ Cardinality(DOMAIN logins) >= loginCap
        /\ Throw(c)
     \/ /\ request[c].token = None
        /\ Cardinality(DOMAIN logins) < loginCap
        /\ Goto(c, "insert")
        /\ UNCHANGED <<loginMutex, request, reply, client>>
  /\ UNCHANGED registry

\* The token drawn is not in use; or, without the loop, is any token.
AnyToken(k) == k \in Tokens
Fresh(k) == k \in Tokens \ DOMAIN logins

InsertLogin(c) ==
  /\ handler[c].at = "insert"
  /\ Free
  /\ \E k \in Tokens :
       /\ Fresh(k)
       /\ logins' = Set(logins, k, request[c].user)
       /\ Answer(c, [op |-> "login", token |-> k])
  /\ UNCHANGED rooms

\* The first step of a handler that needs the lock throughout.
Acquire(c) ==
  /\ handler[c].at = "recv"
  /\ request[c].op \in {"logout", "create", "restart", "close"}
  /\ \/ /\ Locked(request[c].op)
        /\ Free
        /\ loginMutex' = c
     \/ /\ ~Locked(request[c].op)
        /\ UNCHANGED loginMutex
  /\ Goto(c, "held")
  /\ UNCHANGED <<registry, request, reply, client>>

Held(c, op) == handler[c].at = "held" /\ request[c].op = op

\* logins.at(token): the user, or an exception.
Session(c) == request[c].token \in DOMAIN logins
Name(c) == logins[request[c].token]

Unknown(c) ==
  /\ handler[c].at = "held"
  /\ request[c].op \in {"logout", "create", "restart"}
  /\ \/ /\ request[c].token = None
        /\ Answer(c, [op |-> request[c].op, code |-> 1])
     \/ /\ request[c].token # None
        /\ ~Session(c)
        /\ Throw(c)
  /\ UNCHANGED registry

\* Whether the session may end, given the user's room; and the rule without
\* the room.
EndAnySession(u) == TRUE
MayLogout(u) == u \in DOMAIN rooms => ~rooms[u]

Logout(c) ==
  /\ Held(c, "logout")
  /\ Session(c)
  /\ \/ /\ ~MayLogout(Name(c))
        /\ Answer(c, [op |-> "logout", code |-> 2])
        /\ UNCHANGED logins
     \/ /\ MayLogout(Name(c))
        /\ logins' = Restrict(logins, DOMAIN logins \ {request[c].token})
        /\ Answer(c, [op |-> "logout", code |-> 0])
  /\ UNCHANGED rooms

CreateRoom(c) ==
  /\ Held(c, "create")
  /\ Session(c)
  /\ \/ /\ Name(c) \in DOMAIN rooms
        /\ Answer(c, [op |-> "create", code |-> 2])
        /\ UNCHANGED rooms
     \/ /\ Name(c) \notin DOMAIN rooms
        /\ rooms' = Set(rooms, Name(c), TRUE)
        /\ Answer(c, Entrance("create", Name(c), Name(c)))
  /\ UNCHANGED logins

\* getRoom copies the room; restart and close change the copy and store it.
Copy(c, u) ==
  /\ handler' = [handler EXCEPT ![c] =
                   [at |-> "store", name |-> u, opened |-> rooms[u]]]
  /\ UNCHANGED <<loginMutex, request, reply, client>>

\* A room that is open is not restarted; and restart without that test.
AnyRoom(u) == TRUE
Restartable(u) == ~rooms[u]

Restart(c) ==
  /\ Held(c, "restart")
  /\ Session(c)
  /\ \/ /\ Name(c) \notin DOMAIN rooms
        /\ Answer(c, [op |-> "restart", code |-> 2])
     \/ /\ Name(c) \in DOMAIN rooms
        /\ ~Restartable(Name(c))
        /\ Answer(c, [op |-> "restart", code |-> 3])
     \/ /\ Name(c) \in DOMAIN rooms
        /\ Restartable(Name(c))
        /\ Copy(c, Name(c))
  /\ UNCHANGED registry

\* on_C_close_chatroom goes by the name the client sends.  That is the name of a
\* room that exists, and rooms are not removed: the reply without a port, for a
\* name that is not there, is never sent.
Close(c) ==
  /\ Held(c, "close")
  /\ request[c].user \in DOMAIN rooms
  /\ Copy(c, request[c].user)
  /\ UNCHANGED registry

StoreRoom(c) ==
  /\ handler[c].at = "store"
  /\ rooms' = [rooms EXCEPT ![handler[c].name] = (request[c].op = "restart")]
  /\ Answer(c, Entrance(request[c].op, handler[c].name, handler[c].name))
  /\ UNCHANGED logins

\* join and attach read the name under the lock and the room after it.
ReadName(c) ==
  /\ handler[c].at = "recv"
  /\ request[c].op \in {"join", "attach"}
  /\ \/ /\ request[c].token = None
        /\ Answer(c, [op |-> request[c].op, code |-> 1])
     \/ /\ request[c].token # None
        /\ Free
        /\ ~Session(c)
        /\ Throw(c)
     \/ /\ request[c].token # None
        /\ Free
        /\ Session(c)
        /\ handler' = [handler EXCEPT ![c] =
                         [at |-> "room", name |-> Name(c), opened |-> FALSE]]
        /\ UNCHANGED <<loginMutex, request, reply, client>>
  /\ UNCHANGED registry

ReadRoom(c) ==
  LET u == handler[c].name
      r == IF request[c].op = "join" THEN request[c].room ELSE u
  IN /\ handler[c].at = "room"
     /\ \/ /\ r \notin DOMAIN rooms
           /\ Answer(c, [op |-> request[c].op, code |-> 2])
        \/ /\ r \in DOMAIN rooms
           /\ ~rooms[r]
           /\ Answer(c, [op |-> request[c].op,
                         code |-> IF request[c].op = "join" THEN 2 ELSE 3])
        \/ /\ r \in DOMAIN rooms
           /\ rooms[r]
           /\ Answer(c, Entrance(request[c].op, u, r))
     /\ UNCHANGED registry

\* on_C_exit erases without login_mutex: while another handler is inside,
\* the erasure may be lost.  The next recv on the closed socket ends the thread.
HandleExit(c) ==
  /\ Reading(c, "exit")
  /\ \/ logins' = Restrict(logins, DOMAIN logins \ {request[c].token})
     \/ ~Free /\ UNCHANGED logins
  /\ Goto(c, "end")
  /\ request' = [request EXCEPT ![c] = Nothing]
  /\ UNCHANGED <<rooms, loginMutex, reply, client>>

\* recv returns 0: nothing is done about the session or the room.
Disconnect(c) ==
  /\ handler[c].at = "recv"
  /\ request[c] = Nothing
  /\ client[c].mode = "dead"
  /\ Goto(c, "end")
  /\ UNCHANGED <<registry, loginMutex, request, reply, client>>

Handle(c) ==
  \/ CheckLogin(c) \/ InsertLogin(c) \/ Acquire(c) \/ Unknown(c)
  \/ Logout(c) \/ CreateRoom(c) \/ Restart(c) \/ Close(c) \/ StoreRoom(c)
  \/ ReadName(c) \/ ReadRoom(c) \/ HandleExit(c) \/ Disconnect(c)

-----------------------------------------------------------------------------
(* The client programs.                                                    *)

\* A request from the BBS prompt; the client then waits for the reply.
Send(c, r) ==
  /\ client[c].mode = "bbs"
  /\ request' = [request EXCEPT ![c] = r]
  /\ UNCHANGED <<registry, loginMutex, reply, handler>>

Wait(c) == client' = [client EXCEPT ![c].mode = "wait"]

\* A user types at one client at a time: another client of the user's may be
\* dead, but is not running.  A listener that was told to stop has stopped by
\* the time its user logs in again.
Login(c, u) ==
  /\ client[c].server # "stopping"
  /\ \A d \in Clients \ {c} : Alive(d) => client[d].user # u
  /\ Send(c, [op |-> "login", token |-> client[c].token, user |-> u])
  /\ client' = [client EXCEPT ![c].mode = "wait",
                              ![c].user = IF client[c].token = None THEN u ELSE @]

\* These send the token alone.
Ask(c, op) ==
  /\ Send(c, [op |-> op, token |-> client[c].token])
  /\ Wait(c)

Join(c, r) ==
  /\ Send(c, [op |-> "join", token |-> client[c].token, room |-> r])
  /\ Wait(c)

\* The process ends, and its chat server with it.
Ended(c, mode) ==
  client' = [client EXCEPT ![c].mode = mode, ![c].server = "off"]

Exit(c) ==
  /\ Send(c, [op |-> "exit", token |-> client[c].token])
  /\ Ended(c, "exited")

\* A signal, the end of the input or an error ends the client at any point.
Crash(c) ==
  /\ Alive(c)
  /\ Ended(c, "dead")
  /\ reply' = [reply EXCEPT ![c] = Nothing]
  /\ UNCHANGED <<registry, loginMutex, request, handler>>

Receiving(c, op) == reply[c].op = op

ReceiveSession(c) ==
  /\ reply[c].op \in {"login", "logout"}
  /\ LET token == IF Receiving(c, "login") THEN reply[c].token
                  ELSE IF reply[c].code = 0 THEN None ELSE client[c].token
     IN client' = [client EXCEPT ![c].mode = "bbs", ![c].token = token,
                                 ![c].user = IF token = None THEN None ELSE @]

\* A room of one's own is served before it is entered.
ReceiveRoom(c) ==
  /\ reply[c].op \in {"create", "restart", "join", "attach"}
  /\ \/ /\ reply[c].code # 0
        /\ client' = [client EXCEPT ![c].mode = "bbs"]
     \/ /\ reply[c].code = 0
        /\ client' = [client EXCEPT
             ![c].mode = IF reply[c].op \in {"create", "restart"}
                         THEN "starting" ELSE "connecting",
             ![c].name = reply[c].user,
             ![c].room = reply[c].room]

\* The reply to close: the listener is then told to stop.
ReceiveClose(c) ==
  /\ Receiving(c, "close")
  /\ client' = [client EXCEPT ![c].mode = "bbs", ![c].room = None, ![c].host = None,
                              ![c].server = IF @ = "on" THEN "stopping" ELSE @]

Receive(c) ==
  /\ client[c].mode = "wait"
  /\ \/ ReceiveSession(c) \/ ReceiveRoom(c) \/ ReceiveClose(c)
  /\ reply' = [reply EXCEPT ![c] = Nothing]
  /\ UNCHANGED <<registry, loginMutex, request, handler>>

Inert == UNCHANGED <<registry, loginMutex, request, reply, handler>>

\* The connection to the BBS ended without a reply: the reply's missing field
\* throws, and nothing catches it.
ServerGone(c) ==
  /\ client[c].mode = "wait"
  /\ handler[c].at = "end"
  /\ reply[c] = Nothing
  /\ Ended(c, "dead")
  /\ Inert

\* The process whose listener has a room's port.
Listens(d, r) == client[d].server # "off" /\ client[d].name = r

\* bind fails, and the client gives up, while the listener of the room's last
\* opening has not closed the port.
StartServer(c) ==
  /\ client[c].mode = "starting"
  /\ \/ /\ \A d \in Clients : ~Listens(d, client[c].name)
        /\ client' = [client EXCEPT ![c].mode = "connecting", ![c].server = "on"]
     \/ /\ \E d \in Clients : Listens(d, client[c].name)
        /\ Ended(c, "dead")
  /\ Inert

\* A listener that is told to stop accepts no one else: whoever connects then
\* waits for ever.
Connect(c) ==
  /\ client[c].mode = "connecting"
  /\ \/ \E d \in Clients :
          /\ Listens(d, client[c].room)
          /\ client' = [client EXCEPT
               ![c].mode = IF client[d].server = "on" THEN "chat" ELSE "stuck",
               ![c].host = d]
     \/ /\ \A d \in Clients : ~Listens(d, client[c].room)
        /\ Ended(c, "dead")
  /\ Inert

Owner(c) == client[c].room = client[c].name

\* The owner leaves: told to close the room, the client asks the BBS to.
LeaveOwner(c) ==
  /\ client[c].mode = "chat"
  /\ Owner(c)
  /\ Alive(client[c].host)
  /\ request' = [request EXCEPT ![c] = [op |-> "close", token |-> None,
                                        user |-> client[c].name]]
  /\ Wait(c)
  /\ UNCHANGED <<registry, loginMutex, reply, handler>>

\* A guest leaves, the owner detaches: back to the prompt, the room stays.
LeaveRoom(c) ==
  /\ client[c].mode = "chat"
  /\ Alive(client[c].host)
  /\ client' = [client EXCEPT ![c].mode = "bbs", ![c].room = None, ![c].host = None]
  /\ Inert

ListenerStops(c) ==
  /\ client[c].server = "stopping"
  /\ client' = [client EXCEPT ![c].server = "off"]
  /\ Inert

Run(c) ==
  \/ \E u \in Users : Login(c, u) \/ Join(c, u)
  \/ \E op \in {"logout", "create", "restart", "attach"} : Ask(c, op)
  \/ Exit(c) \/ Crash(c) \/ Receive(c) \/ ServerGone(c) \/ StartServer(c)
  \/ Connect(c) \/ LeaveOwner(c) \/ LeaveRoom(c) \/ ListenerStops(c)

Next ==
  /\ \E c \in Clients : Handle(c) \/ Run(c)
  /\ UNCHANGED loginCap

Spec == Init /\ [][Next]_vars

-----------------------------------------------------------------------------
(* Properties.                                                             *)

RoomOps == {"create", "restart", "join", "attach"}

Requests ==
  {Nothing}
  \cup [op : {"login", "close"}, token : Tokens \cup {None}, user : Users]
  \cup [op : {"logout", "create", "restart", "attach", "exit"}, token : Tokens \cup {None}]
  \cup [op : {"join"}, token : Tokens \cup {None}, room : Users]

Replies ==
  {Nothing}
  \cup [op : {"login"}, token : Tokens \cup {None}]
  \cup [op : {"logout"}, code : 0 .. 2]
  \cup [op : RoomOps, code : 1 .. 3]
  \cup [op : {"close"} \cup RoomOps, code : {0}, user : Users, room : Users]

Processes ==
  [mode : {"bbs", "wait", "starting", "connecting", "chat", "stuck", "dead", "exited"},
   token : Tokens \cup {None}, user : Users \cup {None}, name : Users \cup {None},
   room : Users \cup {None}, host : Clients \cup {None},
   server : {"off", "on", "stopping"}]

\* The variables stay in their sets, and a login has the number of one token.
TypeOK ==
  /\ loginCap \in LoginCaps
  /\ DOMAIN logins \subseteq Tokens
  /\ logins \in [DOMAIN logins -> Users]
  /\ DOMAIN rooms \subseteq Users
  /\ rooms \in [DOMAIN rooms -> BOOLEAN]
  /\ loginMutex \in Clients \cup {None}
  /\ request \in [Clients -> Requests]
  /\ reply \in [Clients -> Replies]
  /\ handler \in [Clients -> [at : {"recv", "insert", "held", "room", "store", "end"},
                              name : Users \cup {None}, opened : BOOLEAN]]
  /\ client \in [Clients -> Processes]

LoggedOut(c) == reply[c] = [op |-> "logout", code |-> 0]

\* A running client's session is its user's until it logs out: no other login,
\* logout or exit takes the token away or gives it to someone else, and a
\* handler of a running client ends only when on_C_login throws.
SessionIntact ==
  \A c \in Clients : Alive(c) =>
    /\ client[c].token # None /\ ~LoggedOut(c) =>
         client[c].token \in DOMAIN logins /\ logins[client[c].token] = client[c].user
    /\ Receiving(c, "login") /\ reply[c].token # None =>
         reply[c].token \in DOMAIN logins /\ logins[reply[c].token] = client[c].user
    /\ handler[c].at = "end" => client[c].token = None

\* restart and close change a copy of the room: when a handler stores its copy,
\* the room is still what the handler read.
NoStaleRoomWrite ==
  \A c \in Clients : handler[c].at = "store" =>
    rooms[handler[c].name] = handler[c].opened

\* logout's refusal works: the user of an open room is logged in somewhere, or
\* has left by exit, which asks nothing about the room.
OpenRoomKeepsSession ==
  \A u \in DOMAIN rooms : rooms[u] =>
    \/ \E k \in DOMAIN logins : logins[k] = u
    \/ \E c \in Clients : client[c].mode = "exited" /\ client[c].user = u

IsOpen(u) == u \in DOMAIN rooms /\ rooms[u]
Closing(c) == "close" \in {request[c].op, reply[c].op}

\* A chat server that takes guests is the only one of its room, and the
\* registry says that the room is open, but for the moment in which the owner
\* closes it.
ServedRoomIsOpen ==
  \A c, d \in Clients : client[c].server = "on" =>
    /\ IsOpen(client[c].name) \/ Closing(c)
    /\ Listens(d, client[c].name) => d = c

\* A client starts to serve a room only when no listener has the room's port,
\* but for one that was told to stop.
PortFreeUntilServed ==
  \A c, d \in Clients : client[c].mode = "starting" =>
    (Listens(d, client[c].name) => client[d].server = "stopping")

Status(u) == IF u \in DOMAIN rooms THEN rooms[u] ELSE None

\* The registry's entry of a user changes only by the handler of a client of
\* that user: nobody opens or closes another's room, though close goes by the
\* name that the client sends.
RoomsChangedByOwner ==
  [][\A u \in Users : Status(u) # Status(u)' =>
       \E c \in Clients : client[c].user = u /\ handler[c] # handler'[c]]_vars

\* The handlers that work on a room or end a session have login_mutex, and who
\* is done lets it go, also by an exception.
InsideHoldsLock ==
  \A c \in Clients : handler[c].at \in {"held", "store"} <=> loginMutex = c

\* "exit: Close chatroom and connection to BBS" (the assignment): the rooms of
\* a user whose client has left by exit, and whose exit was handled, are closed.
ExitClosesRoom ==
  \A c \in Clients :
    (/\ client[c].mode = "exited"
     /\ handler[c].at = "end"
     /\ client[c].user \in DOMAIN rooms
     /\ \A d \in Clients \ {c} : client[d].user # client[c].user)
    => ~rooms[client[c].user]
=============================================================================
