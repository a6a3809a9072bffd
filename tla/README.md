# A verification of NP-HW3

NP-HW3 is a bulletin board system over TCP and UDP with chatrooms. A BBS server
(`src/server`) keeps users, sessions, boards, posts and the registry of
chatrooms; each client (`src/client`) is a command prompt, and the client of a
room's owner is also that room's chat server. The specification of the program
is the assignment `src/Intro2NP_HW3_V3.pdf`.

This directory holds TLA+ modules of the parts in which several threads or
processes meet, the TLC configurations that check them on small instances, and
theorems that the TLA+ proof system checks for all instances.

## 1. Inventory

| component | source | state | operations |
|---|---|---|---|
| bulletin board | `server/database.cpp` | `boards` (name to index), `boardInfos` (name, moderator, serials), `postSerial`, `posts`; `boardmux`, `postmux` | `createBoard`, `createPost`, `listBoards`, `listPosts`, `readPost`, `deletePost`, `updatePost`, `comment` |
| sessions and chatroom registry | `server/server.cpp`, `Database::rooms` | `logins` (number to user), `login_mutex`; `rooms` (name, port, open), `roommux` | the handlers of login, logout, exit and of the chatroom commands |
| BBS dispatch | `server/server.cpp` | a thread per connection, one thread for datagrams | accept, read, dispatch by type, end; register, whoami and list-chatroom in the thread for datagrams |
| chat server | `client/server_part.cpp` | `connected`, `conn_mux`, `last_three`, `msg_mux`, `chat_listen_so` | the listener, a thread per connection, the broadcast |
| client | `client/client.cpp`, `client_part.cpp` | mode (BBS or chat), session number, name, the chat socket | commands, the receiving thread |
| TCP framing | `socket.cpp` | reference counts of descriptors | a frame is a length and a body, in two `send`s |
| reliable UDP | `socket.cpp` | message ids, table of unfinished messages | send, acknowledge, ask again, time out |
| serialisation | `socket.cpp` | none | a map of fields to bytes and back |
| user accounts | `server/database.cpp` | a sqlite table | create, add, look up, list |

How they interact. A handler thread of the BBS serves one connection and calls
the methods of `Database` on a global object, so the methods run concurrently; a
session is looked up under `login_mutex` before a method is called. A client
sends one request and waits for its answer. The answers to create, restart, join
and attach name a room and its port; the client starts the chat server there, if
the room is its own, and connects to it. From then on it talks to the chat
server, its receiving thread reads what comes, and an order to exit brings the
prompt back. When the owner leaves, its receiving thread asks the BBS to close
the room, and then stops the listener.

What is hard in it:

- the methods of `Database` change two structures one after the other, and hold
  references into `std::map`s across several statements;
- handlers read the registry under one lock and write it under another, or with
  none (`on_C_exit`), and test the bound of `logins` before they lock;
- a client may die at any point, and its request is still carried out;
- the status of a room, its listener and its members change in different
  processes, in an order that the messages decide;
- the chat server puts a newcomer on the list of receivers before it greets it,
  under two locks that are never held together;
- the end of one connection is handled in the thread of the owner's process, and
  an exception there ends more than that connection;
- datagrams may be lost, delayed and reordered; the messages of all senders are
  collected in one table, and the two directions number theirs independently;
- the three threads of a client share the mode, two socket pointers and a flag,
  and the only lock among them is one that the notifying side does not take.

What makes each part correct: the structures of the board agree with each other
and each call looks atomic; a session belongs to its user until logout, and a
room is open exactly while somebody serves it; nobody in a room misses a line,
all see the lines in one order, the list of receivers and the threads agree, and
who leaves gets its prompt back; a command sent by UDP is carried out once and
answered with its own answer; a message is handed over whole; the threads of a
client leave each other's sockets alone, and a room that is closed can be opened
again. `PROJECT.json` lists the hazards, each at its
line, with the properties that would notice it going wrong.

## 2. The modules

    BoardCalls            calls, answers and data of the board
      BulletinBoard       what the board promises: each call is atomic
      BoardStore          the methods of Database, lock by lock; refines BulletinBoard
        MCBoardStore      instances for TLC
        BoardStoreProofs  types, locks and posts
        BoardListsProofs  the boards, their entries and lists
        BoardRefinementProofs  BoardStore implements BulletinBoard
    Sessions              the handlers, the registry and the clients
      MCSessions          instances for TLC
      SessionsProofs      types, session numbers, login_mutex, rooms and ports
    ChatRoom              the chat server and its members
      MCChatRoom          instances for TLC
      ChatRoomProofs      admission, receivers, lines and greetings
    ClientThreads         the three threads of a client's process
      ClientThreadsProofs types, pointers, and who is refused
    AccountCalls          what the commands by UDP promise: each takes effect once
      UdpService          the commands by UDP; refines AccountCalls
        ReliableUDP       the sockets it extends: packets, acknowledgements, timers
        MCUdpService      instances for TLC
        UdpProofs         acknowledgements, types, whole messages, refinement
    ListLemmas            facts on lists for all the proofs

### BoardStore

A thread's call goes through the places of `pc`: `lock` (once per
`std::unique_lock`, in the order of the declarations), `body` (the checks), a
place for each write after the first, `unlock` (in the reverse order) and
`return`. `Locks(op)` is the table of the locks that the methods declare. A map
access by `.at()` that would fail is the answer `Thrown`, after which the locks
are released as by the destructors. A reference into `posts` is the serial in
the call: the steps that write through it are `UnlistSerial`, `DropPost`,
`UpdatePost` and `Comment`. Strings are elements of constant sets; the answer of
a method is the code of its message with what a listing shows. The date of a
post is left out.

`BulletinBoard` has the same calls and answers, one list of boards, and one step
per call. `BoardStore` implements it with `createBoard` taking effect when the
entry is appended, `createPost` when the post is inserted and `deletePost` when
the serial leaves the list (`InfosBar`, `PostsBar`, `NextBar`, `AnswerBar`).

### Sessions

`logins` and `rooms` are the maps of the code; `request` and `reply` are the two
directions of each connection; `handler` is the place and the locals of each
handler thread; `client` each client process. A handler that holds `login_mutex`
throughout is two or three actions (`Acquire`, the body, and for restart and
close `StoreRoom`, because `getRoom` and `setRoom` are separate critical
sections of the database); one that locks for a lookup only is split after it
(`ReadName`, `ReadRoom`), and so is login, which tests the bound without the
lock (`CheckLogin`, `InsertLogin`). `whoami` is not a handler of these threads: it
comes by UDP, to the one thread of `dispatchUDP` (`UdpService`), which takes
`login_mutex` for a lookup and changes nothing. `on_C_close_chatroom` answers
without a port when the room is not there; it is, for the client sends the name of
the room that it has created, and rooms are not removed. An exception in a handler releases the locks
and ends the connection (`Throw`). `on_C_exit` erases without the lock: while
another handler is inside, the model lets the erasure be lost. That is one
outcome of the data race; damage to the map itself is not modelled. `loginCap`,
the number of sessions at which `on_C_login` gives up, is picked at the start
from `LoginCaps` and stays (1000 in the code): so one run has both a bound that
is reached and one that is not.

The outcome of the password check is a choice. Ports are left out: the
assignment says that all ports are different, so the port of a room is the room.

What is assumed of the users, because the assignment says so or because the
other case is about the terminal rather than the program: a user types at one
client at a time (the assignment: no need to consider that users log in on a
different client), and a listener that was told to stop has stopped before its
user logs in again. A client whose connection to a chat server is never
accepted, or whose chat server died, does nothing more, but may be killed.

### ChatRoom

A room is open and its owner is in it. `listener` is the listener thread;
`thread` is the place of each connection's thread; `connected` and `connMux` are
the list and its lock, with a broadcast (`cast`) sending to one receiver per
step; `lastThree` is `last_three`, `said` everything that was ever recorded.
`toServer` is what each thread has yet to read; `toClient` keeps everything that
was sent to a client, so that properties can speak of the order. A frame is two
`send`s. Under `conn_mux` nobody can come between them, so they are one step;
the greeting is sent without it and is two (`Half`, `Greeting`), and a client
that finds anything but the greeting after the half cannot read on (`Garbled`).
A socket that is closed with data unread resets the connection: the other side
reads -1 instead of the end (`Close`, `Die`, `Terminate`).

What is assumed: nothing is typed between leave-chatroom and the return of the
prompt; the owner's process does not die by itself here (in `Sessions` it does).
A client that cannot read its stream is `stuck`, as the code leaves it.

### ReliableUDP, UdpService, AccountCalls

`ReliableUDP` is `UDP_socket`, one socket for each client and one for the
server. `place` is where the socket's thread is: in `send` (`send` a packet,
`poll` for a datagram without waiting, `wait` for the acknowledgement), in
`recv`, or between the calls (`idle`, `got`). `unfinished` is
`unfinished_msgs`, by sender and number; an entry has the id of the packet that
is next and what the collected bytes start with (`part` of a message, the
`whole` of it, or `neither`), which is all that `Deserialize` can tell.
`Noted` and `Missed` are the two results of `insert_check`; `PollResend`,
`PollMine`, `WaitAck` and `WaitResend` are the branches of `send`, with its
jumps back to an earlier packet; `RecvReady`, `RecvLast`, `RecvOther` and
`RecvAsk` those of `recv`. What `recv` reads before it was set is a choice
(`RecvReady`). Two networks are modelled (`setting.orderly`): one that loses
datagrams but keeps their order and is faster than the timers, the other
delaying and reordering at will, so that a timer may run out at any time.

`UdpService` puts the callers on top: a client's `Ask` and `TakeAnswer`, which
takes whatever message comes; `Serve`, one turn of `dispatchUDP` with
`on_C_register`, `on_C_whoami` and `on_C_list_chatroom`; and `Terminate`, the
exception of `addUser`. `AccountCalls` promises that a call takes effect once
between its sending and its answer and that the answer is what that effect gave.
The refinement maps `taken` (the table of users), `asked` and `answered` to
themselves and takes the outcome of the first execution as the effect.

### ClientThreads

One client's process: the main thread (`main`, from the prompt through
`startServer`, the wait for `chat_server_ready` and `startChat`), for each visit
to a room the thread of `recvMessage` (`receiver`), and for each opening of the
own room `server_listener` (`listener`). Each reads or writes one shared variable
per step: `mode`, `chat_TCPsock` (`sock`), `chat_listen_so` (`listenSock`),
`chat_server_ready` (`ready`). The condition variable has `test`, `block`,
`asleep`: `notify_all` wakes only who is `asleep`. A socket object is a number;
a use of one that is not in `heap` ends the behaviour with
`fate = "undefined"`, a call of `error()` with `"exited"`. `bound` is the socket
that has the port, `queue` who has connected and is not accepted. Lines are not
followed: the threads react only to the orders to exit.

The user types whatever and whenever the prompt lets it: while an order to exit is
on its way, while the threads of the last visit are not done, while the owner of
another's room sends everybody away (`SendAway`, at any moment). The history
variable `hasty` records that a command of the BBS fell into one of two windows
(`TooEarly`): the receiving thread has set the mode and has yet to delete the socket
and to clear the pointer; or `restart-chatroom` comes while the listener of the
closed room still has its port. What the code does then is modelled as well, and is
told in section 4.

A connection to another's room may be refused (`Connect`: `fate = "refused"`);
`error()` then ends the process, and this is no fault of its threads. What is not
followed: the connection of a guest is not cut by the death of the room's owner
(`ChatRoom` has the members' streams, `Sessions` the deaths).

## 3. The runs

Each run is `tlc -config X.cfg M.tla`, with the module that `PROJECT.json`
names. Bounds on what is issued are the constants named as bounds in the
modules. They limit the length of a history; no guard of the code is replaced by
one.

| run | instance | states | what it shows |
|---|---|---|---|
| `store_data` | 2 threads, 2 boards, 2 users, 1 post (2 when calls overlap), 1 comment | 850 k | index map, entries, lists and posts agree at every step, no serial is listed or given twice, a post is changed by its author only; no unguarded access, no cycle of waiting threads, no reference to a deleted post, no failed `.at()`; and the store implements `BulletinBoard` |
| `sessions` | 2 clients, 2 users, 3 numbers, bounds 1 and 2 | 310 k | sessions, registry and chat servers agree, with clients dying at any point and logins refused |
| `sessions_exit` | 2 clients, 1 user | | violation of `ExitClosesRoom` |
| `chat_lines` | owner, 1 mortal guest, 1 visit each, 2 lines, greeting of 1 | 87 k | nobody misses a line, greetings are recent, all see one order; what is sent is served, the prompt returns, and who joins is admitted or turned away |
| `chat_visits` | owner, 1 mortal guest, 2 visits each, 2 openings | 630 k | list of receivers, threads, status and listener agree; nobody is sent a line after the order to exit |
| `chat_garbled`, `chat_reset` | owner, 1 or 2 guests | | violations, see below |
| `udp` | 5 settings: two clients or three commands of one, replies of 1 to 3 packets, reordering and delays or one lost datagram | 180 k | no false acknowledgement; only whole messages are handed over, also when a request for packet 0 comes after its message and begins an entry of the table; commands take effect once and are answered |
| `udp_answer` | 1 client, lists of 3 packets, one lost datagram | | violation of `AssociatedAnswer` |
| `client` | 3 visits, 2 openings, 1 unread command on a connection | 99 k | only what is typed into a room that is being left meets a deleted socket, the own room refuses nobody, leaving and closing complete |
| `client_stray` | 2 visits, 2 openings | | violation of `NoStrayPointer` |
| `client_wakeup` | 1 visit, 1 opening | | violation of `OwnerEnters` |

Why the bounds are enough. On the board two threads make every pair of methods
overlap; one post is created, listed, deleted and asked for after its deletion,
and two boards tell the lists apart; for every property of this run a theorem covers
any number of threads. For the sessions, two
clients make every pair of handlers overlap, also a dead client's with that of
the next client of the same user, and three numbers leave one unused; with bound
1 the session of one client, dead or alive, has the other refused. In the room
the owner and a guest are two receivers, each with a thread that broadcasts, which
could be sent two lines in different orders; two lines overflow the greeting of one;
and the guest joins at any point of the owner's lines. A second visit, in
`chat_visits`, is the least for a connection that is left over from an earlier one.
For every safety property of these runs a theorem covers any number of guests,
visits and lines. Over
UDP three commands of one client let what belongs to the first meet the third;
two packets are the least that can be reordered, three the least with a packet
that is neither first nor last. In a client a second opening meets what the first
left behind, and the other visit goes to another room before, between or after.
One unread command or order on a connection (`MaxUnread`) lets the user leave and
be sent away at once; lines are typed without this bound, for nothing answers them.

Two runs cut states off by a CONSTRAINT. `InTime` in `client`: a state in which
`hasty` is set is checked and not explored; `hasty` is never taken back and each
property of the run but `TypeOK` excepts it, so no behaviour is lost that could break
one; that the types hold in all states is a theorem. What the code does behind these
states is told among the findings. `FewInFlight` in `udp`, for its last setting only
(`Outrun`): at most three datagrams on their way to a socket, because where longer
replies are delayed the timers go on putting copies and requests on the network.
Three are a packet, its copy or a request to resend it, and what overtakes them; the
theorem on `WholeMessages` has no such bound, and `Answered`, the one property of the
run that is not about safety, excepts this setting: timers that are always quicker
than the network keep a longer reply from ever being complete.

Deadlock is checked in the run of the board. In the other runs it is not: a
system whose clients have all exited, or typed all they will, has stopped.

### Fairness

The runs without liveness properties assume none. `chat_lines` assumes weak fairness of each thread of
the chat server and of each client's receiving thread, which the operating system
schedules, and that a client that has connected sends its join, which is its
next statement. Members are not obliged to type. A `std::mutex` promises no
order among its waiters, and weak fairness of the threads promises none either:
what `CommandsServed` and `PromptReturns` say holds because, in this instance,
only finitely many lines are typed. In the real room a thread might wait for
`conn_mux` as long as others keep taking it. `JoinServed` excepts a listener
that has ended by an exception, and the end of the process.

`udp` assumes weak fairness of each socket's loop (its timers included, which are
bounded waits), of the server's loop, and of the client's taking of an answer;
the network need not lose anything, and whatever is in flight arrives because the
loops that read it go on. `client` and `client_wakeup` assume weak fairness of
each of the client's threads and of the room that serves it; nobody is obliged to
type, and a spurious wake-up may come but need not.

## 4. Findings

The runs that end in a violation show where the code departs from a sentence of
the assignment; the sentences are quoted in `PROJECT.json`.

- `sessions_exit`: an owner that detaches and then exits leaves the room open in
  the registry, with nobody serving it; its own restart is then refused.
- `chat_garbled`: the greeting is sent without `conn_mux` to a connection that
  broadcasts already go to, and a broadcast between the two `send`s of the
  greeting's frame garbles the newcomer's stream.
- `chat_reset`: a member that dies with data unread makes `recv` return -1; the
  exception of the missing type ends the owner's process and the room.
- `udp_answer`: `insert_check` asks for packet 0 once for each packet that comes
  before it, and `send` starts over at every such request. A list of three
  packets that loses its first is sent twice under one number; the second copy is
  complete after the first was handed over, and the client takes it as the answer
  to its next command.
- `client_wakeup`: the listener sets `chat_server_ready` and notifies without the
  waiter's mutex. Both can fall between the main thread's test and its sleep; the
  owner's prompt then hangs, with its room open.
- `client_stray`: the receiving thread deletes `chat_TCPsock` and sets it to null
  with no lock. A line, `leave-chatroom` or `detach` that is being sent while the
  room is left goes through a deleted object or a null pointer; that another's room
  is closed at that moment is enough.

Met while modelling, and not runs:

- `on_C_login` tests the number of sessions before it takes `login_mutex`: two
  logins that both pass the test exceed the bound (`server.cpp:235`).
- The session of a client that died is never erased (`server.cpp:143`), and
  `logins` is erased without its lock in `on_C_exit` (`server.cpp:310`).
- A connection that ends before its join throws out of the listener's loop: later
  guests connect to an open port and are never served (`server_part.cpp:98`).
- A guest that connects after the owner's leaving has cleared `connected`
  (`server_part.cpp:187`) and before the listener stops is admitted to the closed
  room.
- `ClientThreads`, after a command that came too early. The room is closed at the BBS
  before its listener is told to stop (`client.cpp:384`), so `restart-chatroom` can
  be granted while the old listener has the port: `bind` fails and `error()` ends the
  process. The prompt and the mode are back before the socket is deleted and the
  pointer cleared (`client.cpp:401`), so a room entered in between loses its socket to
  the thread of the room before: it is deleted under the new visit, or forgotten, and
  the user is in chat mode without a connection. TLC finds both when `hasty` is left
  out of `NoRefusal` and of `StrayOnlyTyped`.
- UDP outside the chosen settings. With delays, and replies numbered from 0, a
  reply that overtakes the acknowledgement with its number is taken as a request
  to resend, and the command is carried out twice. A packet repeated after the last makes `insert_check` ask for packet -1, and
  `send` then reads before its buffer. Two losses, the loss of a last packet, or
  any loss while the numbers of the two directions coincide, leave the client
  waiting for ever: `recv` has no timeout of its own for the first packet.
- `addUser` throws on every error of sqlite but a name in use, and `dispatchUDP`
  has no handler: one command ends the server (`database.cpp:80`).

## 5. What is proved

Every safety property of the runs that pass is a theorem as well. The theorems
hold for any sets of threads, clients, guests, users, boards, texts and serials,
any number of visits, lines, openings, losses and packets, except where a
hypothesis is named below. They assume the named assumptions of the modules: the
asked serials and the bounds are naturals, and the sets of their kind (`CallsAssumption`,
`ChatRoomAssumption`, `ClientThreadsAssumption`, `ServiceAssumption`), "no
thread" is not a thread (`StoreAssumption`), "none" is no client, user, number,
thread, line, socket object or message (`SessionsAssumption` and the three
`NoneAssumption`s), the server is no client and the settings are records of
their kind (`UdpAssumption`).

Some results on UDP have a hypothesis, and cannot do without it, as the findings
show. `SingleHolds`, `AssociatedAnswerTheorem` and `EffectOnceTheorem` are about
`OnePacket`: replies fit one packet, and the server's numbers have passed those of
the clients. `WholeMessagesTheorem` asks only that no reply bears a number that a
command bears (`~SharedNumbers`). The theorems on `ClientThreads` have none: their
properties say themselves what they except.

- `BoardStoreProofs`: `TypeCorrect`, `GuardedTheorem`, `NoCircularWaitTheorem`.
  Neither `TypeOK` nor `Guarded` is inductive: that a thread in a method owns
  the method's locks depends on how many it took before. The inductive invariant
  `LocksInv` says of each thread that its place belongs to its call
  (`PlaceOfCall`), that the number of its locks fits the place (`CountOfPlace`),
  and that it owns exactly the first so many locks of its method (`OwnsTaken`).
  `Guarded` follows because a thread in a body has them all; `NoCircularWait`
  because a thread that waits for `boardmux` has nothing.
  `NoDanglingPostTheorem`, `PostsBelongToAuthorsTheorem`: to `LocksInv` the
  invariant adds what each thread inside knows of the posts (`Knows`): that it may
  edit the one it holds a reference to, or that the serial it drew is below
  `postSerial` and not in use. Only a thread with `postmux` changes the posts, and
  by `LocksInv` there is one (`Alone`), so no step of another thread makes that
  knowledge stale.
- `BoardListsProofs`: `NoThrowTheorem`, `IndexMatchesEntriesTheorem`,
  `ListsMatchPostsTheorem`, `SerialsUniqueTheorem`. The four hold together
  (`Agree`): an `.at()` on an entry succeeds because the index matches, on a post
  because the lists match. None of them is inductive without what a thread
  between two writes knows (`KnowsLists`): that its board still lacks its entry,
  that its new serial is on no list yet, or on the list of its board, or that the
  serial it deletes is on none any more. That a serial is on one list once
  (`ListsApart`) is what lets `deletePost` stop at the first occurrence. Every
  thread between two writes has `boardmux` (`AloneOnBoards`), so there is one,
  and the exceptions that the properties make are for it alone.
- `BoardRefinementProofs`: `LinearizableTheorem`. To `Agree` the invariant
  `RefInv` adds that a thread's place fits its call and its answer, that a serial
  drawn is the last one drawn, and that it is the last on its list until its post
  is inserted (`Serves`). A method that reads or writes finds no other thread
  between two writes of `createPost` or `deletePost` (`MethodQuiet`), because all
  of them take `boardmux` or `postmux`; so the abstract board is the concrete one,
  up to what the thread itself has half done (`Shows`). There is one lemma per
  action: it is a step of `BulletinBoard` (for `createPost` the insertion, for
  `deletePost` the unlisting) or changes nothing that is shown.
- `SessionsProofs`, types and numbers: `TypeCorrect`, `SessionIntactTheorem`,
  `RoomsChangedByOwnerTheorem`. A logout or an exit erases the number that the
  request carries, and the request of a client that died is still carried out; so
  `SessionIntact` needs to know whose number every request has. The invariant says
  that a client has one request under way (`OneRequest`), that a handler's place
  fits it (`PlaceOfRequest`), that it carries the client's number and user
  (`RequestOfClient`), that the handler's local name is the client's user
  (`NameIsUser`), and that the numbers claimed by running clients, by requests
  under way (of dead clients too) and by login replies are in `logins` with their
  user and pairwise different (`ClaimsHold`). `get_uid` draws a number that is not
  in `logins`, so nobody claims it, and no client erases another's.
- `SessionsProofs`, the lock: `InsideHoldsLockTheorem`, `NoStaleRoomWriteTheorem`.
  The invariant says that the handlers at work on a room are exactly those that
  hold `login_mutex`, and that a copy about to be stored equals the room. Every
  write to the registry is made inside, so a copy cannot grow stale: `login_mutex`,
  taken for the sessions, is what makes the two critical sections of `getRoom`
  and `setRoom` safe.
- `SessionsProofs`, the rooms: `OpenRoomKeepsSessionTheorem`,
  `ServedRoomIsOpenTheorem`, `PortFreeUntilServedTheorem`. What relates the
  registry to the chat servers is who is in charge of a room (`InCharge`): the
  client that was told to open it, that is starting its server, that serves it, or
  whose request to close it is under way, though the client be dead. At most one client is in charge of a user's
  room (`OneInCharge`), and the room is open while somebody is
  (`ChargeOfOpenRoom`); so a second restart is refused until the close has been
  carried out. `ServerOfSession` and `RoomOfClient` tie a chat server to a session,
  `OnePort` says that while one server takes guests no other has its port.
- `ChatRoomProofs`: all seven invariants of `ChatRoom` (`ChatInvHolds`). A
  connection has its thread and its place on the list once (`Admission`), who
  broadcasts has `conn_mux` (`Casting`), who was told to leave is off the list
  (`Exits`); with `OwnerRoom` these give `ConnectedAreServed`, `NoLineAfterExit`
  and `OpenRoomListens`. For the order, `Numbers` and
  `Recorded` say that what is typed is recorded once and sent only after that,
  `Posting` that a line waiting for `conn_mux` has been sent to nobody, and
  `Sending` that a line being broadcast has reached exactly the receivers before
  the next one and is the last that anybody was sent; so the next broadcast starts
  after this one for all, and `SameOrder` follows although the records may be in
  another order. For the greeting, `Moment` names how many records there were when
  the newcomer's thread copied `last_three` (`GreetingIsRecent`); every line recorded
  later finds the newcomer on the list already, because it is put there before it
  is greeted (`NoMissedLine`). None of this needs `msg_mux` and `conn_mux` to be
  held together.
- `ClientThreadsProofs`: `GenInvHolds` and `ClientTypesHold`, `SaneHolds` with
  `StrayOnlyTypedTheorem` and `NoRefusalTheorem`, for any typing and any overlap.
  The variables that the three threads share without a lock are consistent only
  through who may run at all, so `Sane` follows the protocol: at most the last visit
  is not over, and mode, socket pointer and object follow its phase (`VisitInv`:
  `OneByOne`, `MainFits`, `VisitFits`, `Ordered`); at most the last listener is at
  work, and its pointer, the port, the flag, the queue and the room's state follow
  its place (`RoomInv`: `ListenerFits`, `QueueFits`, `RoomFits`, `HostFits`,
  `OwnVisit`). A main thread that is sending while its receiver deletes is part of
  it: then, and only then, the process may stop on the pointer (`Stopped`). What
  ends the invariant is a command that comes too early (`hasty`).
- `UdpProofs`, acknowledgements: `AcksMeanHandedTheorem`, for any number of
  clients, packets and losses, on either network. `AcksMeanHanded` is not
  inductive, for the acknowledgement may be on its way for any time and meet a
  later message. The invariant says of every datagram in flight that has the mark
  of an acknowledgement that the message it names was handed over by the socket it
  comes from. For that, no packet may get the mark by accident: what `send`
  sends next, and what an entry of the table waits for, is never -3, though both
  numbers come out of datagrams.
- `UdpProofs`, types: `TypedHolds`, `UdpTypesHold`. `TypeOK` is not inductive: that
  what `dispatchUDP` serves is a request needs that only clients are heard by the
  server, and that an entry which starts with a part or the whole of a message
  has the body of a request (`Datagrams`, `Collections`, `Handovers`).
- `UdpProofs`, whole messages: `WholeMessagesTheorem`, for messages of any number
  of packets, on either network, with any losses. The invariant (`Assembled`) keeps
  a book with the body of every message sent, by its sender and number. Every
  datagram is a packet of a message in the book, a word (acknowledgement or request)
  about a message of its receiver, or such a word that was answered in kind and comes
  back (`NetKnown`); what a socket is sending is in the book (`SendKnown`); an entry
  of the table that is not spoilt has collected from the message of its number, and
  waits for packet 1 at least while it has a part (`TablesKnown`). A late request to
  resend begins an entry too, or spoils one: such an entry waits for packet -2, which
  comes only of a message that is still being sent, and its message is not (`Dead`).
  So it is never completed, and what is completed has the body of the book. That no
  number is shared keeps the two directions apart in the book (`Apart`).
- `UdpProofs`, messages of one packet: `SingleHolds`, with
  `AssociatedAnswerTheorem` and `EffectOnceTheorem`.
  A client sends its next command only after an answer, so one message each way
  should be under way; but that holds only if neither `send` nor `recv` makes a
  second one of it. `Single` says that the message from one side to the other is in
  one of four places (`Spots`: about to be sent, on the network, in the table,
  handed over), there once, and says what is due: the command its client waits for,
  or that command with what it gave. What is on the network is such a message or an
  acknowledgement (`NetPlain`), since nothing is ever missing of a message of one
  packet; and no message is taken for one about the message being sent
  (`NotMine`), since the numbers differ. Then `Ask`, `Serve` and `TakeAnswer` are
  `Call`, `Effect` and `Answer` of `AccountCalls`, and everything else, lost and
  late datagrams included, changes nothing the clients see.

Only model-checked: the liveness properties (`CommandsServed`, `PromptReturns`,
`JoinServed`, `Answered`, `BackAfterLeaving`, `ClosedRoomReleased`), for liveness
under fairness is beyond this proof system; the refinement of UDP for lists of
several packets and for shared numbers, and whole messages for shared numbers, where
they hold on the orderly network with few losses. There the argument is one about
timing: how far the packets of one message can be behind those of another.

## 6. What is not modelled

- The bytes of a package: `Serialize` and `Deserialize` appear only as far as
  they find the end of the first message.
- `getUser` and `getUsers`, which hand their SQL to sqlite and change nothing;
  the outcome of the password check is a choice in `Sessions`.
- The parsing of command lines and formatting, and the handlers of the board
  commands, which look up the session under `login_mutex`, call one method of
  `Database` (modelled) and format its answer.
- The reference counts of `TCP_socket`: its assignment overwrites a descriptor
  without releasing it (`socket.cpp:553`), so each accepted connection leaks one.
  This happens in whatever order things are done.
- The scripts and the test program.

What is left to do: proofs of `EffectOnce` on the orderly network for lists of
several packets, and of `WholeMessages` there for shared numbers.
