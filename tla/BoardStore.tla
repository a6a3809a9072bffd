----------------------------- MODULE BoardStore -----------------------------
(***************************************************************************)
(* The boards and posts of the Database class (server/database.cpp), one   *)
(* step per lock operation and per write to a shared structure.  A method  *)
(* takes its std::unique_locks in the order it declares them, reads and    *)
(* writes boards, boardInfos, postSerial and posts, and releases the locks *)
(* in the reverse order when it returns or when a failed .at() throws.     *)
(***************************************************************************)
EXTENDS BoardCalls

CONSTANT NoThread   \* the owner of a free mutex

ASSUME StoreAssumption == NoThread \notin Threads

VARIABLES
  boards,      \* name -> index of its entry in boardInfos, from 0
  boardInfos,  \* the entries: name, moderator, serials of the posts
  postSerial,  \* the serial the next post will get
  posts,       \* serial -> post
  owner,       \* mutex -> the thread that holds it
  pc,          \* where each thread is in its method
  taken,       \* how many of its method's locks each thread holds
  call,        \* the call each thread has under way
  serial,      \* the local variable of createPost
  answer       \* the value the method returns

tables == <<boards, boardInfos, postSerial, posts>>
thread == <<pc, taken, call, serial, answer>>
vars == <<tables, owner, thread>>

Mutex == {"boardmux", "postmux"}

\* Locks as they might have been declared: deletePost without the lock that
\* comment and updatePost hold, createPost without the lock of createBoard,
\* deletePost with its two locks the other way round.
LocksDeleteUnguarded(op) ==
  CASE op \in {"createBoard", "listBoards", "deletePost"} -> <<"boardmux">>
    [] op \in {"createPost", "listPosts"} -> <<"boardmux", "postmux">>
    [] OTHER -> <<"postmux">>

LocksCreateUnguarded(op) ==
  CASE op \in {"createBoard", "listBoards"} -> <<"boardmux">>
    [] op \in {"listPosts", "deletePost"} -> <<"boardmux", "postmux">>
    [] OTHER -> <<"postmux">>

LocksDeleteReversed(op) ==
  CASE op \in {"createBoard", "listBoards"} -> <<"boardmux">>
    [] op \in {"createPost", "listPosts"} -> <<"boardmux", "postmux">>
    [] op = "deletePost" -> <<"postmux", "boardmux">>
    [] OTHER -> <<"postmux">>

\* The locks a method declares, in order.
Locks(op) ==
  CASE op \in {"createBoard", "listBoards"} -> <<"boardmux">>
    [] op \in {"createPost", "listPosts", "deletePost"} ->
         <<"boardmux", "postmux">>
    [] OTHER -> <<"postmux">>

Init ==
  /\ boards = Empty
  /\ boardInfos = << >>
  /\ postSerial = 1
  /\ posts = Empty
  /\ owner = [m \in Mutex |-> NoThread]
  /\ pc = [t \in Threads |-> "idle"]
  /\ taken = [t \in Threads |-> 0]
  /\ call = [t \in Threads |-> NoCall]
  /\ serial = [t \in Threads |-> 0]
  /\ answer = [t \in Threads |-> NoAnswer]

-----------------------------------------------------------------------------
(* Entering and leaving a method.                                          *)

At(t, op, place) == pc[t] = place /\ call[t].op = op
Go(t, place) == pc' = [pc EXCEPT ![t] = place]

Invoke(t, c) ==
  /\ pc[t] = "idle"
  /\ WithinBounds(c, postSerial, posts)
  /\ Go(t, "lock")
  /\ call' = [call EXCEPT ![t] = c]
  /\ UNCHANGED <<tables, owner, taken, serial, answer>>

Lock(t) ==
  LET locks == Locks(call[t].op)
      m == locks[taken[t] + 1]
  IN /\ pc[t] = "lock"
     /\ owner[m] = NoThread
     /\ owner' = [owner EXCEPT ![m] = t]
     /\ taken' = [taken EXCEPT ![t] = @ + 1]
     /\ Go(t, IF taken[t] + 1 = Len(locks) THEN "body" ELSE "lock")
     /\ UNCHANGED <<tables, call, serial, answer>>

\* A return, or an exception on its way out: the locks are released next.
Leave(t, a) ==
  /\ answer' = [answer EXCEPT ![t] = a]
  /\ Go(t, "unlock")
  /\ UNCHANGED <<owner, taken, call, serial>>

Step(t, place) == Go(t, place) /\ UNCHANGED <<owner, taken, call, serial, answer>>

Unlock(t) ==
  /\ pc[t] = "unlock"
  /\ owner' = [owner EXCEPT ![Locks(call[t].op)[taken[t]]] = NoThread]
  /\ taken' = [taken EXCEPT ![t] = @ - 1]
  /\ Go(t, IF taken[t] = 1 THEN "return" ELSE "unlock")
  /\ UNCHANGED <<tables, call, serial, answer>>

Return(t) ==
  /\ pc[t] = "return"
  /\ Go(t, "idle")
  /\ call' = [call EXCEPT ![t] = NoCall]
  /\ serial' = [serial EXCEPT ![t] = 0]
  /\ answer' = [answer EXCEPT ![t] = NoAnswer]
  /\ UNCHANGED <<tables, owner, taken>>

-----------------------------------------------------------------------------
(* Boards.                                                                 *)

Known(b) == b \in DOMAIN boards

\* boardInfos.at(boards.at(b)): the entry's position, if both .at() succeed.
Entry(b) == boards[b] + 1
Found(b) == Known(b) /\ Entry(b) \in DOMAIN boardInfos

\* Board indices off by one, and a serial counted from the posts left.
NewIndexFromOne == Len(boardInfos) + 1
NewIndexOfLast == Len(boardInfos) - 1
NextSerialCounted == Cardinality(DOMAIN posts) + 1

NewIndex == Len(boardInfos)
NextSerial == postSerial + 1

\* The index is entered before the entry exists, as boardInfos.size().
CreateBoard(t) ==
  /\ At(t, "createBoard", "body")
  /\ \/ /\ Known(call[t].board)
        /\ Leave(t, Refused("BoardExists"))
        /\ UNCHANGED boards
     \/ /\ ~Known(call[t].board)
        /\ boards' = Insert(boards, call[t].board, NewIndex)
        /\ Step(t, "append")
  /\ UNCHANGED <<boardInfos, postSerial, posts>>

AppendBoard(t) ==
  /\ At(t, "createBoard", "append")
  /\ boardInfos' = Append(boardInfos, [name |-> call[t].board,
                                       moderator |-> call[t].user,
                                       serials |-> << >>])
  /\ Leave(t, Done)
  /\ UNCHANGED <<boards, postSerial, posts>>

ListBoards(t) ==
  /\ At(t, "listBoards", "body")
  /\ Leave(t, BoardLines(boardInfos))
  /\ UNCHANGED tables

-----------------------------------------------------------------------------
(* createPost and listPosts.                                               *)

CreatePost(t) ==
  /\ At(t, "createPost", "body")
  /\ \/ /\ ~Known(call[t].board)
        /\ Leave(t, Refused("NoBoard"))
        /\ UNCHANGED postSerial
     \/ /\ Known(call[t].board)
        /\ serial' = [serial EXCEPT ![t] = postSerial]
        /\ postSerial' = NextSerial
        /\ Go(t, "list")
        /\ UNCHANGED <<owner, taken, call, answer>>
  /\ UNCHANGED <<boards, boardInfos, posts>>

ListSerial(t) ==
  /\ At(t, "createPost", "list")
  /\ \/ /\ Found(call[t].board)
        /\ boardInfos' = [boardInfos EXCEPT ![Entry(call[t].board)].serials =
                            Append(@, serial[t])]
        /\ Step(t, "insert")
     \/ /\ ~Found(call[t].board)
        /\ Leave(t, Thrown)
        /\ UNCHANGED boardInfos
  /\ UNCHANGED <<boards, postSerial, posts>>

InsertPost(t) ==
  /\ At(t, "createPost", "insert")
  /\ posts' = Insert(posts, serial[t], NewPost(call[t]))
  /\ Leave(t, Done)
  /\ UNCHANGED <<boards, boardInfos, postSerial>>

\* A serial on the list whose post is missing makes posts.at(i) throw.
ListPosts(t) ==
  LET b == call[t].board
      listed == boardInfos[Entry(b)].serials
  IN /\ At(t, "listPosts", "body")
     /\ \/ ~Known(b) /\ Leave(t, Refused("NoBoard"))
        \/ Known(b) /\ ~Found(b) /\ Leave(t, Thrown)
        \/ /\ Found(b)
           /\ \/ /\ ToSet(listed) \subseteq DOMAIN posts
                 /\ Leave(t, PostLines(listed, posts))
              \/ /\ ~(ToSet(listed) \subseteq DOMAIN posts)
                 /\ Leave(t, Thrown)
     /\ UNCHANGED tables

-----------------------------------------------------------------------------
(* Operations on one post.  After the checks the method keeps a reference  *)
(* p into posts: the steps at "unlist", "drop" and "write" go through it.  *)

ReadPost(t) ==
  /\ At(t, "readPost", "body")
  /\ \/ /\ call[t].serial \notin DOMAIN posts
        /\ Leave(t, Refused("NoPost"))
     \/ /\ call[t].serial \in DOMAIN posts
        /\ Leave(t, PostText(posts[call[t].serial]))
  /\ UNCHANGED tables

\* The author check left out of deletePost.
OwnerOnlyUpdate(op) == op = "updatePost"

\* Only the author may delete or update; anyone logged in may comment.
OwnerOnly(op) == op \in {"deletePost", "updatePost"}

MayEdit(c) ==
  /\ c.serial \in DOMAIN posts
  /\ OwnerOnly(c.op) => posts[c.serial].author = c.user

CheckPost(t) ==
  LET c == call[t]
  IN /\ pc[t] = "body"
     /\ c.op \in {"deletePost", "updatePost", "comment"}
     /\ \/ c.serial \notin DOMAIN posts /\ Leave(t, Refused("NoPost"))
        \/ /\ c.serial \in DOMAIN posts
           /\ ~MayEdit(c)
           /\ Leave(t, Refused("NotOwner"))
        \/ /\ MayEdit(c)
           /\ Step(t, IF c.op = "deletePost" THEN "unlist" ELSE "write")
     /\ UNCHANGED tables

UnlistSerial(t) ==
  LET b == posts[call[t].serial].board
  IN /\ At(t, "deletePost", "unlist")
     /\ \/ /\ Found(b)
           /\ boardInfos' = [boardInfos EXCEPT ![Entry(b)].serials =
                               EraseFirst(@, call[t].serial)]
           /\ Step(t, "drop")
        \/ /\ ~Found(b)
           /\ Leave(t, Thrown)
           /\ UNCHANGED boardInfos
     /\ UNCHANGED <<boards, postSerial, posts>>

DropPost(t) ==
  /\ At(t, "deletePost", "drop")
  /\ posts' = Erase(posts, call[t].serial)
  /\ Leave(t, Done)
  /\ UNCHANGED <<boards, boardInfos, postSerial>>

UpdatePost(t) ==
  /\ At(t, "updatePost", "write")
  /\ posts' = [posts EXCEPT ![call[t].serial] = Replace(@, call[t])]
  /\ Leave(t, Done)
  /\ UNCHANGED <<boards, boardInfos, postSerial>>

Comment(t) ==
  /\ At(t, "comment", "write")
  /\ posts' = [posts EXCEPT ![call[t].serial] = AddComment(@, call[t])]
  /\ Leave(t, Done)
  /\ UNCHANGED <<boards, boardInfos, postSerial>>

-----------------------------------------------------------------------------
Method(t) ==
  \/ CreateBoard(t) \/ AppendBoard(t) \/ ListBoards(t)
  \/ CreatePost(t) \/ ListSerial(t) \/ InsertPost(t) \/ ListPosts(t)
  \/ ReadPost(t) \/ CheckPost(t)
  \/ UnlistSerial(t) \/ DropPost(t) \/ UpdatePost(t) \/ Comment(t)

Next ==
  \E t \in Threads :
    \/ \E c \in Calls : Invoke(t, c)
    \/ Lock(t) \/ Method(t) \/ Unlock(t) \/ Return(t)

Spec == Init /\ [][Next]_vars

-----------------------------------------------------------------------------
(* Properties.                                                             *)

Places == {"idle", "lock", "body", "append", "list", "insert", "unlist",
           "drop", "write", "unlock", "return"}

Answers ==
  [code : {"none", "ok", "out_of_range"}]
  \cup [code : {"refused"}, why : {"BoardExists", "NoBoard", "NoPost", "NotOwner"}]
  \cup [code : {"boards"}, boards : Seq(Boards \X Users)]
  \cup [code : {"posts"}, posts : Seq(Nat \X Texts \X Users)]
  \cup [code : {"post"}, post : Post]

\* Every variable of the store has its type.
TablesOK ==
  /\ DOMAIN boards \subseteq Boards
  /\ \A b \in DOMAIN boards : boards[b] \in Nat
  /\ boardInfos \in Seq(BoardInfo)
  /\ postSerial \in Nat
  /\ DOMAIN posts \subseteq Nat
  /\ \A s \in DOMAIN posts : posts[s] \in Post

ThreadsOK ==
  /\ owner \in [Mutex -> Threads \cup {NoThread}]
  /\ pc \in [Threads -> Places]
  /\ taken \in [Threads -> 0 .. 2]
  /\ call \in [Threads -> Calls \cup {NoCall}]
  /\ serial \in [Threads -> Nat]
  /\ answer \in [Threads -> Answers]

TypeOK == TablesOK /\ ThreadsOK

\* The shared structures the thread's next step reads or writes.
Uses(t) ==
  LET op == call[t].op
  IN CASE pc[t] = "body" ->
            (IF op \in {"createBoard", "createPost", "listPosts"}
             THEN {"boards"} ELSE {})
            \cup (IF op \in {"listBoards", "listPosts", "createBoard"}
                  THEN {"boardInfos"} ELSE {})
            \cup (IF op = "createPost" THEN {"postSerial"} ELSE {})
            \cup (IF op \in {"listPosts", "readPost", "deletePost",
                             "updatePost", "comment"}
                  THEN {"posts"} ELSE {})
       [] pc[t] = "append" -> {"boardInfos"}
       [] pc[t] = "list" -> {"boards", "boardInfos"}
       [] pc[t] = "unlist" -> {"boards", "boardInfos", "posts"}
       [] pc[t] \in {"insert", "drop", "write"} -> {"posts"}
       [] OTHER -> {}

GuardOf(x) == IF x \in {"boards", "boardInfos"} THEN "boardmux" ELSE "postmux"

\* Each structure has one mutex, and a thread touches the structure only
\* while it owns that mutex: two methods never race on a map or a vector.
Guarded == \A t \in Threads : \A x \in Uses(t) : owner[GuardOf(x)] = t

Waits(t, m) ==
  pc[t] = "lock" /\ m = Locks(call[t].op)[taken[t] + 1]

\* The two mutexes are never waited for in a cycle.
NoCircularWait ==
  ~ \E t, u \in Threads, m, n \in Mutex :
      Waits(t, m) /\ owner[m] = u /\ Waits(u, n) /\ owner[n] = t

\* Between the checks of deletePost, updatePost and comment and the writes
\* through the reference p, the post stays in the map and keeps its author.
NoDanglingPost ==
  \A t \in Threads : pc[t] \in {"unlist", "drop", "write"} => MayEdit(call[t])

\* No .at() of the boards, the entries or the posts throws, although
\* createBoard, createPost and deletePost change two structures in turn.
NoThrow == \A t \in Threads : answer[t] # Thrown

\* Every name has its entry, except while createBoard is between its two
\* writes, and no two entries share a name.
IndexMatchesEntries ==
  /\ \A b \in DOMAIN boards :
       \/ Found(b) /\ boardInfos[Entry(b)].name = b
       \/ /\ boards[b] = Len(boardInfos)
          /\ \E t \in Threads : At(t, "createBoard", "append") /\ call[t].board = b
  /\ \A i \in DOMAIN boardInfos :
       LET b == boardInfos[i].name IN Known(b) /\ Entry(b) = i

Inserting(s) == \E t \in Threads : At(t, "createPost", "insert") /\ serial[t] = s
Dropping(s) == \E t \in Threads : At(t, "deletePost", "drop") /\ call[t].serial = s

Listed(i, s) == s \in ToSet(boardInfos[i].serials)

\* A serial is on a list if and only if its post exists and names that board,
\* except while createPost or deletePost is between its two writes.
ListsMatchPosts ==
  /\ \A i \in DOMAIN boardInfos : \A s \in ToSet(boardInfos[i].serials) :
       IF s \in DOMAIN posts THEN posts[s].board = boardInfos[i].name
                             ELSE Inserting(s)
  /\ \A s \in DOMAIN posts :
       (\E i \in DOMAIN boardInfos : Listed(i, s)) \/ Dropping(s)

\* No post is listed twice and every listed or stored serial was handed out:
\* what makes the break in deletePost's loop enough.
SerialsUnique ==
  /\ \A i, j \in DOMAIN boardInfos :
       \A x \in DOMAIN boardInfos[i].serials, y \in DOMAIN boardInfos[j].serials :
         boardInfos[i].serials[x] = boardInfos[j].serials[y] => i = j /\ x = y
  /\ \A i \in DOMAIN boardInfos : \A s \in ToSet(boardInfos[i].serials) :
       s < postSerial
  /\ \A s \in DOMAIN posts : s < postSerial

\* The post s is the same post after a step, or its author has deleted it.
PostKept(s) ==
  IF s \in DOMAIN posts'
  THEN posts'[s].author = posts[s].author /\ posts'[s].board = posts[s].board
  ELSE \E t \in Threads : At(t, "deletePost", "drop")
                          /\ call[t].serial = s
                          /\ call[t].user = posts[s].author

\* A post disappears only by its author's deletePost, and while it exists its
\* board and author never change: no serial is given to a second post.
PostsBelongToAuthors == [][\A s \in DOMAIN posts : PostKept(s)]_vars

-----------------------------------------------------------------------------
(* The abstract board the store implements.  createBoard takes effect when *)
(* the entry is appended, createPost when the post is inserted and         *)
(* deletePost when the serial leaves the list.                             *)

InsertedSerials(list) ==
  IF list # << >> /\ Last(list) \notin DOMAIN posts THEN Front(list) ELSE list

InfosBar ==
  [i \in DOMAIN boardInfos |->
     [boardInfos[i] EXCEPT !.serials = InsertedSerials(@)]]

PostsBar ==
  [s \in {s \in DOMAIN posts : ~Dropping(s)} |-> posts[s]]

NextBar ==
  IF \E t \in Threads : pc[t] \in {"list", "insert"}
  THEN postSerial - 1 ELSE postSerial

AnswerBar ==
  [t \in Threads |-> IF pc[t] = "drop" THEN Done ELSE answer[t]]

Board == INSTANCE BulletinBoard
           WITH infos <- InfosBar, posts <- PostsBar, next <- NextBar,
                call <- call, answer <- AnswerBar

\* The store implements the atomic bulletin board.
Linearizable == Board!Spec
=============================================================================
