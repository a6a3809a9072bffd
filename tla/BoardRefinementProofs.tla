------------------------ MODULE BoardRefinementProofs -----------------------
(***************************************************************************)
(* The proof that BoardStore implements BulletinBoard, for any number of   *)
(* threads, boards, users and posts: every call of Database takes effect   *)
(* at one instant between its invocation and its return.                   *)
(***************************************************************************)
EXTENDS BoardListsProofs

\* What a thread's place says of its call, its answer and its new serial, which
\* createPost draws last of all and puts at the end of its board's list.
Serves(t) ==
  /\ pc[t] = "idle" => call[t] = NoCall
  /\ answer[t] # NoAnswer <=> pc[t] \in {"unlock", "return"}
  /\ pc[t] \in Creating => postSerial = serial[t] + 1
  /\ pc[t] = "insert" =>
       LET list == boardInfos[Entry(call[t].board)].serials
       IN list # << >> /\ Last(list) = serial[t]

\* posts is a map from its serials.
PostsIsMap == posts = [s \in DOMAIN posts |-> posts[s]]

RefInv == Agree /\ PostsIsMap /\ \A t \in Threads : Serves(t)

-----------------------------------------------------------------------------
(* The interface of BulletinBoard is that of BoardStore.                   *)

LEMMA SameCalls ==
  /\ Board!Calls = Calls /\ Board!NoCall = NoCall /\ Board!NoAnswer = NoAnswer
  /\ Board!Done = Done /\ Board!Empty = Empty
  /\ \A why : Board!Refused(why) = Refused(why)
  /\ \A infos : Board!BoardLines(infos) = BoardLines(infos)
  /\ \A list, map : Board!PostLines(list, map) = PostLines(list, map)
  /\ \A p : Board!PostText(p) = PostText(p)
BY DEF Board!Calls, Calls, Board!NoCall, NoCall, Board!NoAnswer, NoAnswer, Board!Done, Done,
   Board!Empty, Empty, Board!Refused, Refused, Board!BoardLines, BoardLines,
   Board!PostLines, PostLines, Board!PostText, PostText

LEMMA SameData ==
  /\ \A c : Board!NewPost(c) = NewPost(c)
  /\ \A p, c : Board!Replace(p, c) = Replace(p, c)
  /\ \A p, c : Board!AddComment(p, c) = AddComment(p, c)
  /\ \A map, k, v : Board!Insert(map, k, v) = Insert(map, k, v)
  /\ \A map, k : Board!Erase(map, k) = Erase(map, k)
  /\ \A list, s : Board!EraseFirst(list, s) = EraseFirst(list, s)
<1>1. \A c : Board!NewPost(c) = NewPost(c)
  BY DEF Board!NewPost, NewPost
<1>2. \A p, c : Board!Replace(p, c) = Replace(p, c)
  BY Zenon DEF Board!Replace, Replace
<1>3. \A p, c : Board!AddComment(p, c) = AddComment(p, c)
  BY Zenon DEF Board!AddComment, AddComment
<1>4. /\ \A map, k, v : Board!Insert(map, k, v) = Insert(map, k, v)
      /\ \A map, k : Board!Erase(map, k) = Erase(map, k)
  BY DEF Board!Insert, Insert, Board!Erase, Erase
<1>5. \A list, s : Board!EraseFirst(list, s) = EraseFirst(list, s)
  BY Zenon DEF Board!EraseFirst, EraseFirst, Board!RemoveAt, RemoveAt
<1> QED BY <1>1, <1>2, <1>3, <1>4, <1>5

LEMMA SameBounds ==
  \A c, s, map : Board!WithinBounds(c, s, map) = WithinBounds(c, s, map)
BY DEF Board!WithinBounds, WithinBounds

-----------------------------------------------------------------------------
(* Lists without their last element.                                       *)

LEMMA FrontOfAppend ==
  ASSUME NEW list \in Seq(Nat), NEW v \in Nat
  PROVE  /\ Append(list, v) # << >>
         /\ Last(Append(list, v)) = v
         /\ Front(Append(list, v)) = list
<1>1. PICK n \in Nat : n = Len(list)
  BY LenProperties
<1> DEFINE more == Append(list, v)
<1>2. /\ more \in Seq(Nat) /\ more # << >> /\ Len(more) = n + 1
      /\ \A i \in 1 .. n : more[i] = list[i]
      /\ more[n + 1] = v
  BY <1>1, AppendProperties
<1> HIDE DEF more
<1>3. Last(more) = v
  BY <1>2 DEF Last
<1>4. Front(more) = list
  <2>1. 1 \in 1 .. (n + 1) + 1 /\ n \in 0 .. n + 1 /\ n + 1 \in Nat
    OBVIOUS
  <2>2. /\ SubSeq(more, 1, n) \in Seq(Nat)
        /\ Len(SubSeq(more, 1, n)) = IF 1 <= n THEN n - 1 + 1 ELSE 0
        /\ \A i \in 1 .. n - 1 + 1 : SubSeq(more, 1, n)[i] = more[1 + i - 1]
    BY <1>2, <2>1, Cut
  <2>3. Len(SubSeq(more, 1, n)) = n
    BY <2>2
  <2>4. \A i \in 1 .. n : SubSeq(more, 1, n)[i] = list[i]
    BY <1>2, <2>2
  <2>5. SubSeq(more, 1, n) = list
    BY <1>1, <2>2, <2>3, <2>4, SeqEqual
  <2>6. Front(more) = SubSeq(more, 1, n)
    BY <1>2 DEF Front
  <2> QED BY <2>5, <2>6
<1> QED BY <1>2, <1>3, <1>4 DEF more

LEMMA AppendToFront ==
  ASSUME NEW list \in Seq(Nat), list # << >>
  PROVE  /\ Last(list) \in ToSet(list)
         /\ Front(list) \in Seq(Nat)
         /\ Append(Front(list), Last(list)) = list
<1>1. PICK n \in Nat : n = Len(list) /\ DOMAIN list = 1 .. n
  BY LenProperties
<1>2. n >= 1
  BY <1>1, EmptySeq
<1>3. Last(list) = list[n] /\ list[n] \in Nat /\ Last(list) \in ToSet(list)
  BY <1>1, <1>2, ElementOfSeq DEF Last, ToSet
<1>4. PICK m \in Nat : m = n - 1
  BY <1>2
<1>5. PICK front : front = Front(list)
  OBVIOUS
<1>6. /\ front \in Seq(Nat) /\ Len(front) = m
      /\ \A i \in 1 .. m : front[i] = list[i]
  <2>1. 1 \in 1 .. n + 1 /\ m \in 0 .. n
    BY <1>2, <1>4
  <2>2. /\ SubSeq(list, 1, m) \in Seq(Nat)
        /\ Len(SubSeq(list, 1, m)) = IF 1 <= m THEN m - 1 + 1 ELSE 0
        /\ \A i \in 1 .. m - 1 + 1 : SubSeq(list, 1, m)[i] = list[1 + i - 1]
    BY <1>1, <2>1, Cut
  <2>3. Front(list) = SubSeq(list, 1, m)
    BY <1>1, <1>4 DEF Front
  <2>4. Len(SubSeq(list, 1, m)) = m
    BY <2>2
  <2>5. \A i \in 1 .. m : SubSeq(list, 1, m)[i] = list[i]
    BY <2>2
  <2> QED BY <1>5, <2>2, <2>3, <2>4, <2>5
<1>7. PICK v \in Nat : v = list[n]
  BY <1>3
<1>8. /\ Append(front, v) \in Seq(Nat) /\ Len(Append(front, v)) = m + 1
      /\ \A i \in 1 .. m : Append(front, v)[i] = front[i]
      /\ Append(front, v)[m + 1] = v
  BY <1>6, AppendProperties
<1>9. \A i \in 1 .. n : Append(front, v)[i] = list[i]
  BY <1>4, <1>6, <1>7, <1>8
<1>10. Append(front, v) = list
  BY <1>1, <1>4, <1>8, <1>9, SeqEqual
<1> QED BY <1>3, <1>5, <1>6, <1>7, <1>10

-----------------------------------------------------------------------------
(* What a place says of the call, the answer and the serial.               *)

LEMMA Answered ==
  /\ Done # NoAnswer /\ Thrown # NoAnswer
  /\ \A why : Refused(why) # NoAnswer
  /\ \A infos : BoardLines(infos) # NoAnswer
  /\ \A list, map : PostLines(list, map) # NoAnswer
  /\ \A p : PostText(p) # NoAnswer
BY DEF Done, NoAnswer, Thrown, Refused, BoardLines, PostLines, PostText

\* The lists and the next serial change only in a method that has boardmux.
LEMMA TablesChange ==
  ASSUME NEW t \in Threads, Method(t)
  PROVE  /\ pc[t] \in Inside
         /\ \/ UNCHANGED <<boards, boardInfos, postSerial>>
            \/ call[t].op \in BoardMethods
BY DEF Method, CreateBoard, AppendBoard, ListBoards, CreatePost, ListSerial, InsertPost,
   ListPosts, ReadPost, CheckPost, UnlistSerial, DropPost, UpdatePost, Comment, At, Inside,
   BoardMethods, tables

\* A step of t touches nothing of another thread.
LEMMA MethodOnly ==
  ASSUME TypeOK, NEW t \in Threads, Method(t), NEW u \in Threads, u # t
  PROVE  pc'[u] = pc[u] /\ call'[u] = call[u] /\ serial'[u] = serial[u] /\ answer'[u] = answer[u]
<1>1. CASE \E a : Leave(t, a)
  BY <1>1 DEF TypeOK, ThreadsOK, Leave, Go
<1>2. CASE \E place : Step(t, place)
  BY <1>2 DEF TypeOK, ThreadsOK, Step, Go
<1>3. CASE CreatePost(t)
  BY <1>3, <1>1 DEF TypeOK, ThreadsOK, CreatePost, Go
<1> QED BY <1>1, <1>2, <1>3 DEF Method, CreateBoard, AppendBoard, ListBoards, ListSerial,
   InsertPost, ListPosts, ReadPost, CheckPost, UnlistSerial, DropPost, UpdatePost, Comment

LEMMA OthersServe ==
  ASSUME RefInv, NEW t \in Threads, NEW u \in Threads, u # t,
         pc'[u] = pc[u], call'[u] = call[u], serial'[u] = serial[u], answer'[u] = answer[u],
         \/ UNCHANGED <<boards, boardInfos, postSerial>>
         \/ pc[t] \in Inside /\ call[t].op \in BoardMethods
  PROVE  Serves(u)'
<1>1. CASE UNCHANGED <<boards, boardInfos, postSerial>>
  BY <1>1 DEF RefInv, Serves, Entry
<1>2. CASE pc[u] \notin Between
  BY <1>2 DEF RefInv, Serves, Between, Creating
<1>3. CASE pc[u] \in Between
  BY <1>1, <1>3, AloneOnBoards DEF RefInv, Agree
<1> QED BY <1>2, <1>3

\* A method that returns, and one that goes on.
LEMMA LeaveServes ==
  ASSUME RefInv, NEW t \in Threads, NEW a, a # NoAnswer, Leave(t, a)
  PROVE  Serves(t)'
<1>1. pc'[t] = "unlock" /\ answer'[t] = a
  BY DEF RefInv, Agree, Inv, TypeOK, ThreadsOK, Leave, Go
<1> QED BY <1>1 DEF Serves, Creating

LEMMA StepServes ==
  ASSUME RefInv, NEW t \in Threads, pc[t] \in Inside, NEW place, Step(t, place),
         place \in {"append", "unlist", "drop", "write"}
  PROVE  Serves(t)'
<1>1. pc'[t] = place /\ answer'[t] = answer[t]
  BY DEF RefInv, Agree, Inv, TypeOK, ThreadsOK, Step, Go
<1>2. answer[t] = NoAnswer
  BY DEF RefInv, Serves, Inside
<1> QED BY <1>1, <1>2 DEF Serves, Creating

LEMMA CreatePostServes ==
  ASSUME RefInv, NEW t \in Threads, CreatePost(t)
  PROVE  Serves(t)'
<1>1. CASE Leave(t, Refused("NoBoard"))
  BY <1>1, Answered, LeaveServes
<1>2. CASE /\ serial' = [serial EXCEPT ![t] = postSerial]
           /\ postSerial' = NextSerial
           /\ Go(t, "list")
           /\ UNCHANGED <<owner, taken, call, answer>>
  <2>1. /\ pc'[t] = "list" /\ serial'[t] = postSerial /\ postSerial' = postSerial + 1
        /\ answer'[t] = answer[t]
    BY <1>2 DEF RefInv, Agree, Inv, TypeOK, ThreadsOK, Go, NextSerial
  <2>2. answer[t] = NoAnswer
    BY DEF CreatePost, At, RefInv, Serves
  <2> QED BY <2>1, <2>2 DEF Serves, Creating
<1> QED BY <1>1, <1>2 DEF CreatePost

LEMMA ListSerialServes ==
  ASSUME RefInv, NEW t \in Threads, ListSerial(t)
  PROVE  Serves(t)'
<1>1. CASE Leave(t, Thrown)
  BY <1>1, Answered, LeaveServes
<1>2. CASE Found(call[t].board) /\ Step(t, "insert")
  <2>0. PICK k, v : k = Entry(call[t].board) /\ v = serial[t]
    OBVIOUS
  <2>1. k \in DOMAIN boardInfos /\ boardInfos[k].serials \in Seq(Nat) /\ v \in Nat
    BY <1>2, <2>0, EntryType DEF Found, RefInv, Agree, Inv, TypeOK, TablesOK, ThreadsOK
  <2>2. boardInfos' = [boardInfos EXCEPT ![k].serials = Append(boardInfos[k].serials, v)]
    BY <1>2, <2>0 DEF ListSerial
  <2>3. PICK list : list = Append(boardInfos[k].serials, v)
    OBVIOUS
  <2>4. list \in Seq(Nat) /\ list # << >> /\ Last(list) = v
    BY <2>1, <2>3, FrontOfAppend, AppendProperties
  <2>5. boardInfos'[k].serials = list
    BY <2>1, <2>2, <2>3, <2>4, EntryChanged DEF RefInv, Agree, Inv, TypeOK, TablesOK
  <2>6. /\ pc'[t] = "insert" /\ serial'[t] = v /\ call'[t] = call[t]
        /\ answer'[t] = answer[t] /\ UNCHANGED <<boards, postSerial>>
    BY <1>2, <2>0 DEF ListSerial, RefInv, Agree, Inv, TypeOK, ThreadsOK, Step, Go
  <2>7. answer[t] = NoAnswer /\ postSerial = v + 1
    BY <2>0 DEF ListSerial, At, RefInv, Serves, Creating
  <2>8. Entry(call[t].board)' = k
    BY <2>0, <2>6 DEF Entry
  <2> QED BY <2>4, <2>5, <2>6, <2>7, <2>8 DEF Serves, Creating
<1> QED BY <1>1, <1>2 DEF ListSerial

\* Every step keeps it for every thread.
LEMMA ServesStep ==
  ASSUME RefInv, [Next]_vars
  PROVE  \A u \in Threads : Serves(u)'
<1>1. ASSUME NEW t \in Threads, Method(t)
      PROVE  \A u \in Threads : Serves(u)'
  <2>1. \A u \in Threads \ {t} : Serves(u)'
    BY <1>1, TablesChange, MethodOnly, OthersServe DEF RefInv, Agree, Inv
  <2>2. Serves(t)'
    <3>1. pc[t] \in Inside
      BY <1>1, TablesChange
    <3>2. CASE \E a : a # NoAnswer /\ Leave(t, a)
      BY <3>2, LeaveServes
    <3>3. CASE \E place \in {"append", "unlist", "drop", "write"} : Step(t, place)
      BY <3>1, <3>3, StepServes
    <3>4. CASE CreatePost(t) \/ ListSerial(t)
      BY <3>4, CreatePostServes, ListSerialServes
    <3>5. CASE CreateBoard(t) \/ AppendBoard(t) \/ ListBoards(t)
      BY <3>2, <3>3, <3>5, Answered DEF CreateBoard, AppendBoard, ListBoards
    <3>6. CASE InsertPost(t) \/ ListPosts(t) \/ ReadPost(t)
      BY <3>2, <3>6, Answered DEF InsertPost, ListPosts, ReadPost
    <3>7. CASE CheckPost(t) \/ UnlistSerial(t)
      BY <3>2, <3>3, <3>7, Answered DEF CheckPost, UnlistSerial
    <3>8. CASE DropPost(t) \/ UpdatePost(t) \/ Comment(t)
      BY <3>2, <3>8, Answered DEF DropPost, UpdatePost, Comment
    <3> QED BY <1>1, <3>4, <3>5, <3>6, <3>7, <3>8 DEF Method
  <2> QED BY <2>1, <2>2
<1>2. ASSUME NEW t \in Threads,
             (\E c \in Calls : Invoke(t, c)) \/ Lock(t) \/ Unlock(t) \/ Return(t)
      PROVE  \A u \in Threads : Serves(u)'
  <2>1. UNCHANGED <<boards, boardInfos, postSerial>>
    BY <1>2 DEF Invoke, Lock, Unlock, Return, tables
  <2>2. \A u \in Threads \ {t} : pc'[u] = pc[u] /\ call'[u] = call[u] /\ serial'[u] = serial[u]
                                /\ answer'[u] = answer[u]
    BY <1>2 DEF RefInv, Agree, Inv, TypeOK, ThreadsOK, Invoke, Lock, Unlock, Return, Go
  <2>3. Serves(t)
    BY DEF RefInv
  <2>4. Serves(t)'
    <3>1. CASE \E c \in Calls : Invoke(t, c)
      <4>1. pc[t] = "idle" /\ pc'[t] = "lock" /\ answer'[t] = answer[t]
        BY <3>1 DEF RefInv, Agree, Inv, TypeOK, ThreadsOK, Invoke, Go
      <4> QED BY <2>3, <4>1 DEF Serves, Creating
    <3>2. CASE Lock(t)
      <4>1. pc[t] = "lock" /\ pc'[t] \in {"lock", "body"} /\ answer'[t] = answer[t]
        BY <3>2 DEF RefInv, Agree, Inv, TypeOK, ThreadsOK, Lock, Go
      <4> QED BY <2>3, <4>1 DEF Serves, Creating
    <3>3. CASE Unlock(t)
      <4>1. pc[t] = "unlock" /\ pc'[t] \in {"unlock", "return"} /\ answer'[t] = answer[t]
        BY <3>3 DEF RefInv, Agree, Inv, TypeOK, ThreadsOK, Unlock, Go
      <4> QED BY <2>3, <4>1 DEF Serves, Creating
    <3>4. CASE Return(t)
      <4>1. pc'[t] = "idle" /\ call'[t] = NoCall /\ answer'[t] = NoAnswer
        BY <3>4 DEF RefInv, Agree, Inv, TypeOK, ThreadsOK, Return, Go
      <4> QED BY <4>1 DEF Serves, Creating
    <3> QED BY <1>2, <3>1, <3>2, <3>3, <3>4
  <2> QED BY <2>1, <2>2, <2>4, OthersServe
<1>3. CASE UNCHANGED vars
  BY <1>3 DEF vars, tables, thread, RefInv, Serves, Entry
<1> QED BY <1>1, <1>2, <1>3 DEF Next

\* posts changes by an insertion, an erasure or a new value of one post.
LEMMA PostsStayMap ==
  ASSUME RefInv, [Next]_vars
  PROVE  PostsIsMap'
<1>1. CASE posts' = posts
  BY <1>1 DEF RefInv, PostsIsMap
<1>2. ASSUME NEW t \in Threads, InsertPost(t) \/ DropPost(t)
      PROVE  PostsIsMap'
  BY <1>2 DEF InsertPost, DropPost, Insert, Erase, PostsIsMap
<1>3. ASSUME NEW t \in Threads, UpdatePost(t) \/ Comment(t)
      PROVE  PostsIsMap'
  <2>1. \E x : posts' = [posts EXCEPT ![call[t].serial] = x]
    BY <1>3 DEF UpdatePost, Comment
  <2> QED BY <2>1 DEF PostsIsMap
<1>4. ASSUME NEW t \in Threads, Method(t)
      PROVE  posts' = posts \/ InsertPost(t) \/ DropPost(t) \/ UpdatePost(t) \/ Comment(t)
  BY <1>4 DEF Method, CreateBoard, AppendBoard, ListBoards, CreatePost, ListSerial,
     ListPosts, ReadPost, CheckPost, UnlistSerial, tables
<1>5. ASSUME NEW t \in Threads,
             (\E c \in Calls : Invoke(t, c)) \/ Lock(t) \/ Unlock(t) \/ Return(t)
      PROVE  posts' = posts
  BY <1>5 DEF Invoke, Lock, Unlock, Return, tables
<1> QED BY <1>1, <1>2, <1>3, <1>4, <1>5 DEF Next, vars, tables

\* A thread's place, its call, its answer and its new serial fit.
THEOREM ServesInvariant == Spec => []RefInv
<1>1. Init => PostsIsMap /\ \A t \in Threads : Serves(t)
  BY DEF Init, Serves, Creating, PostsIsMap, Empty
<1>2. RefInv /\ [Next]_vars => (PostsIsMap /\ \A t \in Threads : Serves(t))'
  BY ServesStep, PostsStayMap
<1> QED BY <1>1, <1>2, ListsInvariant, PTL DEF Spec, RefInv

-----------------------------------------------------------------------------
(* The board that BoardStore shows, when at most t is between two writes.  *)

QuietOthers(t) == \A u \in Threads \ {t} : pc[u] \notin {"list", "insert", "drop"}

Shows(t) ==
  /\ pc[t] # "insert" => InfosBar = boardInfos
  /\ pc[t] = "insert" =>
       InfosBar = [boardInfos EXCEPT ![Entry(call[t].board)].serials = Front(@)]
  /\ pc[t] # "drop" => PostsBar = posts
  /\ pc[t] = "drop" => PostsBar = Erase(posts, call[t].serial)
  /\ NextBar = IF pc[t] \in Creating THEN postSerial - 1 ELSE postSerial

\* A list whose serials all have their posts is shown as it is.
LEMMA WholeList ==
  ASSUME RefInv, NEW i \in DOMAIN boardInfos,
         ToSet(boardInfos[i].serials) \subseteq DOMAIN posts
  PROVE  InsertedSerials(boardInfos[i].serials) = boardInfos[i].serials
<1>1. boardInfos[i].serials \in Seq(Nat)
  BY EntryType DEF RefInv, Agree, Inv, TypeOK, TablesOK
<1>2. PICK list \in Seq(Nat) : list = boardInfos[i].serials
  BY <1>1
<1>3. CASE list = << >>
  BY <1>2, <1>3 DEF InsertedSerials
<1>4. CASE list # << >>
  <2>1. Last(list) \in DOMAIN posts
    BY <1>2, <1>4, AppendToFront
  <2> QED BY <1>2, <2>1 DEF InsertedSerials
<1> QED BY <1>3, <1>4

\* The list createPost is at is shown without the new serial.
LEMMA CutList ==
  ASSUME RefInv, NEW t \in Threads, pc[t] = "insert",
         NEW k, k = Entry(call[t].board)
  PROVE  /\ k \in DOMAIN boardInfos
         /\ InsertedSerials(boardInfos[k].serials) = Front(boardInfos[k].serials)
<1>1. k \in DOMAIN boardInfos
  BY DEF RefInv, Agree, ListsInv, KnowsLists, Found
<1>2. /\ boardInfos[k].serials # << >>
      /\ Last(boardInfos[k].serials) = serial[t]
  BY DEF RefInv, Serves
<1>3. serial[t] \notin DOMAIN posts
  BY DEF RefInv, Agree, Inv, PostsInv, Knows, Creating
<1> QED BY <1>1, <1>2, <1>3 DEF InsertedSerials

\* Entries whose lists are shown as they are are shown as they are.
LEMMA SameEntry ==
  ASSUME RefInv, NEW i \in DOMAIN boardInfos, NEW list \in Seq(Nat)
  PROVE  /\ [boardInfos[i] EXCEPT !.serials = boardInfos[i].serials] = boardInfos[i]
         /\ [boardInfos[i] EXCEPT !.serials = list] \in BoardInfo
<1>1. boardInfos[i] \in BoardInfo
  BY EntryType DEF RefInv, Agree, Inv, TypeOK, TablesOK
<1> QED BY <1>1 DEF BoardInfo

LEMMA InfosAreFunction ==
  ASSUME RefInv
  PROVE  boardInfos = [i \in DOMAIN boardInfos |-> boardInfos[i]]
<1>1. boardInfos \in Seq(BoardInfo)
  BY DEF RefInv, Agree, Inv, TypeOK, TablesOK
<1>2. PICK n \in Nat : boardInfos \in [1 .. n -> BoardInfo]
  BY <1>1, SeqDef
<1> QED BY <1>2

LEMMA InfosShown ==
  ASSUME RefInv, NEW t \in Threads, QuietOthers(t), pc[t] # "insert"
  PROVE  InfosBar = boardInfos
<1>1. \A s : ~Inserting(s)
  BY DEF QuietOthers, Inserting, At
<1>2. ASSUME NEW i \in DOMAIN boardInfos
      PROVE  [boardInfos[i] EXCEPT !.serials = InsertedSerials(@)] = boardInfos[i]
  <2>1. ToSet(boardInfos[i].serials) \subseteq DOMAIN posts
    BY <1>1, <1>2 DEF RefInv, Agree, ListsInv, ListsMatchPosts
  <2>2. InsertedSerials(boardInfos[i].serials) = boardInfos[i].serials
    BY <1>2, <2>1, WholeList
  <2>3. boardInfos[i].serials \in Seq(Nat)
    BY EntryType DEF RefInv, Agree, Inv, TypeOK, TablesOK
  <2> QED BY <1>2, <2>2, <2>3, SameEntry
<1>3. InfosBar = [i \in DOMAIN boardInfos |-> boardInfos[i]]
  BY <1>2, Zenon DEF InfosBar
<1> QED BY <1>3, InfosAreFunction

LEMMA InfosShownAtInsert ==
  ASSUME RefInv, NEW t \in Threads, QuietOthers(t), pc[t] = "insert"
  PROVE  InfosBar = [boardInfos EXCEPT ![Entry(call[t].board)].serials = Front(@)]
<1>0. PICK k : k = Entry(call[t].board)
  OBVIOUS
<1>1. /\ k \in DOMAIN boardInfos
      /\ InsertedSerials(boardInfos[k].serials) = Front(boardInfos[k].serials)
  BY <1>0, CutList
<1>2. \A s : Inserting(s) => s = serial[t]
  BY DEF QuietOthers, Inserting, At
<1>3. Listed(k, serial[t])
  BY <1>0 DEF RefInv, Agree, ListsInv, KnowsLists, Listed
<1>4. ASSUME NEW i \in DOMAIN boardInfos, i # k
      PROVE  [boardInfos[i] EXCEPT !.serials = InsertedSerials(@)] = boardInfos[i]
  <2>1. \A s \in ToSet(boardInfos[i].serials) : ~Inserting(s)
    BY <1>1, <1>2, <1>3, <1>4 DEF RefInv, Agree, ListsInv, ListsApart, Listed
  <2>2. ToSet(boardInfos[i].serials) \subseteq DOMAIN posts
    BY <1>4, <2>1 DEF RefInv, Agree, ListsInv, ListsMatchPosts
  <2>3. InsertedSerials(boardInfos[i].serials) = boardInfos[i].serials
    BY <1>4, <2>2, WholeList
  <2>4. boardInfos[i].serials \in Seq(Nat)
    BY EntryType DEF RefInv, Agree, Inv, TypeOK, TablesOK
  <2> QED BY <1>4, <2>3, <2>4, SameEntry
<1>5. PICK e : e = [boardInfos[k] EXCEPT !.serials = Front(@)]
  OBVIOUS
<1>6. [boardInfos[k] EXCEPT !.serials = InsertedSerials(@)] = e
  BY <1>1, <1>5, Zenon
<1>7. InfosBar = [i \in DOMAIN boardInfos |-> IF i = k THEN e ELSE boardInfos[i]]
  BY <1>4, <1>6, Zenon DEF InfosBar
<1>8. [boardInfos EXCEPT ![k].serials = Front(@)]
        = [i \in DOMAIN boardInfos |-> IF i = k THEN e ELSE boardInfos[i]]
  BY <1>1, <1>5, Zenon
<1> QED BY <1>0, <1>7, <1>8

LEMMA PostsShown ==
  ASSUME RefInv, NEW t \in Threads, QuietOthers(t)
  PROVE  /\ pc[t] # "drop" => PostsBar = posts
         /\ pc[t] = "drop" => PostsBar = Erase(posts, call[t].serial)
<1>1. CASE pc[t] # "drop"
  <2>1. \A s : ~Dropping(s)
    BY <1>1 DEF QuietOthers, Dropping, At
  <2>2. {s \in DOMAIN posts : ~Dropping(s)} = DOMAIN posts
    BY <2>1
  <2> QED BY <1>1, <2>2 DEF PostsBar, RefInv, PostsIsMap
<1>2. CASE pc[t] = "drop"
  <2>1. call[t].op = "deletePost"
    BY <1>2 DEF RefInv, Agree, Inv, LocksInv, PlaceOfCall
  <2>2. \A s : Dropping(s) <=> s = call[t].serial
    BY <1>2, <2>1 DEF QuietOthers, Dropping, At
  <2>3. {s \in DOMAIN posts : ~Dropping(s)} = DOMAIN posts \ {call[t].serial}
    BY <2>2
  <2> QED BY <1>2, <2>3 DEF PostsBar, Erase
<1> QED BY <1>1, <1>2

LEMMA Shown ==
  RefInv => \A t \in Threads : QuietOthers(t) => Shows(t)
<1> SUFFICES ASSUME RefInv, NEW t \in Threads, QuietOthers(t)
             PROVE  Shows(t)
  OBVIOUS
<1>1. (\E u \in Threads : pc[u] \in {"list", "insert"}) <=> pc[t] \in Creating
  BY DEF QuietOthers, Creating
<1>2. NextBar = IF pc[t] \in Creating THEN postSerial - 1 ELSE postSerial
  BY <1>1 DEF NextBar
<1> QED BY <1>2, InfosShown, InfosShownAtInsert, PostsShown DEF Shows

\* The same of the state after a step.
LEMMA ShownNext ==
  (RefInv => \A t \in Threads : QuietOthers(t) => Shows(t))'
BY Shown, PTL

\* A method finds no other thread between two writes that it could see.
LEMMA MethodQuiet ==
  ASSUME RefInv, NEW t \in Threads, Method(t)
  PROVE  QuietOthers(t) /\ QuietOthers(t)'
<1>1. ASSUME NEW u \in Threads, u # t, pc[u] \in {"list", "insert", "drop"}
      PROVE  FALSE
  <2>1. pc[t] \in Inside
    BY <1>1, TablesChange
  <2>2. pc[u] \in Inside /\ call[u].op \in {"createPost", "deletePost"}
    BY <1>1 DEF RefInv, Agree, Inv, LocksInv, PlaceOfCall, Inside
  <2>3. CASE call[t].op \in {"createBoard", "listBoards"}
    BY <1>1, <2>1, <2>3, AloneOnBoards DEF RefInv, Agree, BoardMethods, Between
  <2>4. CASE call[t].op \notin {"createBoard", "listBoards"}
    BY <1>1, <2>1, <2>2, <2>4, Alone DEF RefInv, Agree, Inv
  <2> QED BY <2>3, <2>4
<1>2. \A u \in Threads \ {t} : pc'[u] = pc[u]
  BY MethodOnly DEF RefInv, Agree, Inv
<1> QED BY <1>1, <1>2 DEF QuietOthers

LEMMA Before ==
  ASSUME RefInv, NEW t \in Threads, Method(t)
  PROVE  Shows(t)
BY MethodQuiet, Shown

LEMMA After ==
  ASSUME RefInv, RefInv', NEW t \in Threads, Method(t)
  PROVE  Shows(t)'
BY MethodQuiet, ShownNext

-----------------------------------------------------------------------------
(* Every step of BoardStore is one of BulletinBoard, or changes nothing    *)
(* that it shows.                                                          *)

Simulated == Board!Next \/ UNCHANGED Board!vars

\* A return is an answer, except after deletePost's last write, where the answer
\* is out already.
LEMMA LeaveAnswers ==
  ASSUME RefInv, NEW t \in Threads, NEW a, Leave(t, a), pc[t] \in Inside, pc[t] # "drop"
  PROVE  Board!Answer(t, a) /\ Board!Pending(t, call[t].op)
<1>1. AnswerBar[t] = Board!NoAnswer
  BY SameCalls DEF RefInv, Serves, AnswerBar, Inside
<1>2. AnswerBar' = [AnswerBar EXCEPT ![t] = a]
  <2>1. /\ \A u \in Threads \ {t} : pc'[u] = pc[u] /\ answer'[u] = answer[u]
        /\ pc'[t] = "unlock" /\ answer'[t] = a
    BY DEF RefInv, Agree, Inv, TypeOK, ThreadsOK, Leave, Go
  <2> QED BY <2>1 DEF AnswerBar
<1> QED BY <1>1, <1>2 DEF Board!Answer, Board!Pending, Leave

LEMMA StepAnswersNot ==
  ASSUME RefInv, NEW t \in Threads, pc[t] \in Inside, pc[t] # "drop",
         NEW place, place # "drop", Step(t, place)
  PROVE  AnswerBar' = AnswerBar /\ call' = call
<1>1. /\ \A u \in Threads \ {t} : pc'[u] = pc[u]
      /\ pc'[t] = place /\ answer' = answer
  BY DEF RefInv, Agree, Inv, TypeOK, ThreadsOK, Step, Go
<1> QED BY <1>1 DEF AnswerBar, Step

\* The entries with a name, in a state in which the entries are shown as they are.
LEMMA EntriesShown ==
  ASSUME RefInv, NEW t \in Threads, pc[t] \in Inside, call[t].op \in BoardMethods,
         pc[t] # "append", InfosBar = boardInfos, NEW b
  PROVE  /\ Known(b) => Found(b) /\ Board!Entries(b) = {Entry(b)}
         /\ ~Known(b) => Board!Entries(b) = {}
<1>1. \A i \in DOMAIN boardInfos : boardInfos[i].name = b => Known(b) /\ Entry(b) = i
  BY DEF RefInv, Agree, ListsInv, IndexMatchesEntries
<1>2. Known(b) => Found(b) /\ boardInfos[Entry(b)].name = b
  BY KnownFound DEF RefInv
<1> QED BY <1>1, <1>2 DEF Board!Entries, Found

\* A method that returns a refusal or a listing.
LEMMA Reads ==
  ASSUME RefInv, RefInv', NEW t \in Threads, Method(t), pc[t] = "body", NEW a, Leave(t, a),
         UNCHANGED tables
  PROVE  /\ Board!Answer(t, a) /\ Board!Pending(t, call[t].op) /\ UNCHANGED Board!data
         /\ InfosBar = boardInfos /\ PostsBar = posts
<1>1. pc'[t] = "unlock"
  BY DEF RefInv, Agree, Inv, TypeOK, ThreadsOK, Leave, Go
<1>2. InfosBar = boardInfos /\ PostsBar = posts /\ NextBar = postSerial
  BY Before DEF Shows, Creating
<1>3. (InfosBar = boardInfos /\ PostsBar = posts /\ NextBar = postSerial)'
  BY <1>1, After DEF Shows, Creating
<1>4. Board!Answer(t, a) /\ Board!Pending(t, call[t].op)
  BY LeaveAnswers DEF Inside
<1> QED BY <1>2, <1>3, <1>4 DEF tables, Board!data

LEMMA CreateBoardSimulated ==
  ASSUME RefInv, RefInv', NEW t \in Threads, CreateBoard(t)
  PROVE  Simulated
<1>0. /\ Method(t) /\ pc[t] = "body" /\ pc[t] \in Inside /\ call[t].op = "createBoard"
      /\ call[t].op \in BoardMethods /\ UNCHANGED <<boardInfos, postSerial, posts>>
  BY DEF Method, CreateBoard, At, Inside, BoardMethods
<1>1. CASE Known(call[t].board) /\ Leave(t, Refused("BoardExists")) /\ UNCHANGED boards
  <2>1. /\ Board!Answer(t, Refused("BoardExists")) /\ Board!Pending(t, call[t].op)
        /\ UNCHANGED Board!data /\ InfosBar = boardInfos
    BY <1>0, <1>1, Reads DEF tables
  <2>2. Board!Entries(call[t].board) # {}
    BY <1>0, <1>1, <2>1, EntriesShown
  <2>3. Board!CreateBoard(t)
    BY <1>0, <2>1, <2>2, SameCalls DEF Board!CreateBoard, Board!data
  <2> QED BY <2>3 DEF Simulated, Board!Next
<1>2. CASE Step(t, "append")
  <2>1. pc'[t] = "append"
    BY <1>2 DEF RefInv, Agree, Inv, TypeOK, ThreadsOK, Step, Go
  <2>2. InfosBar = boardInfos /\ PostsBar = posts /\ NextBar = postSerial
    BY <1>0, Before DEF Shows, Creating
  <2>3. (InfosBar = boardInfos /\ PostsBar = posts /\ NextBar = postSerial)'
    BY <1>0, <2>1, After DEF Shows, Creating
  <2>4. AnswerBar' = AnswerBar /\ call' = call
    BY <1>0, <1>2, StepAnswersNot
  <2> QED BY <1>0, <2>2, <2>3, <2>4 DEF Simulated, Board!vars, Board!data
<1> QED BY <1>1, <1>2 DEF CreateBoard

LEMMA AppendBoardSimulated ==
  ASSUME RefInv, RefInv', NEW t \in Threads, AppendBoard(t)
  PROVE  Simulated
<1> DEFINE e == [name |-> call[t].board, moderator |-> call[t].user, serials |-> << >>]
<1>0. /\ Method(t) /\ pc[t] = "append" /\ pc[t] \in Inside /\ call[t].op = "createBoard"
      /\ UNCHANGED <<boards, postSerial, posts>>
      /\ boardInfos' = Append(boardInfos, e) /\ Leave(t, Done)
  BY DEF Method, AppendBoard, At, Inside
<1>1. pc'[t] = "unlock"
  BY <1>0 DEF RefInv, Agree, Inv, TypeOK, ThreadsOK, Leave, Go
<1>2. InfosBar = boardInfos /\ PostsBar = posts /\ NextBar = postSerial
  BY <1>0, Before DEF Shows, Creating
<1>3. (InfosBar = boardInfos /\ PostsBar = posts /\ NextBar = postSerial)'
  BY <1>0, <1>1, After DEF Shows, Creating
<1>4. Board!Answer(t, Done) /\ Board!Pending(t, "createBoard")
  BY <1>0, LeaveAnswers
<1>5. Board!Entries(call[t].board) = {}
  <2>1. Len(boardInfos) \in Nat /\ DOMAIN boardInfos = 1 .. Len(boardInfos)
    BY LenProperties DEF RefInv, Agree, Inv, TypeOK, TablesOK
  <2>2. Entry(call[t].board) = Len(boardInfos) + 1
    BY <1>0 DEF RefInv, Agree, ListsInv, KnowsLists, Entry
  <2>3. Entry(call[t].board) \notin DOMAIN boardInfos
    BY <2>1, <2>2
  <2>4. \A i \in DOMAIN boardInfos : boardInfos[i].name # call[t].board
    BY <2>3 DEF RefInv, Agree, ListsInv, IndexMatchesEntries
  <2> QED BY <1>2, <2>4 DEF Board!Entries
<1>6. Board!CreateBoard(t)
  BY <1>0, <1>2, <1>3, <1>4, <1>5, SameCalls DEF Board!CreateBoard
<1> QED BY <1>6 DEF Simulated, Board!Next

LEMMA ListBoardsSimulated ==
  ASSUME RefInv, RefInv', NEW t \in Threads, ListBoards(t)
  PROVE  Simulated
<1>0. /\ Method(t) /\ pc[t] = "body" /\ call[t].op = "listBoards"
      /\ UNCHANGED tables /\ Leave(t, BoardLines(boardInfos))
  BY DEF Method, ListBoards, At
<1>1. /\ Board!Answer(t, BoardLines(boardInfos)) /\ Board!Pending(t, call[t].op)
      /\ UNCHANGED Board!data /\ InfosBar = boardInfos
  BY <1>0, Reads
<1>2. Board!ListBoards(t)
  BY <1>0, <1>1, SameCalls DEF Board!ListBoards
<1> QED BY <1>2 DEF Simulated, Board!Next

LEMMA ListPostsSimulated ==
  ASSUME RefInv, RefInv', NEW t \in Threads, ListPosts(t)
  PROVE  Simulated
<1> DEFINE b == call[t].board
           listed == boardInfos[Entry(b)].serials
<1>0. /\ Method(t) /\ pc[t] = "body" /\ pc[t] \in Inside /\ call[t].op = "listPosts"
      /\ call[t].op \in BoardMethods /\ UNCHANGED tables
  BY DEF Method, ListPosts, At, Inside, BoardMethods
<1>1. InfosBar = boardInfos
  BY <1>0, Before DEF Shows
<1>2. /\ Known(b) => Found(b) /\ Board!Entries(b) = {Entry(b)}
      /\ ~Known(b) => Board!Entries(b) = {}
  BY <1>0, <1>1, EntriesShown
<1>3. CASE ~Known(b) /\ Leave(t, Refused("NoBoard"))
  <2>1. /\ Board!Answer(t, Refused("NoBoard")) /\ Board!Pending(t, call[t].op)
        /\ UNCHANGED Board!data
    BY <1>0, <1>3, Reads
  <2>2. Board!ListPosts(t)
    BY <1>0, <1>2, <1>3, <2>1, SameCalls DEF Board!ListPosts
  <2> QED BY <2>2 DEF Simulated, Board!Next
<1>4. CASE Found(b) /\ Leave(t, PostLines(listed, posts))
  <2>1. /\ Board!Answer(t, PostLines(listed, posts)) /\ Board!Pending(t, call[t].op)
        /\ UNCHANGED Board!data /\ PostsBar = posts
    BY <1>0, <1>4, Reads
  <2>2. Board!Entries(b) = {Entry(b)}
    BY <1>2, <1>4 DEF Found
  <2>3. Board!ListPosts(t)
    BY <1>0, <1>1, <2>1, <2>2, SameCalls DEF Board!ListPosts
  <2> QED BY <2>3 DEF Simulated, Board!Next
<1>5. ~ Leave(t, Thrown)
  <2>1. Leave(t, Thrown) => answer'[t] = Thrown
    BY DEF RefInv, Agree, Inv, TypeOK, ThreadsOK, Leave
  <2> QED BY <2>1 DEF RefInv, Agree, ListsInv, NoThrow
<1> QED BY <1>3, <1>4, <1>5 DEF ListPosts

LEMMA CreatePostSimulated ==
  ASSUME RefInv, RefInv', NEW t \in Threads, CreatePost(t)
  PROVE  Simulated
<1>0. /\ Method(t) /\ pc[t] = "body" /\ pc[t] \in Inside /\ call[t].op = "createPost"
      /\ call[t].op \in BoardMethods /\ UNCHANGED <<boards, boardInfos, posts>>
  BY DEF Method, CreatePost, At, Inside, BoardMethods
<1>1. InfosBar = boardInfos /\ PostsBar = posts /\ NextBar = postSerial
  BY <1>0, Before DEF Shows, Creating
<1>2. CASE ~Known(call[t].board) /\ Leave(t, Refused("NoBoard")) /\ UNCHANGED postSerial
  <2>1. /\ Board!Answer(t, Refused("NoBoard")) /\ Board!Pending(t, call[t].op)
        /\ UNCHANGED Board!data
    BY <1>0, <1>2, Reads DEF tables
  <2>2. Board!Entries(call[t].board) = {}
    BY <1>0, <1>1, <1>2, EntriesShown
  <2>3. Board!CreatePost(t)
    BY <1>0, <2>1, <2>2, SameCalls DEF Board!CreatePost
  <2> QED BY <2>3 DEF Simulated, Board!Next
<1>3. CASE /\ serial' = [serial EXCEPT ![t] = postSerial]
           /\ postSerial' = NextSerial
           /\ Go(t, "list")
           /\ UNCHANGED <<owner, taken, call, answer>>
  <2>1. /\ \A u \in Threads \ {t} : pc'[u] = pc[u]
        /\ pc'[t] = "list" /\ postSerial' = postSerial + 1 /\ postSerial \in Nat
    BY <1>3 DEF RefInv, Agree, Inv, TypeOK, TablesOK, ThreadsOK, Go, NextSerial
  <2>2. InfosBar' = boardInfos' /\ PostsBar' = posts' /\ NextBar' = postSerial' - 1
    BY <1>0, <2>1, After DEF Shows, Creating
  <2>3. AnswerBar' = AnswerBar /\ call' = call
    BY <1>0, <1>3, <2>1 DEF AnswerBar
  <2> QED BY <1>0, <1>1, <2>1, <2>2, <2>3 DEF Simulated, Board!vars, Board!data
<1> QED BY <1>2, <1>3 DEF CreatePost

\* createPost has a board that has its entry.
LEMMA ListSerialFound ==
  ASSUME RefInv, NEW t \in Threads, ListSerial(t), NEW k, k = Entry(call[t].board)
  PROVE  /\ k \in DOMAIN boardInfos
         /\ boardInfos' = [boardInfos EXCEPT ![k].serials =
                              Append(boardInfos[k].serials, serial[t])]
         /\ Step(t, "insert")
<1>1. Known(call[t].board) /\ pc[t] \in Inside /\ call[t].op \in BoardMethods
      /\ pc[t] # "append"
  BY DEF ListSerial, At, Inside, BoardMethods, RefInv, Agree, ListsInv, KnowsLists
<1>2. Found(call[t].board)
  BY <1>1, KnownFound DEF RefInv
<1> QED BY <1>2 DEF ListSerial, Found

LEMMA ListSerialSimulated ==
  ASSUME RefInv, RefInv', NEW t \in Threads, ListSerial(t)
  PROVE  Simulated
<1>0. /\ Method(t) /\ pc[t] = "list" /\ pc[t] \in Inside
      /\ UNCHANGED <<boards, postSerial, posts>>
  BY DEF Method, ListSerial, At, Inside
<1>1. PICK k, v : k = Entry(call[t].board) /\ v = serial[t]
  OBVIOUS
<1>2. PICK list : list = boardInfos[k].serials
  OBVIOUS
<1>3. /\ k \in DOMAIN boardInfos
      /\ boardInfos' = [boardInfos EXCEPT ![k].serials = Append(list, v)]
      /\ Step(t, "insert")
  BY <1>1, <1>2, ListSerialFound
<1>4. list \in Seq(Nat) /\ v \in Nat
  BY <1>1, <1>2, <1>3, EntryType DEF RefInv, Agree, Inv, TypeOK, TablesOK, ThreadsOK
<1>5. PICK more \in Seq(Nat) : more = Append(list, v) /\ Front(more) = list
  BY <1>4, FrontOfAppend, AppendProperties
<1>6. pc'[t] = "insert" /\ call' = call
  BY <1>3 DEF RefInv, Agree, Inv, TypeOK, ThreadsOK, Step, Go
<1>7. InfosBar = boardInfos /\ PostsBar = posts /\ NextBar = postSerial - 1
  BY <1>0, Before DEF Shows, Creating
<1>8. /\ InfosBar' = [boardInfos' EXCEPT ![k].serials = Front(@)]
      /\ PostsBar' = posts' /\ NextBar' = postSerial' - 1
  <2>1. Entry(call[t].board)' = k
    BY <1>0, <1>1, <1>6 DEF Entry
  <2> QED BY <1>0, <1>6, <2>1, After DEF Shows, Creating
<1>9. InfosBar' = boardInfos
  <2>1. /\ DOMAIN boardInfos' = DOMAIN boardInfos
        /\ boardInfos' = [i \in DOMAIN boardInfos |-> boardInfos'[i]]
        /\ \A i \in DOMAIN boardInfos \ {k} : boardInfos'[i] = boardInfos[i]
        /\ boardInfos'[k] = [boardInfos[k] EXCEPT !.serials = more]
    BY <1>3, <1>5
  <2>2. boardInfos[k] \in BoardInfo /\ boardInfos[k].serials = list
    BY <1>2, <1>3, EntryType DEF RefInv, Agree, Inv, TypeOK, TablesOK
  <2>3. [boardInfos'[k] EXCEPT !.serials = Front(@)] = boardInfos[k]
    <3>1. boardInfos'[k].serials = more
      BY <2>1, <2>2 DEF BoardInfo
    <3>2. [boardInfos'[k] EXCEPT !.serials = Front(@)] = [boardInfos'[k] EXCEPT !.serials = list]
      BY <1>5, <3>1
    <3> QED BY <2>1, <2>2, <3>2 DEF BoardInfo
  <2>4. \A i \in DOMAIN boardInfos :
          [boardInfos' EXCEPT ![k].serials = Front(@)][i] = boardInfos[i]
    <3>1. ASSUME NEW i \in DOMAIN boardInfos
          PROVE  [boardInfos' EXCEPT ![k].serials = Front(@)][i]
                   = IF i = k THEN [boardInfos'[k] EXCEPT !.serials = Front(@)]
                              ELSE boardInfos'[i]
      BY <2>1, <3>1, Zenon
    <3> QED BY <2>1, <2>3, <3>1
  <2>5. [boardInfos' EXCEPT ![k].serials = Front(@)]
          = [i \in DOMAIN boardInfos |-> boardInfos[i]]
    BY <2>1, <2>4, Zenon
  <2> QED BY <1>8, <2>5, InfosAreFunction
<1>10. AnswerBar' = AnswerBar
  BY <1>0, <1>3, StepAnswersNot
<1> QED BY <1>0, <1>6, <1>7, <1>8, <1>9, <1>10 DEF Simulated, Board!vars, Board!data

LEMMA InsertPostSimulated ==
  ASSUME RefInv, RefInv', NEW t \in Threads, InsertPost(t)
  PROVE  Simulated
<1>0. /\ Method(t) /\ pc[t] = "insert" /\ pc[t] \in Inside /\ call[t].op = "createPost"
      /\ UNCHANGED <<boards, boardInfos, postSerial>> /\ Leave(t, Done)
      /\ posts' = Insert(posts, serial[t], NewPost(call[t]))
  BY DEF Method, InsertPost, At, Inside
<1>1. PICK k, v, b : k = Entry(b) /\ v = serial[t] /\ b = call[t].board
  OBVIOUS
<1>2. PICK list : list = boardInfos[k].serials
  OBVIOUS
<1>3. k \in DOMAIN boardInfos /\ boardInfos[k].name = b
  BY <1>0, <1>1, KnownFound DEF RefInv, Agree, ListsInv, KnowsLists, Found, BoardMethods
<1>4. /\ boardInfos[k] \in BoardInfo /\ list \in Seq(Nat) /\ v \in Nat
      /\ postSerial \in Nat
  BY <1>1, <1>2, <1>3, EntryType DEF RefInv, Agree, Inv, TypeOK, TablesOK, ThreadsOK
<1>5. list # << >> /\ Last(list) = v /\ v = postSerial - 1
  BY <1>0, <1>1, <1>2, <1>4 DEF RefInv, Serves, Creating
<1>6. PICK front \in Seq(Nat) : front = Front(list) /\ Append(front, v) = list
  BY <1>4, <1>5, AppendToFront
<1>7. pc'[t] = "unlock"
  BY <1>0 DEF RefInv, Agree, Inv, TypeOK, ThreadsOK, Leave, Go
<1>8. /\ InfosBar = [boardInfos EXCEPT ![k].serials = Front(@)]
      /\ PostsBar = posts /\ NextBar = v
  BY <1>0, <1>1, <1>5, Before DEF Shows, Creating
<1>9. InfosBar' = boardInfos /\ PostsBar' = posts' /\ NextBar' = postSerial
  BY <1>0, <1>7, After DEF Shows, Creating
<1>10. InfosBar = [boardInfos EXCEPT ![k].serials = front]
  BY <1>2, <1>3, <1>6, <1>8, Zenon
<1>11. /\ DOMAIN InfosBar = DOMAIN boardInfos
       /\ \A i \in DOMAIN boardInfos \ {k} : InfosBar[i] = boardInfos[i]
       /\ InfosBar[k] = [boardInfos[k] EXCEPT !.serials = front]
       /\ InfosBar = [i \in DOMAIN boardInfos |-> InfosBar[i]]
  BY <1>3, <1>10
<1>12. InfosBar[k].name = b /\ InfosBar[k].serials = front
  BY <1>3, <1>4, <1>11 DEF BoardInfo
<1>13. k \in Board!Entries(b)
  BY <1>3, <1>11, <1>12 DEF Board!Entries
<1>14. InfosBar' = [InfosBar EXCEPT ![k].serials = Append(@, NextBar)]
  <2>1. [InfosBar[k] EXCEPT !.serials = Append(@, NextBar)]
          = [InfosBar[k] EXCEPT !.serials = list]
    BY <1>6, <1>8, <1>12
  <2>2. [InfosBar[k] EXCEPT !.serials = list] = boardInfos[k]
    BY <1>2, <1>4, <1>11 DEF BoardInfo
  <2>3. ASSUME NEW i \in DOMAIN boardInfos
        PROVE  [InfosBar EXCEPT ![k].serials = Append(@, NextBar)][i] = boardInfos[i]
    <3>1. [InfosBar EXCEPT ![k].serials = Append(@, NextBar)][i]
            = IF i = k THEN [InfosBar[k] EXCEPT !.serials = Append(@, NextBar)] ELSE InfosBar[i]
      BY <1>11, <2>3, Zenon
    <3> QED BY <1>11, <2>1, <2>2, <2>3, <3>1
  <2>4. [InfosBar EXCEPT ![k].serials = Append(@, NextBar)]
          = [i \in DOMAIN boardInfos |-> boardInfos[i]]
    BY <1>11, <2>3, Zenon
  <2> QED BY <1>9, <2>4, InfosAreFunction
<1>15. PostsBar' = Board!Insert(PostsBar, NextBar, Board!NewPost(call[t]))
  BY <1>0, <1>1, <1>8, <1>9, SameData
<1>16. NextBar' = NextBar + 1
  BY <1>4, <1>5, <1>8, <1>9
<1>17. Board!Answer(t, Board!Done) /\ Board!Pending(t, "createPost")
  BY <1>0, LeaveAnswers, SameCalls
<1>18. Board!CreatePost(t)
  BY <1>1, <1>13, <1>14, <1>15, <1>16, <1>17 DEF Board!CreatePost
<1> QED BY <1>18 DEF Simulated, Board!Next

LEMMA ReadPostSimulated ==
  ASSUME RefInv, RefInv', NEW t \in Threads, ReadPost(t)
  PROVE  Simulated
<1>0. /\ Method(t) /\ pc[t] = "body" /\ call[t].op = "readPost" /\ UNCHANGED tables
  BY DEF Method, ReadPost, At
<1>1. CASE call[t].serial \notin DOMAIN posts /\ Leave(t, Refused("NoPost"))
  <2>1. /\ Board!Answer(t, Refused("NoPost")) /\ Board!Pending(t, call[t].op)
        /\ UNCHANGED Board!data /\ PostsBar = posts
    BY <1>0, <1>1, Reads
  <2>2. Board!ReadPost(t)
    BY <1>0, <1>1, <2>1, SameCalls DEF Board!ReadPost
  <2> QED BY <2>2 DEF Simulated, Board!Next
<1>2. CASE /\ call[t].serial \in DOMAIN posts
           /\ Leave(t, PostText(posts[call[t].serial]))
  <2>1. /\ Board!Answer(t, PostText(posts[call[t].serial]))
        /\ Board!Pending(t, call[t].op) /\ UNCHANGED Board!data /\ PostsBar = posts
    BY <1>0, <1>2, Reads
  <2>2. Board!ReadPost(t)
    BY <1>0, <1>2, <2>1, SameCalls DEF Board!ReadPost
  <2> QED BY <2>2 DEF Simulated, Board!Next
<1> QED BY <1>1, <1>2 DEF ReadPost

LEMMA CheckPostSimulated ==
  ASSUME RefInv, RefInv', NEW t \in Threads, CheckPost(t)
  PROVE  Simulated
<1> DEFINE c == call[t]
<1>0. /\ Method(t) /\ pc[t] = "body" /\ pc[t] \in Inside
      /\ c.op \in {"deletePost", "updatePost", "comment"} /\ UNCHANGED tables
  BY DEF Method, CheckPost, Inside
<1>1. CASE c.serial \notin DOMAIN posts /\ Leave(t, Refused("NoPost"))
  <2>1. /\ Board!Answer(t, Refused("NoPost")) /\ Board!Pending(t, c.op)
        /\ UNCHANGED Board!data /\ PostsBar = posts
    BY <1>0, <1>1, Reads
  <2>2. CASE c.op \in {"deletePost", "updatePost"}
    <3>1. Board!RefuseEdit(t)
      BY <1>1, <2>1, <2>2, SameCalls DEF Board!RefuseEdit
    <3> QED BY <3>1 DEF Simulated, Board!Next
  <2>3. CASE c.op = "comment"
    <3>1. Board!Comment(t)
      BY <1>1, <2>1, <2>3, SameCalls DEF Board!Comment, Board!data
    <3> QED BY <3>1 DEF Simulated, Board!Next
  <2> QED BY <1>0, <2>2, <2>3
<1>2. CASE c.serial \in DOMAIN posts /\ ~MayEdit(c) /\ Leave(t, Refused("NotOwner"))
  <2>1. /\ Board!Answer(t, Refused("NotOwner")) /\ Board!Pending(t, c.op)
        /\ UNCHANGED Board!data /\ PostsBar = posts
    BY <1>0, <1>2, Reads
  <2>2. c.op \in {"deletePost", "updatePost"} /\ posts[c.serial].author # c.user
    BY <1>2 DEF MayEdit, OwnerOnly
  <2>3. Board!RefuseEdit(t)
    BY <1>2, <2>1, <2>2, SameCalls DEF Board!RefuseEdit
  <2> QED BY <2>3 DEF Simulated, Board!Next
<1>3. CASE \E place \in {"unlist", "write"} : Step(t, place)
  <2>1. PICK place \in {"unlist", "write"} : Step(t, place)
    BY <1>3
  <2>2. pc'[t] = place
    BY <2>1 DEF RefInv, Agree, Inv, TypeOK, ThreadsOK, Step, Go
  <2>3. InfosBar = boardInfos /\ PostsBar = posts /\ NextBar = postSerial
    BY <1>0, Before DEF Shows, Creating
  <2>4. (InfosBar = boardInfos /\ PostsBar = posts /\ NextBar = postSerial)'
    BY <1>0, <2>2, After DEF Shows, Creating
  <2>5. AnswerBar' = AnswerBar /\ call' = call
    BY <1>0, <2>1, StepAnswersNot
  <2> QED BY <1>0, <2>3, <2>4, <2>5 DEF Simulated, Board!vars, Board!data, tables
<1> QED BY <1>1, <1>2, <1>3 DEF CheckPost

\* deletePost finds the board of its post, and the serial on that board's list only.
LEMMA UnlistFound ==
  ASSUME RefInv, NEW t \in Threads, UnlistSerial(t), NEW v, v = call[t].serial
  PROVE  \E k \in DOMAIN boardInfos :
           /\ boardInfos' = [boardInfos EXCEPT ![k].serials = EraseFirst(@, v)]
           /\ \A i \in DOMAIN boardInfos \ {k} : ~Listed(i, v)
           /\ Step(t, "drop")
<1> DEFINE b == posts[v].board
<1>0. pc[t] = "unlist" /\ pc[t] \in Inside /\ call[t].op \in BoardMethods
  BY DEF UnlistSerial, At, Inside, BoardMethods
<1>1. v \in DOMAIN posts
  BY <1>0 DEF RefInv, Agree, Inv, PostsInv, Knows, Editing, MayEdit
<1>2. PICK k \in DOMAIN boardInfos : Listed(k, v)
  <2>1. ~Dropping(v)
    BY <1>0, AloneOnBoards DEF RefInv, Agree, Dropping, At, Between
  <2> QED BY <1>1, <2>1 DEF RefInv, Agree, ListsInv, ListsMatchPosts
<1>3. boardInfos[k].name = b
  BY <1>1, <1>2 DEF RefInv, Agree, ListsInv, ListsMatchPosts, Listed
<1>4. Found(b) /\ Entry(b) = k
  BY <1>3 DEF RefInv, Agree, ListsInv, IndexMatchesEntries, Found
<1>5. \A i \in DOMAIN boardInfos \ {k} : ~Listed(i, v)
  BY <1>2 DEF RefInv, Agree, ListsInv, ListsApart, Listed
<1>6. boardInfos' = [boardInfos EXCEPT ![k].serials = EraseFirst(@, v)] /\ Step(t, "drop")
  BY <1>4 DEF UnlistSerial
<1> QED BY <1>5, <1>6

LEMMA UnlistSimulated ==
  ASSUME RefInv, RefInv', NEW t \in Threads, UnlistSerial(t)
  PROVE  Simulated
<1>0. /\ Method(t) /\ pc[t] = "unlist" /\ pc[t] \in Inside /\ call[t].op = "deletePost"
      /\ UNCHANGED <<boards, postSerial, posts>>
  BY DEF Method, UnlistSerial, At, Inside
<1>1. PICK v : v = call[t].serial
  OBVIOUS
<1>2. PICK k \in DOMAIN boardInfos :
           /\ boardInfos' = [boardInfos EXCEPT ![k].serials = EraseFirst(@, v)]
           /\ \A i \in DOMAIN boardInfos \ {k} : ~Listed(i, v)
           /\ Step(t, "drop")
  BY <1>1, UnlistFound
<1>3. /\ pc'[t] = "drop" /\ call' = call /\ answer' = answer
      /\ \A u \in Threads \ {t} : pc'[u] = pc[u]
  BY <1>2 DEF RefInv, Agree, Inv, TypeOK, ThreadsOK, Step, Go
<1>4. InfosBar = boardInfos /\ PostsBar = posts /\ NextBar = postSerial
  BY <1>0, Before DEF Shows, Creating
<1>5. InfosBar' = boardInfos' /\ PostsBar' = Erase(posts, v) /\ NextBar' = postSerial
  <2>1. call'[t].serial = v
    BY <1>1, <1>3
  <2> QED BY <1>0, <1>3, <2>1, After DEF Shows, Creating, Erase
<1>6. boardInfos' = [i \in DOMAIN boardInfos |->
                       [boardInfos[i] EXCEPT !.serials = EraseFirst(@, v)]]
  <2>1. ASSUME NEW i \in DOMAIN boardInfos, i # k
        PROVE  [boardInfos[i] EXCEPT !.serials = EraseFirst(@, v)] = boardInfos[i]
    <3>1. EraseFirst(boardInfos[i].serials, v) = boardInfos[i].serials
      BY <1>2, <2>1 DEF Listed, ToSet, EraseFirst
    <3>2. boardInfos[i].serials \in Seq(Nat)
      BY EntryType DEF RefInv, Agree, Inv, TypeOK, TablesOK
    <3> QED BY <2>1, <3>1, <3>2, SameEntry
  <2>2. [boardInfos EXCEPT ![k].serials = EraseFirst(@, v)]
          = [i \in DOMAIN boardInfos |->
               IF i = k THEN [boardInfos[k] EXCEPT !.serials = EraseFirst(@, v)]
                        ELSE boardInfos[i]]
    BY Zenon
  <2> QED BY <1>2, <2>1, <2>2, Zenon
<1>7. MayEdit(call[t])
  BY <1>0 DEF RefInv, Agree, Inv, PostsInv, Knows, Editing
<1>8. v \in DOMAIN posts /\ posts[v].author = call[t].user
  BY <1>0, <1>1, <1>7 DEF MayEdit, OwnerOnly
<1>9. Board!Answer(t, Board!Done) /\ Board!Pending(t, "deletePost")
  <2>1. AnswerBar[t] = Board!NoAnswer
    BY <1>0, SameCalls DEF RefInv, Serves, AnswerBar
  <2>2. AnswerBar' = [AnswerBar EXCEPT ![t] = Done]
    BY <1>3 DEF AnswerBar
  <2> QED BY <1>0, <1>3, <2>1, <2>2, SameCalls DEF Board!Answer, Board!Pending
<1>10. InfosBar' = [i \in DOMAIN InfosBar |->
                      [InfosBar[i] EXCEPT !.serials = Board!EraseFirst(@, call[t].serial)]]
  BY <1>1, <1>4, <1>5, <1>6, SameData, Zenon
<1>11. PostsBar' = Board!Erase(PostsBar, call[t].serial)
  BY <1>1, <1>4, <1>5, SameData
<1>12. Board!DeletePost(t)
  BY <1>0, <1>1, <1>4, <1>5, <1>8, <1>9, <1>10, <1>11 DEF Board!DeletePost
<1> QED BY <1>12 DEF Simulated, Board!Next

LEMMA DropPostSimulated ==
  ASSUME RefInv, RefInv', NEW t \in Threads, DropPost(t)
  PROVE  Simulated
<1>0. /\ Method(t) /\ pc[t] = "drop" /\ UNCHANGED <<boards, boardInfos, postSerial>>
      /\ posts' = Erase(posts, call[t].serial) /\ Leave(t, Done)
  BY DEF Method, DropPost, At
<1>1. /\ pc'[t] = "unlock" /\ answer'[t] = Done /\ call' = call
      /\ \A u \in Threads \ {t} : pc'[u] = pc[u] /\ answer'[u] = answer[u]
  BY <1>0 DEF RefInv, Agree, Inv, TypeOK, ThreadsOK, Leave, Go
<1>2. InfosBar = boardInfos /\ PostsBar = Erase(posts, call[t].serial) /\ NextBar = postSerial
  BY <1>0, Before DEF Shows, Creating
<1>3. (InfosBar = boardInfos /\ PostsBar = posts /\ NextBar = postSerial)'
  BY <1>0, <1>1, After DEF Shows, Creating
<1>4. AnswerBar' = AnswerBar
  BY <1>0, <1>1 DEF AnswerBar
<1> QED BY <1>0, <1>1, <1>2, <1>3, <1>4 DEF Simulated, Board!vars, Board!data

LEMMA WriteSimulated ==
  ASSUME RefInv, RefInv', NEW t \in Threads, UpdatePost(t) \/ Comment(t)
  PROVE  Simulated
<1>0. /\ Method(t) /\ pc[t] = "write" /\ pc[t] \in Inside
      /\ UNCHANGED <<boards, boardInfos, postSerial>> /\ Leave(t, Done)
  BY DEF Method, UpdatePost, Comment, At, Inside
<1>1. pc'[t] = "unlock"
  BY <1>0 DEF RefInv, Agree, Inv, TypeOK, ThreadsOK, Leave, Go
<1>2. InfosBar = boardInfos /\ PostsBar = posts /\ NextBar = postSerial
  BY <1>0, Before DEF Shows, Creating
<1>3. (InfosBar = boardInfos /\ PostsBar = posts /\ NextBar = postSerial)'
  BY <1>0, <1>1, After DEF Shows, Creating
<1>4. Board!Answer(t, Board!Done) /\ Board!Pending(t, call[t].op)
  BY <1>0, LeaveAnswers, SameCalls
<1>5. MayEdit(call[t])
  BY <1>0 DEF RefInv, Agree, Inv, PostsInv, Knows, Editing
<1>6. CASE UpdatePost(t)
  <2>1. posts' = [posts EXCEPT ![call[t].serial] = Board!Replace(@, call[t])]
    BY <1>6, SameData, Zenon DEF UpdatePost
  <2>2. call[t].op = "updatePost"
    BY <1>6 DEF UpdatePost, At
  <2>3. call[t].serial \in DOMAIN posts /\ posts[call[t].serial].author = call[t].user
    BY <1>5, <2>2 DEF MayEdit, OwnerOnly
  <2>4. Board!UpdatePost(t)
    BY <1>0, <1>2, <1>3, <1>4, <2>1, <2>2, <2>3, Zenon DEF Board!UpdatePost
  <2> QED BY <2>4 DEF Simulated, Board!Next
<1>7. CASE Comment(t)
  <2>1. posts' = [posts EXCEPT ![call[t].serial] = Board!AddComment(@, call[t])]
    BY <1>7, SameData, Zenon DEF Comment
  <2>2. call[t].op = "comment" /\ call[t].serial \in DOMAIN posts
    BY <1>5, <1>7 DEF Comment, At, MayEdit
  <2>3. Board!Comment(t)
    BY <1>0, <1>2, <1>3, <1>4, <2>1, <2>2, Zenon DEF Board!Comment
  <2> QED BY <2>3 DEF Simulated, Board!Next
<1> QED BY <1>6, <1>7

\* Outside the methods' bodies nothing of the board changes.
LEMMA OutsideShows ==
  ASSUME UNCHANGED <<boardInfos, postSerial, posts>>, NEW t \in Threads,
         \A u \in Threads \ {t} : pc'[u] = pc[u] /\ call'[u] = call[u],
         pc[t] \notin {"list", "insert", "drop"}, pc'[t] \notin {"list", "insert", "drop"}
  PROVE  UNCHANGED Board!data
<1>1. \A s : Dropping(s)' <=> Dropping(s)
  BY DEF Dropping, At
<1>2. (\E u \in Threads : pc[u] \in {"list", "insert"})'
        <=> (\E u \in Threads : pc[u] \in {"list", "insert"})
  OBVIOUS
<1>3. NextBar' = NextBar
  BY <1>2 DEF NextBar
<1>4. PostsBar' = PostsBar
  <2>1. {s \in DOMAIN posts' : ~Dropping(s)'} = {s \in DOMAIN posts : ~Dropping(s)}
    BY <1>1
  <2> QED BY <2>1 DEF PostsBar
<1>5. InfosBar' = InfosBar
  <2>1. \A list : InsertedSerials(list)' = InsertedSerials(list)
    BY DEF InsertedSerials
  <2> QED BY <2>1 DEF InfosBar, InsertedSerials
<1> QED BY <1>3, <1>4, <1>5 DEF Board!data

LEMMA InvokeSimulated ==
  ASSUME RefInv, NEW t \in Threads, NEW c \in Calls, Invoke(t, c)
  PROVE  Simulated
<1>1. /\ pc[t] = "idle" /\ pc'[t] = "lock" /\ answer' = answer
      /\ \A u \in Threads \ {t} : pc'[u] = pc[u] /\ call'[u] = call[u]
      /\ UNCHANGED <<boardInfos, postSerial, posts>>
  BY DEF RefInv, Agree, Inv, TypeOK, ThreadsOK, Invoke, Go, tables
<1>2. UNCHANGED Board!data
  BY <1>1, OutsideShows
<1>3. AnswerBar' = AnswerBar
  BY <1>1 DEF AnswerBar
<1>4. call[t] = NoCall
  BY <1>1 DEF RefInv, Serves
<1>5. WithinBounds(c, NextBar, PostsBar)
  <2>1. WithinBounds(c, postSerial, posts)
    BY DEF Invoke
  <2>2. postSerial \in Nat /\ MaxSerial \in Nat
    BY CallsAssumption DEF RefInv, Agree, Inv, TypeOK, TablesOK
  <2>3. postSerial <= MaxSerial => NextBar <= MaxSerial
    BY <2>2 DEF NextBar
  <2>4. \A s \in DOMAIN PostsBar : s \in DOMAIN posts /\ PostsBar[s] = posts[s]
    BY DEF PostsBar
  <2> QED BY <2>1, <2>3, <2>4 DEF WithinBounds
<1>6. Board!Invoke(t, c)
  BY <1>2, <1>3, <1>4, <1>5, SameCalls, SameBounds DEF Board!Invoke, Invoke
<1> QED BY <1>6, SameCalls DEF Simulated, Board!Next

LEMMA LockSimulated ==
  ASSUME RefInv, NEW t \in Threads, Lock(t) \/ Unlock(t)
  PROVE  Simulated
<1>1. /\ pc[t] \notin {"list", "insert", "drop"} /\ pc'[t] \notin {"list", "insert", "drop"}
      /\ \A u \in Threads \ {t} : pc'[u] = pc[u] /\ call'[u] = call[u]
      /\ UNCHANGED <<boardInfos, postSerial, posts, call, answer>>
  BY DEF RefInv, Agree, Inv, TypeOK, ThreadsOK, Lock, Unlock, Go, tables
<1>2. UNCHANGED Board!data
  BY <1>1, OutsideShows
<1>3. AnswerBar' = AnswerBar
  BY <1>1 DEF AnswerBar
<1> QED BY <1>1, <1>2, <1>3 DEF Simulated, Board!vars, Board!data

LEMMA ReturnSimulated ==
  ASSUME RefInv, NEW t \in Threads, Return(t)
  PROVE  Simulated
<1>1. /\ pc[t] = "return" /\ pc'[t] = "idle" /\ answer'[t] = NoAnswer
      /\ \A u \in Threads \ {t} : pc'[u] = pc[u] /\ call'[u] = call[u] /\ answer'[u] = answer[u]
      /\ UNCHANGED <<boardInfos, postSerial, posts>>
      /\ call' = [call EXCEPT ![t] = NoCall]
  BY DEF RefInv, Agree, Inv, TypeOK, ThreadsOK, Return, Go, tables
<1>2. UNCHANGED Board!data
  BY <1>1, OutsideShows
<1>3. AnswerBar' = [AnswerBar EXCEPT ![t] = NoAnswer]
  BY <1>1 DEF AnswerBar
<1>4. AnswerBar[t] # NoAnswer
  BY <1>1 DEF RefInv, Serves, AnswerBar
<1>5. Board!Return(t)
  BY <1>1, <1>2, <1>3, <1>4, SameCalls DEF Board!Return
<1> QED BY <1>5 DEF Simulated, Board!Next

-----------------------------------------------------------------------------

LEMMA StepSimulated ==
  ASSUME RefInv, RefInv', [Next]_vars
  PROVE  Simulated
<1>1. ASSUME NEW t \in Threads, Method(t)
      PROVE  Simulated
  <2>1. CASE CreateBoard(t) \/ AppendBoard(t) \/ ListBoards(t)
    BY <2>1, CreateBoardSimulated, AppendBoardSimulated, ListBoardsSimulated
  <2>2. CASE CreatePost(t) \/ ListSerial(t) \/ InsertPost(t) \/ ListPosts(t)
    BY <2>2, CreatePostSimulated, ListSerialSimulated, InsertPostSimulated,
       ListPostsSimulated
  <2>3. CASE ReadPost(t) \/ CheckPost(t) \/ UnlistSerial(t) \/ DropPost(t)
    BY <2>3, ReadPostSimulated, CheckPostSimulated, UnlistSimulated, DropPostSimulated
  <2>4. CASE UpdatePost(t) \/ Comment(t)
    BY <2>4, WriteSimulated
  <2> QED BY <1>1, <2>1, <2>2, <2>3, <2>4 DEF Method
<1>2. ASSUME NEW t \in Threads,
             (\E c \in Calls : Invoke(t, c)) \/ Lock(t) \/ Unlock(t) \/ Return(t)
      PROVE  Simulated
  BY <1>2, InvokeSimulated, LockSimulated, ReturnSimulated
<1>3. CASE UNCHANGED vars
  <2>1. UNCHANGED <<boardInfos, postSerial, posts, call, answer, pc>>
    BY <1>3 DEF vars, tables, thread
  <2>2. UNCHANGED Board!vars
    BY <2>1 DEF Board!vars, Board!data, InfosBar, PostsBar, NextBar, AnswerBar,
       InsertedSerials, Dropping, At
  <2> QED BY <2>2 DEF Simulated
<1> QED BY <1>1, <1>2, <1>3 DEF Next

\* Whatever calls of Database overlap, their answers and the boards and posts are
\* those of the same calls carried out one after the other, each between its
\* invocation and its return.
THEOREM LinearizableTheorem == Spec => Linearizable
<1>1. Init => Board!Init
  <2> SUFFICES ASSUME Init PROVE Board!Init
    OBVIOUS
  <2>1. /\ boardInfos = << >> /\ posts = Empty /\ postSerial = 1 /\ DOMAIN posts = {}
        /\ \A t \in Threads : pc[t] = "idle" /\ answer[t] = NoAnswer
        /\ call = [t \in Threads |-> NoCall]
    BY DEF Init, Empty
  <2>2. InfosBar = << >>
    BY <2>1 DEF InfosBar
  <2>3. PostsBar = Empty
    BY <2>1 DEF PostsBar, Empty
  <2>4. NextBar = 1
    BY <2>1 DEF NextBar
  <2>5. AnswerBar = [t \in Threads |-> NoAnswer]
    BY <2>1 DEF AnswerBar
  <2> QED BY <2>1, <2>2, <2>3, <2>4, <2>5, SameCalls DEF Board!Init
<1>2. RefInv /\ RefInv' /\ [Next]_vars => [Board!Next]_(Board!vars)
  BY StepSimulated DEF Simulated
<1> QED BY <1>1, <1>2, ServesInvariant, PTL DEF Spec, Linearizable, Board!Spec
=============================================================================
