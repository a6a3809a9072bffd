-------------------------- MODULE BoardStoreProofs --------------------------
(***************************************************************************)
(* Proofs about BoardStore, for every number of threads, boards, users and *)
(* posts: the locks of the Database class protect its boards and posts,    *)
(* and what a method found out about a post stays true while it has        *)
(* postmux, from its first look at the post to its last write.             *)
(***************************************************************************)
EXTENDS BoardStore, ListLemmas

-----------------------------------------------------------------------------
(* Facts about calls, lists and locks.                                     *)

\* What a call carries, by its operation.
LEMMA CallFields ==
  ASSUME NEW c \in Calls
  PROVE  /\ c.op \in {"createBoard", "createPost", "listBoards", "listPosts",
                      "readPost", "deletePost", "updatePost", "comment"}
         /\ c.op \in {"createBoard", "createPost"} =>
              c.board \in Boards /\ c.user \in Users
         /\ c.op = "createPost" => c.title \in Texts /\ c.content \in Texts
         /\ c.op = "listPosts" => c.board \in Boards
         /\ c.op \in {"readPost", "deletePost", "updatePost", "comment"} =>
              c.serial \in Nat
         /\ c.op \in {"deletePost", "updatePost", "comment"} => c.user \in Users
         /\ c.op = "updatePost" => c.text \in Texts
         /\ c.op = "comment" => c.text \in Texts
  BY CallsAssumption DEF Calls

\* Every method declares one or both mutexes, each once, boardmux first.
LEMMA LocksForms ==
  ASSUME NEW op
  PROVE  /\ Locks(op) \in {<<"boardmux">>, <<"boardmux", "postmux">>, <<"postmux">>}
         /\ op \in {"createBoard", "listBoards"} => Locks(op) = <<"boardmux">>
         /\ op \in {"createPost", "listPosts", "deletePost"} =>
              Locks(op) = <<"boardmux", "postmux">>
         /\ op \in {"readPost", "updatePost", "comment"} => Locks(op) = <<"postmux">>
  BY DEF Locks

\* deletePost's loop takes off one occurrence, or nothing.
LEMMA EraseFirstFacts ==
  ASSUME NEW list \in Seq(Nat), NEW n \in Nat, n = Len(list), NEW v \in Nat
  PROVE  \/ /\ EraseFirst(list, v) = list
            /\ v \notin ToSet(list)
         \/ \E k \in 1 .. n : list[k] = v /\ EraseFirst(list, v) = RemoveAt(list, k)
<1>1. DOMAIN list = 1 .. n
  BY LenProperties
<1>2. CASE \E i \in DOMAIN list : list[i] = v
  <2>1. \E k \in DOMAIN list : list[k] = v /\ \A j \in 1 .. k - 1 : list[j] # v
    <3>1. PICK i \in 1 .. n : list[i] = v
      BY <1>1, <1>2
    <3>2. \E k \in 1 .. n : list[k] = v /\ \A j \in 1 .. k - 1 : list[j] # v
      <4>1. \E k \in 1 .. n : list[k] = list[i] /\ \A j \in 1 .. k - 1 : list[j] # list[i]
        BY FirstOccurrence, SMTT(30)
      <4> QED
        BY ONLY <3>1, <4>1, Zenon
    <3> QED
      BY <1>1, <3>2, Zenon
  <2> DEFINE k == CHOOSE k \in DOMAIN list : /\ list[k] = v
                                             /\ \A j \in 1 .. k - 1 : list[j] # v
  <2>2. k \in DOMAIN list /\ list[k] = v
    BY <2>1
  <2> QED
    BY <1>1, <1>2, <2>2 DEF EraseFirst
<1>3. CASE ~ \E i \in DOMAIN list : list[i] = v
  BY <1>3 DEF EraseFirst, ToSet
<1> QED
  BY <1>2, <1>3

LEMMA EraseFirstType ==
  ASSUME NEW list \in Seq(Nat), NEW v \in Nat
  PROVE  EraseFirst(list, v) \in Seq(Nat)
<1>1. PICK n \in Nat : n = Len(list)
  BY LenProperties
<1>2. CASE EraseFirst(list, v) = list
  BY <1>2
<1>3. CASE \E k \in 1 .. n : EraseFirst(list, v) = RemoveAt(list, k)
  <2>1. PICK k \in 1 .. n : EraseFirst(list, v) = RemoveAt(list, k)
    BY <1>3
  <2>2. RemoveAt(list, k) \in Seq(Nat)
    BY <1>1, RemoveAtIndex
  <2> QED
    BY <2>1, <2>2
<1> QED
  BY <1>1, <1>2, <1>3, EraseFirstFacts

\* An entry of boardInfos, and boardInfos with another list in one entry.
LEMMA EntryType ==
  ASSUME boardInfos \in Seq(BoardInfo), NEW i \in DOMAIN boardInfos
  PROVE  /\ boardInfos[i] \in BoardInfo
         /\ boardInfos[i].name \in Boards
         /\ boardInfos[i].moderator \in Users
         /\ boardInfos[i].serials \in Seq(Nat)
<1>1. i \in 1 .. Len(boardInfos)
  BY LenProperties
<1>2. boardInfos[i] \in BoardInfo
  BY <1>1, ElementOfSeq
<1> QED
  BY <1>2 DEF BoardInfo

LEMMA NewSerials ==
  ASSUME boardInfos \in Seq(BoardInfo), NEW i \in DOMAIN boardInfos,
         NEW list \in Seq(Nat)
  PROVE  [boardInfos EXCEPT ![i].serials = list] \in Seq(BoardInfo)
<1>1. boardInfos[i] \in BoardInfo /\ i \in 1 .. Len(boardInfos)
  BY LenProperties
<1>2. [boardInfos[i] EXCEPT !.serials = list] \in BoardInfo
  BY <1>1 DEF BoardInfo
<1> QED
  BY <1>1, <1>2, ExceptSeq

-----------------------------------------------------------------------------
(* The inductive invariant of the locks.                                   *)

Inside == {"body", "append", "list", "insert", "unlist", "drop", "write"}

\* A thread that is past its locks is in a place of its own method.
PlaceOfCall(t) ==
  /\ pc[t] # "idle" => call[t] \in Calls
  /\ pc[t] = "append" => call[t].op = "createBoard"
  /\ pc[t] \in {"list", "insert"} => call[t].op = "createPost"
  /\ pc[t] \in {"unlist", "drop"} => call[t].op = "deletePost"
  /\ pc[t] = "write" => call[t].op \in {"updatePost", "comment"}

\* How many locks a thread holds, by its place.
CountOfPlace(t) ==
  LET n == Len(Locks(call[t].op))
  IN /\ pc[t] \in {"idle", "return"} => taken[t] = 0
     /\ pc[t] = "lock" => taken[t] \in 0 .. n - 1
     /\ pc[t] \in Inside => taken[t] = n
     /\ pc[t] = "unlock" => taken[t] \in 1 .. n

\* A thread owns exactly the first taken[t] locks of its method.
OwnsTaken(t) ==
  \A m \in Mutex :
    owner[m] = t <=> \E i \in 1 .. taken[t] : Locks(call[t].op)[i] = m

LocksInv ==
  \A t \in Threads : PlaceOfCall(t) /\ CountOfPlace(t) /\ OwnsTaken(t)

\* The lock after the first k is a mutex, and is not one of the first k.
LEMMA NextLock ==
  ASSUME NEW op, NEW k \in 0 .. Len(Locks(op)) - 1
  PROVE  /\ Len(Locks(op)) \in 1 .. 2
         /\ k + 1 \in 1 .. 2
         /\ Locks(op)[k + 1] \in Mutex
         /\ \A i \in 1 .. k : Locks(op)[i] # Locks(op)[k + 1]
<1>1. CASE Locks(op) = <<"boardmux">>
  BY <1>1 DEF Mutex
<1>2. CASE Locks(op) = <<"boardmux", "postmux">>
  BY <1>2 DEF Mutex
<1>3. CASE Locks(op) = <<"postmux">>
  BY <1>3 DEF Mutex
<1> QED
  BY <1>1, <1>2, <1>3, LocksForms

LEMMA LockCount ==
  ASSUME NEW op
  PROVE  Len(Locks(op)) \in 1 .. 2
  BY LocksForms

-----------------------------------------------------------------------------
(* Types.                                                                  *)

\* A method that returns, or goes on to its next place, keeps the types.
LEMMA LeaveType ==
  ASSUME ThreadsOK, NEW t \in Threads, NEW a \in Answers, Leave(t, a)
  PROVE  ThreadsOK'
  BY DEF ThreadsOK, Leave, Go, Places

LEMMA StepType ==
  ASSUME ThreadsOK, NEW t \in Threads, NEW place \in Places, Step(t, place)
  PROVE  ThreadsOK'
  BY DEF ThreadsOK, Step, Go

LEMMA AnswerTypes ==
  /\ NoAnswer \in Answers /\ Done \in Answers /\ Thrown \in Answers
  /\ \A why \in {"BoardExists", "NoBoard", "NoPost", "NotOwner"} :
       Refused(why) \in Answers
  /\ \A p \in Post : PostText(p) \in Answers
  BY DEF NoAnswer, Done, Thrown, Refused, PostText, Answers

\* Every step keeps every variable of the store in its type.
LEMMA TypingStep ==
  ASSUME TypeOK, LocksInv, [Next]_vars
  PROVE  TypeOK'
<1> USE CallsAssumption, StoreAssumption DEF TypeOK
<1>1. ASSUME NEW t \in Threads, NEW c \in Calls, Invoke(t, c)
      PROVE  TypeOK'
  BY <1>1 DEF TablesOK, ThreadsOK, Invoke, Go, tables, Places
<1>2. ASSUME NEW t \in Threads, Lock(t)
      PROVE  TypeOK'
  <2>1. taken[t] \in 0 .. Len(Locks(call[t].op)) - 1
    BY <1>2 DEF LocksInv, CountOfPlace, Lock
  <2>2. Locks(call[t].op)[taken[t] + 1] \in Mutex /\ taken[t] + 1 \in 0 .. 2
    BY <2>1, NextLock
  <2> QED
    BY <1>2, <2>2 DEF TablesOK, ThreadsOK, Lock, Go, tables, Places
<1>3. ASSUME NEW t \in Threads, Unlock(t)
      PROVE  TypeOK'
  <2>1. taken[t] \in 1 .. Len(Locks(call[t].op))
    BY <1>3 DEF LocksInv, CountOfPlace, Unlock
  <2>2. Locks(call[t].op)[taken[t]] \in Mutex /\ taken[t] - 1 \in 0 .. 2
    BY <2>1, LocksForms DEF Mutex
  <2> QED
    BY <1>3, <2>2 DEF TablesOK, ThreadsOK, Unlock, Go, tables, Places
<1>4. ASSUME NEW t \in Threads, Return(t)
      PROVE  TypeOK'
  BY <1>4, AnswerTypes DEF TablesOK, ThreadsOK, Return, Go, tables, Places
<1>5. ASSUME NEW t \in Threads, CreateBoard(t)
      PROVE  TypeOK'
  <2>1. ThreadsOK'
    BY <1>5, AnswerTypes, LeaveType, StepType DEF CreateBoard, Places
  <2>2. call[t].board \in Boards
    BY <1>5, CallFields DEF CreateBoard, At, LocksInv, PlaceOfCall
  <2>3. Len(boardInfos) \in Nat
    BY LenProperties DEF TablesOK
  <2> QED
    BY <1>5, <2>1, <2>2, <2>3 DEF TablesOK, CreateBoard, Insert, NewIndex
<1>6. ASSUME NEW t \in Threads, AppendBoard(t)
      PROVE  TypeOK'
  <2>1. ThreadsOK'
    BY <1>6, AnswerTypes, LeaveType DEF AppendBoard
  <2>2. [name |-> call[t].board, moderator |-> call[t].user, serials |-> << >>]
          \in BoardInfo
    BY <1>6, CallFields DEF AppendBoard, At, LocksInv, PlaceOfCall, BoardInfo
  <2> QED
    BY <1>6, <2>1, <2>2 DEF TablesOK, AppendBoard
<1>7. ASSUME NEW t \in Threads, ListBoards(t)
      PROVE  TypeOK'
  <2>1. BoardLines(boardInfos) \in Answers
    <3> DEFINE lines == [i \in DOMAIN boardInfos |->
                           <<boardInfos[i].name, boardInfos[i].moderator>>]
    <3>1. PICK n \in Nat : DOMAIN boardInfos = 1 .. n
      BY LenProperties DEF TablesOK
    <3>2. lines \in [1 .. n -> Boards \X Users]
      <4>1. \A i \in 1 .. n : <<boardInfos[i].name, boardInfos[i].moderator>>
                               \in Boards \X Users
        BY <3>1, EntryType DEF TablesOK
      <4> QED
        BY <3>1, <4>1
    <3>3. lines \in Seq(Boards \X Users)
      BY <3>2, FunctionIsList
    <3> QED
      BY <3>3 DEF BoardLines, Answers
  <2> QED
    BY <1>7, <2>1, LeaveType DEF TablesOK, ListBoards, tables
<1>8. ASSUME NEW t \in Threads, CreatePost(t)
      PROVE  TypeOK'
  <2>1. CASE Leave(t, Refused("NoBoard")) /\ UNCHANGED tables
    BY <2>1, AnswerTypes, LeaveType DEF TablesOK, tables
  <2>2. CASE serial' = [serial EXCEPT ![t] = postSerial] /\ NextSerial = postSerial'
             /\ Go(t, "list") /\ UNCHANGED <<owner, taken, call, answer, boards, boardInfos, posts>>
    BY <2>2 DEF TablesOK, ThreadsOK, Go, NextSerial, Places
  <2> QED
    BY <1>8, <2>1, <2>2 DEF CreatePost, tables
<1>9. ASSUME NEW t \in Threads, ListSerial(t)
      PROVE  TypeOK'
  <2>1. ThreadsOK'
    BY <1>9, AnswerTypes, LeaveType, StepType DEF ListSerial, Places
  <2>2. boardInfos' \in Seq(BoardInfo)
    <3>1. CASE UNCHANGED boardInfos
      BY <3>1 DEF TablesOK
    <3>2. CASE Found(call[t].board)
      <4> DEFINE i == Entry(call[t].board)
      <4>1. i \in DOMAIN boardInfos /\ boardInfos[i].serials \in Seq(Nat)
        BY <3>2, EntryType DEF Found, TablesOK
      <4>2. Append(boardInfos[i].serials, serial[t]) \in Seq(Nat)
        BY <4>1 DEF ThreadsOK
      <4>3. boardInfos' = [boardInfos EXCEPT ![i].serials =
                             Append(boardInfos[i].serials, serial[t])]
        BY <1>9, <3>2 DEF ListSerial
      <4> QED
        BY <4>1, <4>2, <4>3, NewSerials DEF TablesOK
    <3> QED
      BY <1>9, <3>1, <3>2 DEF ListSerial
  <2> QED
    BY <1>9, <2>1, <2>2 DEF TablesOK, ListSerial
<1>10. ASSUME NEW t \in Threads, InsertPost(t)
      PROVE  TypeOK'
  <2>1. ThreadsOK'
    BY <1>10, AnswerTypes, LeaveType DEF InsertPost
  <2>2. NewPost(call[t]) \in Post
    BY <1>10, CallFields DEF InsertPost, At, LocksInv, PlaceOfCall, NewPost, Post
  <2>3. serial[t] \in Nat
    BY DEF ThreadsOK
  <2> QED
    BY <1>10, <2>1, <2>2, <2>3 DEF TablesOK, InsertPost, Insert
<1>11. ASSUME NEW t \in Threads, ListPosts(t)
      PROVE  TypeOK'
  <2> DEFINE listed == boardInfos[Entry(call[t].board)].serials
  <2>1. CASE Leave(t, Refused("NoBoard")) \/ Leave(t, Thrown)
    BY <1>11, <2>1, AnswerTypes, LeaveType DEF TablesOK, ListPosts, tables
  <2>2. CASE /\ Found(call[t].board)
             /\ ToSet(listed) \subseteq DOMAIN posts
             /\ Leave(t, PostLines(listed, posts))
    <3>1. listed \in Seq(Nat)
      BY <2>2, EntryType DEF Found, TablesOK
    <3> HIDE DEF listed
    <3>2. PostLines(listed, posts) \in Answers
      <4> DEFINE lines == [i \in DOMAIN listed |->
                             <<listed[i], posts[listed[i]].title, posts[listed[i]].author>>]
      <4>1. PICK n \in Nat : DOMAIN listed = 1 .. n
        BY <3>1, LenProperties
      <4>2. \A i \in 1 .. n : listed[i] \in Nat /\ posts[listed[i]] \in Post
        BY <2>2, <3>1, <4>1 DEF ToSet, TablesOK
      <4>3. lines \in [1 .. n -> Nat \X Texts \X Users]
        BY <4>1, <4>2 DEF Post
      <4>4. lines \in Seq(Nat \X Texts \X Users)
        BY <4>3, FunctionIsList
      <4> QED
        BY <4>4 DEF PostLines, Answers
    <3> QED
      BY <1>11, <2>2, <3>2, LeaveType DEF TablesOK, ListPosts, tables
  <2> QED
    BY <1>11, <2>1, <2>2 DEF ListPosts
<1>12. ASSUME NEW t \in Threads, ReadPost(t)
      PROVE  TypeOK'
  BY <1>12, AnswerTypes, LeaveType DEF TablesOK, ReadPost, tables
<1>13. ASSUME NEW t \in Threads, CheckPost(t)
      PROVE  TypeOK'
  BY <1>13, AnswerTypes, LeaveType, StepType DEF TablesOK, CheckPost, tables, Places
<1>14. ASSUME NEW t \in Threads, UnlistSerial(t)
      PROVE  TypeOK'
  <2>1. ThreadsOK'
    BY <1>14, AnswerTypes, LeaveType, StepType DEF UnlistSerial, Places
  <2>2. boardInfos' \in Seq(BoardInfo)
    <3> DEFINE b == posts[call[t].serial].board
    <3>1. CASE UNCHANGED boardInfos
      BY <3>1 DEF TablesOK
    <3>2. CASE Found(b)
      <4> DEFINE i == Entry(b)
                 list == EraseFirst(boardInfos[i].serials, call[t].serial)
      <4>1. i \in DOMAIN boardInfos /\ boardInfos[i].serials \in Seq(Nat)
        BY <3>2, EntryType DEF Found, TablesOK
      <4>2. call[t].serial \in Nat
        BY <1>14, CallFields DEF UnlistSerial, At, LocksInv, PlaceOfCall
      <4>3. list \in Seq(Nat)
        BY <4>1, <4>2, EraseFirstType
      <4>4. boardInfos' = [boardInfos EXCEPT ![i].serials = list]
        BY <1>14, <3>2 DEF UnlistSerial
      <4> HIDE DEF list, i
      <4> QED
        BY <4>1, <4>3, <4>4, NewSerials DEF TablesOK
    <3> QED
      BY <1>14, <3>1, <3>2 DEF UnlistSerial
  <2> QED
    BY <1>14, <2>1, <2>2 DEF TablesOK, UnlistSerial
<1>15. ASSUME NEW t \in Threads, DropPost(t)
      PROVE  TypeOK'
  BY <1>15, AnswerTypes, LeaveType DEF TablesOK, DropPost, Erase
<1>16. ASSUME NEW t \in Threads, UpdatePost(t)
      PROVE  TypeOK'
  <2>1. ThreadsOK'
    BY <1>16, AnswerTypes, LeaveType DEF UpdatePost
  <2>2. call[t].text \in Texts
    BY <1>16, CallFields DEF UpdatePost, At, LocksInv, PlaceOfCall
  <2>3. \A p \in Post : Replace(p, call[t]) \in Post
    BY <2>2 DEF Replace, Post
  <2> QED
    BY <1>16, <2>1, <2>3 DEF TablesOK, UpdatePost
<1>17. ASSUME NEW t \in Threads, Comment(t)
      PROVE  TypeOK'
  <2>1. ThreadsOK'
    BY <1>17, AnswerTypes, LeaveType DEF Comment
  <2>2. <<call[t].user, call[t].text>> \in Users \X Texts
    BY <1>17, CallFields DEF Comment, At, LocksInv, PlaceOfCall
  <2>3. ASSUME NEW p \in Post
        PROVE  AddComment(p, call[t]) \in Post
    <3>1. Append(p.comments, <<call[t].user, call[t].text>>) \in Seq(Users \X Texts)
      BY <2>2, AppendProperties DEF Post
    <3> QED
      BY <3>1 DEF AddComment, Post
  <2> QED
    BY <1>17, <2>1, <2>3 DEF TablesOK, Comment
<1>18. CASE UNCHANGED vars
  BY <1>18 DEF TablesOK, ThreadsOK, vars, tables, thread
<1> QED
  BY <1>1, <1>2, <1>3, <1>4, <1>5, <1>6, <1>7, <1>8, <1>9, <1>10, <1>11, <1>12,
     <1>13, <1>14, <1>15, <1>16, <1>17, <1>18 DEF Next, Method

-----------------------------------------------------------------------------
(* Locks.                                                                  *)

\* The other threads keep their places and locks when t changes only its own
\* place, and t keeps its locks as long as it stays inside its method.
LEMMA OwnsKept ==
  ASSUME LocksInv, UNCHANGED <<owner, taken, call>>
  PROVE  \A u \in Threads : OwnsTaken(u)'
  BY DEF LocksInv, OwnsTaken

LEMMA LeaveLocks ==
  ASSUME TypeOK, LocksInv, NEW t \in Threads, NEW a, pc[t] \in Inside, Leave(t, a)
  PROVE  LocksInv'
<1>1. \A u \in Threads : pc'[u] = IF u = t THEN "unlock" ELSE pc[u]
  BY DEF Leave, Go, TypeOK, ThreadsOK
<1>2. UNCHANGED <<owner, taken, call>>
  BY DEF Leave
<1>3. Len(Locks(call[t].op)) \in 1 .. 2
  BY LockCount
<1>4. \A u \in Threads : PlaceOfCall(u)'
  BY <1>1, <1>2 DEF LocksInv, PlaceOfCall, Inside
<1>5. \A u \in Threads : CountOfPlace(u)'
  <2>1. CountOfPlace(t)'
    <3>1. PICK n \in 1 .. 2 : n = Len(Locks(call[t].op))
      BY <1>3
    <3>2. taken[t] = n
      BY <3>1 DEF LocksInv, CountOfPlace
    <3>3. pc'[t] = "unlock" /\ taken'[t] = n /\ Len(Locks(call'[t].op)) = n
      BY <1>1, <1>2, <3>1, <3>2
    <3> QED
      BY <3>3 DEF CountOfPlace, Inside
  <2>2. ASSUME NEW u \in Threads, u # t
        PROVE  CountOfPlace(u)'
    BY <1>1, <1>2, <2>2 DEF LocksInv, CountOfPlace
  <2> QED
    BY <2>1, <2>2
<1> QED
  BY <1>2, <1>4, <1>5, OwnsKept DEF LocksInv

LEMMA StepLocks ==
  ASSUME TypeOK, LocksInv, NEW t \in Threads, NEW place, pc[t] \in Inside,
         \/ place = "append" /\ call[t].op = "createBoard"
         \/ place = "insert" /\ call[t].op = "createPost"
         \/ place \in {"unlist", "drop"} /\ call[t].op = "deletePost"
         \/ place = "write" /\ call[t].op \in {"updatePost", "comment"},
         Step(t, place)
  PROVE  LocksInv'
<1>1. \A u \in Threads : pc'[u] = IF u = t THEN place ELSE pc[u]
  BY DEF Step, Go, TypeOK, ThreadsOK
<1>2. UNCHANGED <<owner, taken, call>>
  BY DEF Step
<1>3. place \in Inside
  BY DEF Inside
<1>4. \A u \in Threads : PlaceOfCall(u)'
  BY <1>1, <1>2 DEF LocksInv, PlaceOfCall, Inside
<1>5. \A u \in Threads : CountOfPlace(u)'
  <2>1. place \notin {"idle", "return", "lock", "unlock"}
    OBVIOUS
  <2>2. CountOfPlace(t)'
    BY <1>1, <1>2, <1>3, <2>1 DEF LocksInv, CountOfPlace
  <2>3. ASSUME NEW u \in Threads, u # t
        PROVE  CountOfPlace(u)'
    BY <1>1, <1>2, <2>3 DEF LocksInv, CountOfPlace
  <2> QED
    BY <2>2, <2>3
<1> QED
  BY <1>2, <1>4, <1>5, OwnsKept DEF LocksInv

\* Every step keeps the locks with the threads that took them.
LEMMA LocksStep ==
  ASSUME TypeOK, LocksInv, [Next]_vars
  PROVE  LocksInv'
<1> USE StoreAssumption
<1>1. ASSUME NEW t \in Threads, NEW c \in Calls, Invoke(t, c)
      PROVE  LocksInv'
  <2>1. \A u \in Threads : /\ pc'[u] = IF u = t THEN "lock" ELSE pc[u]
                           /\ call'[u] = IF u = t THEN c ELSE call[u]
    BY <1>1 DEF Invoke, Go, TypeOK, ThreadsOK
  <2>2. UNCHANGED <<owner, taken>> /\ taken[t] = 0 /\ Len(Locks(c.op)) \in 1 .. 2
    BY <1>1, LockCount DEF Invoke, LocksInv, CountOfPlace
  <2> QED
    <3>1. \A u \in Threads : PlaceOfCall(u)'
      BY <2>1, <2>2 DEF LocksInv, PlaceOfCall
    <3>2. \A u \in Threads : CountOfPlace(u)'
      <4>1. CountOfPlace(t)'
        <5>1. pc'[t] = "lock" /\ taken'[t] = 0 /\ call'[t].op = c.op
          BY <2>1, <2>2
        <5>2. 0 \in 0 .. Len(Locks(c.op)) - 1
          <6>1. PICK n \in 1 .. 2 : n = Len(Locks(c.op))
            BY LockCount
          <6> QED
            BY <6>1
        <5> QED
          BY <5>1, <5>2 DEF CountOfPlace, Inside
      <4>2. ASSUME NEW u \in Threads, u # t
            PROVE  CountOfPlace(u)'
        BY <2>1, <2>2, <4>2 DEF LocksInv, CountOfPlace
      <4> QED
        BY <4>1, <4>2
    <3>3. \A u \in Threads : OwnsTaken(u)'
      BY <2>1, <2>2 DEF LocksInv, OwnsTaken
    <3> QED
      BY <3>1, <3>2, <3>3 DEF LocksInv
<1>2. ASSUME NEW t \in Threads, Lock(t)
      PROVE  LocksInv'
  <2> DEFINE n == Len(Locks(call[t].op))
             m == Locks(call[t].op)[taken[t] + 1]
  <2>1. taken[t] \in 0 .. n - 1 /\ n \in 1 .. 2
    BY <1>2, LockCount DEF LocksInv, CountOfPlace, Lock
  <2>2. m \in Mutex /\ \A i \in 1 .. taken[t] : Locks(call[t].op)[i] # m
    BY <2>1, NextLock
  <2>3. \A u \in Threads :
          /\ pc'[u] = IF u = t THEN (IF taken[t] + 1 = n THEN "body" ELSE "lock")
                               ELSE pc[u]
          /\ taken'[u] = IF u = t THEN taken[t] + 1 ELSE taken[u]
    BY <1>2 DEF Lock, Go, TypeOK, ThreadsOK
  <2>4. UNCHANGED call /\ owner[m] = NoThread
    BY <1>2 DEF Lock
  <2>5. \A x \in Mutex : owner'[x] = IF x = m THEN t ELSE owner[x]
    BY <1>2 DEF Lock, TypeOK, ThreadsOK
  <2>6. \A u \in Threads : PlaceOfCall(u)'
    BY <1>2, <2>3, <2>4 DEF LocksInv, PlaceOfCall, Lock
  <2>7. \A u \in Threads : CountOfPlace(u)'
    BY <1>2, <2>1, <2>3, <2>4 DEF LocksInv, CountOfPlace, Inside
  <2>8. OwnsTaken(t)'
    <3>1. taken'[t] = taken[t] + 1 /\ call'[t] = call[t] /\ OwnsTaken(t)
      BY <2>3, <2>4 DEF LocksInv
    <3>2. \A i \in 1 .. taken[t] + 1 : i \in 1 .. taken[t] \/ i = taken[t] + 1
      BY <2>1
    <3>3. taken[t] + 1 \in 1 .. taken[t] + 1
          /\ \A i \in 1 .. taken[t] : i \in 1 .. taken[t] + 1
      BY <2>1
    <3>4. ASSUME NEW x \in Mutex
          PROVE  owner'[x] = t <=>
                   \E i \in 1 .. taken[t] + 1 : Locks(call[t].op)[i] = x
      <4>1. CASE x = m
        BY <2>2, <2>5, <3>3, <4>1
      <4>2. CASE x # m
        BY <2>5, <3>1, <3>2, <3>3, <4>2 DEF OwnsTaken
      <4> QED
        BY <4>1, <4>2
    <3> QED
      BY <3>1, <3>4 DEF OwnsTaken
  <2>9. ASSUME NEW u \in Threads, u # t
        PROVE  OwnsTaken(u)'
    <3>1. taken'[u] = taken[u] /\ call'[u] = call[u] /\ OwnsTaken(u)
      BY <2>3, <2>4, <2>9 DEF LocksInv
    <3>2. \A x \in Mutex : owner'[x] = u <=> owner[x] = u
      BY <2>4, <2>5, <2>9
    <3> QED
      BY <3>1, <3>2 DEF OwnsTaken
  <2> QED
    BY <2>6, <2>7, <2>8, <2>9 DEF LocksInv
<1>3. ASSUME NEW t \in Threads, Unlock(t)
      PROVE  LocksInv'
  <2> DEFINE n == Len(Locks(call[t].op))
             m == Locks(call[t].op)[taken[t]]
  <2>1. taken[t] \in 1 .. n /\ n \in 1 .. 2
    BY <1>3, LockCount DEF LocksInv, CountOfPlace, Unlock
  <2>2. m \in Mutex /\ \A i \in 1 .. taken[t] - 1 : Locks(call[t].op)[i] # m
    <3>1. taken[t] - 1 \in 0 .. n - 1 /\ (taken[t] - 1) + 1 = taken[t]
      BY <2>1
    <3> QED
      BY <3>1, NextLock
  <2>3. \A u \in Threads :
          /\ pc'[u] = IF u = t THEN (IF taken[t] = 1 THEN "return" ELSE "unlock")
                               ELSE pc[u]
          /\ taken'[u] = IF u = t THEN taken[t] - 1 ELSE taken[u]
    BY <1>3 DEF Unlock, Go, TypeOK, ThreadsOK
  <2>4. UNCHANGED call
    BY <1>3 DEF Unlock
  <2>5. \A x \in Mutex : owner'[x] = IF x = m THEN NoThread ELSE owner[x]
    BY <1>3 DEF Unlock, TypeOK, ThreadsOK
  <2>6. \A u \in Threads : PlaceOfCall(u)'
    BY <1>3, <2>3, <2>4 DEF LocksInv, PlaceOfCall, Unlock
  <2>7. \A u \in Threads : CountOfPlace(u)'
    BY <1>3, <2>1, <2>3, <2>4 DEF LocksInv, CountOfPlace, Inside
  <2>8. \A u \in Threads : OwnsTaken(u)
    BY DEF LocksInv
  <2>9. owner[m] = t
    BY <2>1, <2>2, <2>8 DEF OwnsTaken
  <2>10. OwnsTaken(t)'
    <3>1. taken'[t] = taken[t] - 1 /\ call'[t] = call[t]
      BY <2>3, <2>4
    <3>2. \A i \in 1 .. taken[t] : i \in 1 .. taken[t] - 1 \/ i = taken[t]
      BY <2>1
    <3>3. \A i \in 1 .. taken[t] - 1 : i \in 1 .. taken[t]
      BY <2>1
    <3>4. ASSUME NEW x \in Mutex
          PROVE  owner'[x] = t <=>
                   \E i \in 1 .. taken[t] - 1 : Locks(call[t].op)[i] = x
      <4>1. CASE x = m
        BY <2>2, <2>5, <4>1
      <4>2. CASE x # m
        BY <2>5, <2>8, <3>2, <3>3, <4>2 DEF OwnsTaken
      <4> QED
        BY <4>1, <4>2
    <3> QED
      BY <3>1, <3>4 DEF OwnsTaken
  <2>11. ASSUME NEW u \in Threads, u # t
         PROVE  OwnsTaken(u)'
    <3>1. taken'[u] = taken[u] /\ call'[u] = call[u]
      BY <2>3, <2>4, <2>11
    <3>2. \A x \in Mutex : owner'[x] = u <=> owner[x] = u
      BY <2>5, <2>9, <2>11
    <3> QED
      BY <2>8, <3>1, <3>2 DEF OwnsTaken
  <2> QED
    BY <2>6, <2>7, <2>10, <2>11 DEF LocksInv
<1>4. ASSUME NEW t \in Threads, Return(t)
      PROVE  LocksInv'
  <2>1. \A u \in Threads : /\ pc'[u] = IF u = t THEN "idle" ELSE pc[u]
                           /\ call'[u] = IF u = t THEN NoCall ELSE call[u]
    BY <1>4 DEF Return, Go, TypeOK, ThreadsOK
  <2>2. UNCHANGED <<owner, taken>> /\ taken[t] = 0
    BY <1>4 DEF Return, LocksInv, CountOfPlace
  <2> QED
    BY <2>1, <2>2 DEF LocksInv, PlaceOfCall, CountOfPlace, OwnsTaken, Inside
<1>5. ASSUME NEW t \in Threads, Method(t)
      PROVE  LocksInv'
  <2>1. CASE CreateBoard(t)
    BY <2>1, LeaveLocks, StepLocks DEF CreateBoard, At, Inside
  <2>2. CASE CreatePost(t)
    <3>1. CASE Leave(t, Refused("NoBoard"))
      BY <2>2, <3>1, LeaveLocks DEF CreatePost, At, Inside
    <3>2. CASE Go(t, "list") /\ UNCHANGED <<owner, taken, call>>
      <4>1. \A u \in Threads : pc'[u] = IF u = t THEN "list" ELSE pc[u]
        BY <3>2 DEF Go, TypeOK, ThreadsOK
      <4>2. pc[t] = "body" /\ call[t].op = "createPost"
        BY <2>2 DEF CreatePost, At
      <4>3. \A u \in Threads : PlaceOfCall(u)' /\ CountOfPlace(u)'
        BY <3>2, <4>1, <4>2 DEF LocksInv, PlaceOfCall, CountOfPlace, Inside
      <4> QED
        BY <3>2, <4>3, OwnsKept DEF LocksInv
    <3> QED
      BY <2>2, <3>1, <3>2 DEF CreatePost
  <2>3. CASE CheckPost(t)
    BY <2>3, LeaveLocks, StepLocks DEF CheckPost, Inside
  <2>4. CASE ListSerial(t) \/ UnlistSerial(t)
    <3>1. CASE ListSerial(t)
      BY <3>1, LeaveLocks, StepLocks DEF ListSerial, At, Inside
    <3>2. CASE UnlistSerial(t)
      BY <3>2, LeaveLocks, StepLocks DEF UnlistSerial, At, Inside
    <3> QED
      BY <2>4, <3>1, <3>2
  <2>5. CASE AppendBoard(t) \/ ListBoards(t) \/ InsertPost(t) \/ ListPosts(t)
             \/ ReadPost(t) \/ DropPost(t) \/ UpdatePost(t) \/ Comment(t)
    BY <2>5, LeaveLocks DEF AppendBoard, ListBoards, InsertPost, ListPosts,
       ReadPost, DropPost, UpdatePost, Comment, At, Inside
  <2> QED
    BY <1>5, <2>1, <2>2, <2>3, <2>4, <2>5 DEF Method
<1>6. CASE UNCHANGED vars
  BY <1>6 DEF vars, thread, LocksInv, PlaceOfCall, CountOfPlace, OwnsTaken
<1> QED
  BY <1>1, <1>2, <1>3, <1>4, <1>5, <1>6 DEF Next

-----------------------------------------------------------------------------
(* What the locks give.                                                    *)

LEMMA InitLocks == Init => TypeOK /\ LocksInv
<1> SUFFICES ASSUME Init PROVE TypeOK /\ LocksInv
  OBVIOUS
<1> USE StoreAssumption DEF Init
<1>1. TypeOK
  BY AnswerTypes, EmptySeq DEF TypeOK, TablesOK, ThreadsOK, Empty, Places, Mutex
<1>2. LocksInv
  BY DEF LocksInv, PlaceOfCall, CountOfPlace, OwnsTaken, Inside
<1> QED
  BY <1>1, <1>2

\* At every moment a thread in a method of Database owns just the first locks of
\* those that the method declares, as many as its place says.
THEOREM LocksInvariant == Spec => [](TypeOK /\ LocksInv)
<1>1. TypeOK /\ LocksInv /\ [Next]_vars => (TypeOK /\ LocksInv)'
  BY TypingStep, LocksStep
<1> QED
  BY <1>1, InitLocks, PTL DEF Spec

\* Every variable of the store keeps its type: the boards, entries, posts and
\* locks of database.h, whatever calls the connections make.
THEOREM TypeCorrect == Spec => []TypeOK
  BY LocksInvariant, PTL

\* A method whose locks include m owns m in every place between its locks and
\* its return.
LEMMA InsideOwns ==
  ASSUME TypeOK, LocksInv, NEW t \in Threads, pc[t] \in Inside
  PROVE  /\ call[t].op \in {"createBoard", "createPost", "listBoards",
                            "listPosts", "deletePost"} => owner["boardmux"] = t
         /\ call[t].op \notin {"createBoard", "listBoards"} =>
              owner["postmux"] = t
<1>1. taken[t] = Len(Locks(call[t].op)) /\ OwnsTaken(t)
  BY DEF LocksInv, CountOfPlace
<1>2. call[t].op \in {"createBoard", "createPost", "listBoards", "listPosts",
                      "readPost", "deletePost", "updatePost", "comment"}
  BY CallFields DEF LocksInv, PlaceOfCall, Inside
<1>3. CASE call[t].op \in {"createBoard", "listBoards"}
  <2>1. Locks(call[t].op) = <<"boardmux">>
    BY <1>3, LocksForms
  <2>2. 1 \in 1 .. taken[t] /\ Locks(call[t].op)[1] = "boardmux"
    BY <1>1, <2>1
  <2> QED
    BY <1>1, <1>3, <2>2 DEF OwnsTaken, Mutex
<1>4. CASE call[t].op \in {"createPost", "listPosts", "deletePost"}
  <2>1. Locks(call[t].op) = <<"boardmux", "postmux">>
    BY <1>4, LocksForms
  <2>2. /\ 1 \in 1 .. taken[t] /\ Locks(call[t].op)[1] = "boardmux"
        /\ 2 \in 1 .. taken[t] /\ Locks(call[t].op)[2] = "postmux"
    BY <1>1, <2>1
  <2> QED
    BY <1>1, <1>4, <2>2 DEF OwnsTaken, Mutex
<1>5. CASE call[t].op \in {"readPost", "updatePost", "comment"}
  <2>1. Locks(call[t].op) = <<"postmux">>
    BY <1>5, LocksForms
  <2>2. 1 \in 1 .. taken[t] /\ Locks(call[t].op)[1] = "postmux"
    BY <1>1, <2>1
  <2> QED
    BY <1>1, <1>5, <2>2 DEF OwnsTaken, Mutex
<1> QED
  BY <1>2, <1>3, <1>4, <1>5

\* No data race: a thread about to read or write boards, boardInfos,
\* postSerial or posts owns the mutex of that structure.
THEOREM GuardedTheorem == Spec => []Guarded
<1>1. TypeOK /\ LocksInv => Guarded
  <2> SUFFICES ASSUME TypeOK, LocksInv, NEW t \in Threads, NEW x \in Uses(t)
               PROVE  owner[GuardOf(x)] = t
    BY DEF Guarded
  <2>1. pc[t] \in Inside
    BY DEF Uses, Inside
  <2>2. PlaceOfCall(t)
    BY DEF LocksInv
  <2>3. CASE x \in {"boards", "boardInfos"}
    <3>1. call[t].op \in {"createBoard", "createPost", "listBoards",
                          "listPosts", "deletePost"}
      BY <2>2, <2>3 DEF Uses, PlaceOfCall
    <3> QED
      BY <2>1, <2>3, <3>1, InsideOwns DEF GuardOf
  <2>4. CASE x \notin {"boards", "boardInfos"}
    <3>1. call[t].op \notin {"createBoard", "listBoards"}
      BY <2>2, <2>4 DEF Uses, PlaceOfCall
    <3> QED
      BY <2>1, <2>4, <3>1, InsideOwns DEF GuardOf
  <2> QED
    BY <2>3, <2>4
<1> QED
  BY <1>1, LocksInvariant, PTL

\* No deadlock on the mutexes: a thread that waits for boardmux holds no
\* mutex, so no two threads wait for each other.
THEOREM NoCircularWaitTheorem == Spec => []NoCircularWait
<1>1. TypeOK /\ LocksInv => NoCircularWait
  <2> SUFFICES ASSUME TypeOK, LocksInv,
                      NEW t \in Threads, NEW u \in Threads,
                      NEW m \in Mutex, NEW n \in Mutex,
                      Waits(t, m), owner[m] = u, Waits(u, n), owner[n] = t
               PROVE  FALSE
    BY DEF NoCircularWait
  <2>1. ASSUME NEW v \in Threads, NEW x \in Mutex, NEW y \in Mutex,
               Waits(v, x), owner[y] = v
        PROVE  x = "postmux" /\ y = "boardmux"
    <3>1. taken[v] \in 0 .. Len(Locks(call[v].op)) - 1
          /\ x = Locks(call[v].op)[taken[v] + 1]
      BY <2>1 DEF Waits, LocksInv, CountOfPlace
    <3>2. PICK i \in 1 .. taken[v] : Locks(call[v].op)[i] = y
      BY <2>1 DEF LocksInv, OwnsTaken
    <3>3. CASE Locks(call[v].op) = <<"boardmux", "postmux">>
      <4>1. taken[v] \in 0 .. 1
        BY <3>1, <3>3
      <4>2. taken[v] = 1 /\ i = 1
        BY <3>2, <4>1
      <4> QED
        BY <3>1, <3>2, <3>3, <4>2
    <3>4. CASE Locks(call[v].op) \in {<<"boardmux">>, <<"postmux">>}
      <4>1. Len(Locks(call[v].op)) = 1
        BY <3>4
      <4>2. taken[v] = 0
        BY <3>1, <4>1
      <4> QED
        BY <3>2, <4>2
    <3> QED
      BY <3>3, <3>4, LocksForms
  <2> QED
    BY <2>1
<1> QED
  BY <1>1, LocksInvariant, PTL

-----------------------------------------------------------------------------
(* The posts.                                                              *)

\* What a thread inside a method knows of the posts: the one it may edit, or
\* the serial that it gives to a new one.
Editing == {"unlist", "drop", "write"}
Creating == {"list", "insert"}

Knows(t) ==
  /\ pc[t] \in Editing => MayEdit(call[t])
  /\ pc[t] \in Creating => serial[t] \notin DOMAIN posts /\ serial[t] < postSerial

PostsInv ==
  /\ \A s \in DOMAIN posts : s < postSerial
  /\ \A t \in Threads : Knows(t)

Inv == TypeOK /\ LocksInv /\ PostsInv

\* Two threads that are inside methods with postmux are the same.
LEMMA Alone ==
  ASSUME TypeOK, LocksInv, NEW t \in Threads, NEW u \in Threads,
         pc[t] \in Inside, call[t].op \notin {"createBoard", "listBoards"},
         pc[u] \in Inside, call[u].op \notin {"createBoard", "listBoards"}
  PROVE  t = u
BY InsideOwns

\* A step of t that leaves the posts alone, or is inside with postmux, changes
\* nothing that another thread knows.
LEMMA OthersKnow ==
  ASSUME Inv, NEW t \in Threads, NEW u \in Threads, u # t,
         pc'[u] = pc[u], call'[u] = call[u], serial'[u] = serial[u],
         \/ UNCHANGED <<posts, postSerial>>
         \/ pc[t] \in Inside /\ call[t].op \notin {"createBoard", "listBoards"}
  PROVE  Knows(u)'
<1>1. CASE pc[u] \in Editing \cup Creating
  <2>1. pc[u] \in Inside /\ call[u].op \notin {"createBoard", "listBoards"}
    BY <1>1 DEF Inv, LocksInv, PlaceOfCall, Inside, Editing, Creating
  <2>2. UNCHANGED <<posts, postSerial>>
    BY <2>1, Alone DEF Inv
  <2> QED BY <2>2 DEF Inv, PostsInv, Knows, MayEdit
<1>2. CASE pc[u] \notin Editing \cup Creating
  BY <1>2 DEF Knows
<1> QED BY <1>1, <1>2

\* A step of t touches the places, calls and serials of t alone.
Only(t) ==
  \A u \in Threads \ {t} : pc'[u] = pc[u] /\ call'[u] = call[u] /\ serial'[u] = serial[u]

\* A return, and a step to the next place, are such steps.
LEMMA LeaveOnly ==
  ASSUME TypeOK, NEW t \in Threads, NEW a, Leave(t, a)
  PROVE  Only(t) /\ pc'[t] = "unlock"
BY DEF TypeOK, ThreadsOK, Leave, Go, Only

LEMMA StepOnly ==
  ASSUME TypeOK, NEW t \in Threads, NEW place, Step(t, place)
  PROVE  Only(t) /\ pc'[t] = place /\ UNCHANGED <<call, serial>>
BY DEF TypeOK, ThreadsOK, Step, Go, Only

\* A method that returns or throws knows nothing any more.
LEMMA LeaveKnows ==
  ASSUME Inv, NEW t \in Threads, NEW a, Leave(t, a),
         \/ UNCHANGED <<posts, postSerial>>
         \/ pc[t] \in Inside /\ call[t].op \notin {"createBoard", "listBoards"}
  PROVE  \A u \in Threads : Knows(u)'
<1>1. Only(t) /\ pc'[t] = "unlock"
  BY LeaveOnly DEF Inv
<1>2. Knows(t)'
  BY <1>1 DEF Knows, Editing, Creating
<1> QED BY <1>1, <1>2, OthersKnow DEF Only

\* The posts stay as they are: the bound on the serials too.
LEMMA SamePosts ==
  ASSUME Inv, UNCHANGED <<posts, postSerial>>, \A t \in Threads : Knows(t)'
  PROVE  PostsInv'
BY DEF Inv, PostsInv

\* A return that leaves the posts alone.
LEMMA LeaveSame ==
  ASSUME Inv, NEW t \in Threads, NEW a, Leave(t, a), UNCHANGED <<posts, postSerial>>
  PROVE  PostsInv'
BY LeaveKnows, SamePosts

\* A step to a place at which t knows what it knew.
LEMMA StepSame ==
  ASSUME Inv, NEW t \in Threads, NEW place, Step(t, place),
         UNCHANGED <<posts, postSerial>>,
         place \in Editing => MayEdit(call[t]),
         place \in Creating => pc[t] \in Creating
  PROVE  PostsInv'
<1>1. Only(t) /\ pc'[t] = place /\ UNCHANGED <<call, serial>>
  BY StepOnly DEF Inv
<1>2. Knows(t)'
  BY <1>1 DEF Inv, PostsInv, Knows, MayEdit
<1>3. \A u \in Threads : Knows(u)'
  BY <1>1, <1>2, OthersKnow DEF Only
<1> QED BY <1>3, SamePosts

-----------------------------------------------------------------------------
(* The steps.                                                              *)

\* Taking and releasing locks, calls and returns.
LEMMA OutsideStep ==
  ASSUME Inv, NEW t \in Threads,
         \/ \E c \in Calls : Invoke(t, c)
         \/ Lock(t)
         \/ Unlock(t)
         \/ Return(t)
  PROVE  PostsInv'
<1>1. UNCHANGED <<posts, postSerial>>
  BY DEF Invoke, Lock, Unlock, Return, tables
<1>2. Only(t) /\ pc'[t] \in {"lock", "body", "unlock", "return", "idle"}
  BY DEF Inv, TypeOK, ThreadsOK, Invoke, Lock, Unlock, Return, Go, Only
<1>3. Knows(t)'
  BY <1>2 DEF Knows, Editing, Creating
<1>4. \A u \in Threads : Knows(u)'
  BY <1>1, <1>2, <1>3, OthersKnow DEF Only
<1> QED BY <1>1, <1>4, SamePosts

\* A serial is drawn: it is above every serial in use.
LEMMA CreateStep ==
  ASSUME Inv, NEW t \in Threads, CreatePost(t)
  PROVE  PostsInv'
<1>1. CASE Leave(t, Refused("NoBoard")) /\ UNCHANGED postSerial
  BY <1>1, LeaveSame DEF CreatePost
<1>2. CASE /\ serial' = [serial EXCEPT ![t] = postSerial]
           /\ postSerial' = NextSerial
           /\ Go(t, "list")
           /\ UNCHANGED <<owner, taken, call, answer>>
  <2>1. /\ Only(t) /\ pc'[t] = "list" /\ serial'[t] = postSerial
        /\ postSerial \in Nat /\ postSerial' = postSerial + 1
        /\ posts' = posts /\ DOMAIN posts \subseteq Nat
    BY <1>2 DEF CreatePost, Inv, TypeOK, TablesOK, ThreadsOK, Go, Only, NextSerial
  <2>2. \A s \in DOMAIN posts : s \in Nat /\ s < postSerial
    BY <2>1 DEF Inv, PostsInv
  <2>3. Knows(t)'
    BY <2>1, <2>2 DEF Knows, Editing, Creating
  <2>4. pc[t] \in Inside /\ call[t].op \notin {"createBoard", "listBoards"}
    BY DEF CreatePost, At, Inside
  <2>5. \A u \in Threads : Knows(u)'
    BY <2>1, <2>3, <2>4, OthersKnow DEF Only
  <2>6. \A s \in DOMAIN posts' : s < postSerial'
    BY <2>1, <2>2
  <2> QED BY <2>5, <2>6 DEF PostsInv
<1> QED BY <1>1, <1>2 DEF CreatePost

\* The posts change; the method is over.
LEMMA WriteStep ==
  ASSUME Inv, NEW t \in Threads,
         InsertPost(t) \/ DropPost(t) \/ UpdatePost(t) \/ Comment(t)
  PROVE  PostsInv'
<1>1. pc[t] \in Inside /\ call[t].op \notin {"createBoard", "listBoards"}
  BY DEF InsertPost, DropPost, UpdatePost, Comment, At, Inside
<1>2. \A u \in Threads : Knows(u)'
  <2>1. \E a : Leave(t, a)
    BY DEF InsertPost, DropPost, UpdatePost, Comment
  <2> QED BY <1>1, <2>1, LeaveKnows
<1>3. postSerial' = postSerial
  BY DEF InsertPost, DropPost, UpdatePost, Comment
<1>4. \A s \in DOMAIN posts' : s < postSerial
  <2>1. CASE InsertPost(t)
    <3>1. serial[t] < postSerial
      BY <2>1 DEF InsertPost, At, Inv, PostsInv, Knows, Creating
    <3> QED BY <2>1, <3>1 DEF InsertPost, Insert, Inv, PostsInv
  <2>2. CASE DropPost(t)
    BY <2>2 DEF DropPost, Erase, Inv, PostsInv
  <2>3. CASE UpdatePost(t) \/ Comment(t)
    BY <2>3 DEF UpdatePost, Comment, Inv, PostsInv
  <2> QED BY <2>1, <2>2, <2>3
<1> QED BY <1>2, <1>3, <1>4 DEF PostsInv

\* Every step keeps the posts' part of the invariant.
LEMMA PostsStep ==
  ASSUME Inv, [Next]_vars
  PROVE  PostsInv'
<1>1. ASSUME NEW t \in Threads, Method(t)
      PROVE  PostsInv'
  <2>1. CASE CreateBoard(t) \/ AppendBoard(t) \/ ListBoards(t) \/ ListPosts(t)
             \/ ReadPost(t)
    BY <2>1, LeaveSame, StepSame DEF CreateBoard, AppendBoard, ListBoards, ListPosts,
       ReadPost, tables, Editing, Creating
  <2>2. CASE CreatePost(t)
    BY <2>2, CreateStep
  <2>3. CASE ListSerial(t)
    BY <2>3, LeaveSame, StepSame DEF ListSerial, At, Editing, Creating
  <2>4. CASE CheckPost(t)
    BY <2>4, LeaveSame, StepSame DEF CheckPost, tables, Creating
  <2>5. CASE UnlistSerial(t)
    <3>1. MayEdit(call[t])
      BY <2>5 DEF UnlistSerial, At, Inv, PostsInv, Knows, Editing
    <3> QED BY <2>5, <3>1, LeaveSame, StepSame DEF UnlistSerial, Creating
  <2>6. CASE InsertPost(t) \/ DropPost(t) \/ UpdatePost(t) \/ Comment(t)
    BY <2>6, WriteStep
  <2> QED BY <1>1, <2>1, <2>2, <2>3, <2>4, <2>5, <2>6 DEF Method
<1>2. CASE UNCHANGED vars
  BY <1>2 DEF vars, tables, thread, Inv, PostsInv, Knows, MayEdit
<1> QED BY <1>1, <1>2, OutsideStep DEF Next

\* What a method of Database found out about a post stays true while it is inside.
THEOREM PostsInvariant == Spec => []Inv
<1>1. Init => PostsInv
  BY DEF Init, PostsInv, Knows, Editing, Creating, Empty
<1>2. Inv /\ [Next]_vars => PostsInv'
  BY PostsStep
<1> QED BY <1>1, <1>2, LocksInvariant, PTL DEF Spec, Inv

-----------------------------------------------------------------------------

\* The reference p that deletePost, updatePost and comment keep into the map stays
\* valid, and its author the caller, until the method's last write.
THEOREM NoDanglingPostTheorem == Spec => []NoDanglingPost
<1>1. Inv => NoDanglingPost
  BY DEF Inv, PostsInv, Knows, NoDanglingPost, Editing
<1> QED BY <1>1, PostsInvariant, PTL

\* One step keeps every post, its author and its board, unless it is the last
\* step of its author's deletePost.
LEMMA StepKeepsPosts ==
  ASSUME Inv, [Next]_vars, NEW s \in DOMAIN posts
  PROVE  PostKept(s)
<1>1. CASE posts' = posts
  BY <1>1 DEF PostKept
<1>2. ASSUME NEW t \in Threads, InsertPost(t)
      PROVE  PostKept(s)
  <2>1. serial[t] # s
    BY <1>2 DEF InsertPost, At, Inv, PostsInv, Knows, Creating
  <2> QED BY <1>2, <2>1 DEF InsertPost, Insert, PostKept
<1>3. ASSUME NEW t \in Threads, DropPost(t)
      PROVE  PostKept(s)
  <2>1. MayEdit(call[t]) /\ call[t].op = "deletePost"
    BY <1>3 DEF DropPost, At, Inv, PostsInv, Knows, Editing
  <2>2. posts[call[t].serial].author = call[t].user
    BY <2>1 DEF MayEdit, OwnerOnly
  <2> QED BY <1>3, <2>2 DEF DropPost, At, Erase, PostKept
<1>4. ASSUME NEW t \in Threads, UpdatePost(t) \/ Comment(t)
      PROVE  PostKept(s)
  <2>1. posts[s] \in Post
    BY DEF Inv, TypeOK, TablesOK
  <2>2. /\ Replace(posts[s], call[t]).author = posts[s].author
        /\ Replace(posts[s], call[t]).board = posts[s].board
        /\ AddComment(posts[s], call[t]).author = posts[s].author
        /\ AddComment(posts[s], call[t]).board = posts[s].board
    BY <2>1 DEF Replace, AddComment, Post
  <2> QED BY <1>4, <2>2 DEF UpdatePost, Comment, PostKept
<1>5. CASE UNCHANGED vars
  BY <1>1, <1>5 DEF vars, tables
<1>6. ASSUME NEW t \in Threads, Method(t)
      PROVE  posts' = posts \/ InsertPost(t) \/ DropPost(t) \/ UpdatePost(t) \/ Comment(t)
  BY <1>6 DEF Method, CreateBoard, AppendBoard, ListBoards, CreatePost, ListSerial,
     ListPosts, ReadPost, CheckPost, UnlistSerial, tables
<1>7. ASSUME NEW t \in Threads,
             (\E c \in Calls : Invoke(t, c)) \/ Lock(t) \/ Unlock(t) \/ Return(t)
      PROVE  posts' = posts
  BY <1>7 DEF Invoke, Lock, Unlock, Return, tables
<1> QED BY <1>1, <1>2, <1>3, <1>4, <1>5, <1>6, <1>7 DEF Next

\* A post disappears only by its author's deletePost; while it exists nobody
\* changes its author or board, and createPost never reuses its serial.
THEOREM PostsBelongToAuthorsTheorem == Spec => PostsBelongToAuthors
<1>1. Inv /\ [Next]_vars => [\A s \in DOMAIN posts : PostKept(s)]_vars
  BY StepKeepsPosts
<1> QED BY <1>1, PostsInvariant, PTL DEF Spec, PostsBelongToAuthors
=============================================================================
