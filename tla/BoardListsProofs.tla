-------------------------- MODULE BoardListsProofs --------------------------
(***************************************************************************)
(* Proofs about the lists of BoardStore, for any number of threads, boards *)
(* and posts: the index, the entries, their serials and the posts agree,   *)
(* so that no .at() throws.  A method that changes boards or boardInfos    *)
(* has boardmux from its first look to its last write.                     *)
(***************************************************************************)
EXTENDS BoardStoreProofs

Distinct(list) == \A x, y \in DOMAIN list : list[x] = list[y] => x = y

\* SerialsUnique in terms of sets: each list has no serial twice, and no two
\* lists share one.
ListsApart ==
  /\ \A i \in DOMAIN boardInfos : Distinct(boardInfos[i].serials)
  /\ \A i, j \in DOMAIN boardInfos :
       \A s \in ToSet(boardInfos[i].serials) : Listed(j, s) => i = j
  /\ \A i \in DOMAIN boardInfos : \A s \in ToSet(boardInfos[i].serials) :
       s < postSerial

\* What a thread inside a method knows of the lists: that its board has no entry
\* yet, that its new serial is on no list, or on the list of its board, and that
\* the serial it deletes has been taken off.
KnowsLists(t) ==
  /\ pc[t] = "append" => Known(call[t].board) /\ boards[call[t].board] = Len(boardInfos)
  /\ pc[t] = "list" =>
       Known(call[t].board) /\ \A i \in DOMAIN boardInfos : ~Listed(i, serial[t])
  /\ pc[t] = "insert" =>
       Found(call[t].board) /\ Listed(Entry(call[t].board), serial[t])
  /\ pc[t] = "drop" => \A i \in DOMAIN boardInfos : ~Listed(i, call[t].serial)

ListsInv ==
  /\ IndexMatchesEntries
  /\ ListsMatchPosts
  /\ ListsApart
  /\ NoThrow
  /\ \A t \in Threads : KnowsLists(t)

Agree == Inv /\ ListsInv

\* Places between two writes of one method.
Between == {"append", "list", "insert", "unlist", "drop"}

-----------------------------------------------------------------------------
(* Lists.                                                                  *)

LEMMA ErasedList ==
  ASSUME NEW list \in Seq(Nat), NEW v \in Nat, Distinct(list)
  PROVE  /\ EraseFirst(list, v) \in Seq(Nat)
         /\ ToSet(EraseFirst(list, v)) = ToSet(list) \ {v}
         /\ Distinct(EraseFirst(list, v))
<1>1. PICK n \in Nat : n = Len(list)
  BY LenProperties
<1>2. CASE EraseFirst(list, v) = list /\ v \notin ToSet(list)
  BY <1>2
<1>3. CASE \E k \in 1 .. n : list[k] = v /\ EraseFirst(list, v) = RemoveAt(list, k)
  <2>1. PICK k \in 1 .. n : list[k] = v /\ EraseFirst(list, v) = RemoveAt(list, k)
    BY <1>3
  <2>2. \A x, y \in 1 .. n : list[x] = list[y] => x = y
    BY <1>1, LenProperties DEF Distinct
  <2>3. /\ RemoveAt(list, k) \in Seq(Nat)
        /\ Len(RemoveAt(list, k)) = n - 1
    BY <1>1, <2>1, RemoveAtIndex
  <2>5. /\ ToSet(RemoveAt(list, k)) = ToSet(list) \ {list[k]}
        /\ \A x, y \in 1 .. n - 1 :
             RemoveAt(list, k)[x] = RemoveAt(list, k)[y] => x = y
    BY ONLY <1>1, <2>1, <2>2, n \in Nat, list \in Seq(Nat), k \in 1 .. n, RemoveOnce, SMTT(30)
  <2>4. DOMAIN RemoveAt(list, k) = 1 .. n - 1
    BY <2>3, LenProperties
  <2> QED BY <2>1, <2>3, <2>4, <2>5 DEF Distinct
<1> QED BY <1>1, <1>2, <1>3, EraseFirstFacts

LEMMA AppendedList ==
  ASSUME NEW list \in Seq(Nat), NEW v \in Nat, Distinct(list), v \notin ToSet(list)
  PROVE  /\ Append(list, v) \in Seq(Nat)
         /\ ToSet(Append(list, v)) = ToSet(list) \cup {v}
         /\ Distinct(Append(list, v))
<1> DEFINE more == Append(list, v)
<1>1. PICK n \in Nat : n = Len(list) /\ DOMAIN list = 1 .. n
  BY LenProperties
<1>2. /\ more \in Seq(Nat) /\ Len(more) = n + 1
      /\ \A i \in 1 .. n : more[i] = list[i]
      /\ more[n + 1] = v
  BY <1>1, AppendProperties
<1>3. DOMAIN more = 1 .. n + 1
  BY <1>2, LenProperties
<1> HIDE DEF more
<1>4. \A i \in 1 .. n : list[i] # v
  BY <1>1 DEF ToSet
<1>5. Distinct(more)
  BY <1>1, <1>2, <1>3, <1>4, SMTT(30) DEF Distinct
<1>6. /\ \A x : x \in ToSet(more) <=> \E i \in 1 .. n + 1 : more[i] = x
      /\ \A x : x \in ToSet(list) <=> \E i \in 1 .. n : list[i] = x
  BY <1>1, <1>3 DEF ToSet
<1>7. ToSet(more) = ToSet(list) \cup {v}
  <2>1. ASSUME NEW x \in ToSet(more) PROVE x \in ToSet(list) \cup {v}
    <3>1. PICK i \in 1 .. n + 1 : more[i] = x
      BY <1>6
    <3>2. CASE i \in 1 .. n
      BY <1>2, <1>6, <3>1, <3>2
    <3>3. CASE i = n + 1
      BY <1>2, <3>1, <3>3
    <3> QED BY <3>2, <3>3
  <2>2. v \in ToSet(more)
    BY <1>2, <1>6
  <2>3. ASSUME NEW x \in ToSet(list) PROVE x \in ToSet(more)
    <3>1. PICK i \in 1 .. n : list[i] = x
      BY <1>6
    <3>2. i \in 1 .. n + 1 /\ more[i] = x
      BY <1>2, <3>1
    <3> QED BY <1>6, <3>2
  <2> QED BY <2>1, <2>2, <2>3
<1> QED BY <1>2, <1>5, <1>7 DEF more

\* boardInfos with another list in one entry, and with one entry more.
LEMMA EntryChanged ==
  ASSUME boardInfos \in Seq(BoardInfo), NEW k \in DOMAIN boardInfos, NEW list \in Seq(Nat),
         boardInfos' = [boardInfos EXCEPT ![k].serials = list]
  PROVE  /\ DOMAIN boardInfos' = DOMAIN boardInfos
         /\ Len(boardInfos') = Len(boardInfos)
         /\ \A i \in DOMAIN boardInfos : boardInfos'[i].name = boardInfos[i].name
         /\ boardInfos'[k].serials = list
         /\ \A i \in DOMAIN boardInfos \ {k} : boardInfos'[i] = boardInfos[i]
<1>1. boardInfos[k] \in BoardInfo
  BY EntryType
<1>2. boardInfos' \in Seq(BoardInfo)
  BY NewSerials
<1>3. DOMAIN boardInfos' = DOMAIN boardInfos
  OBVIOUS
<1>4. Len(boardInfos') = Len(boardInfos)
  BY <1>2, <1>3, LenProperties
<1>5. /\ boardInfos'[k].name = boardInfos[k].name /\ boardInfos'[k].serials = list
      /\ \A i \in DOMAIN boardInfos \ {k} : boardInfos'[i] = boardInfos[i]
  BY <1>1 DEF BoardInfo
<1> QED BY <1>3, <1>4, <1>5

LEMMA EntryAppended ==
  ASSUME boardInfos \in Seq(BoardInfo), NEW e \in BoardInfo,
         boardInfos' = Append(boardInfos, e)
  PROVE  /\ Len(boardInfos) \in Nat
         /\ DOMAIN boardInfos = 1 .. Len(boardInfos)
         /\ DOMAIN boardInfos' = 1 .. Len(boardInfos) + 1
         /\ Len(boardInfos') = Len(boardInfos) + 1
         /\ \A i \in DOMAIN boardInfos : boardInfos'[i] = boardInfos[i]
         /\ boardInfos'[Len(boardInfos) + 1] = e
<1>1. Len(boardInfos) \in Nat /\ DOMAIN boardInfos = 1 .. Len(boardInfos)
  BY LenProperties
<1>2. /\ boardInfos' \in Seq(BoardInfo) /\ Len(boardInfos') = Len(boardInfos) + 1
      /\ \A i \in 1 .. Len(boardInfos) : boardInfos'[i] = boardInfos[i]
      /\ boardInfos'[Len(boardInfos) + 1] = e
  BY AppendProperties
<1>3. DOMAIN boardInfos' = 1 .. Len(boardInfos')
  BY <1>2, LenProperties
<1> QED BY <1>1, <1>2, <1>3

-----------------------------------------------------------------------------
(* Who is inside with boardmux is alone.                                   *)

BoardMethods == {"createBoard", "createPost", "listBoards", "listPosts", "deletePost"}

LEMMA BetweenInside ==
  ASSUME Inv, NEW u \in Threads, pc[u] \in Between
  PROVE  pc[u] \in Inside /\ call[u].op \in BoardMethods
BY DEF Inv, LocksInv, PlaceOfCall, Between, Inside, BoardMethods

LEMMA AloneOnBoards ==
  ASSUME Inv, NEW t \in Threads, NEW u \in Threads,
         pc[t] \in Inside, call[t].op \in BoardMethods, pc[u] \in Between
  PROVE  t = u
BY BetweenInside, InsideOwns DEF Inv, BoardMethods

\* So a step of t that changes the boards or the entries finds nobody else
\* between two writes.
LEMMA OthersKnowLists ==
  ASSUME Agree, NEW t \in Threads, NEW u \in Threads, u # t,
         pc'[u] = pc[u], call'[u] = call[u], serial'[u] = serial[u],
         \/ UNCHANGED <<boards, boardInfos>>
         \/ pc[t] \in Inside /\ call[t].op \in BoardMethods
  PROVE  KnowsLists(u)'
<1>1. CASE UNCHANGED <<boards, boardInfos>>
  BY <1>1 DEF Agree, ListsInv, KnowsLists, Known, Found, Entry, Listed
<1>2. CASE pc[u] \notin Between
  BY <1>2 DEF KnowsLists, Between
<1> QED BY <1>1, <1>2, AloneOnBoards DEF Agree

\* The board of a thread that has boardmux has its entry, if it is known.
LEMMA KnownFound ==
  ASSUME Agree, NEW t \in Threads, pc[t] \in Inside, call[t].op \in BoardMethods,
         pc[t] # "append", NEW b, Known(b)
  PROVE  Found(b) /\ boardInfos[Entry(b)].name = b
<1>1. ~ \E u \in Threads : At(u, "createBoard", "append")
  BY AloneOnBoards DEF Agree, At, Between
<1> QED BY <1>1 DEF Agree, ListsInv, IndexMatchesEntries, Known

\* Another thread that is between two writes is still there after a step of t.
LEMMA OthersStay ==
  ASSUME NEW t \in Threads, Only(t), NEW u \in Threads, u # t
  PROVE  /\ \A op, place : At(u, op, place)' <=> At(u, op, place)
         /\ call'[u] = call[u] /\ serial'[u] = serial[u]
BY DEF Only, At

\* Only t returns, and not because an .at() threw.
LEMMA AnswersOf ==
  ASSUME Agree, NEW t \in Threads, NEW a, a # Thrown, Leave(t, a)
  PROVE  NoThrow'
BY DEF Agree, Inv, TypeOK, ThreadsOK, ListsInv, NoThrow, Leave

LEMMA NoAnswerYet ==
  ASSUME Agree, UNCHANGED answer
  PROVE  NoThrow'
BY DEF Agree, ListsInv, NoThrow

LEMMA NotThrown ==
  /\ Done # Thrown /\ NoAnswer # Thrown
  /\ \A why : Refused(why) # Thrown
  /\ \A infos : BoardLines(infos) # Thrown
  /\ \A list, map : PostLines(list, map) # Thrown
  /\ \A p : PostText(p) # Thrown
BY DEF Done, NoAnswer, Thrown, Refused, BoardLines, PostLines, PostText

\* A step that leaves the boards, the entries and the posts' boards as they are,
\* not between two writes.
LEMMA QuietStep ==
  ASSUME Agree, NEW t \in Threads, Only(t),
         UNCHANGED <<boards, boardInfos>>, postSerial' = postSerial,
         DOMAIN posts' = DOMAIN posts,
         \A s \in DOMAIN posts : posts'[s].board = posts[s].board,
         pc[t] \notin Between \ {"unlist"}, pc'[t] \notin Between \ {"unlist"},
         NoThrow'
  PROVE  ListsInv'
<1>1. \A u \in Threads : pc[u] \in Between \ {"unlist"} => u # t
  OBVIOUS
<1>2. \A u \in Threads : KnowsLists(u)'
  <2>1. KnowsLists(t)'
    BY DEF KnowsLists, Between
  <2> QED BY <2>1, OthersKnowLists DEF Only
<1>3. IndexMatchesEntries'
  <2>1. \A b : (\E u \in Threads : At(u, "createBoard", "append") /\ call[u].board = b)
               => (\E u \in Threads : At(u, "createBoard", "append") /\ call[u].board = b)'
    BY <1>1, OthersStay DEF At, Between
  <2> QED BY <2>1 DEF Agree, ListsInv, IndexMatchesEntries, Found, Known, Entry
<1>4. ListsMatchPosts'
  <2>1. \A s : Inserting(s) => Inserting(s)'
    BY <1>1, OthersStay DEF Inserting, At, Between
  <2>2. \A s : Dropping(s) => Dropping(s)'
    BY <1>1, OthersStay DEF Dropping, At, Between
  <2> QED BY <2>1, <2>2 DEF Agree, ListsInv, ListsMatchPosts, Listed
<1>5. ListsApart'
  BY DEF Agree, ListsInv, ListsApart, Distinct, Listed
<1> QED BY <1>2, <1>3, <1>4, <1>5 DEF ListsInv

-----------------------------------------------------------------------------
(* The steps.                                                              *)

\* Calls, locks and returns.
LEMMA OutsideKeepsLists ==
  ASSUME Agree, NEW t \in Threads,
         \/ \E c \in Calls : Invoke(t, c)
         \/ Lock(t)
         \/ Unlock(t)
         \/ Return(t)
  PROVE  ListsInv'
<1>1. UNCHANGED <<boards, boardInfos, postSerial, posts>>
  BY DEF Invoke, Lock, Unlock, Return, tables
<1>2. /\ Only(t)
      /\ pc[t] \in {"idle", "lock", "unlock", "return"}
      /\ pc'[t] \in {"lock", "body", "unlock", "return", "idle"}
  BY DEF Agree, Inv, TypeOK, ThreadsOK, Invoke, Lock, Unlock, Return, Go, Only
<1>3. NoThrow'
  <2>1. CASE UNCHANGED answer
    BY <2>1, NoAnswerYet
  <2>2. CASE Return(t)
    BY <2>2, NotThrown DEF Agree, Inv, TypeOK, ThreadsOK, ListsInv, NoThrow, Return
  <2> QED BY <2>1, <2>2 DEF Invoke, Lock, Unlock
<1> QED BY <1>1, <1>2, <1>3, QuietStep DEF Between

\* A method that returns without a change.
LEMMA LeaveKeepsLists ==
  ASSUME Agree, NEW t \in Threads, NEW a, a # Thrown, Leave(t, a),
         UNCHANGED <<boards, boardInfos, postSerial, posts>>, pc[t] = "body"
  PROVE  ListsInv'
<1>1. Only(t) /\ pc'[t] = "unlock"
  BY LeaveOnly DEF Agree, Inv
<1> QED BY <1>1, AnswersOf, QuietStep DEF Between

\* A listing: the board that is known has its entry, and every serial its post.
LEMMA ListPostsKeepsLists ==
  ASSUME Agree, NEW t \in Threads, ListPosts(t)
  PROVE  ListsInv'
<1> DEFINE b == call[t].board
<1>1. pc[t] = "body" /\ pc[t] \in Inside /\ call[t].op = "listPosts"
      /\ call[t].op \in BoardMethods
  BY DEF ListPosts, At, Inside, BoardMethods
<1>2. UNCHANGED <<boards, boardInfos, postSerial, posts>>
  BY DEF ListPosts, tables
<1>3. Known(b) => Found(b)
  BY <1>1, KnownFound
<1>4. \A s : ~Inserting(s)
  BY <1>1, AloneOnBoards DEF Agree, Inserting, At, Between
<1>5. Found(b) => ToSet(boardInfos[Entry(b)].serials) \subseteq DOMAIN posts
  BY <1>4 DEF Agree, ListsInv, ListsMatchPosts, Found
<1>6. \E a : a # Thrown /\ Leave(t, a)
  BY <1>3, <1>5, NotThrown DEF ListPosts
<1> QED BY <1>1, <1>2, <1>6, LeaveKeepsLists

\* The checks of deletePost, updatePost and comment.
LEMMA CheckKeepsLists ==
  ASSUME Agree, NEW t \in Threads, CheckPost(t)
  PROVE  ListsInv'
<1>1. UNCHANGED <<boards, boardInfos, postSerial, posts>> /\ pc[t] = "body"
  BY DEF CheckPost, tables
<1>2. CASE \E why : Leave(t, Refused(why))
  BY <1>1, <1>2, NotThrown, LeaveKeepsLists
<1>3. CASE \E place \in {"unlist", "write"} : Step(t, place)
  <2>1. /\ Only(t) /\ pc'[t] \in {"unlist", "write"} /\ UNCHANGED answer
    BY <1>3, StepOnly DEF Agree, Inv, Step
  <2> QED BY <1>1, <2>1, NoAnswerYet, QuietStep DEF Between
<1> QED BY <1>2, <1>3 DEF CheckPost

\* A change of a text, or one comment more.
LEMMA EditKeepsLists ==
  ASSUME Agree, NEW t \in Threads, UpdatePost(t) \/ Comment(t)
  PROVE  ListsInv'
<1>1. pc[t] = "write" /\ Leave(t, Done) /\ UNCHANGED <<boards, boardInfos>>
      /\ postSerial' = postSerial
  BY DEF UpdatePost, Comment, At
<1>2. DOMAIN posts' = DOMAIN posts
  BY DEF UpdatePost, Comment
<1>3. ASSUME NEW s \in DOMAIN posts
      PROVE  posts'[s].board = posts[s].board
  <2>1. posts[s] \in Post
    BY DEF Agree, Inv, TypeOK, TablesOK
  <2>2. /\ Replace(posts[s], call[t]).board = posts[s].board
        /\ AddComment(posts[s], call[t]).board = posts[s].board
    BY <2>1 DEF Replace, AddComment, Post
  <2> QED BY <2>2 DEF UpdatePost, Comment
<1>4. Only(t) /\ pc'[t] = "unlock"
  BY <1>1, LeaveOnly DEF Agree, Inv
<1>5. NoThrow'
  BY <1>1, NotThrown, AnswersOf
<1> QED BY <1>1, <1>2, <1>3, <1>4, <1>5, QuietStep DEF Between

\* With boardmux, t alone is between two writes, before and after its step.
LEMMA OnlyWriter ==
  ASSUME Agree, NEW t \in Threads, Only(t), pc[t] \in Inside, call[t].op \in BoardMethods
  PROVE  \A u \in Threads \ {t} : pc[u] \notin Between /\ pc'[u] \notin Between
BY AloneOnBoards DEF Agree, Only

\* createBoard enters the index of the entry to come.
LEMMA CreateBoardKeepsLists ==
  ASSUME Agree, NEW t \in Threads, CreateBoard(t)
  PROVE  ListsInv'
<1> DEFINE b == call[t].board
<1>1. /\ pc[t] = "body" /\ pc[t] \in Inside /\ call[t].op = "createBoard"
      /\ call[t].op \in BoardMethods
      /\ UNCHANGED <<boardInfos, postSerial, posts>>
  BY DEF CreateBoard, At, Inside, BoardMethods
<1>2. CASE Leave(t, Refused("BoardExists")) /\ UNCHANGED boards
  BY <1>1, <1>2, NotThrown, LeaveKeepsLists
<1>3. CASE /\ ~Known(b)
           /\ boards' = Insert(boards, b, NewIndex)
           /\ Step(t, "append")
  <2>1. Only(t) /\ pc'[t] = "append" /\ UNCHANGED <<call, serial, answer>>
    BY <1>3, StepOnly DEF Agree, Inv, Step
  <2>2. \A u \in Threads \ {t} : pc[u] \notin Between /\ pc'[u] \notin Between
    BY <1>1, <2>1, OnlyWriter
  <2>3. /\ DOMAIN boards' = DOMAIN boards \cup {b}
        /\ \A c \in DOMAIN boards : c # b /\ boards'[c] = boards[c]
        /\ boards'[b] = Len(boardInfos)
    BY <1>3 DEF Insert, NewIndex, Known
  <2>4. \A c \in DOMAIN boards : Found(c) /\ boardInfos[Entry(c)].name = c
    BY <1>1, KnownFound DEF Known
  <2>5. IndexMatchesEntries'
    <3>1. ASSUME NEW c \in DOMAIN boards'
          PROVE  \/ Found(c)' /\ (boardInfos[Entry(c)].name = c)'
                 \/ /\ boards'[c] = Len(boardInfos')
                    /\ \E u \in Threads : At(u, "createBoard", "append")'
                                         /\ call'[u].board = c
      <4>1. CASE c = b
        BY <1>1, <2>1, <2>3, <4>1 DEF At
      <4>2. CASE c # b
        BY <1>1, <2>3, <2>4, <4>2 DEF Found, Known, Entry
      <4> QED BY <4>1, <4>2
    <3>2. ASSUME NEW i \in DOMAIN boardInfos'
          PROVE  /\ boardInfos'[i].name \in DOMAIN boards'
                 /\ boards'[boardInfos'[i].name] + 1 = i
      BY <1>1, <2>3 DEF Agree, ListsInv, IndexMatchesEntries, Known, Entry
    <3> QED BY <3>1, <3>2 DEF IndexMatchesEntries, Known, Entry
  <2>6. ListsMatchPosts'
    <3>1. \A s : ~Inserting(s) /\ ~Dropping(s)
      BY <1>1, <2>2 DEF Inserting, Dropping, At, Between
    <3> QED BY <1>1, <3>1 DEF Agree, ListsInv, ListsMatchPosts, Listed
  <2>7. ListsApart'
    BY <1>1 DEF Agree, ListsInv, ListsApart, Distinct, Listed
  <2>8. \A u \in Threads : KnowsLists(u)'
    <3>1. KnowsLists(t)'
      BY <1>1, <2>1, <2>3 DEF KnowsLists, Known
    <3> QED BY <2>2, <3>1 DEF KnowsLists, Between
  <2>9. NoThrow'
    BY <2>1, NoAnswerYet
  <2> QED BY <2>5, <2>6, <2>7, <2>8, <2>9 DEF ListsInv
<1> QED BY <1>1, <1>2, <1>3 DEF CreateBoard

\* createBoard appends the entry its index points to.
LEMMA AppendBoardKeepsLists ==
  ASSUME Agree, NEW t \in Threads, AppendBoard(t)
  PROVE  ListsInv'
<1> DEFINE b == call[t].board
           e == [name |-> b, moderator |-> call[t].user, serials |-> << >>]
<1>1. /\ pc[t] = "append" /\ pc[t] \in Inside /\ call[t].op = "createBoard"
      /\ call[t].op \in BoardMethods
      /\ UNCHANGED <<boards, postSerial, posts>>
      /\ Leave(t, Done) /\ boardInfos' = Append(boardInfos, e)
  BY DEF AppendBoard, At, Inside, BoardMethods
<1>2. Only(t) /\ pc'[t] = "unlock" /\ NoThrow'
  BY <1>1, LeaveOnly, NotThrown, AnswersOf DEF Agree, Inv
<1>3. \A u \in Threads \ {t} : pc[u] \notin Between /\ pc'[u] \notin Between
  BY <1>1, <1>2, OnlyWriter
<1>4. e \in BoardInfo /\ e.name = b /\ e.serials = << >>
  BY <1>1, CallFields DEF Agree, Inv, LocksInv, PlaceOfCall, BoardInfo
<1>5. boardInfos \in Seq(BoardInfo)
  BY DEF Agree, Inv, TypeOK, TablesOK
<1>6. PICK n \in Nat : n = Len(boardInfos)
  BY <1>5, LenProperties
<1> HIDE DEF e
<1>7. /\ DOMAIN boardInfos = 1 .. n
      /\ DOMAIN boardInfos' = 1 .. n + 1
      /\ \A i \in 1 .. n : boardInfos'[i] = boardInfos[i]
      /\ boardInfos'[n + 1] = e
  BY <1>1, <1>4, <1>5, <1>6, EntryAppended
<1>8. Known(b) /\ boards[b] = n
  BY <1>1, <1>6 DEF Agree, ListsInv, KnowsLists
<1>9. \A c : (\E u \in Threads : At(u, "createBoard", "append") /\ call[u].board = c)
            => c = b
  BY <1>3 DEF At, Between
<1>10. IndexMatchesEntries'
  <2>1. ASSUME NEW c \in DOMAIN boards'
        PROVE  Found(c)' /\ (boardInfos[Entry(c)].name = c)'
    <3>1. CASE c = b
      BY <1>1, <1>4, <1>7, <1>8, <3>1 DEF Found, Known, Entry
    <3>2. CASE c # b
      <4>1. Found(c) /\ boardInfos[Entry(c)].name = c
        BY <1>1, <1>9, <2>1, <3>2 DEF Agree, ListsInv, IndexMatchesEntries
      <4>2. Entry(c) \in 1 .. n /\ Entry(c)' = Entry(c)
        BY <1>1, <1>7, <4>1 DEF Found, Entry
      <4> QED BY <1>1, <1>7, <4>1, <4>2 DEF Found, Known
    <3> QED BY <3>1, <3>2
  <2>2. ASSUME NEW i \in DOMAIN boardInfos'
        PROVE  /\ boardInfos'[i].name \in DOMAIN boards'
                 /\ boards'[boardInfos'[i].name] + 1 = i
    <3>1. CASE i \in 1 .. n
      <4>1. /\ boardInfos[i].name \in DOMAIN boards
            /\ boards[boardInfos[i].name] + 1 = i
        BY <1>7, <3>1 DEF Agree, ListsInv, IndexMatchesEntries, Known, Entry
      <4> QED BY <1>1, <1>7, <3>1, <4>1 DEF Known, Entry
    <3>2. CASE i = n + 1
      BY <1>1, <1>4, <1>7, <1>8, <3>2 DEF Known, Entry
    <3> QED BY <1>7, <2>2, <3>1, <3>2
  <2> QED BY <2>1, <2>2 DEF IndexMatchesEntries, Known, Entry
<1>11. /\ \A i \in 1 .. n : boardInfos'[i].serials = boardInfos[i].serials
       /\ \A s : ~Listed(n + 1, s)'
       /\ \A i \in 1 .. n : \A s : Listed(i, s)' <=> Listed(i, s)
  <2>1. boardInfos'[n + 1].serials = << >>
    BY <1>4, <1>7
  <2>2. ToSet(<< >>) = {}
    BY DEF ToSet
  <2> QED BY <1>7, <2>1, <2>2 DEF Listed
<1>12. ListsMatchPosts'
  <2>1. \A s : ~Inserting(s) /\ ~Dropping(s)
    BY <1>1, <1>3 DEF Inserting, Dropping, At, Between
  <2>2. ASSUME NEW i \in DOMAIN boardInfos', NEW s \in ToSet(boardInfos'[i].serials)
        PROVE  s \in DOMAIN posts' /\ posts'[s].board = boardInfos'[i].name
    <3>1. i \in 1 .. n /\ Listed(i, s)
      BY <1>7, <1>11, <2>2 DEF Listed
    <3> QED BY <1>1, <1>7, <2>1, <3>1 DEF Agree, ListsInv, ListsMatchPosts, Listed
  <2>3. ASSUME NEW s \in DOMAIN posts'
        PROVE  \E i \in DOMAIN boardInfos' : Listed(i, s)'
    <3>1. PICK i \in 1 .. n : Listed(i, s)
      BY <1>1, <1>7, <2>1, <2>3 DEF Agree, ListsInv, ListsMatchPosts
    <3>2. i \in 1 .. n + 1 /\ Listed(i, s)'
      BY <1>11, <3>1
    <3> QED BY <1>7, <3>2
  <2> QED BY <2>2, <2>3 DEF ListsMatchPosts
<1>13. ListsApart'
  <2>1. ASSUME NEW i \in DOMAIN boardInfos'
        PROVE  Distinct(boardInfos'[i].serials)
    <3>1. CASE i \in 1 .. n
      BY <1>7, <1>11, <3>1 DEF Agree, ListsInv, ListsApart
    <3>2. CASE i = n + 1
      BY <1>4, <1>7, <3>2 DEF Distinct
    <3> QED BY <1>7, <2>1, <3>1, <3>2
  <2>2. \A i \in DOMAIN boardInfos' : \A s : Listed(i, s)' => i \in 1 .. n /\ Listed(i, s)
    BY <1>7, <1>11
  <2>3. \A i, j \in DOMAIN boardInfos' : \A s : Listed(i, s)' /\ Listed(j, s)' => i = j
    BY <1>7, <2>2 DEF Agree, ListsInv, ListsApart, Listed
  <2>4. \A i \in DOMAIN boardInfos' : \A s : Listed(i, s)' => s < postSerial'
    BY <1>1, <1>7, <2>2 DEF Agree, ListsInv, ListsApart, Listed
  <2> QED BY <2>1, <2>3, <2>4 DEF ListsApart, Listed
<1>14. \A u \in Threads : KnowsLists(u)'
  BY <1>2, <1>3 DEF KnowsLists, Between
<1> QED BY <1>2, <1>10, <1>12, <1>13, <1>14 DEF ListsInv

\* createPost draws a serial that is on no list.
LEMMA CreatePostKeepsLists ==
  ASSUME Agree, NEW t \in Threads, CreatePost(t)
  PROVE  ListsInv'
<1>1. /\ pc[t] = "body" /\ pc[t] \in Inside /\ call[t].op = "createPost"
      /\ call[t].op \in BoardMethods
      /\ UNCHANGED <<boards, boardInfos, posts>>
  BY DEF CreatePost, At, Inside, BoardMethods
<1>2. CASE Leave(t, Refused("NoBoard")) /\ UNCHANGED postSerial
  BY <1>1, <1>2, NotThrown, LeaveKeepsLists
<1>3. CASE /\ Known(call[t].board)
           /\ serial' = [serial EXCEPT ![t] = postSerial]
           /\ postSerial' = NextSerial
           /\ Go(t, "list")
           /\ UNCHANGED <<owner, taken, call, answer>>
  <2>1. /\ Only(t) /\ pc'[t] = "list" /\ serial'[t] = postSerial
        /\ postSerial \in Nat /\ postSerial' = postSerial + 1
    BY <1>3 DEF Agree, Inv, TypeOK, TablesOK, ThreadsOK, Go, Only, NextSerial
  <2>2. \A u \in Threads \ {t} : pc[u] \notin Between /\ pc'[u] \notin Between
    BY <1>1, <2>1, OnlyWriter
  <2>3. IndexMatchesEntries'
    <3>1. \A c : ~ \E u \in Threads : At(u, "createBoard", "append") /\ call[u].board = c
      BY <1>1, <2>2 DEF At, Between
    <3> QED BY <1>1, <3>1 DEF Agree, ListsInv, IndexMatchesEntries, Found, Known, Entry
  <2>4. ListsMatchPosts'
    <3>1. \A s : ~Inserting(s) /\ ~Dropping(s)
      BY <1>1, <2>2 DEF Inserting, Dropping, At, Between
    <3> QED BY <1>1, <3>1 DEF Agree, ListsInv, ListsMatchPosts, Listed
  <2>5. \A i \in DOMAIN boardInfos : \A s \in ToSet(boardInfos[i].serials) :
          s \in Nat /\ s < postSerial
    <3>1. \A i \in DOMAIN boardInfos : boardInfos[i].serials \in Seq(Nat)
      BY EntryType DEF Agree, Inv, TypeOK, TablesOK
    <3>2. \A i \in DOMAIN boardInfos : \A s \in ToSet(boardInfos[i].serials) : s \in Nat
      BY <3>1 DEF ToSet
    <3> QED BY <3>2 DEF Agree, ListsInv, ListsApart
  <2>6. ListsApart'
    <3>1. \A i \in DOMAIN boardInfos : \A s \in ToSet(boardInfos[i].serials) :
            s < postSerial'
      BY <2>1, <2>5
    <3> QED BY <1>1, <3>1 DEF Agree, ListsInv, ListsApart, Distinct, Listed
  <2>7. \A u \in Threads : KnowsLists(u)'
    <3>1. \A i \in DOMAIN boardInfos : ~Listed(i, postSerial)
      BY <2>1, <2>5 DEF Listed
    <3>2. KnowsLists(t)'
      BY <1>1, <1>3, <2>1, <3>1 DEF KnowsLists, Known, Listed
    <3> QED BY <2>2, <3>2 DEF KnowsLists, Between
  <2>8. NoThrow'
    BY <1>3, NoAnswerYet
  <2> QED BY <2>3, <2>4, <2>6, <2>7, <2>8 DEF ListsInv
<1> QED BY <1>1, <1>2, <1>3 DEF CreatePost

\* Names and indices survive a change of one entry's list.
LEMMA OneListChanged ==
  ASSUME Agree, NEW t \in Threads, pc[t] \in Inside, call[t].op \in BoardMethods,
         pc[t] # "append", UNCHANGED boards,
         NEW k \in DOMAIN boardInfos, NEW list \in Seq(Nat),
         boardInfos' = [boardInfos EXCEPT ![k].serials = list]
  PROVE  /\ IndexMatchesEntries'
         /\ DOMAIN boardInfos' = DOMAIN boardInfos
         /\ \A i \in DOMAIN boardInfos :
              /\ boardInfos'[i].name = boardInfos[i].name
              /\ boardInfos'[i].serials = IF i = k THEN list ELSE boardInfos[i].serials
<1>1. boardInfos \in Seq(BoardInfo)
  BY DEF Agree, Inv, TypeOK, TablesOK
<1>2. /\ DOMAIN boardInfos' = DOMAIN boardInfos
      /\ \A i \in DOMAIN boardInfos : boardInfos'[i].name = boardInfos[i].name
      /\ boardInfos'[k].serials = list
      /\ \A i \in DOMAIN boardInfos \ {k} : boardInfos'[i] = boardInfos[i]
  BY <1>1, EntryChanged
<1>3. \A b \in DOMAIN boards : Found(b) /\ boardInfos[Entry(b)].name = b
  BY KnownFound DEF Known
<1>4. \A b \in DOMAIN boards' : Found(b)' /\ (boardInfos[Entry(b)].name = b)'
  BY <1>2, <1>3 DEF Found, Known, Entry
<1>5. \A i \in DOMAIN boardInfos' :
        /\ boardInfos'[i].name \in DOMAIN boards'
        /\ boards'[boardInfos'[i].name] + 1 = i
  BY <1>2 DEF Agree, ListsInv, IndexMatchesEntries, Known, Entry
<1>6. IndexMatchesEntries'
  BY <1>4, <1>5 DEF IndexMatchesEntries, Known, Entry
<1> QED BY <1>2, <1>6

\* createPost puts its new serial on the list of its board.
LEMMA ListSerialKeepsLists ==
  ASSUME Agree, NEW t \in Threads, ListSerial(t)
  PROVE  ListsInv'
<1>0. PICK b, v, k : b = call[t].board /\ v = serial[t] /\ k = Entry(b)
  OBVIOUS
<1> DEFINE list == Append(boardInfos[k].serials, v)
<1>1. /\ pc[t] = "list" /\ pc[t] \in Inside /\ call[t].op = "createPost"
      /\ call[t].op \in BoardMethods
      /\ UNCHANGED <<boards, postSerial, posts>>
  BY DEF ListSerial, At, Inside, BoardMethods
<1>2. Known(b) /\ \A i \in DOMAIN boardInfos : ~Listed(i, v)
  BY <1>0, <1>1 DEF Agree, ListsInv, KnowsLists
<1>3. Found(b) /\ boardInfos[k].name = b
  BY <1>0, <1>1, <1>2, KnownFound
<1>4. boardInfos' = [boardInfos EXCEPT ![k].serials = list] /\ Step(t, "insert")
  BY <1>0, <1>3 DEF ListSerial
<1>5. Only(t) /\ pc'[t] = "insert" /\ UNCHANGED <<call, serial, answer>>
  BY <1>4, StepOnly DEF Agree, Inv, Step
<1>6. \A u \in Threads \ {t} : pc[u] \notin Between /\ pc'[u] \notin Between
  BY <1>1, <1>5, OnlyWriter
<1>7. v \in Nat /\ v \notin DOMAIN posts /\ v < postSerial
  BY <1>0, <1>1 DEF Agree, Inv, TypeOK, ThreadsOK, PostsInv, Knows, Creating
<1>8. k \in DOMAIN boardInfos /\ boardInfos[k].serials \in Seq(Nat)
      /\ Distinct(boardInfos[k].serials) /\ v \notin ToSet(boardInfos[k].serials)
  BY <1>0, <1>2, <1>3, EntryType DEF Found, Agree, Inv, TypeOK, TablesOK, ListsInv,
     ListsApart, Listed
<1>9. /\ list \in Seq(Nat) /\ Distinct(list)
      /\ ToSet(list) = ToSet(boardInfos[k].serials) \cup {v}
  BY <1>7, <1>8, AppendedList
<1> HIDE DEF list
<1>10. /\ IndexMatchesEntries'
       /\ DOMAIN boardInfos' = DOMAIN boardInfos
       /\ \A i \in DOMAIN boardInfos :
            /\ boardInfos'[i].name = boardInfos[i].name
            /\ boardInfos'[i].serials = IF i = k THEN list ELSE boardInfos[i].serials
  BY <1>1, <1>4, <1>8, <1>9, OneListChanged
<1>11. \A i \in DOMAIN boardInfos : \A s :
         Listed(i, s)' <=> Listed(i, s) \/ (i = k /\ s = v)
  BY <1>9, <1>10 DEF Listed
<1>12. Inserting(v)'
  BY <1>0, <1>1, <1>5 DEF Inserting, At
<1>13. ListsMatchPosts'
  <2>1. \A s : ~Inserting(s) /\ ~Dropping(s)
    BY <1>1, <1>6 DEF Inserting, Dropping, At, Between
  <2>2. ASSUME NEW i \in DOMAIN boardInfos', NEW s \in ToSet(boardInfos'[i].serials)
        PROVE  IF s \in DOMAIN posts' THEN posts'[s].board = boardInfos'[i].name
                                      ELSE Inserting(s)'
    <3>1. Listed(i, s) \/ s = v
      BY <1>10, <1>11, <2>2 DEF Listed
    <3>2. CASE s = v
      BY <1>1, <1>7, <1>12, <3>2
    <3>3. CASE Listed(i, s)
      BY <1>1, <1>10, <2>1, <2>2, <3>3 DEF Agree, ListsInv, ListsMatchPosts, Listed
    <3> QED BY <3>1, <3>2, <3>3
  <2>3. \A s \in DOMAIN posts' : \E i \in DOMAIN boardInfos' : Listed(i, s)'
    BY <1>1, <1>10, <1>11, <2>1 DEF Agree, ListsInv, ListsMatchPosts
  <2> QED BY <2>2, <2>3 DEF ListsMatchPosts
<1>14. ListsApart'
  <2>1. \A i \in DOMAIN boardInfos' : Distinct(boardInfos'[i].serials)
    BY <1>9, <1>10 DEF Agree, ListsInv, ListsApart
  <2>2. \A i, j \in DOMAIN boardInfos : \A s : Listed(i, s) /\ Listed(j, s) => i = j
    BY DEF Agree, ListsInv, ListsApart, Listed
  <2>3. \A i, j \in DOMAIN boardInfos' : \A s : Listed(i, s)' /\ Listed(j, s)' => i = j
    BY <1>2, <1>10, <1>11, <2>2
  <2>4. \A i \in DOMAIN boardInfos' : \A s : Listed(i, s)' => s < postSerial'
    BY <1>1, <1>7, <1>10, <1>11 DEF Agree, ListsInv, ListsApart, Listed
  <2> QED BY <2>1, <2>3, <2>4 DEF ListsApart, Listed
<1>15. \A u \in Threads : KnowsLists(u)'
  <2>1. Found(b)' /\ Entry(b)' = k
    BY <1>0, <1>1, <1>3, <1>10 DEF Found, Known, Entry
  <2>2. Listed(k, v)'
    BY <1>8, <1>11
  <2>3. KnowsLists(t)'
    BY <1>0, <1>5, <2>1, <2>2 DEF KnowsLists, Listed
  <2> QED BY <1>6, <2>3 DEF KnowsLists, Between
<1>16. NoThrow'
  BY <1>5, NoAnswerYet
<1> QED BY <1>10, <1>13, <1>14, <1>15, <1>16 DEF ListsInv

\* createPost stores the post its board already lists.
LEMMA InsertPostKeepsLists ==
  ASSUME Agree, NEW t \in Threads, InsertPost(t)
  PROVE  ListsInv'
<1> DEFINE b == call[t].board
           v == serial[t]
<1>1. /\ pc[t] = "insert" /\ pc[t] \in Inside /\ call[t].op = "createPost"
      /\ call[t].op \in BoardMethods
      /\ UNCHANGED <<boards, boardInfos, postSerial>>
      /\ posts' = Insert(posts, v, NewPost(call[t])) /\ Leave(t, Done)
  BY DEF InsertPost, At, Inside, BoardMethods
<1>2. Only(t) /\ pc'[t] = "unlock" /\ NoThrow'
  BY <1>1, LeaveOnly, NotThrown, AnswersOf DEF Agree, Inv
<1>3. \A u \in Threads \ {t} : pc[u] \notin Between /\ pc'[u] \notin Between
  BY <1>1, <1>2, OnlyWriter
<1>4. Found(b) /\ Listed(Entry(b), v) /\ boardInfos[Entry(b)].name = b
  BY <1>1, KnownFound DEF Agree, ListsInv, KnowsLists, Found
<1>5. /\ DOMAIN posts' = DOMAIN posts \cup {v}
      /\ posts'[v].board = b
      /\ \A s \in DOMAIN posts \ {v} : posts'[s] = posts[s]
  BY <1>1 DEF Insert, NewPost
<1>6. \A s : Inserting(s) => s = v
  BY <1>3 DEF Inserting, At, Between
<1>7. \A s : ~Dropping(s)
  BY <1>1, <1>3 DEF Dropping, At, Between
<1>8. \A i \in DOMAIN boardInfos : Listed(i, v) => i = Entry(b)
  BY <1>4 DEF Agree, ListsInv, ListsApart, Listed, Found
<1>9. IndexMatchesEntries'
  <2>1. \A c : ~ \E u \in Threads : At(u, "createBoard", "append") /\ call[u].board = c
    BY <1>1, <1>3 DEF At, Between
  <2> QED BY <1>1, <2>1 DEF Agree, ListsInv, IndexMatchesEntries, Found, Known, Entry
<1> HIDE DEF v, b
<1>10. ListsMatchPosts'
  <2>1. ASSUME NEW i \in DOMAIN boardInfos, NEW s \in ToSet(boardInfos[i].serials)
        PROVE  s \in DOMAIN posts' /\ posts'[s].board = boardInfos[i].name
    <3>1. CASE s = v
      BY <1>4, <1>5, <1>8, <2>1, <3>1 DEF Listed
    <3>2. CASE s # v
      BY <1>5, <1>6, <2>1, <3>2 DEF Agree, ListsInv, ListsMatchPosts
    <3> QED BY <3>1, <3>2
  <2>2. ASSUME NEW s \in DOMAIN posts'
        PROVE  \E i \in DOMAIN boardInfos : Listed(i, s)
    <3>1. CASE s = v
      BY <1>4, <3>1 DEF Found
    <3>2. CASE s # v
      BY <1>5, <1>7, <2>2, <3>2 DEF Agree, ListsInv, ListsMatchPosts
    <3> QED BY <3>1, <3>2
  <2> QED BY <1>1, <2>1, <2>2 DEF ListsMatchPosts, Listed
<1>11. ListsApart'
  BY <1>1 DEF Agree, ListsInv, ListsApart, Distinct, Listed
<1>12. \A u \in Threads : KnowsLists(u)'
  BY <1>2, <1>3 DEF KnowsLists, Between
<1> QED BY <1>2, <1>9, <1>10, <1>11, <1>12 DEF ListsInv

\* deletePost takes the serial off the list of its post's board.
LEMMA UnlistKeepsLists ==
  ASSUME Agree, NEW t \in Threads, UnlistSerial(t)
  PROVE  ListsInv'
<1>0. PICK v, b : v = call[t].serial /\ b = posts[v].board
  OBVIOUS
<1>1. /\ pc[t] = "unlist" /\ pc[t] \in Inside /\ call[t].op = "deletePost"
      /\ call[t].op \in BoardMethods
      /\ UNCHANGED <<boards, postSerial, posts>>
  BY DEF UnlistSerial, At, Inside, BoardMethods
<1>2. v \in Nat /\ v \in DOMAIN posts
  <2>1. MayEdit(call[t])
    BY <1>1 DEF Agree, Inv, PostsInv, Knows, Editing
  <2> QED BY <1>0, <2>1 DEF MayEdit, Agree, Inv, TypeOK, TablesOK
<1>3. PICK k \in DOMAIN boardInfos : Listed(k, v)
  <2>1. ~Dropping(v)
    BY <1>1, AloneOnBoards DEF Agree, Dropping, At, Between
  <2> QED BY <1>2, <2>1 DEF Agree, ListsInv, ListsMatchPosts
<1>4. boardInfos[k].name = b /\ Found(b) /\ Entry(b) = k
  <2>1. boardInfos[k].name = b
    BY <1>0, <1>2, <1>3 DEF Agree, ListsInv, ListsMatchPosts, Listed
  <2> QED BY <2>1 DEF Agree, ListsInv, IndexMatchesEntries, Found
<1> DEFINE list == EraseFirst(boardInfos[k].serials, v)
<1>5. boardInfos' = [boardInfos EXCEPT ![k].serials = list] /\ Step(t, "drop")
  BY <1>0, <1>4 DEF UnlistSerial
<1>6. Only(t) /\ pc'[t] = "drop" /\ UNCHANGED <<call, serial, answer>>
  BY <1>5, StepOnly DEF Agree, Inv, Step
<1>7. \A u \in Threads \ {t} : pc[u] \notin Between /\ pc'[u] \notin Between
  BY <1>1, <1>6, OnlyWriter
<1>8. boardInfos[k].serials \in Seq(Nat) /\ Distinct(boardInfos[k].serials)
  BY EntryType DEF Agree, Inv, TypeOK, TablesOK, ListsInv, ListsApart
<1>9. /\ list \in Seq(Nat) /\ Distinct(list)
      /\ ToSet(list) = ToSet(boardInfos[k].serials) \ {v}
  BY <1>2, <1>8, ErasedList
<1> HIDE DEF list
<1>10. /\ IndexMatchesEntries'
       /\ DOMAIN boardInfos' = DOMAIN boardInfos
       /\ \A i \in DOMAIN boardInfos :
            /\ boardInfos'[i].name = boardInfos[i].name
            /\ boardInfos'[i].serials = IF i = k THEN list ELSE boardInfos[i].serials
  BY <1>1, <1>5, <1>9, OneListChanged
<1>11. \A i \in DOMAIN boardInfos : \A s : Listed(i, s)' <=> Listed(i, s) /\ s # v
  <2>1. \A i \in DOMAIN boardInfos \ {k} : ~Listed(i, v)
    BY <1>3 DEF Agree, ListsInv, ListsApart, Listed
  <2>2. \A s : Listed(k, s)' <=> Listed(k, s) /\ s # v
    BY <1>9, <1>10 DEF Listed
  <2>3. \A i \in DOMAIN boardInfos \ {k} : \A s : Listed(i, s)' <=> Listed(i, s)
    BY <1>10 DEF Listed
  <2> QED BY <2>1, <2>2, <2>3
<1>12. Dropping(v)'
  BY <1>0, <1>1, <1>6 DEF Dropping, At
<1>13. ListsMatchPosts'
  <2>1. \A s : ~Inserting(s) /\ ~Dropping(s)
    BY <1>1, <1>7 DEF Inserting, Dropping, At, Between
  <2>2. ASSUME NEW i \in DOMAIN boardInfos', NEW s \in ToSet(boardInfos'[i].serials)
        PROVE  s \in DOMAIN posts' /\ posts'[s].board = boardInfos'[i].name
    <3>1. Listed(i, s)
      BY <1>10, <1>11, <2>2 DEF Listed
    <3> QED BY <1>1, <1>10, <2>1, <2>2, <3>1 DEF Agree, ListsInv, ListsMatchPosts, Listed
  <2>3. ASSUME NEW s \in DOMAIN posts', s # v
        PROVE  \E i \in DOMAIN boardInfos' : Listed(i, s)'
    BY <1>1, <1>10, <1>11, <2>1, <2>3 DEF Agree, ListsInv, ListsMatchPosts
  <2> QED BY <1>12, <2>2, <2>3 DEF ListsMatchPosts
<1>14. ListsApart'
  <2>1. \A i \in DOMAIN boardInfos' : Distinct(boardInfos'[i].serials)
    BY <1>9, <1>10 DEF Agree, ListsInv, ListsApart
  <2>2. \A i, j \in DOMAIN boardInfos' : \A s : Listed(i, s)' /\ Listed(j, s)' => i = j
    BY <1>10, <1>11 DEF Agree, ListsInv, ListsApart, Listed
  <2>3. \A i \in DOMAIN boardInfos' : \A s : Listed(i, s)' => s < postSerial'
    BY <1>1, <1>10, <1>11 DEF Agree, ListsInv, ListsApart, Listed
  <2> QED BY <2>1, <2>2, <2>3 DEF ListsApart, Listed
<1>15. \A u \in Threads : KnowsLists(u)'
  <2>1. \A i \in DOMAIN boardInfos' : ~Listed(i, v)'
    BY <1>10, <1>11
  <2>2. KnowsLists(t)'
    BY <1>0, <1>6, <2>1 DEF KnowsLists, Listed
  <2> QED BY <1>7, <2>2 DEF KnowsLists, Between
<1>16. NoThrow'
  BY <1>6, NoAnswerYet
<1> QED BY <1>10, <1>13, <1>14, <1>15, <1>16 DEF ListsInv

\* deletePost erases the post no list has any more.
LEMMA DropKeepsLists ==
  ASSUME Agree, NEW t \in Threads, DropPost(t)
  PROVE  ListsInv'
<1>0. PICK v : v = call[t].serial
  OBVIOUS
<1>1. /\ pc[t] = "drop" /\ pc[t] \in Inside /\ call[t].op = "deletePost"
      /\ call[t].op \in BoardMethods
      /\ UNCHANGED <<boards, boardInfos, postSerial>>
      /\ posts' = Erase(posts, v) /\ Leave(t, Done)
  BY <1>0 DEF DropPost, At, Inside, BoardMethods
<1>2. Only(t) /\ pc'[t] = "unlock" /\ NoThrow'
  BY <1>1, LeaveOnly, NotThrown, AnswersOf DEF Agree, Inv
<1>3. \A u \in Threads \ {t} : pc[u] \notin Between /\ pc'[u] \notin Between
  BY <1>1, <1>2, OnlyWriter
<1>4. \A i \in DOMAIN boardInfos : ~Listed(i, v)
  BY <1>0, <1>1 DEF Agree, ListsInv, KnowsLists
<1>5. /\ DOMAIN posts' = DOMAIN posts \ {v}
      /\ \A s \in DOMAIN posts' : posts'[s] = posts[s]
  BY <1>1 DEF Erase
<1>6. \A s : ~Inserting(s) /\ (Dropping(s) => s = v)
  BY <1>0, <1>1, <1>3 DEF Inserting, Dropping, At, Between
<1>7. IndexMatchesEntries'
  <2>1. \A c : ~ \E u \in Threads : At(u, "createBoard", "append") /\ call[u].board = c
    BY <1>1, <1>3 DEF At, Between
  <2> QED BY <1>1, <2>1 DEF Agree, ListsInv, IndexMatchesEntries, Found, Known, Entry
<1>8. ListsMatchPosts'
  <2>1. ASSUME NEW i \in DOMAIN boardInfos, NEW s \in ToSet(boardInfos[i].serials)
        PROVE  s \in DOMAIN posts' /\ posts'[s].board = boardInfos[i].name
    <3>1. s # v
      BY <1>4, <2>1 DEF Listed
    <3>2. s \in DOMAIN posts /\ posts[s].board = boardInfos[i].name
      BY <1>6, <2>1 DEF Agree, ListsInv, ListsMatchPosts
    <3> QED BY <1>5, <3>1, <3>2
  <2>2. ASSUME NEW s \in DOMAIN posts'
        PROVE  \E i \in DOMAIN boardInfos : Listed(i, s)
    BY <1>5, <1>6, <2>2 DEF Agree, ListsInv, ListsMatchPosts
  <2> QED BY <1>1, <2>1, <2>2 DEF ListsMatchPosts, Listed
<1>9. ListsApart'
  BY <1>1 DEF Agree, ListsInv, ListsApart, Distinct, Listed
<1>10. \A u \in Threads : KnowsLists(u)'
  BY <1>2, <1>3 DEF KnowsLists, Between
<1> QED BY <1>2, <1>7, <1>8, <1>9, <1>10 DEF ListsInv

-----------------------------------------------------------------------------

\* Every step keeps the lists' part of the invariant.
LEMMA ListsStep ==
  ASSUME Agree, [Next]_vars
  PROVE  ListsInv'
<1>1. ASSUME NEW t \in Threads, Method(t)
      PROVE  ListsInv'
  <2>1. CASE ListBoards(t)
    BY <2>1, NotThrown, LeaveKeepsLists DEF ListBoards, At, tables
  <2>2. CASE ReadPost(t)
    BY <2>2, NotThrown, LeaveKeepsLists DEF ReadPost, At, tables
  <2>3. CASE CreateBoard(t) \/ AppendBoard(t)
    BY <2>3, CreateBoardKeepsLists, AppendBoardKeepsLists
  <2>4. CASE CreatePost(t) \/ ListSerial(t) \/ InsertPost(t)
    BY <2>4, CreatePostKeepsLists, ListSerialKeepsLists, InsertPostKeepsLists
  <2>5. CASE ListPosts(t) \/ CheckPost(t)
    BY <2>5, ListPostsKeepsLists, CheckKeepsLists
  <2>6. CASE UnlistSerial(t) \/ DropPost(t)
    BY <2>6, UnlistKeepsLists, DropKeepsLists
  <2>7. CASE UpdatePost(t) \/ Comment(t)
    BY <2>7, EditKeepsLists
  <2> QED BY <1>1, <2>1, <2>2, <2>3, <2>4, <2>5, <2>6, <2>7 DEF Method
<1>2. CASE UNCHANGED vars
  BY <1>2 DEF vars, tables, thread, Agree, ListsInv, IndexMatchesEntries, ListsMatchPosts,
     ListsApart, NoThrow, KnowsLists, Found, Known, Entry, Listed, Inserting, Dropping, At,
     Distinct
<1> QED BY <1>1, <1>2, OutsideKeepsLists DEF Next

\* Index, entries, lists and posts of the Database agree in every reachable state,
\* up to the two writes of the one method that has boardmux.
THEOREM ListsInvariant == Spec => []Agree
<1>1. Init => ListsInv
  <2> SUFFICES ASSUME Init PROVE ListsInv
    OBVIOUS
  <2>1. DOMAIN boards = {} /\ DOMAIN boardInfos = {} /\ DOMAIN posts = {}
    BY DEF Init, Empty
  <2>2. NoThrow
    BY NotThrown DEF Init, NoThrow
  <2>3. \A t \in Threads : KnowsLists(t)
    BY DEF Init, KnowsLists
  <2> QED BY <2>1, <2>2, <2>3 DEF ListsInv, IndexMatchesEntries, ListsMatchPosts, ListsApart
<1>2. Agree /\ [Next]_vars => ListsInv'
  BY ListsStep
<1> QED BY <1>1, <1>2, PostsInvariant, PTL DEF Spec, Agree

\* No .at() of createPost, listPosts and deletePost throws.
THEOREM NoThrowTheorem == Spec => []NoThrow
<1>1. Agree => NoThrow
  BY DEF Agree, ListsInv
<1> QED BY <1>1, ListsInvariant, PTL

\* The index of createBoard always points to the entry of its name, except between
\* its two writes, and no two entries share a name.
THEOREM IndexMatchesEntriesTheorem == Spec => []IndexMatchesEntries
<1>1. Agree => IndexMatchesEntries
  BY DEF Agree, ListsInv
<1> QED BY <1>1, ListsInvariant, PTL

\* createPost and deletePost keep the lists and the posts in step, except between
\* their two writes.
THEOREM ListsMatchPostsTheorem == Spec => []ListsMatchPosts
<1>1. Agree => ListsMatchPosts
  BY DEF Agree, ListsInv
<1> QED BY <1>1, ListsInvariant, PTL

\* No serial of createPost is listed twice: the first occurrence that deletePost
\* takes off is the only one.
THEOREM SerialsUniqueTheorem == Spec => []SerialsUnique
<1>1. Agree => SerialsUnique
  <2> SUFFICES ASSUME Agree PROVE SerialsUnique
    OBVIOUS
  <2>1. ASSUME NEW i \in DOMAIN boardInfos, NEW j \in DOMAIN boardInfos,
               NEW x \in DOMAIN boardInfos[i].serials,
               NEW y \in DOMAIN boardInfos[j].serials,
               boardInfos[i].serials[x] = boardInfos[j].serials[y]
        PROVE  i = j /\ x = y
    <3>1. /\ boardInfos[i].serials[x] \in ToSet(boardInfos[i].serials)
          /\ boardInfos[i].serials[x] \in ToSet(boardInfos[j].serials)
      BY <2>1 DEF ToSet
    <3>2. i = j
      BY <3>1 DEF Agree, ListsInv, ListsApart, Listed
    <3> QED BY <2>1, <3>2 DEF Agree, ListsInv, ListsApart, Distinct
  <2> QED BY <2>1 DEF SerialsUnique, Agree, Inv, PostsInv, ListsInv, ListsApart
<1> QED BY <1>1, ListsInvariant, PTL
=============================================================================
