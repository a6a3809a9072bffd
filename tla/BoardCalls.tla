----------------------------- MODULE BoardCalls -----------------------------
(***************************************************************************)
(* The interface of the bulletin board: the calls the connection threads   *)
(* of server.cpp make on the Database object, the answers they get back,   *)
(* and the data the two structures behind it hold.  Strings are abstract:  *)
(* a board, a user or a text is an element of a constant set, and an       *)
(* answer is the code of the message the method returns, with what a       *)
(* listing shows.                                                          *)
(***************************************************************************)
EXTENDS Integers, Sequences, SequencesExt

CONSTANTS
  Threads,      \* the connection threads (handleTCP) that call the database
  Boards,       \* board names
  Users,        \* user names, as read from a session before the call
  Texts,        \* titles, contents and comments
  Asked,        \* the post serials clients type
  MaxSerial,    \* bound: no createPost is issued once postSerial exceeds it
  MaxComments   \* bound: no comment is issued for a post that has as many

ASSUME CallsAssumption ==
  /\ Asked \subseteq Nat
  /\ MaxSerial \in Nat
  /\ MaxComments \in Nat

Calls ==
  [op : {"createBoard"}, board : Boards, user : Users]
  \cup [op : {"createPost"}, board : Boards, title : Texts, content : Texts,
        user : Users]
  \cup [op : {"listBoards"}]
  \cup [op : {"listPosts"}, board : Boards]
  \cup [op : {"readPost"}, serial : Asked]
  \cup [op : {"deletePost"}, serial : Asked, user : Users]
  \cup [op : {"updatePost"}, serial : Asked, user : Users,
        field : {"title", "content"}, text : Texts]
  \cup [op : {"comment"}, serial : Asked, user : Users, text : Texts]

NoCall == [op |-> "none"]

\* What a method returns: the message, or the listing it builds.
NoAnswer == [code |-> "none"]
Done     == [code |-> "ok"]
Refused(why) == [code |-> "refused", why |-> why]
Thrown   == [code |-> "out_of_range"]   \* a failed .at() leaves the method

Post == [board : Boards, author : Users, title : Texts, content : Texts,
         comments : Seq(Users \X Texts)]

NewPost(c) ==
  [board |-> c.board, author |-> c.user, title |-> c.title,
   content |-> c.content, comments |-> << >>]

BoardInfo == [name : Boards, moderator : Users, serials : Seq(Nat)]

\* listBoards: the index of a line is its position.
BoardLines(infos) ==
  [code |-> "boards",
   boards |-> [i \in DOMAIN infos |-> <<infos[i].name, infos[i].moderator>>]]

\* listPosts: one line for each serial of the board, in the order of the list.
PostLines(serials, posts) ==
  [code |-> "posts",
   posts |-> [i \in DOMAIN serials |->
                <<serials[i], posts[serials[i]].title, posts[serials[i]].author>>]]

PostText(post) == [code |-> "post", post |-> post]

\* updatePost replaces one of the two texts.
Replace(post, c) ==
  IF c.field = "title" THEN [post EXCEPT !.title = c.text]
                       ELSE [post EXCEPT !.content = c.text]

AddComment(post, c) ==
  [post EXCEPT !.comments = Append(@, <<c.user, c.text>>)]

\* posts[serial] = p and posts.erase(serial) on a std::map.
Insert(map, key, value) ==
  [k \in DOMAIN map \cup {key} |-> IF k = key THEN value ELSE map[k]]
Erase(map, key) == [k \in DOMAIN map \ {key} |-> map[k]]

\* A deletePost that leaves the serial on the list.
EraseNothing(list, serial) == list

\* The loop of deletePost erases the first entry equal to the serial, if any.
EraseFirst(list, serial) ==
  IF \E i \in DOMAIN list : list[i] = serial
  THEN RemoveAt(list, CHOOSE i \in DOMAIN list :
                        /\ list[i] = serial
                        /\ \A j \in 1 .. i - 1 : list[j] # serial)
  ELSE list

Empty == [k \in {} |-> k]

\* The bounds on what a run issues; neither is a limit of the program.
WithinBounds(c, serial, posts) ==
  /\ c.op = "createPost" => serial <= MaxSerial
  /\ c.op = "comment" /\ c.serial \in DOMAIN posts =>
       Len(posts[c.serial].comments) < MaxComments
=============================================================================
