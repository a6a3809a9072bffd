--------------------------- MODULE BulletinBoard ----------------------------
(***************************************************************************)
(* What the boards and posts of the Database class promise their callers:  *)
(* every call takes effect at one instant between its invocation and its   *)
(* return.  The boards are one list; the index map of database.h is an     *)
(* implementation detail that appears in BoardStore only.                  *)
(***************************************************************************)
EXTENDS BoardCalls

VARIABLES
  infos,    \* boardInfos: name, moderator and post serials of every board
  posts,    \* posts: serial -> post
  next,     \* postSerial
  call,     \* the call each thread has under way
  answer    \* what it will return

data == <<infos, posts, next>>
vars == <<infos, posts, next, call, answer>>

Init ==
  /\ infos = << >>
  /\ posts = Empty
  /\ next = 1
  /\ call = [t \in Threads |-> NoCall]
  /\ answer = [t \in Threads |-> NoAnswer]

Invoke(t, c) ==
  /\ call[t] = NoCall
  /\ WithinBounds(c, next, posts)
  /\ call' = [call EXCEPT ![t] = c]
  /\ UNCHANGED <<data, answer>>

Pending(t, op) == call[t].op = op /\ answer[t] = NoAnswer
Answer(t, a) == answer' = [answer EXCEPT ![t] = a] /\ UNCHANGED call

\* The position of a board's entry, and the entries that carry a name.
Entries(b) == {i \in DOMAIN infos : infos[i].name = b}

CreateBoard(t) ==
  /\ Pending(t, "createBoard")
  /\ \/ /\ Entries(call[t].board) # {}
        /\ Answer(t, Refused("BoardExists"))
        /\ UNCHANGED infos
     \/ /\ Entries(call[t].board) = {}
        /\ infos' = Append(infos, [name |-> call[t].board,
                                   moderator |-> call[t].user,
                                   serials |-> << >>])
        /\ Answer(t, Done)
  /\ UNCHANGED <<posts, next>>

CreatePost(t) ==
  /\ Pending(t, "createPost")
  /\ \/ /\ Entries(call[t].board) = {}
        /\ Answer(t, Refused("NoBoard"))
        /\ UNCHANGED data
     \/ \E i \in Entries(call[t].board) :
          /\ infos' = [infos EXCEPT ![i].serials = Append(@, next)]
          /\ posts' = Insert(posts, next, NewPost(call[t]))
          /\ next' = next + 1
          /\ Answer(t, Done)

ListBoards(t) ==
  /\ Pending(t, "listBoards")
  /\ Answer(t, BoardLines(infos))
  /\ UNCHANGED data

ListPosts(t) ==
  /\ Pending(t, "listPosts")
  /\ \/ /\ Entries(call[t].board) = {}
        /\ Answer(t, Refused("NoBoard"))
     \/ \E i \in Entries(call[t].board) :
          Answer(t, PostLines(infos[i].serials, posts))
  /\ UNCHANGED data

ReadPost(t) ==
  /\ Pending(t, "readPost")
  /\ \/ /\ call[t].serial \notin DOMAIN posts
        /\ Answer(t, Refused("NoPost"))
     \/ /\ call[t].serial \in DOMAIN posts
        /\ Answer(t, PostText(posts[call[t].serial]))
  /\ UNCHANGED data

\* deletePost and updatePost refuse a missing post, then a stranger's post.
RefuseEdit(t) ==
  /\ \/ Pending(t, "deletePost")
     \/ Pending(t, "updatePost")
  /\ \/ /\ call[t].serial \notin DOMAIN posts
        /\ Answer(t, Refused("NoPost"))
     \/ /\ call[t].serial \in DOMAIN posts
        /\ posts[call[t].serial].author # call[t].user
        /\ Answer(t, Refused("NotOwner"))
  /\ UNCHANGED data

DeletePost(t) ==
  /\ Pending(t, "deletePost")
  /\ call[t].serial \in DOMAIN posts
  /\ posts[call[t].serial].author = call[t].user
  /\ infos' = [i \in DOMAIN infos |->
                 [infos[i] EXCEPT !.serials = EraseFirst(@, call[t].serial)]]
  /\ posts' = Erase(posts, call[t].serial)
  /\ Answer(t, Done)
  /\ UNCHANGED next

UpdatePost(t) ==
  /\ Pending(t, "updatePost")
  /\ call[t].serial \in DOMAIN posts
  /\ posts[call[t].serial].author = call[t].user
  /\ posts' = [posts EXCEPT ![call[t].serial] = Replace(@, call[t])]
  /\ Answer(t, Done)
  /\ UNCHANGED <<infos, next>>

Comment(t) ==
  /\ Pending(t, "comment")
  /\ \/ /\ call[t].serial \notin DOMAIN posts
        /\ Answer(t, Refused("NoPost"))
        /\ UNCHANGED posts
     \/ /\ call[t].serial \in DOMAIN posts
        /\ posts' = [posts EXCEPT ![call[t].serial] = AddComment(@, call[t])]
        /\ Answer(t, Done)
  /\ UNCHANGED <<infos, next>>

Return(t) ==
  /\ answer[t] # NoAnswer
  /\ call' = [call EXCEPT ![t] = NoCall]
  /\ answer' = [answer EXCEPT ![t] = NoAnswer]
  /\ UNCHANGED data

Next ==
  \E t \in Threads :
    \/ \E c \in Calls : Invoke(t, c)
    \/ CreateBoard(t) \/ CreatePost(t) \/ ListBoards(t) \/ ListPosts(t)
    \/ ReadPost(t) \/ RefuseEdit(t) \/ DeletePost(t) \/ UpdatePost(t)
    \/ Comment(t)
    \/ Return(t)

Spec == Init /\ [][Next]_vars
=============================================================================
