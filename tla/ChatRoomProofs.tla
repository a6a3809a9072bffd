--------------------------- MODULE ChatRoomProofs ---------------------------
(***************************************************************************)
(* Proofs about ChatRoom, for any guests, visits and lines, and any number *)
(* of records that a newcomer is shown.                                    *)
(***************************************************************************)
EXTENDS ChatRoom, ListLemmas

\* A connection that is not yet admitted.
Waits(c) == c \in ToSet(backlog) \/ c = listener.conn

\* A connection is accepted once, and has its thread and its place on the list
\* of receivers once.
Admission ==
  /\ IsInjective(connected)
  /\ \A c \in ToSet(connected) : thread[c].at \notin {"off", "bye", "end"}
  /\ \A c \in Conns : Waits(c) => thread[c].at = "off"
  /\ \A c \in Conns : Waits(c) \/ thread[c].at # "off" => c[2] <= visits[Name(c)]
  /\ \A i, j \in 1 .. Len(backlog) :
       backlog[i] = backlog[j] /\ backlog[i] # Listener => i = j
  /\ listener.conn \notin ToSet(backlog)
  /\ listener.at \in {"admit", "send"} <=> listener.conn # None

\* Who broadcasts has conn_mux.
Casting ==
  /\ \A t \in Threads : cast[t].frame # None => connMux = t
  /\ \A c \in Conns : thread[c].at \in {"send", "bye"} => connMux = c
  /\ listener.at = "send" => connMux = Listener

\* Who was told to leave is off the list of receivers.
Exits ==
  /\ NoLineAfterExit
  /\ \A c \in Conns :
       c \in ToSet(connected) \/ thread[c].at = "off" =>
         \A i \in 1 .. Len(toClient[c]) : toClient[c][i].type # "exit"

\* The owner stops the listener of a room that is closed, and opens it again when
\* no listener is left.
OwnerRoom ==
  process = "up" =>
    /\ ~open => mode[Owner] \in {"closing", "bbs"}
    /\ mode[Owner] = "closing" => ~open
    /\ listener.at = "off" \/ Listener \in ToSet(backlog) => ~open /\ mode[Owner] = "bbs"
    /\ listener.at = "off" => Listener \notin ToSet(backlog)

-----------------------------------------------------------------------------
\* What is typed has a number of its own, and is recorded once.
Numbers ==
  /\ \A n \in 1 .. Len(said) :
       said[n].number <= typed /\ \A k \in 1 .. Len(said) : said[n].number = said[k].number => n = k
  /\ \A c \in Conns : \A i \in 1 .. Len(toServer[c]) : toServer[c][i].type = "line" =>
       /\ toServer[c][i].number <= typed
       /\ \A n \in 1 .. Len(said) : said[n].number # toServer[c][i].number
       /\ \A d \in Conns : \A j \in 1 .. Len(toServer[d]) :
            toServer[d][j].type = "line" /\ toServer[d][j].number = toServer[c][i].number =>
              d = c /\ j = i

\* What was said is sent only after it was recorded.
Recorded ==
  /\ \A c \in Conns : ToSet(toClient[c]) \cap Records \subseteq ToSet(said)
  /\ \A t \in Threads : cast[t].frame \in Records => cast[t].frame \in ToSet(said)

\* A line that waits for conn_mux was not sent to anybody.
Posting ==
  \A c \in Conns : thread[c].at = "post" =>
    /\ Len(thread[c].text) = 1
    /\ thread[c].text[1] \in ToSet(said)
    /\ \A d \in Conns : thread[c].text[1] \notin ToSet(toClient[d])
    /\ \A t \in Threads : cast[t].frame # thread[c].text[1]
    /\ \A d \in Conns :
         thread[d].at = "post" /\ thread[d].text[1] = thread[c].text[1] => c = d

\* A line that is being broadcast was sent to those before the next receiver, and
\* to no other of the list, and is the last line that anybody was sent.
Sending ==
  \A t \in Threads : cast[t].frame \in Records =>
    /\ connMux = t /\ t # Listener /\ thread[t].at = "send"
    /\ \A i \in 1 .. Len(connected) :
         i < cast[t].next <=> cast[t].frame \in ToSet(toClient[connected[i]])
    /\ \A d \in Conns : \A l \in ToSet(said) : ~Before(d, cast[t].frame, l)

\* The records of a moment, when n had been said.
Oldest(n) == IF n > Recent THEN n - Recent + 1 ELSE 1
RecentOf(n) == SubSeq(said, Oldest(n), n)

\* A connection is greeted once.
Early(c) == thread[c].at \in {"off", "greet", "half", "body"}
Copied(c) == thread[c].at \in {"half", "body"}
GreetsOnce(c) ==
  /\ Early(c) => \A i \in 1 .. Len(toClient[c]) : toClient[c][i].type # "greeting"
  /\ Greeted(c) =>
       \E i \in 1 .. Len(toClient[c]) : \A j \in 1 .. Len(toClient[c]) :
         toClient[c][j].type = "greeting" <=> i = j

\* It is greeted with the records of a moment, and was or is about to be sent
\* what was said after that.
Delivered(c, n) == said[n] \in ToSet(toClient[c]) \/ InProgress(said[n])
Moment(c, n) ==
  /\ Copied(c) => thread[c].text = RecentOf(n)
  /\ Greeted(c) => GreetingOf(c) = RecentOf(n)
  /\ c \in ToSet(connected) => \A k \in n + 1 .. Len(said) : Delivered(c, k)
Greetings ==
  /\ \A c \in Conns : GreetsOnce(c)
  /\ lastThree = RecentOf(Len(said))
  /\ \A c \in Conns : Copied(c) \/ Greeted(c) => \E n \in 0 .. Len(said) : Moment(c, n)
-----------------------------------------------------------------------------
(* The types.                                                              *)

LEMMA ConnFacts ==
  /\ \A c \in Conns :
       /\ Name(c) \in Members /\ c[2] \in 1 .. MaxVisits /\ c \in Threads
       /\ c # Listener /\ c # None /\ c = <<Name(c), c[2]>>
  /\ Listener \in Threads /\ Listener # None /\ Owner \in Members
  /\ \A t \in Threads : t # Listener => t \in Conns
BY ChatRoomAssumption, NoneAssumption DEF Conns, Threads, Listener, Name, Members

LEMMA FrameFacts ==
  /\ Half \in Frames /\ Reset \in Frames
  /\ \A a \in {"leave", "close"} : ExitRoom(a) \in Frames
  /\ \A r \in Seq(Records) : Greeting(r) \in Frames
  /\ Records \subseteq Lines /\ Lines \subseteq Frames
BY DEF Half, Reset, ExitRoom, Greeting, Frames, Records

LEMMA LineFacts ==
  /\ \A l \in Lines : l.type = "line"
  /\ \A l \in Records : l.text = "said" /\ l.number \in Nat
  /\ \A m \in Members, n \in Nat :
       Line(m, "said", n) \in Records /\ Line(m, "said", n).number = n
  /\ \A c \in Conns : \A text \in {"detach", "join", "leave", "close"} :
       News(text, c) \in Lines \ Records
<1>1. \A m \in Members, n \in Nat :
        Line(m, "said", n) \in Records /\ Line(m, "said", n).number = n
  BY DEF Lines, Line, Records
<1>2. \A c \in Conns : \A text \in {"detach", "join", "leave", "close"} :
        News(text, c) \in Lines \ Records
  BY ConnFacts, ChatRoomAssumption DEF News, Lines, Line, Records
<1> QED
  BY <1>1, <1>2 DEF Lines, Records

\* A send.
LEMMA SendFacts ==
  ASSUME TypeOK, NEW c \in Conns, NEW f \in Frames, Send(c, f)
  PROVE  /\ toClient' \in [Conns -> Seq(Frames)]
         /\ toClient'[c] = Append(toClient[c], f)
         /\ \A d \in Conns : d # c => toClient'[d] = toClient[d]
BY AppendProperties DEF TypeOK, Send

\* What a client writes; and what the server takes off a connection.
LEMMA WriteFacts ==
  ASSUME TypeOK, NEW c, NEW w \in ToBeRead, Write(c, w)
  PROVE  /\ toServer' \in [Conns -> Seq(ToBeRead)]
         /\ \A d \in Conns :
              toServer'[d] = IF d = c THEN Append(toServer[d], w) ELSE toServer[d]
BY AppendProperties DEF TypeOK, Write

LEMMA ReadFacts ==
  ASSUME TypeOK, NEW c \in Conns, toServer[c] # <<>>, Read(c)
  PROVE  /\ toServer' \in [Conns -> Seq(ToBeRead)]
         /\ \A d \in Conns : toServer'[d] = IF d = c THEN Tail(toServer[d]) ELSE toServer[d]
         /\ NextCommand(c) = toServer[c][1]
         /\ 1 \in 1 .. Len(toServer[c])
         /\ NextCommand(c) \in ToBeRead
<1>1. toServer[c] \in Seq(ToBeRead) /\ toServer \in [Conns -> Seq(ToBeRead)]
  BY DEF TypeOK
<1>2. Tail(toServer[c]) \in Seq(ToBeRead) /\ Head(toServer[c]) = toServer[c][1]
      /\ Len(toServer[c]) \in Nat \ {0}
  BY <1>1, TailIndex
<1>3. NextCommand(c) \in ToBeRead
  BY <1>1, HeadTailProperties DEF NextCommand
<1> QED
  BY <1>1, <1>2, <1>3 DEF Read, NextCommand

\* A line that was typed has a number.
LEMMA TypedFacts ==
  ASSUME NEW w \in ToBeRead, w.type = "line"
  PROVE  w.number \in Nat
BY ChatRoomAssumption DEF ToBeRead

LEMMA WritableFacts ==
  /\ \A a \in {"join", "leave", "detach", "end", "reset"} : [type |-> a] \in ToBeRead
  /\ \A n \in 1 .. MaxSaid : [type |-> "line", number |-> n] \in ToBeRead
BY DEF ToBeRead

Places == {"off", "greet", "half", "body", "loop", "post", "send", "bye", "end"}
Modes == {"bbs", "joining", "chat", "leaving", "closing", "stuck", "dead"}

\* The steps that a thread takes.
LEMMA GotoFacts ==
  ASSUME TypeOK, NEW c \in Conns, NEW p \in Places, Goto(c, p)
  PROVE  /\ thread' \in [Conns -> [at : Places, text : Seq(Records)]]
         /\ thread'[c].at = p /\ thread'[c].text = thread[c].text
         /\ \A d \in Conns : d # c => thread'[d] = thread[d]
BY DEF TypeOK, Goto, Places

LEMMA PutFacts ==
  ASSUME TypeOK, NEW c \in Conns, NEW p \in Places, NEW text \in Seq(Records),
         thread' = [thread EXCEPT ![c] = [at |-> p, text |-> text]]
  PROVE  /\ thread' \in [Conns -> [at : Places, text : Seq(Records)]]
         /\ thread'[c].at = p /\ thread'[c].text = text
         /\ \A d \in Conns : d # c => thread'[d] = thread[d]
BY DEF TypeOK, Places

LEMMA CastFacts ==
  ASSUME TypeOK, NEW t \in Threads, NEW f \in Lines \cup {None}, NEW n \in Nat \ {0},
         cast' = [cast EXCEPT ![t] = [frame |-> f, next |-> n]]
  PROVE  /\ cast' \in [Threads -> [frame : Lines \cup {None}, next : Nat \ {0}]]
         /\ cast'[t].frame = f /\ cast'[t].next = n
         /\ \A u \in Threads : u # t => cast'[u] = cast[u]
BY DEF TypeOK

LEMMA StartFacts ==
  ASSUME TypeOK, NEW t \in Threads, NEW f \in Lines, Start(t, f)
  PROVE  /\ cast' \in [Threads -> [frame : Lines \cup {None}, next : Nat \ {0}]]
         /\ cast'[t].frame = f /\ cast'[t].next = 1
         /\ \A u \in Threads : u # t => cast'[u] = cast[u]
BY DEF TypeOK, Start

LEMMA FinishFacts ==
  ASSUME TypeOK, NEW t \in Threads, Finish(t)
  PROVE  /\ cast' \in [Threads -> [frame : Lines \cup {None}, next : Nat \ {0}]]
         /\ cast'[t].frame = None /\ cast'[t].next = 1
         /\ \A u \in Threads : u # t => cast'[u] = cast[u]
BY DEF TypeOK, Finish

LEMMA LockFacts ==
  ASSUME TypeOK, NEW t \in Threads, NEW use, Lock(t, use)
  PROVE  connMux = None /\ connMux' = t /\ connMux' \in Threads \cup {None}
BY DEF Lock, Locks

LEMMA UnlockFacts ==
  ASSUME TypeOK, NEW t \in Threads, Unlock(t)
  PROVE  /\ connMux' \in Threads \cup {None}
         /\ connMux = t => connMux' = None
         /\ connMux # t => connMux' = connMux
BY DEF TypeOK, Unlock

LEMMA ListFacts ==
  ASSUME TypeOK
  PROVE  /\ connected \in Seq(Conns) /\ Len(connected) \in Nat
         /\ ToSet(connected) \subseteq Conns
         /\ backlog \in Seq(Threads) /\ Len(backlog) \in Nat
BY SetOfList, LenProperties DEF TypeOK


-----------------------------------------------------------------------------

LEMMA InitTypes == Init => TypeOK
<1> SUFFICES ASSUME Init PROVE TypeOK
  OBVIOUS
<1>1. <<Owner, 1>> \in Conns
  BY ChatRoomAssumption DEF Conns, Members
<1>2. connected \in Seq(Conns)
  BY <1>1 DEF Init
<1>3. \A S : <<>> \in Seq(S)
  BY EmptySeq
<1>4. <<Half, Greeting(<<>>)>> \in Seq(Frames)
  <2>1. Half \in Frames /\ Greeting(<<>>) \in Frames
    BY <1>3, FrameFacts
  <2> QED
    BY <2>1
<1>5. toClient \in [Conns -> Seq(Frames)]
  BY <1>3, <1>4 DEF Init
<1>6. toServer \in [Conns -> Seq(ToBeRead)]
  BY <1>3 DEF Init
<1>7. cast \in [Threads -> [frame : Lines \cup {None}, next : Nat \ {0}]]
  BY DEF Init
<1>8. thread \in [Conns -> [at : Places, text : Seq(Records)]]
  BY <1>3 DEF Init, Places
<1>9. backlog \in Seq(Threads) /\ lastThree \in Seq(Records) /\ said \in Seq(Records)
      /\ Len(lastThree) <= Recent
  BY <1>3, ChatRoomAssumption, EmptySeq DEF Init
<1>10. visits \in [Members -> 0 .. MaxVisits] /\ opened \in 1 .. MaxOpened /\ typed \in 0 .. MaxSaid
  BY ChatRoomAssumption DEF Init
<1>11. mode \in [Members -> {"bbs", "joining", "chat", "leaving", "closing", "stuck", "dead"}]
  BY DEF Init
<1>12. /\ process \in {"up", "gone"} /\ open \in BOOLEAN
       /\ listener \in [at : {"accept", "admit", "send", "failed", "off"}, conn : Conns \cup {None}]
       /\ connMux \in Threads \cup {None}
  BY DEF Init
<1> QED
  BY <1>2, <1>5, <1>6, <1>7, <1>8, <1>9, <1>10, <1>11, <1>12 DEF TypeOK, Places

LEMMA RememberFacts ==
  ASSUME TypeOK, NEW r \in Records
  PROVE  Remember(lastThree, r) \in Seq(Records) /\ Len(Remember(lastThree, r)) <= Recent
<1> DEFINE all == Append(lastThree, r)
<1>0. lastThree \in Seq(Records) /\ Len(lastThree) <= Recent
  BY DEF TypeOK
<1>1. all \in Seq(Records) /\ Len(all) = Len(lastThree) + 1 /\ Len(lastThree) \in Nat
      /\ all # <<>>
  BY <1>0, AppendProperties, LenProperties
<1> HIDE DEF all
<1>2. Tail(all) \in Seq(Records) /\ Len(Tail(all)) = Len(all) - 1
  BY <1>1, TailIndex
<1>3. Remember(lastThree, r) = IF Len(all) > Recent THEN Tail(all) ELSE all
  BY DEF Remember, all
<1> QED
  BY <1>0, <1>1, <1>2, <1>3, ChatRoomAssumption

LEMMA BroadcastFacts ==
  ASSUME TypeOK, NEW t \in Threads, Broadcast(t)
  PROVE  /\ cast[t].next \in 1 .. Len(connected)
         /\ connected[cast[t].next] \in Conns
         /\ cast[t].frame \in Lines
         /\ Send(connected[cast[t].next], cast[t].frame)
         /\ cast' \in [Threads -> [frame : Lines \cup {None}, next : Nat \ {0}]]
         /\ cast'[t].frame = cast[t].frame /\ cast'[t].next = cast[t].next + 1
         /\ \A u \in Threads : u # t => cast'[u] = cast[u]
<1>1. cast \in [Threads -> [frame : Lines \cup {None}, next : Nat \ {0}]]
      /\ cast[t].frame # None
      /\ cast' = [cast EXCEPT ![t].next = @ + 1]
  BY DEF TypeOK, Broadcast
<1>2. cast[t].next \in 1 .. Len(connected)
  BY <1>1, ListFacts DEF Broadcast, Sent
<1>3. connected[cast[t].next] \in Conns
  BY <1>2, ListFacts, ElementOfSeq
<1>4. Send(connected[cast[t].next], cast[t].frame)
  BY DEF Broadcast
<1>5. /\ cast' \in [Threads -> [frame : Lines \cup {None}, next : Nat \ {0}]]
      /\ cast'[t].frame = cast[t].frame /\ cast'[t].next = cast[t].next + 1
      /\ \A u \in Threads : u # t => cast'[u] = cast[u]
  BY <1>1
<1> QED
  BY <1>1, <1>2, <1>3, <1>4, <1>5

LEMMA BroadcastTypes ==
  ASSUME TypeOK, NEW t \in Threads, Broadcast(t)
  PROVE  TypeOK'
<1>1. cast[t].frame \in Frames
  BY BroadcastFacts, FrameFacts
<1>2. toClient' \in [Conns -> Seq(Frames)]
  BY <1>1, BroadcastFacts, SendFacts
<1>3. cast' \in [Threads -> [frame : Lines \cup {None}, next : Nat \ {0}]]
  BY BroadcastFacts
<1>4. UNCHANGED <<process, open, opened, listener, backlog, connected, connMux,
                  lastThree, said, thread, toServer, clients>>
  BY DEF Broadcast
<1> QED
  BY <1>2, <1>3, <1>4 DEF TypeOK, clients

LEMMA ListenTypes ==
  ASSUME TypeOK, Admission, Accept \/ Stop \/ Announce \/ Admit
  PROVE  TypeOK'
<1> DEFINE Places2 == [at : {"accept", "admit", "send", "failed", "off"},
                       conn : Conns \cup {None}]
<1>0. listener \in Places2 /\ backlog \in Seq(Threads)
  BY DEF TypeOK
<1>1. CASE Accept
  <2> DEFINE c == Head(backlog)
  <2>1. backlog # <<>> /\ c # Listener /\ toServer[c] # <<>> /\ Read(c)
        /\ backlog' = Tail(backlog)
    BY <1>1 DEF Accept, Read
  <2>2. c \in Conns /\ backlog' \in Seq(Threads)
    BY <1>0, <2>1, HeadTailProperties, ConnFacts
  <2>3. listener' \in Places2
    BY <1>1, <2>2 DEF Accept
  <2> HIDE DEF c
  <2>4. toServer' \in [Conns -> Seq(ToBeRead)]
    BY <2>1, <2>2, ReadFacts
  <2>5. UNCHANGED <<process, open, opened, connected, connMux, cast, lastThree, said,
                    thread, toClient, clients>>
    BY <1>1 DEF Accept
  <2> QED
    BY <2>2, <2>3, <2>4, <2>5 DEF TypeOK, clients
<1>2. CASE Stop
  <2>1. \A c \in Conns : toClient[c] \in Seq(Frames) /\ Append(toClient[c], Reset) \in Seq(Frames)
    BY FrameFacts, AppendProperties DEF TypeOK
  <2>2. toClient' \in [Conns -> Seq(Frames)]
    BY <1>2, <2>1 DEF Stop
  <2>3. listener' \in Places2 /\ backlog' \in Seq(Threads)
    BY <1>2, EmptySeq DEF Stop
  <2>4. UNCHANGED <<process, open, opened, connected, connMux, cast, lastThree, said,
                    thread, toServer, clients>>
    BY <1>2 DEF Stop
  <2> QED
    BY <2>2, <2>3, <2>4 DEF TypeOK, clients
<1>3. CASE Announce
  <2>1. listener.conn \in Conns /\ listener' \in Places2
    BY <1>0, <1>3 DEF Announce, Admission
  <2>2. Lock(Listener, "join") /\ Start(Listener, News("join", listener.conn))
        /\ UNCHANGED <<process, open, opened, backlog, connected, lastThree, said, thread,
                       streams, clients>>
    BY <1>3 DEF Announce
  <2>3. News("join", listener.conn) \in Lines
    BY <2>1, LineFacts
  <2>4. cast' \in [Threads -> [frame : Lines \cup {None}, next : Nat \ {0}]]
    BY <2>2, <2>3, ConnFacts, StartFacts
  <2>5. connMux' \in Threads \cup {None}
    BY <2>2, ConnFacts, LockFacts
  <2> QED
    BY <2>1, <2>2, <2>4, <2>5 DEF TypeOK, clients, streams
<1>4. CASE Admit
  <2> DEFINE c == listener.conn
  <2>1. c \in Conns /\ listener' \in Places2
    BY <1>0, <1>4 DEF Admit, Admission
  <2> HIDE DEF c
  <2>2. connected' = Append(connected, c) /\ Goto(c, "greet")
        /\ UNCHANGED <<process, open, opened, backlog, lastThree, said, streams, clients>>
    BY <1>4 DEF Admit, Goto, c
  <2>3. connected' \in Seq(Conns)
    BY <2>1, <2>2, ListFacts, AppendProperties
  <2>4. thread' \in [Conns -> [at : Places, text : Seq(Records)]]
    BY <2>1, <2>2, GotoFacts DEF Places
  <2>5. /\ cast' \in [Threads -> [frame : Lines \cup {None}, next : Nat \ {0}]]
        /\ connMux' \in Threads \cup {None}
    <3>1. CASE UNCHANGED <<connMux, cast>>
      BY <3>1 DEF TypeOK
    <3>2. CASE Unlock(Listener) /\ Finish(Listener)
      BY <3>2, ConnFacts, UnlockFacts, FinishFacts
    <3> QED
      BY <1>4, <3>1, <3>2 DEF Admit
  <2> QED
    BY <2>1, <2>2, <2>3, <2>4, <2>5 DEF TypeOK, clients, streams, Places
<1> QED
  BY <1>1, <1>2, <1>3, <1>4

LEMMA GreetTypes ==
  ASSUME TypeOK, NEW c \in Conns, Greet(c)
  PROVE  TypeOK'
<1>1. UNCHANGED <<process, open, opened, listener, backlog, connected, connMux, cast,
                  lastThree, said, toServer, clients>>
  BY DEF Greet
<1>2. thread' \in [Conns -> [at : Places, text : Seq(Records)]]
      /\ toClient' \in [Conns -> Seq(Frames)]
  <2>1. lastThree \in Seq(Records) /\ thread[c].text \in Seq(Records)
        /\ thread \in [Conns -> [at : Places, text : Seq(Records)]]
        /\ toClient \in [Conns -> Seq(Frames)]
    BY DEF TypeOK, Places
  <2>2. CASE thread' = [thread EXCEPT ![c] = [at |-> "half", text |-> lastThree]]
             /\ UNCHANGED toClient
    BY <2>1, <2>2, PutFacts DEF Places
  <2>3. CASE Send(c, Half) /\ Goto(c, "body")
    BY <2>3, FrameFacts, SendFacts, GotoFacts DEF Places
  <2>4. CASE Send(c, Greeting(thread[c].text)) /\ Goto(c, "loop")
    BY <2>1, <2>4, FrameFacts, SendFacts, GotoFacts DEF Places
  <2> QED
    BY <2>2, <2>3, <2>4 DEF Greet
<1> QED
  BY <1>1, <1>2 DEF TypeOK, clients, Places

LEMMA WithoutFacts ==
  ASSUME TypeOK, Admission, NEW c
  PROVE  /\ Without(c) \in Seq(Conns)
         /\ ToSet(Without(c)) = ToSet(connected) \ {c}
         /\ IsInjective(Without(c))
<1>1. connected \in Seq(Conns) /\ IsInjective(connected)
  BY DEF TypeOK, Admission
<1> QED
  BY <1>1, RemoveFirstOnce DEF Without

LEMMA ReadingFacts ==
  ASSUME TypeOK, NEW c \in Conns, NEW type, Reading(c, type), Read(c)
  PROVE  /\ toServer' \in [Conns -> Seq(ToBeRead)]
         /\ process = "up" /\ thread[c].at = "loop"
         /\ NextCommand(c) \in ToBeRead /\ NextCommand(c).type = type
BY ReadFacts DEF Reading, At

LEMMA EndOfStreamTypes ==
  ASSUME TypeOK, Admission, NEW c \in Conns, EndOfStream(c)
  PROVE  TypeOK'
<1>1. UNCHANGED <<process, open, opened, listener, backlog, connMux, cast, lastThree, said,
                  toClient, clients>>
  BY DEF EndOfStream
<1>2. connected' \in Seq(Conns)
  BY WithoutFacts DEF EndOfStream
<1>3. thread' \in [Conns -> [at : Places, text : Seq(Records)]]
  BY GotoFacts DEF EndOfStream, Places
<1>4. toServer' \in [Conns -> Seq(ToBeRead)]
  BY ReadingFacts DEF EndOfStream
<1> QED
  BY <1>1, <1>2, <1>3, <1>4 DEF TypeOK, clients, Places

LEMMA TerminateTypes ==
  ASSUME TypeOK, NEW c \in Conns, Terminate(c)
  PROVE  TypeOK'
<1>1. process' = "gone" /\ mode' = [mode EXCEPT ![Owner] = "dead"]
      /\ UNCHANGED <<open, opened, server, backlog, streams, typed, visits>>
  BY DEF Terminate
<1> QED
  BY <1>1 DEF TypeOK, server, streams

LEMMA RecordFacts ==
  ASSUME TypeOK, NEW c \in Conns, Record(c)
  PROVE  \E r \in Records :
           /\ r.number = NextCommand(c).number
           /\ lastThree' = Remember(lastThree, r) /\ said' = Append(said, r)
           /\ thread' = [thread EXCEPT ![c] = [at |-> "post", text |-> <<r>>]]
           /\ <<r>> \in Seq(Records) /\ Len(<<r>>) = 1 /\ <<r>>[1] = r
<1> DEFINE r == Line(Name(c), "said", NextCommand(c).number)
<1>1. NextCommand(c).number \in Nat
  <2>1. Reading(c, "line") /\ Read(c)
    BY DEF Record
  <2> QED
    BY <2>1, ReadingFacts, TypedFacts
<1>2. r \in Records /\ r.number = NextCommand(c).number
  BY <1>1, ConnFacts, LineFacts
<1>3. /\ lastThree' = Remember(lastThree, r) /\ said' = Append(said, r)
      /\ thread' = [thread EXCEPT ![c] = [at |-> "post", text |-> <<r>>]]
  BY DEF Record
<1> HIDE DEF r
<1>4. <<r>> \in Seq(Records) /\ Len(<<r>>) = 1 /\ <<r>>[1] = r
  BY <1>2
<1> QED
  BY <1>2, <1>3, <1>4

LEMMA RecordTypes ==
  ASSUME TypeOK, NEW c \in Conns, Record(c)
  PROVE  TypeOK'
<1>1. UNCHANGED <<process, open, opened, listener, backlog, connected, connMux, cast,
                  toClient, clients>>
  BY DEF Record
<1>2. PICK r \in Records :
        /\ lastThree' = Remember(lastThree, r) /\ said' = Append(said, r)
        /\ thread' = [thread EXCEPT ![c] = [at |-> "post", text |-> <<r>>]]
        /\ <<r>> \in Seq(Records)
  BY RecordFacts
<1>3. lastThree' \in Seq(Records) /\ Len(lastThree') <= Recent
  BY <1>2, RememberFacts
<1>4. said' \in Seq(Records)
  BY <1>2, AppendProperties DEF TypeOK
<1>5. thread' \in [Conns -> [at : Places, text : Seq(Records)]]
  BY <1>2, PutFacts DEF Places
<1>6. toServer' \in [Conns -> Seq(ToBeRead)]
  BY ReadingFacts DEF Record
<1> QED
  BY <1>1, <1>3, <1>4, <1>5, <1>6 DEF TypeOK, clients, Places

LEMMA PostFacts ==
  ASSUME TypeOK, Posting, NEW c \in Conns, Post(c)
  PROVE  /\ Head(thread[c].text) = thread[c].text[1]
         /\ thread[c].text[1] \in Records
         /\ Start(c, thread[c].text[1])
         /\ connMux = None /\ connMux' = c
         /\ c \in Threads /\ thread[c].at = "post"
<1>1. thread[c].text \in Seq(Records) /\ Len(thread[c].text) = 1 /\ thread[c].at = "post"
  BY DEF TypeOK, Post, At, Posting
<1>2. Head(thread[c].text) = thread[c].text[1]
  BY <1>1, EmptySeq, TailIndex
<1>3. thread[c].text[1] \in Records
  BY <1>1, ElementOfSeq
<1>4. c \in Threads /\ Lock(c, "post")
  BY ConnFacts DEF Post
<1> QED
  BY <1>1, <1>2, <1>3, <1>4, LockFacts DEF Post

LEMMA PostTypes ==
  ASSUME TypeOK, Posting, NEW c \in Conns, Post(c)
  PROVE  TypeOK'
<1>1. UNCHANGED <<process, open, opened, listener, backlog, connected, lastThree, said,
                  streams, clients>>
  BY DEF Post
<1>2. cast' \in [Threads -> [frame : Lines \cup {None}, next : Nat \ {0}]]
  BY PostFacts, FrameFacts, StartFacts
<1>3. connMux' \in Threads \cup {None}
  BY PostFacts
<1>4. thread' \in [Conns -> [at : Places, text : Seq(Records)]]
  BY GotoFacts DEF Post, Places
<1> QED
  BY <1>1, <1>2, <1>3, <1>4 DEF TypeOK, clients, streams, Places

LEMMA PostedTypes ==
  ASSUME TypeOK, NEW c \in Conns, Posted(c)
  PROVE  TypeOK'
<1>1. UNCHANGED <<process, open, opened, listener, backlog, connected, lastThree, said,
                  streams, clients>>
  BY DEF Posted
<1>2. Unlock(c) /\ Finish(c) /\ thread' = [thread EXCEPT ![c] = [at |-> "loop", text |-> <<>>]]
  BY DEF Posted
<1>3. c \in Threads /\ <<>> \in Seq(Records)
  BY ConnFacts, EmptySeq
<1>4. /\ cast' \in [Threads -> [frame : Lines \cup {None}, next : Nat \ {0}]]
      /\ connMux' \in Threads \cup {None}
  BY <1>2, <1>3, FinishFacts, UnlockFacts
<1>5. thread' \in [Conns -> [at : Places, text : Seq(Records)]]
  BY <1>2, <1>3, PutFacts DEF Places
<1> QED
  BY <1>1, <1>4, <1>5 DEF TypeOK, clients, streams, Places

LEMMA DetachTypes ==
  ASSUME TypeOK, Admission, NEW c \in Conns, DetachOwner(c) \/ DetachGuest(c)
  PROVE  TypeOK'
<1>1. CASE DetachOwner(c)
  <2>1. UNCHANGED <<process, open, opened, listener, backlog, connMux, cast, lastThree, said,
                    thread, clients>>
    BY <1>1 DEF DetachOwner
  <2>2. connected' \in Seq(Conns)
    BY <1>1, WithoutFacts DEF DetachOwner
  <2>3. toServer' \in [Conns -> Seq(ToBeRead)]
    BY <1>1, ReadingFacts DEF DetachOwner
  <2>4. toClient' \in [Conns -> Seq(Frames)]
    BY <1>1, FrameFacts, SendFacts DEF DetachOwner
  <2> QED
    BY <2>1, <2>2, <2>3, <2>4 DEF TypeOK, clients
<1>2. CASE DetachGuest(c)
  <2>1. UNCHANGED <<process, open, opened, listener, backlog, connected, lastThree, said,
                    toClient, clients>>
    BY <1>2 DEF DetachGuest
  <2>2. Lock(c, "detach") /\ Start(c, News("detach", c)) /\ Goto(c, "send")
    BY <1>2 DEF DetachGuest
  <2>3. c \in Threads /\ News("detach", c) \in Lines
    BY ConnFacts, LineFacts
  <2>4. /\ cast' \in [Threads -> [frame : Lines \cup {None}, next : Nat \ {0}]]
        /\ connMux' \in Threads \cup {None}
    BY <2>2, <2>3, StartFacts, LockFacts
  <2>5. thread' \in [Conns -> [at : Places, text : Seq(Records)]]
    BY <2>2, GotoFacts DEF Places
  <2>6. toServer' \in [Conns -> Seq(ToBeRead)]
    BY <1>2, ReadingFacts DEF DetachGuest
  <2> QED
    BY <2>1, <2>4, <2>5, <2>6 DEF TypeOK, clients, Places
<1> QED
  BY <1>1, <1>2

LEMMA LeaveTypes ==
  ASSUME TypeOK, Admission, NEW c \in Conns, Leave(c) \/ Left(c)
  PROVE  TypeOK'
<1>1. CASE Leave(c)
  <2>1. UNCHANGED <<process, open, opened, listener, backlog, lastThree, said, toClient,
                    clients>>
    BY <1>1 DEF Leave
  <2>2. Lock(c, "leave") /\ Goto(c, "bye")
        /\ Start(c, News(IF Name(c) = Owner THEN "close" ELSE "leave", c))
    BY <1>1 DEF Leave
  <2>3. c \in Threads /\ News(IF Name(c) = Owner THEN "close" ELSE "leave", c) \in Lines
    BY ConnFacts, LineFacts
  <2>4. /\ cast' \in [Threads -> [frame : Lines \cup {None}, next : Nat \ {0}]]
        /\ connMux' \in Threads \cup {None}
    BY <2>2, <2>3, StartFacts, LockFacts
  <2>5. thread' \in [Conns -> [at : Places, text : Seq(Records)]]
    BY <2>2, GotoFacts DEF Places
  <2>6. toServer' \in [Conns -> Seq(ToBeRead)]
    BY <1>1, ReadingFacts DEF Leave
  <2>7. connected' \in Seq(Conns)
    BY <1>1, WithoutFacts DEF Leave
  <2> QED
    BY <2>1, <2>4, <2>5, <2>6, <2>7 DEF TypeOK, clients, Places
<1>2. CASE Left(c)
  <2>1. UNCHANGED <<process, open, opened, listener, backlog, lastThree, said, toServer,
                    clients>>
    BY <1>2 DEF Left
  <2>2. Unlock(c) /\ Finish(c) /\ Goto(c, "end") /\ c \in Threads
    BY <1>2, ConnFacts DEF Left
  <2>3. /\ cast' \in [Threads -> [frame : Lines \cup {None}, next : Nat \ {0}]]
        /\ connMux' \in Threads \cup {None}
    BY <2>2, FinishFacts, UnlockFacts
  <2>4. thread' \in [Conns -> [at : Places, text : Seq(Records)]]
    BY <2>2, GotoFacts DEF Places
  <2>5. connected' \in Seq(Conns) /\ toClient' \in [Conns -> Seq(Frames)]
    <3>1. CASE Send(c, ExitRoom("leave")) /\ UNCHANGED connected
      BY <3>1, FrameFacts, SendFacts, ListFacts
    <3>2. CASE /\ toClient' = [d \in Conns |->
                    IF d = c THEN Append(toClient[d], ExitRoom("close"))
                    ELSE IF d \in ToSet(connected) THEN Append(toClient[d], ExitRoom("leave"))
                    ELSE toClient[d]]
               /\ connected' = <<>>
      <4>1. \A d \in Conns : /\ toClient[d] \in Seq(Frames)
                             /\ Append(toClient[d], ExitRoom("close")) \in Seq(Frames)
                             /\ Append(toClient[d], ExitRoom("leave")) \in Seq(Frames)
        BY FrameFacts, AppendProperties DEF TypeOK
      <4> QED
        BY <3>2, <4>1, EmptySeq
    <3> QED
      BY <1>2, <3>1, <3>2 DEF Left
  <2> QED
    BY <2>1, <2>3, <2>4, <2>5 DEF TypeOK, clients, Places
<1> QED
  BY <1>1, <1>2

LEMMA ServeTypes ==
  ASSUME TypeOK, Admission, Posting, NEW c \in Conns, Serve(c)
  PROVE  TypeOK'
BY GreetTypes, EndOfStreamTypes, TerminateTypes, RecordTypes, PostTypes, PostedTypes,
   DetachTypes, LeaveTypes, BroadcastTypes, ConnFacts DEF Serve

LEMMA WriteTypes ==
  ASSUME TypeOK, NEW c, NEW w \in ToBeRead, Write(c, w), NEW p \in Modes, NEW m,
         mode' = [mode EXCEPT ![m] = p] \/ UNCHANGED mode,
         typed' \in 0 .. MaxSaid,
         UNCHANGED <<process, open, opened, server, toClient, visits>>,
         backlog' \in Seq(Threads)
  PROVE  TypeOK'
<1>1. toServer' \in [Conns -> Seq(ToBeRead)]
  BY WriteFacts
<1>2. mode' \in [Members -> Modes]
  BY DEF TypeOK, Modes
<1> QED
  BY <1>1, <1>2 DEF TypeOK, server, Modes

LEMMA CloseFacts ==
  ASSUME NEW c, Close(c)
  PROVE  \E w \in ToBeRead : w.type # "line" /\ Write(c, w)
<1>1. CASE Last(toClient[c]).type = "exit"
  <2>1. [type |-> "end"] \in ToBeRead /\ Write(c, [type |-> "end"])
    BY <1>1, WritableFacts DEF Close
  <2> QED
    BY <2>1
<1>2. CASE Last(toClient[c]).type # "exit"
  <2>1. [type |-> "reset"] \in ToBeRead /\ Write(c, [type |-> "reset"])
    BY <1>2, WritableFacts DEF Close
  <2> QED
    BY <2>1
<1> QED
  BY <1>1, <1>2

LEMMA TypedNext ==
  ASSUME TypeOK, typed < MaxSaid, typed' = typed + 1
  PROVE  typed' \in 0 .. MaxSaid /\ typed' \in 1 .. MaxSaid
BY ChatRoomAssumption DEF TypeOK

LEMMA UseTypes ==
  ASSUME TypeOK, NEW m \in Members, Use(m) \/ SendJoin(m)
  PROVE  TypeOK'
<1>0. typed \in 0 .. MaxSaid /\ backlog \in Seq(Threads)
  BY DEF TypeOK
<1>1. CASE Connect(m)
  <2>1. UNCHANGED <<process, open, opened, server, streams, typed>>
    BY <1>1 DEF Connect
  <2>2. visits' \in [Members -> 0 .. MaxVisits] /\ visits[m] + 1 \in 1 .. MaxVisits
    <3>1. visits \in [Members -> 0 .. MaxVisits] /\ visits[m] < MaxVisits /\ MaxVisits \in Nat
          /\ visits' = [visits EXCEPT ![m] = visits[m] + 1]
      BY <1>1, ChatRoomAssumption DEF Connect, TypeOK
    <3>2. visits[m] \in 0 .. MaxVisits
      BY <3>1
    <3>3. visits[m] + 1 \in 1 .. MaxVisits /\ visits[m] + 1 \in 0 .. MaxVisits
      BY <3>1, <3>2
    <3> QED
      BY <3>1, <3>3
  <2>3. <<m, visits[m] + 1>> \in Threads
    BY <2>2 DEF Threads, Conns
  <2>4. backlog' \in Seq(Threads)
    BY <1>0, <1>1, <2>3, AppendProperties DEF Connect
  <2>5. mode' \in [Members -> Modes]
    BY <1>1 DEF Connect, TypeOK, Modes
  <2> QED
    BY <2>1, <2>2, <2>4, <2>5 DEF TypeOK, server, streams, Modes
<1>2. CASE Type(m)
  <2>1. typed' \in 1 .. MaxSaid /\ typed' \in 0 .. MaxSaid
    BY <1>2, TypedNext DEF Type
  <2>2. [type |-> "line", number |-> typed'] \in ToBeRead
    BY <2>1, WritableFacts
  <2>3. /\ Write(Conn(m), [type |-> "line", number |-> typed'])
        /\ UNCHANGED <<process, open, opened, backlog, server, toClient, mode, visits>>
    BY <1>2 DEF Type
  <2> QED
    BY <1>0, <2>1, <2>2, <2>3, WriteTypes DEF Modes
<1>3. ASSUME NEW command \in {"leave", "detach"}, Command(m, command),
             mode' = [mode EXCEPT ![m] = "leaving"] \/ UNCHANGED mode,
             typed' \in 0 .. MaxSaid
      PROVE  TypeOK'
  <2>1. /\ Write(Conn(m), [type |-> command]) /\ [type |-> command] \in ToBeRead
        /\ UNCHANGED <<process, open, opened, backlog, server, toClient, visits>>
    BY <1>3, WritableFacts DEF Command
  <2> QED
    BY <1>0, <1>3, <2>1, WriteTypes DEF Modes
<1>4. CASE LeaveRoom(m)
  BY <1>0, <1>3, <1>4 DEF LeaveRoom
<1>5. CASE Detach(m)
  BY <1>0, <1>3, <1>5, TypedNext DEF Detach
<1>6. CASE SendJoin(m)
  <2>1. /\ Write(Conn(m), [type |-> "join"]) /\ [type |-> "join"] \in ToBeRead
        /\ mode' = [mode EXCEPT ![m] = "chat"]
        /\ UNCHANGED <<process, open, opened, backlog, server, toClient, typed, visits>>
    BY <1>6, WritableFacts DEF SendJoin
  <2> QED
    BY <1>0, <2>1, WriteTypes DEF Modes
<1> QED
  BY <1>1, <1>2, <1>4, <1>5, <1>6 DEF Use

LEMMA ReceiveTypes ==
  ASSUME TypeOK, NEW m \in Members, Receive(m) \/ Die(m)
  PROVE  TypeOK'
<1>0. typed \in 0 .. MaxSaid /\ backlog \in Seq(Threads)
  BY DEF TypeOK
<1>1. CASE Return(m)
  <2>1. /\ Close(Conn(m)) /\ mode' = [mode EXCEPT ![m] = "bbs"]
        /\ UNCHANGED <<process, open, opened, backlog, server, toClient, typed, visits>>
    BY <1>1 DEF Return
  <2>2. PICK w \in ToBeRead : Write(Conn(m), w)
    BY <2>1, CloseFacts
  <2> QED
    BY <1>0, <2>1, <2>2, WriteTypes DEF Modes
<1>2. CASE Stick(m)
  <2>1. /\ mode' = [mode EXCEPT ![m] = "stuck"]
        /\ UNCHANGED <<process, open, opened, backlog, server, streams, typed, visits>>
    BY <1>2 DEF Stick
  <2> QED
    BY <2>1 DEF TypeOK, server, streams
<1>3. CASE CloseStatus
  <2>1. /\ open' = FALSE /\ mode' = [mode EXCEPT ![Owner] = "closing"]
        /\ UNCHANGED <<process, opened, backlog, server, streams, typed, visits>>
    BY <1>3 DEF CloseStatus, StatusClosed
  <2> QED
    BY <2>1 DEF TypeOK, server, streams
<1>4. CASE CloseServer
  <2>1. /\ Close(Conn(Owner)) /\ mode' = [mode EXCEPT ![Owner] = "bbs"]
        /\ backlog' = Append(backlog, Listener)
        /\ UNCHANGED <<process, open, opened, server, toClient, typed, visits>>
    BY <1>4 DEF CloseServer
  <2>2. PICK w \in ToBeRead : Write(Conn(Owner), w)
    BY <2>1, CloseFacts
  <2>3. backlog' \in Seq(Threads)
    BY <1>0, <2>1, ConnFacts, AppendProperties
  <2> QED
    BY <1>0, <2>1, <2>2, <2>3, WriteTypes DEF Modes
<1>5. CASE Die(m)
  <2>1. /\ mode' = [mode EXCEPT ![m] = "dead"]
        /\ UNCHANGED <<process, open, opened, backlog, server, toClient, typed, visits>>
    BY <1>5 DEF Die
  <2>2. PICK w \in ToBeRead : Write(Conn(m), w)
    BY <1>5, WritableFacts DEF Die
  <2> QED
    BY <1>0, <2>1, <2>2, WriteTypes DEF Modes
<1> QED
  BY <1>1, <1>2, <1>3, <1>4, <1>5 DEF Receive

LEMMA ReopenTypes ==
  ASSUME TypeOK, Reopen
  PROVE  TypeOK'
<1>1. /\ open' = TRUE /\ opened < MaxOpened /\ opened' = opened + 1
      /\ UNCHANGED <<backlog, connected, connMux, cast, lastThree, said, thread, streams,
                     typed, visits>>
  BY DEF Reopen
<1>2. opened' \in 1 .. MaxOpened
  BY <1>1, ChatRoomAssumption DEF TypeOK
<1>3. /\ process' \in {"up", "gone"} /\ mode' \in [Members -> Modes]
      /\ listener' \in [at : {"accept", "admit", "send", "failed", "off"},
                        conn : Conns \cup {None}]
  <2>1. CASE listener.at = "off"
    BY <2>1 DEF Reopen, TypeOK, Modes
  <2>2. CASE listener.at # "off"
    <3>1. process' = "gone" /\ mode' = [mode EXCEPT ![Owner] = "dead"] /\ UNCHANGED listener
      BY <2>2 DEF Reopen
    <3> QED
      BY <3>1 DEF TypeOK, Modes
  <2> QED
    BY <2>1, <2>2
<1> QED
  BY <1>1, <1>2, <1>3 DEF TypeOK, streams, Modes

LEMMA StepTypes ==
  ASSUME TypeOK, Admission, Posting, [Next]_vars
  PROVE  TypeOK'
<1>1. CASE UNCHANGED vars
  BY <1>1 DEF TypeOK, vars, server, streams, clients
<1>2. CASE Listen
  BY <1>2, ListenTypes, BroadcastTypes, ConnFacts DEF Listen
<1>3. CASE \E g \in Mortal : Die(g)
  <2>1. Mortal \subseteq Members
    BY ChatRoomAssumption DEF Members
  <2> QED
    BY <1>3, <2>1, ReceiveTypes
<1> QED
  BY <1>1, <1>2, <1>3, ServeTypes, UseTypes, ReceiveTypes, ReopenTypes DEF Next

-----------------------------------------------------------------------------
(* The connections and who serves them.                                    *)

\* A thread that runs goes on, or is at its end and off the list.
Moves(c) ==
  \/ thread'[c].at = thread[c].at
  \/ /\ thread[c].at # "off" /\ thread'[c].at # "off"
     /\ c \in ToSet(connected') => thread'[c].at \notin {"bye", "end"}

LEMMA AdmissionMoves ==
  ASSUME TypeOK, TypeOK', Admission, UNCHANGED <<backlog, listener, visits>>,
         IsInjective(connected'), ToSet(connected') \subseteq ToSet(connected),
         \A c \in Conns : Moves(c)
  PROVE  Admission'
<1>1. \A c \in ToSet(connected') : thread'[c].at \notin {"off", "bye", "end"}
  <2>1. ToSet(connected') \subseteq Conns
    BY ListFacts
  <2> QED
    BY <2>1 DEF Admission, Moves
<1>2. \A c \in Conns : Waits(c)' <=> Waits(c)
  BY DEF Waits
<1>3. \A c \in Conns : thread'[c].at = "off" <=> thread[c].at = "off"
  BY DEF Moves
<1> QED
  BY <1>1, <1>2, <1>3 DEF Admission

\* What becomes of conn_mux in a step of a connection's thread.
LEMMA CastingMoves ==
  ASSUME Casting, NEW c \in Conns, UNCHANGED <<listener, cast, connMux>>,
         \A d \in Conns : d # c => thread'[d] = thread[d],
         thread'[c].at \in {"send", "bye"} => thread[c].at \in {"send", "bye"}
  PROVE  Casting'
BY DEF Casting

LEMMA CastingStarts ==
  ASSUME Casting, NEW t \in Threads, NEW f, UNCHANGED listener \/ t = Listener,
         connMux = None, connMux' = t, cast'[t].frame = f,
         \A u \in Threads : u # t => cast'[u] = cast[u],
         \A d \in Conns : d # t => thread'[d] = thread[d]
  PROVE  Casting'
<1>1. \A u \in Threads : cast'[u].frame # None => u = t
  BY NoneAssumption DEF Casting
<1>2. \A d \in Conns : thread'[d].at \in {"send", "bye"} => d = t
  BY ConnFacts DEF Casting
<1>3. listener'.at = "send" => t = Listener
  BY ConnFacts DEF Casting
<1> QED
  BY <1>1, <1>2, <1>3 DEF Casting

LEMMA CastingEnds ==
  ASSUME TypeOK, Casting, NEW t \in Threads, connMux = t, Unlock(t), Finish(t),
         \A d \in Conns : d # t => thread'[d] = thread[d],
         t \in Conns => thread'[t].at \notin {"send", "bye"},
         IF t = Listener THEN listener'.at # "send" ELSE UNCHANGED listener,
         t = Listener => \A d \in Conns : thread'[d].at \in {"send", "bye"} => thread[d].at \in {"send", "bye"}
  PROVE  Casting'
<1>1. \A u \in Threads : cast'[u].frame = None
  BY FinishFacts DEF Casting
<1>2. \A d \in Conns : thread'[d].at \notin {"send", "bye"}
  BY ConnFacts DEF Casting
<1>3. listener'.at # "send"
  BY ConnFacts DEF Casting
<1> QED
  BY <1>1, <1>2, <1>3 DEF Casting

\* What may be sent to whom.
Obeys(c) ==
  \/ toClient'[c] = toClient[c]
  \/ \E f \in Frames :
       /\ toClient'[c] = Append(toClient[c], f)
       /\ f.type = "line" => c \in ToSet(connected)
       /\ f.type = "exit" => c \notin ToSet(connected') /\ thread'[c].at # "off"

LEMMA ExitsKept ==
  ASSUME TypeOK, Exits,
         \A c \in Conns : Obeys(c),
         \A c \in Conns : c \in ToSet(connected') \/ thread'[c].at = "off" =>
                          c \in ToSet(connected) \/ thread[c].at = "off"
  PROVE  Exits'
<1> SUFFICES ASSUME NEW c \in Conns
             PROVE  /\ \A i, j \in 1 .. Len(toClient'[c]) :
                         toClient'[c][i].type = "exit" /\ toClient'[c][j].type = "line" => j < i
                    /\ c \in ToSet(connected') \/ thread'[c].at = "off" =>
                         \A i \in 1 .. Len(toClient'[c]) : toClient'[c][i].type # "exit"
  BY DEF Exits, NoLineAfterExit
<1>1. toClient[c] \in Seq(Frames) /\ Len(toClient[c]) \in Nat
  BY LenProperties DEF TypeOK
<1>2. /\ \A i, j \in 1 .. Len(toClient[c]) :
           toClient[c][i].type = "exit" /\ toClient[c][j].type = "line" => j < i
      /\ c \in ToSet(connected) \/ thread[c].at = "off" =>
           \A i \in 1 .. Len(toClient[c]) : toClient[c][i].type # "exit"
  BY DEF Exits, NoLineAfterExit
<1>3. CASE toClient'[c] = toClient[c]
  BY <1>2, <1>3
<1>4. ASSUME NEW f \in Frames, toClient'[c] = Append(toClient[c], f),
             f.type = "line" => c \in ToSet(connected),
             f.type = "exit" => c \notin ToSet(connected') /\ thread'[c].at # "off"
      PROVE  /\ \A i, j \in 1 .. Len(toClient'[c]) :
                  toClient'[c][i].type = "exit" /\ toClient'[c][j].type = "line" => j < i
             /\ c \in ToSet(connected') \/ thread'[c].at = "off" =>
                  \A i \in 1 .. Len(toClient'[c]) : toClient'[c][i].type # "exit"
  <2> DEFINE q == toClient[c]
             n == Len(toClient[c])
             r == toClient'[c]
  <2>1. Len(r) = n + 1 /\ r[n + 1] = f /\ \A i \in 1 .. n : r[i] = q[i]
    BY <1>1, <1>4, AppendProperties
  <2>2. n \in Nat
    BY <1>1
  <2> HIDE DEF n, q, r
  <2>3. \A i, j \in 1 .. Len(r) : r[i].type = "exit" /\ r[j].type = "line" => j < i
    <3> SUFFICES ASSUME NEW i \in 1 .. n + 1, NEW j \in 1 .. n + 1,
                        r[i].type = "exit", r[j].type = "line"
                 PROVE  j < i
      BY <2>1
    <3>1. CASE j = n + 1
      <4>1. i # n + 1
        BY <2>1, <3>1
      <4>2. i \in 1 .. n
        BY <2>2, <4>1
      <4>3. q[i].type = "exit"
        BY <2>1, <4>2
      <4> QED
        BY <1>2, <1>4, <2>1, <3>1, <4>2, <4>3 DEF n, q
    <3>2. CASE j # n + 1 /\ i # n + 1
      <4>1. i \in 1 .. n /\ j \in 1 .. n
        BY <2>2, <3>2
      <4>2. q[i].type = "exit" /\ q[j].type = "line"
        BY <2>1, <4>1
      <4> QED
        BY <1>2, <4>1, <4>2 DEF n, q
    <3> QED
      BY <2>2, <3>1, <3>2
  <2>4. c \in ToSet(connected') \/ thread'[c].at = "off" =>
          \A i \in 1 .. Len(r) : r[i].type # "exit"
    <3> SUFFICES ASSUME c \in ToSet(connected') \/ thread'[c].at = "off",
                        NEW i \in 1 .. n + 1
                 PROVE  r[i].type # "exit"
      BY <2>1
    <3>1. CASE i = n + 1
      BY <1>4, <2>1, <3>1
    <3>2. CASE i # n + 1
      <4>1. i \in 1 .. n
        BY <2>2, <3>2
      <4>2. q[i].type # "exit"
        BY <1>2, <4>1 DEF n, q
      <4> QED
        BY <2>1, <4>1, <4>2
    <3> QED
      BY <3>1, <3>2
  <2> QED
    BY <2>3, <2>4 DEF r
<1> QED
  BY <1>3, <1>4 DEF Obeys

\* The room of an owner, where none of what it depends on changes.
LEMMA OwnerKept ==
  ASSUME OwnerRoom, UNCHANGED <<process, open>>, mode'[Owner] = mode[Owner],
         listener'.at = "off" => listener.at = "off",
         Listener \in ToSet(backlog') => Listener \in ToSet(backlog)
  PROVE  OwnerRoom'
BY DEF OwnerRoom

ConnInv == Admission /\ Casting /\ Exits /\ OwnerRoom

\* A step of a thread of the server that changes neither the list nor the lock.
LEMMA QuietStep ==
  ASSUME TypeOK, TypeOK', ConnInv, NEW c \in Conns,
         UNCHANGED <<listener, cast, connMux, connected, backlog, visits, process, open, mode>>,
         \A d \in Conns : d # c => thread'[d] = thread[d],
         thread[c].at \notin {"off", "bye", "end"}, thread'[c].at \notin {"off", "bye", "end"},
         thread'[c].at = "send" => thread[c].at = "send",
         \A d \in Conns : Obeys(d)
  PROVE  ConnInv'
<1>1. \A d \in Conns : Moves(d)
  BY DEF Moves
<1>2. Admission'
  BY <1>1, AdmissionMoves DEF ConnInv, Admission
<1>3. Casting'
  BY CastingMoves DEF ConnInv
<1>4. Exits'
  BY ExitsKept DEF ConnInv
<1> QED
  BY <1>2, <1>3, <1>4, OwnerKept DEF ConnInv

LEMMA FrameTypes ==
  /\ Half.type = "half" /\ Reset.type = "reset"
  /\ \A r : Greeting(r).type = "greeting" /\ Greeting(r).records = r
  /\ \A a : ExitRoom(a).type = "exit"
BY DEF Half, Reset, Greeting, ExitRoom

LEMMA GreetConns ==
  ASSUME TypeOK, TypeOK', ConnInv, NEW c \in Conns, Greet(c)
  PROVE  ConnInv'
<1>1. /\ thread[c].at \in {"greet", "half", "body"} /\ thread'[c].at \in {"half", "body", "loop"}
      /\ \A d \in Conns : d # c => thread'[d] = thread[d]
      /\ \A d \in Conns : Obeys(d)
  <2>1. lastThree \in Seq(Records) /\ thread[c].text \in Seq(Records)
    BY DEF TypeOK
  <2>2. CASE /\ At(c, "greet") /\ UNCHANGED toClient
             /\ thread' = [thread EXCEPT ![c] = [at |-> "half", text |-> lastThree]]
    BY <2>1, <2>2, PutFacts DEF At, Obeys, Places
  <2>3. CASE At(c, "half") /\ Send(c, Half) /\ Goto(c, "body")
    <3>1. Half \in Frames /\ Half.type = "half"
      BY FrameFacts, FrameTypes
    <3> QED
      BY <2>3, <3>1, SendFacts, GotoFacts DEF At, Obeys, Places
  <2>4. CASE At(c, "body") /\ Send(c, Greeting(thread[c].text)) /\ Goto(c, "loop")
    <3>1. Greeting(thread[c].text) \in Frames /\ Greeting(thread[c].text).type = "greeting"
      BY <2>1, FrameFacts, FrameTypes
    <3> QED
      BY <2>4, <3>1, SendFacts, GotoFacts DEF At, Obeys, Places
  <2> QED
    BY <2>2, <2>3, <2>4 DEF Greet
<1>2. UNCHANGED <<listener, cast, connMux, connected, backlog, visits, process, open, mode>>
  BY DEF Greet, clients
<1> QED
  BY <1>1, <1>2, QuietStep

LEMMA EndOfStreamConns ==
  ASSUME TypeOK, TypeOK', ConnInv, NEW c \in Conns, EndOfStream(c)
  PROVE  ConnInv'
<1>1. /\ thread[c].at = "loop" /\ thread'[c].at = "end"
      /\ \A d \in Conns : d # c => thread'[d] = thread[d]
  BY GotoFacts DEF EndOfStream, Reading, At, Places
<1>2. UNCHANGED <<listener, cast, connMux, toClient, backlog, visits, process, open, mode>>
  BY DEF EndOfStream, clients
<1>3. ToSet(connected') = ToSet(connected) \ {c} /\ IsInjective(connected')
  BY WithoutFacts DEF EndOfStream, ConnInv
<1>4. Admission'
  BY <1>1, <1>2, <1>3, AdmissionMoves DEF ConnInv, Moves
<1>5. Casting'
  BY <1>1, <1>2, CastingMoves DEF ConnInv
<1>6. Exits'
  BY <1>1, <1>2, <1>3, ExitsKept DEF ConnInv, Obeys
<1>7. OwnerRoom'
  BY <1>2, OwnerKept DEF ConnInv
<1> QED
  BY <1>4, <1>5, <1>6, <1>7 DEF ConnInv

LEMMA TerminateConns ==
  ASSUME ConnInv, NEW c \in Conns, Terminate(c)
  PROVE  ConnInv'
<1>1. UNCHANGED <<listener, connected, connMux, cast, thread, backlog, toClient, visits>>
      /\ process' = "gone"
  BY DEF Terminate, server, streams
<1>2. Admission'
  BY <1>1 DEF ConnInv, Admission, Waits
<1>3. Casting'
  BY <1>1 DEF ConnInv, Casting
<1>4. Exits'
  BY <1>1 DEF ConnInv, Exits, NoLineAfterExit
<1> QED
  BY <1>1, <1>2, <1>3, <1>4 DEF ConnInv, OwnerRoom

LEMMA RecordConns ==
  ASSUME TypeOK, TypeOK', ConnInv, NEW c \in Conns, Record(c)
  PROVE  ConnInv'
<1>1. PICK r \in Records :
        thread' = [thread EXCEPT ![c] = [at |-> "post", text |-> <<r>>]] /\ <<r>> \in Seq(Records)
  BY RecordFacts
<1>2. /\ thread[c].at = "loop" /\ thread'[c].at = "post"
      /\ \A d \in Conns : d # c => thread'[d] = thread[d]
  BY <1>1, PutFacts DEF Record, Reading, At, Places
<1>3. UNCHANGED <<listener, cast, connMux, connected, backlog, visits, process, open, mode,
                  toClient>>
  BY DEF Record, clients
<1> QED
  BY <1>2, <1>3, QuietStep DEF Obeys

LEMMA PostConns ==
  ASSUME TypeOK, TypeOK', ConnInv, Posting, NEW c \in Conns, Post(c)
  PROVE  ConnInv'
<1>1. /\ thread[c].at = "post" /\ thread'[c].at = "send"
      /\ \A d \in Conns : d # c => thread'[d] = thread[d]
  BY GotoFacts DEF Post, At, Places
<1>2. UNCHANGED <<listener, connected, toClient, backlog, visits, process, open, mode>>
  BY DEF Post, streams, clients
<1>3. Admission'
  BY <1>1, <1>2, AdmissionMoves DEF ConnInv, Moves, Admission
<1>4. Casting'
  <2>1. thread[c].text[1] \in Lines
    BY PostFacts, FrameFacts
  <2> QED
    BY <1>1, <1>2, <2>1, PostFacts, StartFacts, CastingStarts DEF ConnInv
<1>5. Exits'
  BY <1>1, <1>2, ExitsKept DEF ConnInv, Obeys
<1>6. OwnerRoom'
  BY <1>2, OwnerKept DEF ConnInv
<1> QED
  BY <1>3, <1>4, <1>5, <1>6 DEF ConnInv

LEMMA PostedConns ==
  ASSUME TypeOK, TypeOK', ConnInv, NEW c \in Conns, Posted(c)
  PROVE  ConnInv'
<1>1. /\ thread[c].at = "send" /\ thread'[c].at = "loop"
      /\ \A d \in Conns : d # c => thread'[d] = thread[d]
  BY PutFacts, EmptySeq DEF Posted, At, Places
<1>2. UNCHANGED <<listener, connected, toClient, backlog, visits, process, open, mode>>
  BY DEF Posted, streams, clients
<1>3. Admission'
  BY <1>1, <1>2, AdmissionMoves DEF ConnInv, Moves, Admission
<1>4. Casting'
  <2>1. Unlock(c) /\ Finish(c) /\ connMux = c /\ c \in Threads /\ c # Listener
    BY <1>1, ConnFacts DEF Posted, ConnInv, Casting
  <2> QED
    BY <1>1, <1>2, <2>1, CastingEnds DEF ConnInv
<1>5. Exits'
  BY <1>1, <1>2, ExitsKept DEF ConnInv, Obeys
<1>6. OwnerRoom'
  BY <1>2, OwnerKept DEF ConnInv
<1> QED
  BY <1>3, <1>4, <1>5, <1>6 DEF ConnInv

LEMMA DetachOwnerConns ==
  ASSUME TypeOK, TypeOK', ConnInv, NEW c \in Conns, DetachOwner(c)
  PROVE  ConnInv'
<1>1. /\ thread[c].at = "loop"
      /\ UNCHANGED <<listener, cast, connMux, thread, backlog, visits, process, open, mode>>
  BY DEF DetachOwner, Reading, At, clients
<1>2. ToSet(connected') = ToSet(connected) \ {c} /\ IsInjective(connected')
  BY WithoutFacts DEF DetachOwner, ConnInv
<1>3. Admission'
  BY <1>1, <1>2, AdmissionMoves DEF ConnInv, Moves
<1>4. Casting'
  BY <1>1 DEF ConnInv, Casting
<1>5. \A d \in Conns : Obeys(d)
  <2>1. ExitRoom("leave") \in Frames /\ ExitRoom("leave").type = "exit"
    BY FrameFacts, FrameTypes
  <2> QED
    BY <1>1, <1>2, <2>1, SendFacts DEF DetachOwner, Obeys
<1>6. Exits'
  BY <1>1, <1>2, <1>5, ExitsKept DEF ConnInv
<1>7. OwnerRoom'
  BY <1>1, OwnerKept DEF ConnInv
<1> QED
  BY <1>3, <1>4, <1>6, <1>7 DEF ConnInv

LEMMA DetachGuestConns ==
  ASSUME TypeOK, TypeOK', ConnInv, NEW c \in Conns, DetachGuest(c)
  PROVE  ConnInv'
<1>1. /\ thread[c].at = "loop" /\ thread'[c].at = "send"
      /\ \A d \in Conns : d # c => thread'[d] = thread[d]
  BY GotoFacts DEF DetachGuest, Reading, At, Places
<1>2. UNCHANGED <<listener, connected, toClient, backlog, visits, process, open, mode>>
  BY DEF DetachGuest, clients
<1>3. Admission'
  BY <1>1, <1>2, AdmissionMoves DEF ConnInv, Moves, Admission
<1>4. Casting'
  <2>1. /\ Lock(c, "detach") /\ Start(c, News("detach", c)) /\ c \in Threads
        /\ News("detach", c) \in Lines
    BY ConnFacts, LineFacts DEF DetachGuest
  <2>2. connMux = None /\ connMux' = c
    BY <2>1, LockFacts
  <2>3. cast'[c].frame = News("detach", c) /\ \A u \in Threads : u # c => cast'[u] = cast[u]
    BY <2>1, StartFacts
  <2> QED
    BY <1>1, <1>2, <2>1, <2>2, <2>3, CastingStarts DEF ConnInv
<1>5. Exits'
  BY <1>1, <1>2, ExitsKept DEF ConnInv, Obeys
<1>6. OwnerRoom'
  BY <1>2, OwnerKept DEF ConnInv
<1> QED
  BY <1>3, <1>4, <1>5, <1>6 DEF ConnInv

LEMMA LeaveConns ==
  ASSUME TypeOK, TypeOK', ConnInv, NEW c \in Conns, Leave(c)
  PROVE  ConnInv'
<1> DEFINE news == News(IF Name(c) = Owner THEN "close" ELSE "leave", c)
<1>1. /\ thread[c].at = "loop" /\ thread'[c].at = "bye"
      /\ \A d \in Conns : d # c => thread'[d] = thread[d]
  BY GotoFacts DEF Leave, Reading, At, Places
<1>2. UNCHANGED <<listener, toClient, backlog, visits, process, open, mode>>
  BY DEF Leave, clients
<1>3. ToSet(connected') = ToSet(connected) \ {c} /\ IsInjective(connected')
  BY WithoutFacts DEF Leave, ConnInv
<1>4. Admission'
  BY <1>1, <1>2, <1>3, AdmissionMoves DEF ConnInv, Moves
<1>5. Casting'
  <2>1. Lock(c, "leave") /\ Start(c, news) /\ c \in Threads /\ news \in Lines
    BY ConnFacts, LineFacts DEF Leave
  <2> HIDE DEF news
  <2>2. connMux = None /\ connMux' = c
    BY <2>1, LockFacts
  <2>3. cast'[c].frame = news /\ \A u \in Threads : u # c => cast'[u] = cast[u]
    BY <2>1, StartFacts
  <2> QED
    BY <1>1, <1>2, <2>1, <2>2, <2>3, CastingStarts DEF ConnInv
<1>6. Exits'
  BY <1>1, <1>2, <1>3, ExitsKept DEF ConnInv, Obeys
<1>7. OwnerRoom'
  BY <1>2, OwnerKept DEF ConnInv
<1> QED
  BY <1>4, <1>5, <1>6, <1>7 DEF ConnInv

\* What the last step of a leaving sends.
LEMMA LeftFacts ==
  ASSUME TypeOK, NEW c \in Conns, Left(c)
  PROVE  /\ \A d \in Conns :
              \/ toClient'[d] = toClient[d]
              \/ \E f \in Frames : /\ toClient'[d] = Append(toClient[d], f) /\ f.type = "exit"
                                   /\ d = c \/ d \notin ToSet(connected')
         /\ connected' = connected \/ connected' = <<>>
<1>1. /\ ExitRoom("leave") \in Frames /\ ExitRoom("leave").type = "exit"
      /\ ExitRoom("close") \in Frames /\ ExitRoom("close").type = "exit"
  BY FrameFacts, FrameTypes
<1>2. CASE Send(c, ExitRoom("leave")) /\ UNCHANGED connected
  BY <1>1, <1>2, SendFacts
<1>3. CASE /\ toClient' = [d \in Conns |->
                IF d = c THEN Append(toClient[d], ExitRoom("close"))
                ELSE IF d \in ToSet(connected) THEN Append(toClient[d], ExitRoom("leave"))
                ELSE toClient[d]]
           /\ connected' = <<>>
  <2>1. ToSet(connected') = {}
    BY <1>3 DEF ToSet
  <2> QED
    BY <1>1, <1>3, <2>1
<1> QED
  BY <1>2, <1>3 DEF Left

LEMMA LeftConns ==
  ASSUME TypeOK, TypeOK', ConnInv, NEW c \in Conns, Left(c)
  PROVE  ConnInv'
<1>1. /\ thread[c].at = "bye" /\ thread'[c].at = "end"
      /\ \A d \in Conns : d # c => thread'[d] = thread[d]
  BY GotoFacts DEF Left, At, Places
<1>2. UNCHANGED <<listener, backlog, visits, process, open, mode>>
  BY DEF Left, clients
<1>3. c \notin ToSet(connected)
  BY <1>1 DEF ConnInv, Admission
<1>4. ToSet(connected') \subseteq ToSet(connected) /\ IsInjective(connected')
  <2>1. CASE connected' = connected
    BY <2>1 DEF ConnInv, Admission
  <2>2. CASE connected' = <<>>
    BY <2>2 DEF ToSet, IsInjective
  <2> QED
    BY <2>1, <2>2, LeftFacts
<1>5. Admission'
  BY <1>1, <1>2, <1>3, <1>4, AdmissionMoves DEF ConnInv, Moves
<1>6. Casting'
  <2>1. Unlock(c) /\ Finish(c) /\ connMux = c /\ c \in Threads /\ c # Listener
    BY <1>1, ConnFacts DEF Left, ConnInv, Casting
  <2> QED
    BY <1>1, <1>2, <2>1, CastingEnds DEF ConnInv
<1>7. \A d \in Conns : Obeys(d)
  <2> SUFFICES ASSUME NEW d \in Conns PROVE Obeys(d)
    OBVIOUS
  <2>1. CASE toClient'[d] = toClient[d]
    BY <2>1 DEF Obeys
  <2>2. ASSUME NEW f \in Frames, toClient'[d] = Append(toClient[d], f), f.type = "exit",
               d = c \/ d \notin ToSet(connected'), toClient'[d] # toClient[d]
        PROVE  Obeys(d)
    <3>1. d \notin ToSet(connected')
      BY <1>3, <1>4, <2>2
    <3>2. thread'[d].at # "off"
      <4>1. CASE d = c
        BY <1>1, <4>1
      <4>2. CASE d # c
        <5>1. d \in ToSet(connected)
          BY <2>2, <4>2, SendFacts, FrameFacts DEF Left
        <5> QED
          BY <1>1, <4>2, <5>1 DEF ConnInv, Admission
      <4> QED
        BY <4>1, <4>2
    <3> QED
      BY <2>2, <3>1, <3>2 DEF Obeys
  <2> QED
    BY <2>1, <2>2, LeftFacts
<1>8. Exits'
  BY <1>1, <1>4, <1>7, ExitsKept DEF ConnInv
<1>9. OwnerRoom'
  BY <1>2, OwnerKept DEF ConnInv
<1> QED
  BY <1>5, <1>6, <1>8, <1>9 DEF ConnInv

LEMMA BroadcastConns ==
  ASSUME TypeOK, TypeOK', ConnInv, NEW t \in Threads, Broadcast(t)
  PROVE  ConnInv'
<1>1. UNCHANGED <<process, open, listener, backlog, connected, connMux, thread, mode, visits>>
  BY DEF Broadcast, clients
<1>2. \A u \in Threads : cast'[u].frame = cast[u].frame
  BY BroadcastFacts
<1>3. Admission'
  BY <1>1 DEF ConnInv, Admission, Waits
<1>4. Casting'
  BY <1>1, <1>2 DEF ConnInv, Casting
<1>5. \A d \in Conns : Obeys(d)
  <2>1. connected[cast[t].next] \in ToSet(connected)
    BY BroadcastFacts, ListFacts, SetOfList
  <2>2. cast[t].frame \in Frames /\ cast[t].frame.type = "line"
    BY BroadcastFacts, FrameFacts, LineFacts
  <2>3. toClient'[connected[cast[t].next]] = Append(toClient[connected[cast[t].next]], cast[t].frame)
        /\ \A d \in Conns : d # connected[cast[t].next] => toClient'[d] = toClient[d]
    BY <2>2, BroadcastFacts, SendFacts
  <2> QED
    BY <2>1, <2>2, <2>3 DEF Obeys
<1>6. Exits'
  BY <1>1, <1>5, ExitsKept DEF ConnInv
<1>7. OwnerRoom'
  BY <1>1, OwnerKept DEF ConnInv
<1> QED
  BY <1>3, <1>4, <1>6, <1>7 DEF ConnInv

LEMMA ServeConns ==
  ASSUME TypeOK, TypeOK', ConnInv, Posting, NEW c \in Conns, Serve(c)
  PROVE  ConnInv'
BY GreetConns, EndOfStreamConns, TerminateConns, RecordConns, PostConns, PostedConns,
   DetachOwnerConns, DetachGuestConns, LeaveConns, LeftConns, BroadcastConns, ConnFacts
   DEF Serve

LEMMA BacklogFacts ==
  ASSUME TypeOK, backlog # <<>>
  PROVE  /\ Head(backlog) = backlog[1] /\ Len(backlog) \in Nat \ {0}
         /\ backlog[1] \in ToSet(backlog)
         /\ Len(Tail(backlog)) = Len(backlog) - 1
         /\ \A i \in 1 .. Len(backlog) - 1 : Tail(backlog)[i] = backlog[i + 1]
         /\ \A t \in ToSet(Tail(backlog)) :
              t \in ToSet(backlog) /\ \E i \in 1 .. Len(backlog) : i # 1 /\ backlog[i] = t
<1>1. backlog \in Seq(Threads)
  BY ListFacts
<1>2. /\ Head(backlog) = backlog[1] /\ Len(backlog) \in Nat \ {0}
      /\ Tail(backlog) \in Seq(Threads)
      /\ Len(Tail(backlog)) = Len(backlog) - 1
      /\ \A i \in 1 .. Len(backlog) - 1 : Tail(backlog)[i] = backlog[i + 1]
  BY <1>1, TailIndex
<1>3. backlog[1] \in ToSet(backlog)
  BY <1>1, <1>2, SetOfList
<1>4. ASSUME NEW t \in ToSet(Tail(backlog))
      PROVE  t \in ToSet(backlog) /\ \E i \in 1 .. Len(backlog) : i # 1 /\ backlog[i] = t
  <2> DEFINE q == Tail(backlog)
  <2>0. q \in Seq(Threads) /\ Len(q) = Len(backlog) - 1 /\ t \in ToSet(q)
    BY <1>2, <1>4
  <2> HIDE DEF q
  <2>1. PICK i \in 1 .. Len(backlog) - 1 : q[i] = t
    BY <2>0, SetOfList
  <2>2. i + 1 \in 1 .. Len(backlog) /\ backlog[i + 1] = t /\ i + 1 # 1
    BY <1>2, <2>1 DEF q
  <2> QED
    BY <1>1, <2>2, SetOfList
<1> QED
  BY <1>2, <1>3, <1>4

LEMMA AcceptConns ==
  ASSUME TypeOK, TypeOK', ConnInv, Accept
  PROVE  ConnInv'
<1> DEFINE c == Head(backlog)
<1>1. /\ backlog # <<>> /\ c # Listener /\ backlog' = Tail(backlog)
      /\ listener.at = "accept"
      /\ UNCHANGED <<process, open, connected, connMux, cast, thread, toClient, mode, visits>>
  BY DEF Accept, clients
<1>2. \/ listener' = [at |-> "admit", conn |-> c]
      \/ listener' = [at |-> "failed", conn |-> None]
  BY DEF Accept
<1>3. c \in Conns /\ c \in ToSet(backlog) /\ c = backlog[1]
  BY <1>1, BacklogFacts, ListFacts, SetOfList, ConnFacts
<1>4. c \notin ToSet(backlog')
  BY <1>1, <1>3, BacklogFacts DEF ConnInv, Admission
<1>5. listener'.conn \notin ToSet(backlog')
  <2>1. \A t \in ToSet(backlog') : t \in Threads
    BY <1>1, BacklogFacts, ListFacts, SetOfList
  <2> QED
    BY <1>2, <1>4, <2>1, NoneAssumption
<1>6. \A i, j \in 1 .. Len(backlog') :
        backlog'[i] = backlog'[j] /\ backlog'[i] # Listener => i = j
  <2> SUFFICES ASSUME NEW i \in 1 .. Len(backlog'), NEW j \in 1 .. Len(backlog'),
                      backlog'[i] = backlog'[j], backlog'[i] # Listener
               PROVE  i = j
    OBVIOUS
  <2>1. i \in 1 .. Len(backlog) - 1 /\ j \in 1 .. Len(backlog) - 1
    BY <1>1, BacklogFacts
  <2>2. i + 1 \in 1 .. Len(backlog) /\ j + 1 \in 1 .. Len(backlog)
    BY <1>1, <2>1, BacklogFacts
  <2>3. backlog[i + 1] = backlog[j + 1] /\ backlog[i + 1] # Listener
    BY <1>1, <2>1, BacklogFacts
  <2>4. i + 1 = j + 1
    BY <2>2, <2>3 DEF ConnInv, Admission
  <2> QED
    BY <2>1, <2>4
<1>7. \A d \in Conns : Waits(d)' => Waits(d)
  BY <1>1, <1>2, <1>3, BacklogFacts, ConnFacts DEF Waits
<1>8. listener'.at \in {"admit", "send"} <=> listener'.conn # None
  BY <1>2, <1>3, ConnFacts
<1> HIDE DEF c
<1>9. Admission'
  BY <1>1, <1>5, <1>6, <1>7, <1>8 DEF ConnInv, Admission
<1>10. Casting'
  BY <1>1, <1>2 DEF ConnInv, Casting
<1>11. Exits'
  BY <1>1 DEF ConnInv, Exits, NoLineAfterExit
<1>12. OwnerRoom'
  BY <1>1, <1>2, BacklogFacts, OwnerKept DEF ConnInv
<1> QED
  BY <1>9, <1>10, <1>11, <1>12 DEF ConnInv

LEMMA StopConns ==
  ASSUME TypeOK, TypeOK', ConnInv, Stop
  PROVE  ConnInv'
<1>1. /\ backlog # <<>> /\ Head(backlog) = Listener /\ backlog' = <<>> /\ process = "up"
      /\ listener.at = "accept" /\ listener' = [at |-> "off", conn |-> None]
      /\ UNCHANGED <<process, open, connected, connMux, cast, thread, mode, visits>>
  BY DEF Stop, clients
<1>2. ToSet(backlog') = {} /\ Len(backlog') = 0
  BY <1>1, EmptySeq DEF ToSet
<1>3. \A c \in Conns : ~Waits(c)'
  BY <1>1, <1>2, ConnFacts DEF Waits
<1>4. Admission'
  BY <1>1, <1>2, <1>3 DEF ConnInv, Admission
<1>5. Casting'
  BY <1>1 DEF ConnInv, Casting
<1>6. \A c \in Conns : Obeys(c)
  <2>1. Reset \in Frames /\ Reset.type = "reset"
    BY FrameFacts, FrameTypes
  <2>2. \A c \in Conns : toClient'[c] \in {toClient[c], Append(toClient[c], Reset)}
    BY DEF Stop
  <2> QED
    BY <2>1, <2>2 DEF Obeys
<1>7. Exits'
  BY <1>1, <1>6, ExitsKept DEF ConnInv
<1>8. Listener \in ToSet(backlog)
  BY <1>1, BacklogFacts
<1>9. OwnerRoom'
  BY <1>1, <1>2, <1>8 DEF ConnInv, OwnerRoom
<1> QED
  BY <1>4, <1>5, <1>7, <1>9 DEF ConnInv

LEMMA AnnounceConns ==
  ASSUME TypeOK, TypeOK', ConnInv, Announce
  PROVE  ConnInv'
<1>1. /\ listener.at = "admit" /\ listener'.at = "send" /\ listener'.conn = listener.conn
      /\ UNCHANGED <<process, open, backlog, connected, thread, toClient, mode, visits>>
  BY DEF Announce, streams, clients, TypeOK
<1>2. listener.conn \in Conns
  BY <1>1 DEF ConnInv, Admission, TypeOK
<1>3. Admission'
  BY <1>1 DEF ConnInv, Admission, Waits
<1>4. Casting'
  <2>1. /\ Lock(Listener, "join") /\ Start(Listener, News("join", listener.conn))
        /\ Listener \in Threads /\ News("join", listener.conn) \in Lines
    BY <1>2, ConnFacts, LineFacts DEF Announce
  <2>2. connMux = None /\ connMux' = Listener
    BY <2>1, LockFacts
  <2>3. /\ cast'[Listener].frame = News("join", listener.conn)
        /\ \A u \in Threads : u # Listener => cast'[u] = cast[u]
    BY <2>1, StartFacts
  <2> QED
    BY <1>1, <2>1, <2>2, <2>3, CastingStarts DEF ConnInv
<1>5. Exits'
  BY <1>1 DEF ConnInv, Exits, NoLineAfterExit
<1>6. OwnerRoom'
  BY <1>1, OwnerKept DEF ConnInv
<1> QED
  BY <1>3, <1>4, <1>5, <1>6 DEF ConnInv

LEMMA AdmitConns ==
  ASSUME TypeOK, TypeOK', ConnInv, Admit
  PROVE  ConnInv'
<1> DEFINE c == listener.conn
<1>1. /\ listener.at \in {"admit", "send"} /\ listener' = [at |-> "accept", conn |-> None]
      /\ connected' = Append(connected, c) /\ Goto(c, "greet")
      /\ UNCHANGED <<process, open, backlog, toClient, mode, visits>>
  BY DEF Admit, Goto, streams, clients
<1>2. c \in Conns /\ thread[c].at = "off" /\ c \notin ToSet(backlog)
  BY <1>1 DEF ConnInv, Admission, TypeOK, Waits
<1> HIDE DEF c
<1>3. /\ thread'[c].at = "greet" /\ \A d \in Conns : d # c => thread'[d] = thread[d]
  BY <1>1, <1>2, GotoFacts DEF Places
<1>4. c \notin ToSet(connected)
  BY <1>2 DEF ConnInv, Admission
<1>5. ToSet(connected') = ToSet(connected) \cup {c}
  BY <1>1, <1>2, ListFacts, AppendSet
<1>6. IsInjective(connected')
  <2> DEFINE n == Len(connected)
  <2>1. /\ connected \in Seq(Conns) /\ n \in Nat /\ Len(connected') = n + 1
        /\ connected'[n + 1] = c /\ \A i \in 1 .. n : connected'[i] = connected[i]
    BY <1>1, <1>2, ListFacts, AppendProperties
  <2>2. DOMAIN connected = 1 .. n /\ DOMAIN connected' = 1 .. n + 1
    BY <2>1, LenProperties DEF TypeOK
  <2>3. \A i \in 1 .. n : connected[i] # c
    BY <1>4, <2>1, SetOfList
  <2>4. \A i, j \in 1 .. n : connected[i] = connected[j] => i = j
    BY <2>2 DEF ConnInv, Admission, IsInjective
  <2> HIDE DEF n
  <2>5. ASSUME NEW i \in 1 .. n + 1, NEW j \in 1 .. n + 1, connected'[i] = connected'[j]
        PROVE  i = j
    <3>1. CASE i = n + 1 \/ j = n + 1
      BY <2>1, <2>3, <2>5, <3>1
    <3>2. CASE i # n + 1 /\ j # n + 1
      <4>1. i \in 1 .. n /\ j \in 1 .. n
        BY <2>1, <3>2
      <4> QED
        BY <2>1, <2>4, <2>5, <4>1
    <3> QED
      BY <3>1, <3>2
  <2> QED
    BY <2>2, <2>5 DEF IsInjective
<1>7. \A d \in Conns : Waits(d)' => Waits(d) /\ d # c
  BY <1>1, <1>2, ConnFacts DEF Waits
<1>8. Admission'
  <2>1. \A d \in ToSet(connected') : thread'[d].at \notin {"off", "bye", "end"}
    <3>1. ToSet(connected) \subseteq Conns
      BY ListFacts
    <3> QED
      BY <1>3, <1>5, <3>1 DEF ConnInv, Admission
  <2>2. \A d \in Conns : Waits(d)' => thread'[d].at = "off"
    BY <1>3, <1>7 DEF ConnInv, Admission
  <2>3. \A d \in Conns : Waits(d)' \/ thread'[d].at # "off" => d[2] <= visits[Name(d)]
    BY <1>1, <1>2, <1>3, <1>7 DEF ConnInv, Admission, Waits, c
  <2>4. listener'.conn \notin ToSet(backlog')
    BY <1>1, ListFacts, SetOfList, NoneAssumption
  <2> QED
    BY <1>1, <1>6, <2>1, <2>2, <2>3, <2>4 DEF ConnInv, Admission
<1>9. Casting'
  <2>1. CASE UNCHANGED <<connMux, cast>>
    BY <1>1, <1>3, <2>1 DEF ConnInv, Casting
  <2>2. CASE listener.at = "send" /\ Unlock(Listener) /\ Finish(Listener)
    <3>1. connMux = Listener /\ Listener \in Threads
      BY <2>2, ConnFacts DEF ConnInv, Casting
    <3>2. \A d \in Conns : thread[d].at \notin {"send", "bye"}
      BY <3>1, ConnFacts DEF ConnInv, Casting
    <3>3. \A d \in Conns : thread'[d].at \notin {"send", "bye"}
      BY <1>3, <3>2
    <3>4. \A u \in Threads : cast'[u].frame = None
      BY <2>2, <3>1, FinishFacts DEF ConnInv, Casting
    <3> QED
      BY <1>1, <3>3, <3>4 DEF Casting
  <2> QED
    BY <2>1, <2>2 DEF Admit
<1>10. Exits'
  BY <1>1, <1>2, <1>3, <1>5, ExitsKept DEF ConnInv, Obeys
<1>11. OwnerRoom'
  BY <1>1, OwnerKept DEF ConnInv
<1> QED
  BY <1>8, <1>9, <1>10, <1>11 DEF ConnInv

LEMMA ListenConns ==
  ASSUME TypeOK, TypeOK', ConnInv, Listen
  PROVE  ConnInv'
BY AcceptConns, StopConns, AnnounceConns, AdmitConns, BroadcastConns, ConnFacts DEF Listen

\* A client's step that is not a connect changes nothing for the server.
LEMMA ClientKept ==
  ASSUME ConnInv, UNCHANGED <<server, backlog, toClient, visits, process>>,
         process = "up" => UNCHANGED open /\ mode'[Owner] = mode[Owner]
  PROVE  ConnInv'
<1>1. UNCHANGED <<listener, connected, connMux, cast, thread, backlog, toClient, visits>>
  BY DEF server
<1>2. Admission'
  BY <1>1 DEF ConnInv, Admission, Waits
<1>3. Casting'
  BY <1>1 DEF ConnInv, Casting
<1>4. Exits'
  BY <1>1 DEF ConnInv, Exits, NoLineAfterExit
<1>5. OwnerRoom'
  BY <1>1 DEF ConnInv, OwnerRoom
<1> QED
  BY <1>2, <1>3, <1>4, <1>5 DEF ConnInv

\* The owner's client does not leave its room behind.
LEMMA OwnerMode ==
  ASSUME ConnInv, UNCHANGED <<server, backlog, toClient, visits, process, open>>,
         mode[Owner] \notin {"bbs", "closing"}, mode'[Owner] # "closing"
  PROVE  ConnInv'
<1>1. UNCHANGED <<listener, connected, connMux, cast, thread, backlog, toClient, visits>>
  BY DEF server
<1>2. Admission'
  BY <1>1 DEF ConnInv, Admission, Waits
<1>3. Casting'
  BY <1>1 DEF ConnInv, Casting
<1>4. Exits'
  BY <1>1 DEF ConnInv, Exits, NoLineAfterExit
<1>5. OwnerRoom'
  BY <1>1 DEF ConnInv, OwnerRoom
<1> QED
  BY <1>2, <1>3, <1>4, <1>5 DEF ConnInv

LEMMA ConnectConns ==
  ASSUME TypeOK, TypeOK', ConnInv, NEW m \in Members, Connect(m)
  PROVE  ConnInv'
<1> DEFINE c == <<m, visits[m] + 1>>
           n == Len(backlog)
<1>1. /\ process = "up" /\ mode[m] = "bbs" /\ (m = Owner => open) /\ listener.at # "off"
      /\ visits[m] < MaxVisits /\ visits' = [visits EXCEPT ![m] = @ + 1]
      /\ backlog' = Append(backlog, c) /\ mode' = [mode EXCEPT ![m] = "joining"]
      /\ UNCHANGED <<process, open, listener, connected, connMux, cast, thread, toClient>>
  BY DEF Connect, server, streams
<1>2. visits \in [Members -> 0 .. MaxVisits] /\ MaxVisits \in Nat
  BY ChatRoomAssumption DEF TypeOK
<1>3. visits[m] \in 0 .. MaxVisits /\ visits[m] + 1 \in 1 .. MaxVisits
  BY <1>1, <1>2
<1>4. c \in Conns /\ Name(c) = m /\ c[2] = visits[m] + 1
  BY <1>3 DEF Conns, Name
<1>5. c \in Threads /\ c # Listener /\ c # None
  BY <1>4, ConnFacts
<1> HIDE DEF c
<1>6. ~Waits(c) /\ thread[c].at = "off"
  <2>1. ~(c[2] <= visits[Name(c)])
    BY <1>3, <1>4
  <2> QED
    BY <1>4, <2>1 DEF ConnInv, Admission
<1>7. ToSet(backlog') = ToSet(backlog) \cup {c}
  BY <1>1, <1>5, ListFacts, AppendSet
<1>8. \A d \in Conns : Waits(d)' <=> Waits(d) \/ d = c
  BY <1>1, <1>7 DEF Waits
<1>9. \A i, j \in 1 .. Len(backlog') :
        backlog'[i] = backlog'[j] /\ backlog'[i] # Listener => i = j
  <2>1. /\ n \in Nat /\ Len(backlog') = n + 1 /\ backlog'[n + 1] = c
        /\ \A i \in 1 .. n : backlog'[i] = backlog[i]
    BY <1>1, <1>5, ListFacts, AppendProperties
  <2>2. \A i \in 1 .. n : backlog[i] # c
    BY <1>6, ListFacts, SetOfList DEF Waits
  <2>3. \A i, j \in 1 .. n : backlog[i] = backlog[j] /\ backlog[i] # Listener => i = j
    BY DEF ConnInv, Admission
  <2> HIDE DEF n
  <2> SUFFICES ASSUME NEW i \in 1 .. n + 1, NEW j \in 1 .. n + 1,
                      backlog'[i] = backlog'[j], backlog'[i] # Listener
               PROVE  i = j
    BY <2>1
  <2>4. CASE i = n + 1 \/ j = n + 1
    BY <2>1, <2>2, <2>4
  <2>5. CASE i # n + 1 /\ j # n + 1
    <3>1. i \in 1 .. n /\ j \in 1 .. n
      BY <2>1, <2>5
    <3> QED
      BY <2>1, <2>3, <3>1
  <2> QED
    BY <2>4, <2>5
<1>10. listener.conn \notin ToSet(backlog')
  BY <1>6, <1>7 DEF ConnInv, Admission, Waits
<1>11. \A d \in Conns : d[2] <= visits[Name(d)] => d[2] <= visits'[Name(d)]
  <2> SUFFICES ASSUME NEW d \in Conns, d[2] <= visits[Name(d)] PROVE d[2] <= visits'[Name(d)]
    OBVIOUS
  <2>1. Name(d) \in Members /\ d[2] \in 1 .. MaxVisits
    BY ConnFacts
  <2>2. visits[Name(d)] \in 0 .. MaxVisits
    BY <1>2, <2>1
  <2>3. visits'[Name(d)] = IF Name(d) = m THEN visits[m] + 1 ELSE visits[Name(d)]
    BY <1>1, <1>2, <2>1
  <2> QED
    BY <1>3, <2>1, <2>2, <2>3
<1>12. c[2] <= visits'[Name(c)]
  BY <1>1, <1>2, <1>3, <1>4
<1>13. Admission'
  BY <1>1, <1>6, <1>8, <1>9, <1>10, <1>11, <1>12 DEF ConnInv, Admission
<1>14. Casting'
  BY <1>1 DEF ConnInv, Casting
<1>15. Exits'
  BY <1>1 DEF ConnInv, Exits, NoLineAfterExit
<1>16. OwnerRoom'
  <2>1. Listener \in ToSet(backlog') <=> Listener \in ToSet(backlog)
    BY <1>5, <1>7
  <2>2. CASE m = Owner
    BY <1>1, <2>1, <2>2, ConnFacts DEF ConnInv, OwnerRoom, TypeOK
  <2>3. CASE m # Owner
    BY <1>1, <2>1, <2>3, OwnerKept DEF ConnInv
  <2> QED
    BY <2>2, <2>3
<1> QED
  BY <1>13, <1>14, <1>15, <1>16 DEF ConnInv

LEMMA UseConns ==
  ASSUME TypeOK, TypeOK', ConnInv, NEW m \in Members, Use(m) \/ SendJoin(m)
  PROVE  ConnInv'
<1>0. mode \in [Members -> Modes]
  BY DEF TypeOK, Modes
<1>1. CASE Type(m)
  BY <1>1, ClientKept DEF Type
<1>2. ASSUME mode[m] \in {"chat", "joining"},
             mode' = [mode EXCEPT ![m] = "leaving"] \/ mode' = [mode EXCEPT ![m] = "chat"]
             \/ UNCHANGED mode,
             UNCHANGED <<server, backlog, toClient, visits, process, open>>
      PROVE  ConnInv'
  <2>1. CASE m = Owner
    BY <1>0, <1>2, <2>1, OwnerMode
  <2>2. CASE m # Owner
    BY <1>0, <1>2, <2>2, ConnFacts, ClientKept
  <2> QED
    BY <2>1, <2>2
<1>3. CASE LeaveRoom(m)
  BY <1>2, <1>3 DEF LeaveRoom, Command
<1>4. CASE Detach(m)
  BY <1>2, <1>4 DEF Detach, Command
<1>5. CASE SendJoin(m)
  BY <1>2, <1>5 DEF SendJoin
<1> QED
  BY <1>1, <1>3, <1>4, <1>5, ConnectConns DEF Use

LEMMA ReceiveConns ==
  ASSUME TypeOK, TypeOK', ConnInv, NEW m \in Members, Receive(m) \/ (m # Owner /\ Die(m))
  PROVE  ConnInv'
<1>0. mode \in [Members -> Modes] /\ Owner \in Members
  BY ConnFacts DEF TypeOK, Modes
<1>1. CASE Return(m) \/ Stick(m)
  <2>1. /\ mode[m] \in {"joining", "chat", "leaving"}
        /\ mode' = [mode EXCEPT ![m] = "bbs"] \/ mode' = [mode EXCEPT ![m] = "stuck"]
        /\ UNCHANGED <<server, backlog, toClient, visits, process, open>>
    BY <1>1 DEF Return, Stick, InRoom, streams
  <2>2. CASE m = Owner
    BY <1>0, <2>1, <2>2, OwnerMode
  <2>3. CASE m # Owner
    BY <1>0, <2>1, <2>3, ClientKept
  <2> QED
    BY <2>2, <2>3
<1>2. CASE CloseStatus
  <2>1. /\ mode[Owner] \in {"chat", "leaving"} /\ open' = FALSE
        /\ mode' = [mode EXCEPT ![Owner] = "closing"]
        /\ UNCHANGED <<process, listener, connected, connMux, cast, thread, backlog, toClient,
                       visits>>
    BY <1>2 DEF CloseStatus, StatusClosed, InRoom, server, streams
  <2>2. Admission'
    BY <2>1 DEF ConnInv, Admission, Waits
  <2>3. Casting'
    BY <2>1 DEF ConnInv, Casting
  <2>4. Exits'
    BY <2>1 DEF ConnInv, Exits, NoLineAfterExit
  <2>5. OwnerRoom'
    BY <1>0, <2>1 DEF ConnInv, OwnerRoom
  <2> QED
    BY <2>2, <2>3, <2>4, <2>5 DEF ConnInv
<1>3. CASE CloseServer
  <2> DEFINE n == Len(backlog)
  <2>1. /\ mode[Owner] = "closing" /\ mode' = [mode EXCEPT ![Owner] = "bbs"]
        /\ backlog' = Append(backlog, Listener)
        /\ UNCHANGED <<process, open, listener, connected, connMux, cast, thread, toClient,
                       visits>>
    BY <1>3 DEF CloseServer, server
  <2>2. ToSet(backlog') = ToSet(backlog) \cup {Listener}
    BY <2>1, ListFacts, ConnFacts, AppendSet
  <2>3. \A i, j \in 1 .. Len(backlog') :
          backlog'[i] = backlog'[j] /\ backlog'[i] # Listener => i = j
    <3>1. /\ n \in Nat /\ Len(backlog') = n + 1 /\ backlog'[n + 1] = Listener
          /\ \A i \in 1 .. n : backlog'[i] = backlog[i]
      BY <2>1, ListFacts, ConnFacts, AppendProperties
    <3>2. \A i, j \in 1 .. n : backlog[i] = backlog[j] /\ backlog[i] # Listener => i = j
      BY DEF ConnInv, Admission
    <3> HIDE DEF n
    <3> SUFFICES ASSUME NEW i \in 1 .. n + 1, NEW j \in 1 .. n + 1,
                        backlog'[i] = backlog'[j], backlog'[i] # Listener
                 PROVE  i = j
      BY <3>1
    <3>3. i # n + 1 /\ j # n + 1
      BY <3>1
    <3>4. i \in 1 .. n /\ j \in 1 .. n
      BY <3>1, <3>3
    <3> QED
      BY <3>1, <3>2, <3>4
  <2>4. \A c \in Conns : Waits(c)' <=> Waits(c)
    BY <2>1, <2>2, ConnFacts DEF Waits
  <2>5. listener.conn # Listener
    BY ConnFacts, NoneAssumption DEF TypeOK
  <2>6. Admission'
    BY <2>1, <2>2, <2>3, <2>4, <2>5 DEF ConnInv, Admission
  <2>7. Casting'
    BY <2>1 DEF ConnInv, Casting
  <2>8. Exits'
    BY <2>1 DEF ConnInv, Exits, NoLineAfterExit
  <2>9. OwnerRoom'
    BY <1>0, <2>1 DEF ConnInv, OwnerRoom
  <2> QED
    BY <2>6, <2>7, <2>8, <2>9 DEF ConnInv
<1>4. CASE m # Owner /\ Die(m)
  BY <1>0, <1>4, ClientKept DEF Die
<1> QED
  BY <1>1, <1>2, <1>3, <1>4 DEF Receive

LEMMA ReopenConns ==
  ASSUME TypeOK, TypeOK', ConnInv, Reopen
  PROVE  ConnInv'
<1>1. /\ process = "up" /\ mode[Owner] = "bbs" /\ open' = TRUE
      /\ \/ /\ listener.at = "off" /\ listener' = [at |-> "accept", conn |-> None]
            /\ UNCHANGED <<process, mode>>
         \/ process' = "gone" /\ UNCHANGED listener
      /\ UNCHANGED <<backlog, connected, connMux, cast, thread, toClient, visits>>
  BY DEF Reopen, streams
<1>2. listener'.conn = listener.conn /\ (listener'.at = listener.at \/ listener'.at = "accept")
      /\ (listener'.at # listener.at => listener.at = "off")
  BY <1>1 DEF ConnInv, Admission
<1>3. Admission'
  BY <1>1, <1>2 DEF ConnInv, Admission, Waits
<1>4. Casting'
  BY <1>1, <1>2 DEF ConnInv, Casting
<1>5. Exits'
  BY <1>1 DEF ConnInv, Exits, NoLineAfterExit
<1>6. OwnerRoom'
  BY <1>1 DEF ConnInv, OwnerRoom
<1> QED
  BY <1>3, <1>4, <1>5, <1>6 DEF ConnInv

LEMMA StepConns ==
  ASSUME TypeOK, TypeOK', ConnInv, Posting, [Next]_vars
  PROVE  ConnInv'
<1>1. CASE UNCHANGED vars
  <2>1. UNCHANGED <<server, backlog, toClient, visits, process>> /\ UNCHANGED open
        /\ mode'[Owner] = mode[Owner]
    BY <1>1 DEF vars, streams, clients
  <2> QED
    BY <2>1, ClientKept
<1>2. CASE \E g \in Mortal : Die(g)
  <2>1. Mortal \subseteq Members /\ Owner \notin Mortal
    BY ChatRoomAssumption DEF Members
  <2> QED
    BY <1>2, <2>1, ReceiveConns
<1>3. ASSUME NEW m \in Members, Use(m) \/ SendJoin(m) \/ Receive(m)
      PROVE  ConnInv'
  <2>1. CASE Use(m) \/ SendJoin(m)
    BY <2>1, UseConns
  <2>2. CASE Receive(m)
    BY <2>2, ReceiveConns
  <2> QED
    BY <1>3, <2>1, <2>2
<1>4. ASSUME NEW c \in Conns, Serve(c)
      PROVE  ConnInv'
  BY <1>4, ServeConns
<1> QED
  BY <1>1, <1>2, <1>3, <1>4, ListenConns, ReopenConns DEF Next

LEMMA InitConns == Init => ConnInv
<1> SUFFICES ASSUME Init PROVE ConnInv
  OBVIOUS
<1>1. /\ listener = [at |-> "accept", conn |-> None] /\ backlog = <<>>
      /\ connected = <<<<Owner, 1>>>> /\ open = TRUE /\ mode[Owner] = "chat"
  BY ConnFacts DEF Init
<1>2. ToSet(backlog) = {} /\ Len(backlog) = 0 /\ ToSet(connected) = {<<Owner, 1>>}
      /\ IsInjective(connected)
  BY <1>1 DEF ToSet, IsInjective
<1>3. <<Owner, 1>> \in Conns /\ Name(<<Owner, 1>>) = Owner
  BY ChatRoomAssumption DEF Conns, Members, Name
<1>4. \A c \in Conns : thread[c].at = IF c = <<Owner, 1>> THEN "loop" ELSE "off"
  BY DEF Init
<1>5. visits[Owner] = 1
  BY ConnFacts DEF Init
<1>6. \A c \in Conns : ~Waits(c)
  BY <1>1, <1>2, ConnFacts DEF Waits
<1>7. Admission
  <2>1. \A c \in Conns : Waits(c) \/ thread[c].at # "off" => c[2] <= visits[Name(c)]
    BY <1>3, <1>4, <1>5, <1>6
  <2> QED
    BY <1>1, <1>2, <1>3, <1>4, <1>6, <2>1 DEF Admission
<1>8. Casting
  BY <1>1, <1>4 DEF Init, Casting
<1>9. \A c \in Conns : \A i \in 1 .. Len(toClient[c]) : toClient[c][i].type # "exit"
  <2>1. ASSUME NEW c \in Conns, c # <<Owner, 1>>, NEW i \in 1 .. Len(toClient[c])
        PROVE  FALSE
    BY <2>1, EmptySeq DEF Init
  <2>2. ASSUME NEW i \in 1 .. 2 PROVE <<Half, Greeting(<<>>)>>[i].type # "exit"
    BY FrameTypes
  <2>3. toClient[<<Owner, 1>>] = <<Half, Greeting(<<>>)>>
    BY <1>3 DEF Init
  <2> QED
    BY <2>1, <2>2, <2>3
<1>10. Exits
  BY <1>9 DEF Exits, NoLineAfterExit
<1>11. OwnerRoom
  BY <1>1, <1>2 DEF OwnerRoom
<1> QED
  BY <1>7, <1>8, <1>10, <1>11 DEF ConnInv

-----------------------------------------------------------------------------
(* The numbers of the lines.                                               *)

\* A number is on its way to the server, or said, once: taking frames off the
\* streams and adding frames that are not lines keeps that.
LEMMA NumbersKept ==
  ASSUME TypeOK, TypeOK', Numbers, said' = said, typed' >= typed, NEW s \in [Conns -> {0, 1}],
         \A c \in Conns : \A i \in 1 .. Len(toServer'[c]) :
           toServer'[c][i].type = "line" =>
             i + s[c] \in 1 .. Len(toServer[c]) /\ toServer'[c][i] = toServer[c][i + s[c]]
  PROVE  Numbers'
<1>1. typed \in Nat /\ typed' \in Nat /\ said \in Seq(Records)
  BY ChatRoomAssumption DEF TypeOK
<1>2. \A n \in 1 .. Len(said) : said[n].number \in Nat
  BY <1>1, ElementOfSeq, LineFacts
<1>3. \A n \in 1 .. Len(said') :
        said'[n].number <= typed' /\ \A k \in 1 .. Len(said') : said'[n].number = said'[k].number => n = k
  BY <1>1, <1>2 DEF Numbers
<1>4. ASSUME NEW c \in Conns, NEW i \in 1 .. Len(toServer'[c]), toServer'[c][i].type = "line"
      PROVE  /\ toServer'[c][i].number <= typed'
             /\ \A n \in 1 .. Len(said') : said'[n].number # toServer'[c][i].number
             /\ \A d \in Conns : \A j \in 1 .. Len(toServer'[d]) :
                  toServer'[d][j].type = "line" /\ toServer'[d][j].number = toServer'[c][i].number =>
                    d = c /\ j = i
  <2> DEFINE k == i + s[c]
  <2>1. k \in 1 .. Len(toServer[c]) /\ toServer'[c][i] = toServer[c][k]
    BY <1>4
  <2>2. toServer[c][k].type = "line"
    BY <1>4, <2>1
  <2>3. toServer[c][k].number \in Nat
    BY <2>1, <2>2, ElementOfSeq, TypedFacts DEF TypeOK
  <2>4. /\ toServer[c][k].number <= typed
        /\ \A n \in 1 .. Len(said) : said[n].number # toServer[c][k].number
    BY <2>1, <2>2 DEF Numbers
  <2>5. ASSUME NEW d \in Conns, NEW j \in 1 .. Len(toServer'[d]), toServer'[d][j].type = "line",
               toServer'[d][j].number = toServer'[c][i].number
        PROVE  d = c /\ j = i
    <3>1. j + s[d] \in 1 .. Len(toServer[d]) /\ toServer'[d][j] = toServer[d][j + s[d]]
      BY <2>5
    <3>2. d = c /\ j + s[d] = k
      BY <2>1, <2>2, <2>5, <3>1, SMTT(30) DEF Numbers
    <3>3. i \in Int /\ j \in Int /\ s[c] \in Int
      OBVIOUS
    <3> QED
      BY <3>2, <3>3
  <2> QED
    BY <1>1, <2>1, <2>3, <2>4, <2>5
<1> QED
  BY <1>3, <1>4 DEF Numbers

\* What was on its way before the server's read.
LEMMA ReadIndex ==
  ASSUME TypeOK, NEW c \in Conns, toServer[c] # <<>>, Read(c), NEW d \in Conns,
         NEW i \in 1 .. Len(toServer'[d])
  PROVE  \E k \in 1 .. Len(toServer[d]) :
           toServer'[d][i] = toServer[d][k] /\ k = (IF d = c THEN i + 1 ELSE i)
<1>1. CASE d = c
  <2> DEFINE n == Len(toServer[c])
  <2>1. toServer[c] \in Seq(ToBeRead) /\ toServer'[c] = Tail(toServer[c])
    BY ReadFacts DEF TypeOK
  <2>2. /\ n \in Nat \ {0} /\ Len(toServer'[c]) = n - 1
        /\ \A j \in 1 .. n - 1 : toServer'[c][j] = toServer[c][j + 1]
    BY <2>1, TailIndex
  <2> HIDE DEF n
  <2>3. i \in 1 .. n - 1 /\ i + 1 \in 1 .. n
    BY <1>1, <2>2
  <2> QED
    BY <1>1, <2>2, <2>3 DEF n
<1>2. CASE d # c
  BY <1>2, ReadFacts
<1> QED
  BY <1>1, <1>2

LEMMA NumbersRead ==
  ASSUME TypeOK, TypeOK', Numbers, NEW c \in Conns, toServer[c] # <<>>, Read(c),
         UNCHANGED <<said, typed>>
  PROVE  Numbers'
<1> DEFINE s == [d \in Conns |-> IF d = c THEN 1 ELSE 0]
<1>1. s \in [Conns -> {0, 1}]
  OBVIOUS
<1>2. ASSUME NEW d \in Conns, NEW i \in 1 .. Len(toServer'[d])
      PROVE  i + s[d] \in 1 .. Len(toServer[d]) /\ toServer'[d][i] = toServer[d][i + s[d]]
  <2>1. PICK k \in 1 .. Len(toServer[d]) :
          toServer'[d][i] = toServer[d][k] /\ k = (IF d = c THEN i + 1 ELSE i)
    BY ReadIndex
  <2>2. k = i + s[d]
    BY <2>1
  <2> QED
    BY <2>1, <2>2
<1>3. typed' >= typed
  BY DEF TypeOK
<1> HIDE DEF s
<1> QED
  BY <1>1, <1>2, <1>3, NumbersKept

\* What was on its way before a client's write.
LEMMA WriteIndex ==
  ASSUME TypeOK, NEW c, NEW w \in ToBeRead, Write(c, w), NEW d \in Conns, NEW i \in 1 .. Len(toServer'[d])
  PROVE  \/ i \in 1 .. Len(toServer[d]) /\ toServer'[d][i] = toServer[d][i]
         \/ d = c /\ i = Len(toServer[d]) + 1 /\ toServer'[d][i] = w
<1>1. toServer[d] \in Seq(ToBeRead) /\ Len(toServer[d]) \in Nat
  BY LenProperties DEF TypeOK
<1>2. CASE d = c
  <2> DEFINE n == Len(toServer[c])
  <2>1. /\ Len(toServer'[c]) = n + 1 /\ toServer'[c][n + 1] = w
        /\ \A j \in 1 .. n : toServer'[c][j] = toServer[c][j]
    <3>1. toServer'[c] = Append(toServer[c], w) /\ toServer[c] \in Seq(ToBeRead)
      BY <1>1, <1>2, WriteFacts
    <3> QED
      BY <3>1, AppendProperties
  <2>2. i \in 1 .. n \/ i = n + 1
    BY <1>1, <1>2, <2>1
  <2> QED
    BY <1>2, <2>1, <2>2
<1>3. CASE d # c
  BY <1>1, <1>3, WriteFacts
<1> QED
  BY <1>2, <1>3

LEMMA NumbersWrite ==
  ASSUME TypeOK, TypeOK', Numbers, NEW c, NEW w \in ToBeRead, w.type # "line", Write(c, w),
         said' = said, typed' >= typed
  PROVE  Numbers'
<1> DEFINE s == [d \in Conns |-> 0]
<1>1. s \in [Conns -> {0, 1}]
  OBVIOUS
<1>2. ASSUME NEW d \in Conns, NEW i \in 1 .. Len(toServer'[d]), toServer'[d][i].type = "line"
      PROVE  i + s[d] \in 1 .. Len(toServer[d]) /\ toServer'[d][i] = toServer[d][i + s[d]]
  BY <1>2, WriteIndex
<1> HIDE DEF s
<1> QED
  BY <1>1, <1>2, NumbersKept

LEMMA NumbersType ==
  ASSUME TypeOK, TypeOK', Numbers, NEW c, Write(c, [type |-> "line", number |-> typed']),
         typed' = typed + 1, typed' \in 1 .. MaxSaid, said' = said
  PROVE  Numbers'
<1> DEFINE w == [type |-> "line", number |-> typed']
<1>1. typed \in Nat /\ typed' \in Nat /\ said \in Seq(Records) /\ w \in ToBeRead
      /\ w.type = "line" /\ w.number = typed'
  BY ChatRoomAssumption, WritableFacts DEF TypeOK
<1>2. \A n \in 1 .. Len(said) : said[n].number \in Nat
  BY <1>1, ElementOfSeq, LineFacts
<1>3. \A n \in 1 .. Len(said') :
        said'[n].number <= typed' /\ \A k \in 1 .. Len(said') : said'[n].number = said'[k].number => n = k
  BY <1>1, <1>2 DEF Numbers
<1> HIDE DEF w
<1>4. ASSUME NEW d \in Conns, NEW i \in 1 .. Len(toServer'[d]), toServer'[d][i].type = "line"
      PROVE  \/ /\ i \in 1 .. Len(toServer[d]) /\ toServer'[d][i] = toServer[d][i]
                /\ toServer'[d][i].number \in Nat /\ toServer'[d][i].number <= typed
             \/ d = c /\ i = Len(toServer[d]) + 1 /\ toServer'[d][i].number = typed'
  <2>1. CASE i \in 1 .. Len(toServer[d]) /\ toServer'[d][i] = toServer[d][i]
    <3>1. toServer[d][i].number \in Nat
      BY <1>4, <2>1, ElementOfSeq, TypedFacts DEF TypeOK
    <3> QED
      BY <1>4, <2>1, <3>1 DEF Numbers
  <2> QED
    BY <1>1, <1>4, <2>1, WriteIndex DEF w
<1>5. ASSUME NEW d \in Conns, NEW i \in 1 .. Len(toServer'[d]), toServer'[d][i].type = "line"
      PROVE  /\ toServer'[d][i].number <= typed'
             /\ \A n \in 1 .. Len(said') : said'[n].number # toServer'[d][i].number
             /\ \A e \in Conns : \A j \in 1 .. Len(toServer'[e]) :
                  toServer'[e][j].type = "line" /\ toServer'[e][j].number = toServer'[d][i].number =>
                    e = d /\ j = i
  <2>1. \A n \in 1 .. Len(said) : said[n].number <= typed
    BY DEF Numbers
  <2>2. CASE i \in 1 .. Len(toServer[d]) /\ toServer'[d][i] = toServer[d][i]
             /\ toServer'[d][i].number \in Nat /\ toServer'[d][i].number <= typed
    <3>1. \A n \in 1 .. Len(said) : said[n].number # toServer'[d][i].number
      BY <1>5, <2>2 DEF Numbers
    <3>2. ASSUME NEW e \in Conns, NEW j \in 1 .. Len(toServer'[e]), toServer'[e][j].type = "line",
                 toServer'[e][j].number = toServer'[d][i].number
          PROVE  e = d /\ j = i
      <4>1. j \in 1 .. Len(toServer[e]) /\ toServer'[e][j] = toServer[e][j]
        BY <1>1, <1>4, <2>2, <3>2, SMTT(30)
      <4> QED
        BY <1>5, <2>2, <3>2, <4>1 DEF Numbers
    <3> QED
      BY <1>1, <2>2, <3>1, <3>2
  <2>3. CASE d = c /\ i = Len(toServer[d]) + 1 /\ toServer'[d][i].number = typed'
    <3>1. \A n \in 1 .. Len(said) : said[n].number # typed'
      BY <1>1, <1>2, <2>1
    <3>2. ASSUME NEW e \in Conns, NEW j \in 1 .. Len(toServer'[e]), toServer'[e][j].type = "line",
                 toServer'[e][j].number = typed'
          PROVE  e = c /\ j = Len(toServer[c]) + 1
      BY <1>1, <1>4, <3>2
    <3> QED
      BY <1>1, <2>3, <3>1, <3>2
  <2> QED
    BY <1>4, <1>5, <2>2, <2>3
<1> QED
  BY <1>3, <1>5 DEF Numbers

\* The line that is recorded is a new one.
LEMMA RecordNumber ==
  ASSUME TypeOK, Numbers, NEW c \in Conns, Record(c)
  PROVE  /\ toServer[c] # <<>> /\ 1 \in 1 .. Len(toServer[c]) /\ Read(c)
         /\ toServer[c][1].type = "line" /\ NextCommand(c) = toServer[c][1]
         /\ NextCommand(c).number \in Nat /\ NextCommand(c).number <= typed
         /\ \A n \in 1 .. Len(said) : said[n].number # NextCommand(c).number
<1>1. toServer[c] # <<>> /\ Read(c) /\ NextCommand(c).type = "line"
  BY DEF Record, Reading
<1>2. NextCommand(c) = toServer[c][1] /\ 1 \in 1 .. Len(toServer[c]) /\ NextCommand(c) \in ToBeRead
  BY <1>1, ReadFacts
<1> QED
  BY <1>1, <1>2, TypedFacts DEF Numbers

LEMMA NumbersRecord ==
  ASSUME TypeOK, TypeOK', Numbers, NEW c \in Conns, Record(c)
  PROVE  Numbers'
<1> DEFINE n == Len(said)
           w == NextCommand(c)
<1>1. PICK r \in Records : r.number = w.number /\ said' = Append(said, r)
  BY RecordFacts
<1>2. said \in Seq(Records) /\ n \in Nat /\ typed \in Nat /\ typed' = typed
  BY LenProperties DEF TypeOK, Record, clients
<1>3. Len(said') = n + 1 /\ said'[n + 1] = r /\ \A k \in 1 .. n : said'[k] = said[k]
  BY <1>1, <1>2, AppendProperties
<1>4. /\ toServer[c] # <<>> /\ 1 \in 1 .. Len(toServer[c]) /\ Read(c)
      /\ toServer[c][1].type = "line" /\ w = toServer[c][1]
      /\ w.number \in Nat /\ w.number <= typed
      /\ \A k \in 1 .. n : said[k].number # w.number
  BY RecordNumber
<1>5. \A k \in 1 .. n : said[k].number <= typed /\ \A j \in 1 .. n : said[k].number = said[j].number => k = j
  BY DEF Numbers
<1> HIDE DEF n
<1>6. \A k \in 1 .. n + 1 :
        said'[k].number <= typed /\ \A j \in 1 .. n + 1 : said'[k].number = said'[j].number => k = j
  <2> SUFFICES ASSUME NEW k \in 1 .. n + 1
               PROVE  /\ said'[k].number <= typed
                      /\ \A j \in 1 .. n + 1 : said'[k].number = said'[j].number => k = j
    OBVIOUS
  <2>1. \A j \in 1 .. n + 1 : j = n + 1 \/ j \in 1 .. n
    BY <1>2
  <2> QED
    BY <1>1, <1>3, <1>4, <1>5, <2>1
<1>7. ASSUME NEW d \in Conns, NEW i \in 1 .. Len(toServer'[d]), toServer'[d][i].type = "line"
      PROVE  \E k \in 1 .. Len(toServer[d]) :
               /\ toServer'[d][i] = toServer[d][k] /\ k = (IF d = c THEN i + 1 ELSE i)
               /\ toServer'[d][i].number # w.number
  <2>3. PICK k \in 1 .. Len(toServer[d]) :
          toServer'[d][i] = toServer[d][k] /\ k = (IF d = c THEN i + 1 ELSE i)
    BY <1>4, ReadIndex
  <2>4. d = c => k # 1
    BY <2>3
  <2>5. toServer[d][k].number # toServer[c][1].number
    BY <1>4, <1>7, <2>3, <2>4 DEF Numbers
  <2> QED
    BY <1>4, <2>3, <2>5
<1>8. ASSUME NEW d \in Conns, NEW i \in 1 .. Len(toServer'[d]), toServer'[d][i].type = "line"
      PROVE  /\ toServer'[d][i].number <= typed'
             /\ \A k \in 1 .. Len(said') : said'[k].number # toServer'[d][i].number
             /\ \A e \in Conns : \A j \in 1 .. Len(toServer'[e]) :
                  toServer'[e][j].type = "line" /\ toServer'[e][j].number = toServer'[d][i].number =>
                    e = d /\ j = i
  <2>1. PICK k \in 1 .. Len(toServer[d]) :
               /\ toServer'[d][i] = toServer[d][k] /\ k = (IF d = c THEN i + 1 ELSE i)
               /\ toServer'[d][i].number # w.number
    BY <1>7, <1>8
  <2>2. /\ toServer[d][k].number <= typed
        /\ \A j \in 1 .. n : said[j].number # toServer[d][k].number
    BY <1>8, <2>1 DEF Numbers, n
  <2>3. \A j \in 1 .. Len(said') : said'[j].number # toServer'[d][i].number
    BY <1>1, <1>2, <1>3, <2>1, <2>2
  <2>4. ASSUME NEW e \in Conns, NEW j \in 1 .. Len(toServer'[e]), toServer'[e][j].type = "line",
               toServer'[e][j].number = toServer'[d][i].number
        PROVE  e = d /\ j = i
    <3>1. PICK l \in 1 .. Len(toServer[e]) :
            toServer'[e][j] = toServer[e][l] /\ l = (IF e = c THEN j + 1 ELSE j)
      BY <1>7, <2>4
    <3>2. e = d /\ l = k
      BY <1>8, <2>1, <2>4, <3>1 DEF Numbers
    <3>3. i \in Int /\ j \in Int
      OBVIOUS
    <3> QED
      BY <2>1, <3>1, <3>2, <3>3
  <2> QED
    BY <1>2, <2>1, <2>2, <2>3, <2>4
<1> QED
  BY <1>2, <1>3, <1>6, <1>8 DEF Numbers

LEMMA NumbersSame ==
  ASSUME Numbers, UNCHANGED <<said, typed, toServer>>
  PROVE  Numbers'
BY DEF Numbers

LEMMA ServeNumbers ==
  ASSUME TypeOK, TypeOK', Numbers, NEW c \in Conns, Serve(c)
  PROVE  Numbers'
<1>1. CASE Greet(c) \/ Terminate(c) \/ Post(c) \/ Posted(c) \/ Left(c) \/ Broadcast(c)
  BY <1>1, NumbersSame
     DEF Greet, Terminate, Post, Posted, Left, Broadcast, server, streams, clients
<1>2. CASE EndOfStream(c) \/ DetachOwner(c) \/ DetachGuest(c) \/ Leave(c)
  <2>1. toServer[c] # <<>> /\ Read(c) /\ UNCHANGED <<said, typed>>
    BY <1>2 DEF EndOfStream, DetachOwner, DetachGuest, Leave, Reading, clients
  <2> QED
    BY <2>1, NumbersRead
<1>3. CASE Record(c)
  BY <1>3, NumbersRecord
<1> QED
  BY <1>1, <1>2, <1>3 DEF Serve

LEMMA ClientNumbers ==
  ASSUME TypeOK, TypeOK', Numbers, NEW m \in Members,
         Use(m) \/ SendJoin(m) \/ Receive(m) \/ Die(m)
  PROVE  Numbers'
<1>0. typed \in Int
  BY DEF TypeOK
<1>1. CASE Connect(m) \/ Stick(m) \/ CloseStatus
  BY <1>1, NumbersSame DEF Connect, Stick, CloseStatus, server, streams
<1>2. CASE Type(m)
  <2>1. /\ typed' = typed + 1 /\ typed < MaxSaid /\ said' = said
        /\ Write(Conn(m), [type |-> "line", number |-> typed'])
    BY <1>2 DEF Type, server
  <2> QED
    BY <2>1, TypedNext, NumbersType
<1>3. CASE LeaveRoom(m) \/ Detach(m) \/ SendJoin(m) \/ Die(m)
  <2>1. /\ \E a \in {"join", "leave", "detach", "end", "reset"} : Write(Conn(m), [type |-> a])
        /\ said' = said /\ (typed' = typed \/ typed' = typed + 1)
    BY <1>3, ChatRoomAssumption DEF LeaveRoom, Detach, Command, SendJoin, Die, server
  <2>2. PICK a \in {"join", "leave", "detach", "end", "reset"} : Write(Conn(m), [type |-> a])
    BY <2>1
  <2>3. typed' >= typed
    BY <1>0, <2>1
  <2> QED
    BY <2>1, <2>2, <2>3, WritableFacts, NumbersWrite
<1>4. CASE Return(m) \/ CloseServer
  <2>1. /\ \E n \in Members : Close(Conn(n))
        /\ said' = said /\ typed' = typed
    BY <1>4, ConnFacts DEF Return, CloseServer, server
  <2>2. PICK n \in Members, w \in ToBeRead : w.type # "line" /\ Write(Conn(n), w)
    BY <2>1, CloseFacts
  <2>3. typed' >= typed
    BY <1>0, <2>1
  <2> QED
    BY <2>1, <2>2, <2>3, NumbersWrite
<1> QED
  BY <1>1, <1>2, <1>3, <1>4 DEF Use, Receive

LEMMA StepNumbers ==
  ASSUME TypeOK, TypeOK', Numbers, [Next]_vars
  PROVE  Numbers'
<1>1. CASE UNCHANGED vars
  BY <1>1, NumbersSame DEF vars, server, streams, clients
<1>2. CASE Stop \/ Announce \/ Admit \/ Broadcast(Listener) \/ Reopen
  BY <1>2, NumbersSame DEF Stop, Announce, Admit, Broadcast, Reopen, streams, clients
<1>3. CASE Accept
  <2>1. Head(backlog) \in Conns
    BY <1>3, BacklogFacts, ListFacts, SetOfList, ConnFacts DEF Accept
  <2>2. toServer[Head(backlog)] # <<>> /\ Read(Head(backlog)) /\ UNCHANGED <<said, typed>>
    BY <1>3 DEF Accept, Read, clients
  <2> QED
    BY <2>1, <2>2, NumbersRead
<1>4. CASE \E g \in Mortal : Die(g)
  <2>1. Mortal \subseteq Members
    BY ChatRoomAssumption DEF Members
  <2> QED
    BY <1>4, <2>1, ClientNumbers
<1>5. CASE \E m \in Members : Use(m) \/ SendJoin(m) \/ Receive(m)
  <2>1. PICK m \in Members : Use(m) \/ SendJoin(m) \/ Receive(m)
    BY <1>5
  <2> QED
    BY <2>1, ClientNumbers
<1>6. CASE \E c \in Conns : Serve(c)
  BY <1>6, ServeNumbers
<1> QED
  BY <1>1, <1>2, <1>3, <1>4, <1>5, <1>6 DEF Next, Listen

LEMMA InitNumbers == Init => Numbers
<1> SUFFICES ASSUME Init PROVE Numbers
  OBVIOUS
<1>1. Len(said) = 0 /\ \A c \in Conns : Len(toServer[c]) = 0
  BY EmptySeq DEF Init
<1> QED
  BY <1>1 DEF Numbers

-----------------------------------------------------------------------------
(* The order of the lines.                                                 *)

LinesInv == Recorded /\ Posting /\ Sending /\ SameOrder

LEMMA ClientList ==
  ASSUME TypeOK, NEW c \in Conns
  PROVE  /\ toClient[c] \in Seq(Frames) /\ Len(toClient[c]) \in Nat
         /\ \A f : f \in ToSet(toClient[c]) <=> \E i \in 1 .. Len(toClient[c]) : toClient[c][i] = f
BY SetOfList, LenProperties DEF TypeOK

LEMMA SaidFacts ==
  ASSUME TypeOK
  PROVE  /\ said \in Seq(Records) /\ Len(said) \in Nat /\ ToSet(said) \subseteq Records
         /\ \A l : l \in ToSet(said) <=> \E n \in 1 .. Len(said) : said[n] = l
BY SetOfList, LenProperties DEF TypeOK

\* A line that is before or after another was sent.
LEMMA BeforeIn ==
  ASSUME TypeOK, NEW c \in Conns, NEW l, NEW k, Before(c, l, k)
  PROVE  l \in ToSet(toClient[c]) /\ k \in ToSet(toClient[c])
<1>1. PICK j \in 1 .. Len(toClient[c]) :
        toClient[c][j] = k /\ \E i \in 1 .. j - 1 : toClient[c][i] = l
  BY DEF Before
<1>2. PICK i \in 1 .. j - 1 : toClient[c][i] = l
  BY <1>1
<1>3. i \in 1 .. Len(toClient[c])
  BY ClientList
<1> QED
  BY <1>1, <1>2, <1>3, ClientList

\* What is sent next is after all that was sent.
LEMMA BeforeSent ==
  ASSUME TypeOK, NEW c \in Conns, NEW f \in Frames, toClient'[c] = Append(toClient[c], f)
  PROVE  /\ ToSet(toClient'[c]) = ToSet(toClient[c]) \cup {f}
         /\ \A l, k : Before(c, l, k)' <=> Before(c, l, k) \/ (k = f /\ l \in ToSet(toClient[c]))
<1> DEFINE q == toClient[c]
           n == Len(toClient[c])
           r == toClient'[c]
<1>1. q \in Seq(Frames) /\ n \in Nat
  BY ClientList
<1>2. Len(r) = n + 1 /\ r[n + 1] = f /\ \A i \in 1 .. n : r[i] = q[i]
  BY <1>1, AppendProperties
<1>3. \A v : v \in ToSet(q) <=> \E i \in 1 .. n : q[i] = v
  BY ClientList
<1>4. ToSet(r) = ToSet(q) \cup {f}
  BY <1>1, AppendSet
<1>5. ASSUME NEW l, NEW k
      PROVE  Before(c, l, k)' <=> Before(c, l, k) \/ (k = f /\ l \in ToSet(q))
  <2>1. Before(c, l, k)' <=> \E j \in 1 .. Len(r) : r[j] = k /\ \E i \in 1 .. j - 1 : r[i] = l
    BY DEF Before
  <2>2. Before(c, l, k) <=> \E j \in 1 .. n : q[j] = k /\ \E i \in 1 .. j - 1 : q[i] = l
    BY DEF Before
  <2> HIDE DEF q, n, r
  <2>3. ASSUME NEW j \in 1 .. n + 1, r[j] = k, NEW i \in 1 .. j - 1, r[i] = l
        PROVE  (\E x \in 1 .. n : q[x] = k /\ \E y \in 1 .. x - 1 : q[y] = l)
               \/ (k = f /\ l \in ToSet(q))
    <3>1. i \in 1 .. n /\ q[i] = l
      BY <1>1, <1>2, <2>3
    <3>2. CASE j = n + 1
      BY <1>2, <1>3, <2>3, <3>1, <3>2
    <3>3. CASE j # n + 1
      <4>1. j \in 1 .. n
        BY <1>1, <3>3
      <4>2. q[j] = k
        BY <1>2, <2>3, <4>1
      <4> QED
        BY <3>1, <4>1, <4>2
    <3> QED
      BY <3>2, <3>3
  <2>4. ASSUME NEW j \in 1 .. n, q[j] = k, NEW i \in 1 .. j - 1, q[i] = l
        PROVE  \E x \in 1 .. n + 1 : r[x] = k /\ \E y \in 1 .. x - 1 : r[y] = l
    <3>1. j \in 1 .. n + 1 /\ i \in 1 .. n
      BY <1>1
    <3>2. r[j] = k /\ r[i] = l
      BY <1>2, <2>4, <3>1
    <3> QED
      BY <3>1, <3>2
  <2>5. ASSUME k = f, l \in ToSet(q)
        PROVE  \E x \in 1 .. n + 1 : r[x] = k /\ \E y \in 1 .. x - 1 : r[y] = l
    <3>1. PICK i \in 1 .. n : q[i] = l
      BY <1>3, <2>5
    <3>2. n + 1 \in 1 .. n + 1 /\ i \in 1 .. (n + 1) - 1 /\ r[i] = l /\ r[n + 1] = k
      BY <1>1, <1>2, <2>5, <3>1
    <3> QED
      BY <3>2
  <2> QED
    BY <1>2, <2>1, <2>2, <2>3, <2>4, <2>5
<1> QED
  BY <1>4, <1>5

\* A step sends no line that was said.
Quiet(c) ==
  \/ toClient'[c] = toClient[c]
  \/ \E f \in Frames : f \notin Records /\ toClient'[c] = Append(toClient[c], f)

LEMMA QuietFacts ==
  ASSUME TypeOK, NEW c \in Conns, Quiet(c)
  PROVE  \A l, k \in Records :
           /\ l \in ToSet(toClient'[c]) <=> l \in ToSet(toClient[c])
           /\ Before(c, l, k)' <=> Before(c, l, k)
<1>1. CASE toClient'[c] = toClient[c]
  BY <1>1 DEF Before
<1>2. ASSUME NEW f \in Frames, f \notin Records, toClient'[c] = Append(toClient[c], f)
      PROVE  \A l, k \in Records :
               /\ l \in ToSet(toClient'[c]) <=> l \in ToSet(toClient[c])
               /\ Before(c, l, k)' <=> Before(c, l, k)
  <2>1. /\ ToSet(toClient'[c]) = ToSet(toClient[c]) \cup {f}
        /\ \A l, k : Before(c, l, k)' <=> Before(c, l, k) \/ (k = f /\ l \in ToSet(toClient[c]))
    BY <1>2, BeforeSent
  <2> QED
    BY <1>2, <2>1
<1> QED
  BY <1>1, <1>2 DEF Quiet

\* The steps that neither record nor send a line, and change nothing for a line
\* that is being broadcast.
LEMMA LinesMoves ==
  ASSUME TypeOK, TypeOK', LinesInv, said' = said, \A c \in Conns : Quiet(c),
         \A c \in Conns : thread'[c].at = "post" => thread'[c] = thread[c],
         \A t \in Threads : cast'[t].frame \in Records =>
           /\ cast'[t] = cast[t] /\ UNCHANGED <<connected, connMux>>
           /\ t # Listener => thread'[t] = thread[t]
  PROVE  LinesInv'
<1>1. ToSet(said) \subseteq Records
  BY SaidFacts
<1>2. \A c \in Conns : \A l, k \in Records :
        /\ l \in ToSet(toClient'[c]) <=> l \in ToSet(toClient[c])
        /\ Before(c, l, k)' <=> Before(c, l, k)
  BY QuietFacts
<1>3. Recorded'
  BY <1>2 DEF LinesInv, Recorded
<1>4. Posting'
  <2> SUFFICES ASSUME NEW c \in Conns, thread'[c].at = "post"
               PROVE  /\ Len(thread'[c].text) = 1
                      /\ thread'[c].text[1] \in ToSet(said')
                      /\ \A d \in Conns : thread'[c].text[1] \notin ToSet(toClient'[d])
                      /\ \A t \in Threads : cast'[t].frame # thread'[c].text[1]
                      /\ \A d \in Conns :
                           thread'[d].at = "post" /\ thread'[d].text[1] = thread'[c].text[1] => c = d
    BY DEF Posting
  <2>1. thread'[c] = thread[c] /\ thread[c].at = "post"
    OBVIOUS
  <2>2. /\ Len(thread[c].text) = 1
        /\ thread[c].text[1] \in ToSet(said)
        /\ \A d \in Conns : thread[c].text[1] \notin ToSet(toClient[d])
        /\ \A t \in Threads : cast[t].frame # thread[c].text[1]
        /\ \A d \in Conns :
             thread[d].at = "post" /\ thread[d].text[1] = thread[c].text[1] => c = d
    BY <2>1 DEF LinesInv, Posting
  <2>3. thread[c].text[1] \in Records
    BY <1>1, <2>2
  <2>4. \A t \in Threads : cast'[t].frame # thread[c].text[1]
    BY <2>2, <2>3
  <2> QED
    BY <1>2, <2>1, <2>2, <2>3, <2>4
<1>5. Sending'
  <2> SUFFICES ASSUME NEW t \in Threads, NEW f \in Records, cast'[t].frame = f
               PROVE  /\ connMux' = t /\ t # Listener /\ thread'[t].at = "send"
                      /\ \A i \in 1 .. Len(connected') :
                           i < cast'[t].next <=> f \in ToSet(toClient'[connected'[i]])
                      /\ \A d \in Conns : \A l \in ToSet(said') : ~Before(d, f, l)'
    BY DEF Sending, Before
  <2>1. cast'[t] = cast[t] /\ connected' = connected /\ connMux' = connMux
    OBVIOUS
  <2>2. /\ connMux = t /\ t # Listener /\ thread[t].at = "send"
        /\ \A i \in 1 .. Len(connected) :
             i < cast[t].next <=> f \in ToSet(toClient[connected[i]])
        /\ \A d \in Conns : \A l \in ToSet(said) : ~Before(d, f, l)
    BY <2>1 DEF LinesInv, Sending
  <2>3. \A i \in 1 .. Len(connected) : connected[i] \in Conns
    BY ListFacts, ElementOfSeq
  <2>4. thread'[t] = thread[t]
    BY <2>2
  <2>5. \A d \in Conns : \A l \in ToSet(said') : ~Before(d, f, l)'
    BY <1>1, <1>2, <2>2
  <2>6. \A i \in 1 .. Len(connected') :
          i < cast'[t].next <=> f \in ToSet(toClient'[connected'[i]])
    BY <1>2, <2>1, <2>2, <2>3
  <2> QED
    BY <2>1, <2>2, <2>4, <2>5, <2>6
<1>6. SameOrder'
  <2> SUFFICES ASSUME NEW l \in ToSet(said), NEW k \in ToSet(said), NEW m \in Conns, NEW d \in Conns,
                      Before(m, l, k)', Before(d, k, l)'
               PROVE  FALSE
    BY DEF SameOrder, Before
  <2>1. Before(m, l, k) /\ Before(d, k, l)
    BY <1>1, <1>2
  <2> QED
    BY <2>1 DEF LinesInv, SameOrder
<1> QED
  BY <1>3, <1>4, <1>5, <1>6 DEF LinesInv

\* While conn_mux is free, and when who had it has sent everything, no line is
\* being broadcast.
LEMMA NoCast ==
  ASSUME Casting, connMux = None, NEW t \in Threads
  PROVE  cast[t].frame = None /\ cast[t].frame \notin Records
<1>1. cast[t].frame = None
  BY ConnFacts, NoneAssumption DEF Casting
<1> QED
  BY <1>1, FrameFacts, NoneAssumption

LEMMA NoCastAfter ==
  ASSUME TypeOK, Casting, NEW u \in Threads, connMux = u, Finish(u), NEW t \in Threads
  PROVE  cast'[t].frame \notin Records
<1>1. cast'[t].frame = None
  BY FinishFacts DEF Casting
<1> QED
  BY <1>1, FrameFacts, NoneAssumption

\* Who broadcasts a line is at no other place.
LEMMA SenderFacts ==
  ASSUME Sending, NEW t \in Threads, cast[t].frame \in Records
  PROVE  t \in Conns /\ thread[t].at = "send" /\ connMux = t
BY ConnFacts DEF Sending

LEMMA QuietSend ==
  ASSUME TypeOK, NEW c \in Conns, NEW f \in Frames, f \notin Records, Send(c, f)
  PROVE  \A d \in Conns : Quiet(d)
BY SendFacts DEF Quiet

LEMMA QuietFrames ==
  /\ Half \notin Records /\ Reset \notin Records
  /\ \A r : Greeting(r) \notin Records
  /\ \A a : ExitRoom(a) \notin Records
BY FrameTypes, FrameFacts, LineFacts

LEMMA GreetLines ==
  ASSUME TypeOK, TypeOK', LinesInv, NEW c \in Conns, Greet(c)
  PROVE  LinesInv'
<1>1. UNCHANGED <<connected, connMux, cast, said>>
  BY DEF Greet
<1>2. /\ thread[c].at \in {"greet", "half", "body"} /\ thread'[c].at # "post"
      /\ \A d \in Conns : d # c => thread'[d] = thread[d]
      /\ \A d \in Conns : Quiet(d)
  <2>1. CASE At(c, "greet") /\ toClient' = toClient
             /\ thread' = [thread EXCEPT ![c] = [at |-> "half", text |-> lastThree]]
    <3>1. lastThree \in Seq(Records)
      BY DEF TypeOK
    <3> QED
      BY <2>1, <3>1, PutFacts DEF At, Places, Quiet
  <2>2. CASE At(c, "half") /\ Send(c, Half) /\ Goto(c, "body")
    BY <2>2, GotoFacts, QuietSend, QuietFrames, FrameFacts DEF At, Places
  <2>3. CASE At(c, "body") /\ Send(c, Greeting(thread[c].text)) /\ Goto(c, "loop")
    <3>1. thread[c].text \in Seq(Records)
      BY DEF TypeOK
    <3> QED
      BY <2>3, <3>1, GotoFacts, QuietSend, QuietFrames, FrameFacts DEF At, Places
  <2> QED
    BY <2>1, <2>2, <2>3 DEF Greet
<1>3. \A t \in Threads : cast'[t].frame \in Records => t # c
  BY <1>1, <1>2, SenderFacts DEF LinesInv
<1> QED
  BY <1>1, <1>2, <1>3, ConnFacts, LinesMoves

\* The steps that take conn_mux for other news, and those made at once while it is free.
LEMMA FreeLines ==
  ASSUME TypeOK, TypeOK', Casting, LinesInv, NEW c \in Conns,
         EndOfStream(c) \/ DetachOwner(c) \/ DetachGuest(c) \/ Leave(c)
  PROVE  LinesInv'
<1>1. connMux = None /\ said' = said
  BY DEF EndOfStream, DetachOwner, DetachGuest, Leave, Lock, Locks
<1>2. /\ thread'[c].at # "post" \/ thread' = thread
      /\ \A d \in Conns : d # c => thread'[d] = thread[d]
  BY GotoFacts DEF EndOfStream, DetachOwner, DetachGuest, Leave, Places
<1>3. \A d \in Conns : Quiet(d)
  <2>1. CASE DetachOwner(c)
    BY <2>1, QuietSend, QuietFrames, FrameFacts DEF DetachOwner
  <2>2. CASE EndOfStream(c) \/ DetachGuest(c) \/ Leave(c)
    BY <2>2 DEF EndOfStream, DetachGuest, Leave, Quiet
  <2> QED
    BY <2>1, <2>2
<1>4. ASSUME NEW t \in Threads PROVE cast'[t].frame \notin Records
  <2>1. cast[t].frame \notin Records
    BY <1>1, NoCast
  <2>2. CASE EndOfStream(c) \/ DetachOwner(c)
    BY <2>1, <2>2 DEF EndOfStream, DetachOwner
  <2>3. ASSUME NEW text \in {"detach", "join", "leave", "close"}, Start(c, News(text, c))
        PROVE  cast'[t].frame \notin Records
    <3>1. News(text, c) \in Lines /\ News(text, c) \notin Records
      BY LineFacts
    <3> QED
      BY <2>1, <2>3, <3>1, StartFacts, ConnFacts
  <2> QED
    BY <2>2, <2>3 DEF DetachGuest, Leave
<1> QED
  BY <1>1, <1>2, <1>3, <1>4, LinesMoves

LEMMA PostedLines ==
  ASSUME TypeOK, TypeOK', Casting, LinesInv, NEW c \in Conns, Posted(c) \/ Left(c)
  PROVE  LinesInv'
<1>1. connMux = c /\ c \in Threads /\ said' = said /\ Finish(c)
  BY ConnFacts DEF Posted, Left, At, Casting
<1>2. /\ thread'[c].at # "post"
      /\ \A d \in Conns : d # c => thread'[d] = thread[d]
  BY PutFacts, GotoFacts, EmptySeq DEF Posted, Left, Places
<1>3. \A d \in Conns : Quiet(d)
  <2>1. CASE Posted(c)
    BY <2>1 DEF Posted, streams, Quiet
  <2>2. CASE Left(c)
    <3>1. \A d \in Conns :
            \/ toClient'[d] = toClient[d]
            \/ \E f \in Frames : toClient'[d] = Append(toClient[d], f) /\ f.type = "exit"
      BY <2>2, LeftFacts
    <3>2. \A f \in Frames : f.type = "exit" => f \notin Records
      BY FrameFacts, LineFacts
    <3> QED
      BY <3>1, <3>2 DEF Quiet
  <2> QED
    BY <2>1, <2>2
<1>4. \A t \in Threads : cast'[t].frame \notin Records
  BY <1>1, NoCastAfter
<1> QED
  BY <1>1, <1>2, <1>3, <1>4, LinesMoves

\* A line that is recorded is new: nobody was sent it.
LEMMA RecordLines ==
  ASSUME TypeOK, TypeOK', Numbers, LinesInv, NEW c \in Conns, Record(c)
  PROVE  LinesInv'
<1>1. PICK r \in Records :
           /\ r.number = NextCommand(c).number /\ said' = Append(said, r)
           /\ thread' = [thread EXCEPT ![c] = [at |-> "post", text |-> <<r>>]]
           /\ <<r>> \in Seq(Records) /\ Len(<<r>>) = 1 /\ <<r>>[1] = r
  BY RecordFacts
<1>2. r \notin ToSet(said)
  BY <1>1, RecordNumber, SaidFacts
<1>3. ToSet(said') = ToSet(said) \cup {r}
  BY <1>1, SaidFacts, AppendSet
<1>4. /\ thread[c].at = "loop" /\ thread'[c].at = "post" /\ thread'[c].text = <<r>>
      /\ \A d \in Conns : d # c => thread'[d] = thread[d]
      /\ UNCHANGED <<connected, connMux, cast, toClient>>
  <2>1. "post" \in Places
    BY DEF Places
  <2>2. /\ thread'[c].at = "post" /\ thread'[c].text = <<r>>
        /\ \A d \in Conns : d # c => thread'[d] = thread[d]
    BY <1>1, <2>1, PutFacts
  <2>3. thread[c].at = "loop" /\ UNCHANGED <<connected, connMux, cast, toClient>>
    BY DEF Record, Reading, At
  <2> QED
    BY <2>2, <2>3
<1>5. /\ \A d \in Conns : r \notin ToSet(toClient[d])
      /\ \A t \in Threads : cast[t].frame # r
  BY <1>2 DEF LinesInv, Recorded
<1>6. \A d \in Conns : \A l : ~Before(d, l, r) /\ ~Before(d, r, l)
  BY <1>5, BeforeIn
<1>7. Recorded'
  BY <1>3, <1>4 DEF LinesInv, Recorded
<1>8. Posting'
  <2>1. ASSUME NEW d \in Conns, d # c, thread[d].at = "post"
        PROVE  /\ Len(thread[d].text) = 1
               /\ thread[d].text[1] \in ToSet(said) /\ thread[d].text[1] # r
               /\ \A e \in Conns : thread[d].text[1] \notin ToSet(toClient[e])
               /\ \A t \in Threads : cast[t].frame # thread[d].text[1]
               /\ \A e \in Conns :
                    thread[e].at = "post" /\ thread[e].text[1] = thread[d].text[1] => d = e
    BY <1>2, <2>1 DEF LinesInv, Posting
  <2>2. thread'[c].text[1] = r /\ Len(thread'[c].text) = 1
    BY <1>1, <1>4
  <2> SUFFICES ASSUME NEW d \in Conns, thread'[d].at = "post"
               PROVE  /\ Len(thread'[d].text) = 1
                      /\ thread'[d].text[1] \in ToSet(said')
                      /\ \A e \in Conns : thread'[d].text[1] \notin ToSet(toClient'[e])
                      /\ \A t \in Threads : cast'[t].frame # thread'[d].text[1]
                      /\ \A e \in Conns :
                           thread'[e].at = "post" /\ thread'[e].text[1] = thread'[d].text[1] => d = e
    BY DEF Posting
  <2>3. CASE d = c
    <3>1. \A e \in Conns : e # c /\ thread'[e].at = "post" => thread'[e].text[1] # r
      BY <1>4, <2>1
    <3> QED
      BY <1>3, <1>4, <1>5, <2>2, <2>3, <3>1
  <2>4. CASE d # c
    <3>1. thread'[d] = thread[d] /\ thread[d].at = "post"
      BY <1>4, <2>4
    <3>2. \A e \in Conns :
            thread'[e].at = "post" /\ thread'[e].text[1] = thread[d].text[1] => d = e
      BY <1>4, <2>1, <2>2, <2>4, <3>1
    <3> QED
      BY <1>3, <1>4, <2>1, <2>4, <3>1, <3>2
  <2> QED
    BY <2>3, <2>4
<1>9. Sending'
  <2> SUFFICES ASSUME NEW t \in Threads, NEW f \in Records, cast'[t].frame = f
               PROVE  /\ connMux' = t /\ t # Listener /\ thread'[t].at = "send"
                      /\ \A i \in 1 .. Len(connected') :
                           i < cast'[t].next <=> f \in ToSet(toClient'[connected'[i]])
                      /\ \A d \in Conns : \A l \in ToSet(said') : ~Before(d, f, l)'
    BY DEF Sending, Before
  <2>1. /\ connMux = t /\ t # Listener /\ thread[t].at = "send"
        /\ \A i \in 1 .. Len(connected) :
             i < cast[t].next <=> f \in ToSet(toClient[connected[i]])
        /\ \A d \in Conns : \A l \in ToSet(said) : ~Before(d, f, l)
    BY <1>4 DEF LinesInv, Sending
  <2>2. t \in Conns /\ t # c
    BY <1>4, <2>1, ConnFacts
  <2>3. \A d \in Conns : \A l \in ToSet(said') : ~Before(d, f, l)'
    BY <1>3, <1>4, <1>6, <2>1, SMTT(30) DEF Before
  <2> QED
    BY <1>4, <2>1, <2>2, <2>3
<1>10. SameOrder'
  <2> SUFFICES ASSUME NEW l \in ToSet(said'), NEW k \in ToSet(said'), NEW m \in Conns, NEW d \in Conns,
                      Before(m, l, k), Before(d, k, l)
               PROVE  FALSE
    BY <1>4 DEF SameOrder, Before
  <2>1. l # r /\ k # r
    BY <1>6
  <2> QED
    BY <1>3, <2>1 DEF LinesInv, SameOrder
<1> QED
  BY <1>7, <1>8, <1>9, <1>10 DEF LinesInv

\* Who has conn_mux begins to send a line that nobody was sent.
LEMMA PostLines ==
  ASSUME TypeOK, TypeOK', Casting, LinesInv, NEW c \in Conns, Post(c)
  PROVE  LinesInv'
<1> DEFINE f == thread[c].text[1]
<1>1. f \in Records /\ Start(c, f) /\ connMux = None /\ connMux' = c
  BY PostFacts DEF LinesInv
<1>2. /\ thread[c].at = "post" /\ thread'[c].at = "send"
      /\ \A d \in Conns : d # c => thread'[d] = thread[d]
      /\ UNCHANGED <<connected, said, toClient>>
  BY GotoFacts DEF Post, At, Places, streams
<1>3. /\ cast'[c].frame = f /\ cast'[c].next = 1
      /\ \A t \in Threads : t # c => cast'[t] = cast[t]
  BY <1>1, StartFacts, ConnFacts, FrameFacts
<1>4. /\ f \in ToSet(said)
      /\ \A d \in Conns : f \notin ToSet(toClient[d])
      /\ \A d \in Conns : thread[d].at = "post" /\ thread[d].text[1] = f => c = d
  BY <1>2 DEF LinesInv, Posting
<1> HIDE DEF f
<1>5. Recorded'
  BY <1>2, <1>3, <1>4 DEF LinesInv, Recorded
<1>6. Posting'
  <2> SUFFICES ASSUME NEW d \in Conns, thread'[d].at = "post"
               PROVE  /\ Len(thread'[d].text) = 1
                      /\ thread'[d].text[1] \in ToSet(said')
                      /\ \A e \in Conns : thread'[d].text[1] \notin ToSet(toClient'[e])
                      /\ \A t \in Threads : cast'[t].frame # thread'[d].text[1]
                      /\ \A e \in Conns :
                           thread'[e].at = "post" /\ thread'[e].text[1] = thread'[d].text[1] => d = e
    BY DEF Posting
  <2>1. d # c /\ thread'[d] = thread[d] /\ thread[d].at = "post"
    BY <1>2
  <2>2. /\ Len(thread[d].text) = 1
        /\ thread[d].text[1] \in ToSet(said) /\ thread[d].text[1] # f
        /\ \A e \in Conns : thread[d].text[1] \notin ToSet(toClient[e])
        /\ \A t \in Threads : cast[t].frame # thread[d].text[1]
        /\ \A e \in Conns :
             thread[e].at = "post" /\ thread[e].text[1] = thread[d].text[1] => d = e
    BY <1>4, <2>1 DEF LinesInv, Posting
  <2>3. \A t \in Threads : cast'[t].frame # thread[d].text[1]
    BY <1>3, <2>2
  <2>4. \A e \in Conns :
          thread'[e].at = "post" /\ thread'[e].text[1] = thread[d].text[1] => d = e
    BY <1>2, <2>2
  <2> QED
    BY <1>2, <2>1, <2>2, <2>3, <2>4
<1>7. Sending'
  <2> SUFFICES ASSUME NEW t \in Threads, NEW g \in Records, cast'[t].frame = g
               PROVE  /\ connMux' = t /\ t # Listener /\ thread'[t].at = "send"
                      /\ \A i \in 1 .. Len(connected') :
                           i < cast'[t].next <=> g \in ToSet(toClient'[connected'[i]])
                      /\ \A d \in Conns : \A l \in ToSet(said') : ~Before(d, g, l)'
    BY DEF Sending, Before
  <2>1. t = c /\ g = f
    BY <1>1, <1>3, NoCast
  <2>2. \A i \in 1 .. Len(connected) : connected[i] \in Conns
    BY ListFacts, ElementOfSeq
  <2>3. \A i \in 1 .. Len(connected') :
          i < cast'[t].next <=> g \in ToSet(toClient'[connected'[i]])
    BY <1>2, <1>3, <1>4, <2>1, <2>2
  <2>4. \A d \in Conns : \A l : ~Before(d, g, l)
    BY <1>4, <2>1, BeforeIn
  <2> QED
    BY <1>1, <1>2, <2>1, <2>3, <2>4, ConnFacts DEF Before
<1>8. SameOrder'
  <2>1. \A l, k : \A d \in Conns : Before(d, l, k)' <=> Before(d, l, k)
    BY <1>2 DEF Before
  <2> QED
    BY <1>2, <2>1 DEF LinesInv, SameOrder
<1> QED
  BY <1>5, <1>6, <1>7, <1>8 DEF LinesInv

\* The next receiver was not sent the line; and no later line was sent to anybody.
LEMMA BroadcastLines ==
  ASSUME TypeOK, TypeOK', Admission, Casting, LinesInv, NEW t \in Threads, Broadcast(t),
         cast[t].frame \in Records
  PROVE  LinesInv'
<1>1. PICK n \in 1 .. Len(connected), e \in Conns, f \in Records :
        /\ n = cast[t].next /\ e = connected[n] /\ f = cast[t].frame
        /\ f \in Frames /\ Send(e, f)
  BY BroadcastFacts, FrameFacts
<1>2. UNCHANGED <<connected, connMux, said, thread>>
  BY DEF Broadcast
<1>3. /\ cast'[t].frame = f /\ cast'[t].next = n + 1
      /\ \A u \in Threads : u # t => cast'[u] = cast[u]
  BY <1>1, BroadcastFacts
<1>4. /\ connMux = t /\ t # Listener /\ thread[t].at = "send"
      /\ \A i \in 1 .. Len(connected) : i < n <=> f \in ToSet(toClient[connected[i]])
      /\ \A d \in Conns : \A l \in ToSet(said) : ~Before(d, f, l)
  BY <1>1 DEF LinesInv, Sending
<1>5. /\ toClient'[e] = Append(toClient[e], f)
      /\ \A d \in Conns : d # e => toClient'[d] = toClient[d]
  BY <1>1, SendFacts
<1>6. /\ ToSet(toClient'[e]) = ToSet(toClient[e]) \cup {f}
      /\ \A l, k : Before(e, l, k)' <=> Before(e, l, k) \/ (k = f /\ l \in ToSet(toClient[e]))
  BY <1>1, <1>5, BeforeSent
<1>7. \A d \in Conns : d # e => \A l, k : Before(d, l, k)' <=> Before(d, l, k)
  BY <1>5 DEF Before
<1>8. f \notin ToSet(toClient[e])
  BY <1>1, <1>4
<1>9. \A u \in Threads : u # t => cast[u].frame \notin Records
  BY <1>4 DEF LinesInv, Sending
<1>10. f \in ToSet(said)
  BY <1>1 DEF LinesInv, Recorded
<1>11. \A c \in Conns : thread[c].at = "post" => thread[c].text[1] # f
  BY <1>1 DEF LinesInv, Posting
<1>12. \A i \in 1 .. Len(connected) : connected[i] \in Conns /\ (connected[i] = e => i = n)
  BY <1>1, ListFacts, ElementOfSeq DEF Admission, IsInjective
<1>13. Len(connected) \in Nat
  BY ListFacts
<1>14. Recorded'
  <2>1. \A d \in Conns : ToSet(toClient'[d]) \cap Records \subseteq ToSet(said)
    BY <1>5, <1>6, <1>10 DEF LinesInv, Recorded
  <2>2. \A u \in Threads : cast'[u].frame \in Records => cast'[u].frame \in ToSet(said)
    BY <1>3, <1>9, <1>10
  <2> QED
    BY <1>2, <2>1, <2>2 DEF Recorded
<1>15. Posting'
  <2> SUFFICES ASSUME NEW c \in Conns, thread[c].at = "post"
               PROVE  /\ Len(thread[c].text) = 1
                      /\ thread[c].text[1] \in ToSet(said)
                      /\ \A d \in Conns : thread[c].text[1] \notin ToSet(toClient'[d])
                      /\ \A u \in Threads : cast'[u].frame # thread[c].text[1]
                      /\ \A d \in Conns :
                           thread[d].at = "post" /\ thread[d].text[1] = thread[c].text[1] => c = d
    BY <1>2 DEF Posting
  <2>1. /\ Len(thread[c].text) = 1
        /\ thread[c].text[1] \in ToSet(said)
        /\ \A d \in Conns : thread[c].text[1] \notin ToSet(toClient[d])
        /\ \A u \in Threads : cast[u].frame # thread[c].text[1]
        /\ \A d \in Conns :
             thread[d].at = "post" /\ thread[d].text[1] = thread[c].text[1] => c = d
    BY DEF LinesInv, Posting
  <2>2. \A d \in Conns : thread[c].text[1] \notin ToSet(toClient'[d])
    BY <1>5, <1>6, <1>11, <2>1
  <2>3. \A u \in Threads : cast'[u].frame # thread[c].text[1]
    BY <1>3, <1>11, <2>1
  <2> QED
    BY <2>1, <2>2, <2>3
<1>16. Sending'
  <2> SUFFICES ASSUME NEW u \in Threads, NEW g \in Records, cast'[u].frame = g
               PROVE  /\ connMux' = u /\ u # Listener /\ thread'[u].at = "send"
                      /\ \A i \in 1 .. Len(connected') :
                           i < cast'[u].next <=> g \in ToSet(toClient'[connected'[i]])
                      /\ \A d \in Conns : \A l \in ToSet(said') : ~Before(d, g, l)'
    BY DEF Sending, Before
  <2>1. u = t /\ g = f
    BY <1>3, <1>9
  <2>2. ASSUME NEW i \in 1 .. Len(connected)
        PROVE  i < n + 1 <=> f \in ToSet(toClient'[connected[i]])
    <3>1. CASE connected[i] = e
      BY <1>1, <1>6, <1>12, <3>1
    <3>2. CASE connected[i] # e
      <4>1. i # n
        BY <1>1, <3>2
      <4>2. i < n + 1 <=> i < n
        BY <1>1, <1>13, <4>1
      <4> QED
        BY <1>4, <1>5, <1>12, <3>2, <4>2
    <3> QED
      BY <3>1, <3>2
  <2>3. \A d \in Conns : \A l \in ToSet(said) : ~Before(d, f, l)'
    BY <1>4, <1>6, <1>7, <1>8
  <2> QED
    BY <1>2, <1>3, <1>4, <2>1, <2>2, <2>3
<1>17. SameOrder'
  <2> SUFFICES ASSUME NEW l \in ToSet(said), NEW k \in ToSet(said), NEW m \in Conns, NEW d \in Conns,
                      Before(m, l, k)', Before(d, k, l)'
               PROVE  FALSE
    BY <1>2 DEF SameOrder, Before
  <2>1. Before(m, l, k) \/ (m = e /\ k = f /\ l \in ToSet(toClient[e]))
    BY <1>6, <1>7
  <2>2. Before(d, k, l) \/ (d = e /\ l = f /\ k \in ToSet(toClient[e]))
    BY <1>6, <1>7
  <2>3. ~(Before(m, l, k) /\ Before(d, k, l))
    BY DEF LinesInv, SameOrder
  <2> QED
    BY <1>4, <1>8, <2>1, <2>2, <2>3
<1> QED
  BY <1>14, <1>15, <1>16, <1>17 DEF LinesInv

\* The news that the system sends of a member.
LEMMA NewsLines ==
  ASSUME TypeOK, TypeOK', Casting, LinesInv, NEW t \in Threads, Broadcast(t),
         cast[t].frame \notin Records
  PROVE  LinesInv'
<1>1. /\ cast[t].frame \in Frames /\ connected[cast[t].next] \in Conns
      /\ Send(connected[cast[t].next], cast[t].frame)
      /\ cast'[t].frame = cast[t].frame
      /\ \A u \in Threads : u # t => cast'[u] = cast[u]
  BY BroadcastFacts, FrameFacts
<1>2. UNCHANGED <<connected, connMux, said, thread>> /\ cast[t].frame # None
  BY DEF Broadcast
<1>3. \A d \in Conns : Quiet(d)
  BY <1>1, QuietSend
<1>4. ASSUME NEW u \in Threads PROVE cast'[u].frame \notin Records
  <2>1. u # t => cast[u].frame = None
    BY <1>2 DEF Casting
  <2> QED
    BY <1>1, <2>1, FrameFacts, NoneAssumption
<1> QED
  BY <1>2, <1>3, <1>4, LinesMoves

\* The steps that change nothing for who broadcasts.
LEMMA AsideLines ==
  ASSUME TypeOK, TypeOK', LinesInv, UNCHANGED <<connected, connMux, cast, said, thread>>,
         \A c \in Conns : Quiet(c)
  PROVE  LinesInv'
BY LinesMoves, ConnFacts

LEMMA ListenLines ==
  ASSUME TypeOK, TypeOK', ConnInv, LinesInv, Accept \/ Stop \/ Announce \/ Admit
  PROVE  LinesInv'
<1>1. CASE Accept
  BY <1>1, AsideLines DEF Accept, Quiet
<1>2. CASE Stop
  <2>1. \A c \in Conns : Quiet(c)
    BY <1>2, FrameFacts, QuietFrames DEF Stop, Quiet, TypeOK
  <2> QED
    BY <1>2, <2>1, AsideLines DEF Stop
<1>3. CASE Announce
  <2>1. /\ connMux = None /\ Start(Listener, News("join", listener.conn))
        /\ UNCHANGED <<connected, said, thread, toClient>>
    BY <1>3 DEF Announce, Lock, Locks, streams
  <2>2. listener.conn \in Conns
    <3>1. listener.at = "admit" /\ listener.conn \in Conns \cup {None}
      BY <1>3 DEF Announce, TypeOK
    <3> QED
      BY <3>1 DEF ConnInv, Admission
  <2>3. News("join", listener.conn) \in Lines /\ News("join", listener.conn) \notin Records
    BY <2>2, LineFacts
  <2>4. \A t \in Threads : cast'[t].frame \notin Records
    BY <2>1, <2>3, StartFacts, NoCast, ConnFacts DEF ConnInv
  <2> QED
    BY <2>1, <2>4, LinesMoves DEF Quiet
<1>4. CASE Admit
  <2>1. UNCHANGED <<said, toClient>> /\ thread' = [thread EXCEPT ![listener.conn].at = "greet"]
    BY <1>4 DEF Admit, streams
  <2>2. \A c \in Conns : thread'[c].at = "post" => thread'[c] = thread[c]
    BY <2>1 DEF TypeOK
  <2>3. ASSUME NEW t \in Threads PROVE cast'[t].frame \notin Records
    <3>1. CASE connMux = None /\ cast' = cast
      BY <3>1, NoCast DEF ConnInv
    <3>2. CASE listener.at = "send" /\ Finish(Listener)
      BY <3>2, NoCastAfter, ConnFacts DEF ConnInv, Casting
    <3> QED
      BY <1>4, <3>1, <3>2 DEF Admit
  <2> QED
    BY <2>1, <2>2, <2>3, LinesMoves DEF Quiet
<1> QED
  BY <1>1, <1>2, <1>3, <1>4

LEMMA ServeLines ==
  ASSUME TypeOK, TypeOK', ConnInv, Numbers, LinesInv, NEW c \in Conns, Serve(c)
  PROVE  LinesInv'
<1>1. CASE Terminate(c)
  BY <1>1, AsideLines DEF Terminate, server, streams, Quiet
<1>2. CASE Broadcast(c)
  BY <1>2, BroadcastLines, NewsLines, ConnFacts DEF ConnInv
<1> QED
  BY <1>1, <1>2, GreetLines, FreeLines, PostedLines, RecordLines, PostLines DEF Serve, ConnInv

LEMMA StepLines ==
  ASSUME TypeOK, TypeOK', ConnInv, Numbers, LinesInv, [Next]_vars
  PROVE  LinesInv'
<1>1. CASE UNCHANGED vars
  BY <1>1, AsideLines DEF vars, server, streams, Quiet
<1>2. CASE Listen
  <2>1. CASE Broadcast(Listener)
    BY <2>1, BroadcastLines, NewsLines, ConnFacts DEF ConnInv
  <2> QED
    BY <1>2, <2>1, ListenLines DEF Listen
<1>3. CASE \E c \in Conns : Serve(c)
  BY <1>3, ServeLines
<1>4. CASE Reopen \/ (\E m \in Members : Use(m) \/ SendJoin(m) \/ Receive(m)) \/ \E g \in Mortal : Die(g)
  <2>1. UNCHANGED <<connected, connMux, cast, said, thread, toClient>>
    BY <1>4 DEF Reopen, Use, Connect, Type, LeaveRoom, Detach, Command, SendJoin, Receive, Return,
       Stick, CloseStatus, CloseServer, Die, server, streams
  <2> QED
    BY <2>1, AsideLines DEF Quiet
<1> QED
  BY <1>1, <1>2, <1>3, <1>4 DEF Next

LEMMA InitLines == Init => LinesInv
<1> SUFFICES ASSUME Init PROVE LinesInv
  OBVIOUS
<1>1. said = <<>> /\ ToSet(said) = {}
  BY DEF Init, ToSet
<1>2. ASSUME NEW c \in Conns PROVE ToSet(toClient[c]) \cap Records = {}
  <2>1. toClient[c] = <<>> \/ toClient[c] = <<Half, Greeting(<<>>)>>
    BY DEF Init
  <2>2. ToSet(<<Half, Greeting(<<>>)>>) = {Half, Greeting(<<>>)} /\ ToSet(<<>>) = {}
    BY DEF ToSet
  <2> QED
    BY <2>1, <2>2, QuietFrames
<1>3. \A c \in Conns : thread[c].at # "post"
  BY DEF Init
<1>4. \A t \in Threads : cast[t].frame \notin Records
  BY FrameFacts, NoneAssumption DEF Init
<1> QED
  BY <1>1, <1>2, <1>3, <1>4 DEF LinesInv, Recorded, Posting, Sending, SameOrder

-----------------------------------------------------------------------------
(* The greetings.                                                          *)

\* The records of a moment, one by one.
LEMMA RecentIndex ==
  ASSUME NEW list \in Seq(Records), NEW n \in 0 .. Len(list)
  PROVE  /\ SubSeq(list, Oldest(n), n) \in Seq(Records)
         /\ Oldest(n) \in 1 .. n + 1 /\ Oldest(n) \in Nat \ {0}
         /\ Len(SubSeq(list, Oldest(n), n)) = n - Oldest(n) + 1
         /\ \A i \in 1 .. n - Oldest(n) + 1 : SubSeq(list, Oldest(n), n)[i] = list[Oldest(n) + i - 1]
<1>1. Recent \in Nat \ {0} /\ Len(list) \in Nat /\ n \in Nat
  BY ChatRoomAssumption, LenProperties
<1>2. Oldest(n) \in 1 .. n + 1 /\ Oldest(n) \in Nat \ {0} /\ Oldest(n) \in 1 .. Len(list) + 1
      /\ (Oldest(n) <= n \/ Oldest(n) = n + 1)
  BY <1>1 DEF Oldest
<1> QED
  BY <1>1, <1>2, Cut

\* What a later record changes of the records of an earlier moment: nothing.
LEMMA RecentStays ==
  ASSUME NEW list \in Seq(Records), NEW n \in 0 .. Len(list), NEW r \in Records
  PROVE  SubSeq(Append(list, r), Oldest(n), n) = SubSeq(list, Oldest(n), n)
<1> DEFINE f == SubSeq(Append(list, r), Oldest(n), n)
           g == SubSeq(list, Oldest(n), n)
           a == Append(list, r)
<1>1. /\ a \in Seq(Records) /\ Len(a) = Len(list) + 1 /\ Len(list) \in Nat
      /\ \A i \in 1 .. Len(list) : a[i] = list[i]
  BY AppendProperties, LenProperties
<1>2. n \in 0 .. Len(a)
  BY <1>1
<1>3. /\ g \in Seq(Records) /\ Len(g) = n - Oldest(n) + 1
      /\ \A i \in 1 .. n - Oldest(n) + 1 : g[i] = list[Oldest(n) + i - 1]
      /\ Oldest(n) \in 1 .. n + 1
  BY RecentIndex
<1>4. /\ f \in Seq(Records) /\ Len(f) = n - Oldest(n) + 1
      /\ \A i \in 1 .. n - Oldest(n) + 1 : f[i] = a[Oldest(n) + i - 1]
  BY <1>1, <1>2, RecentIndex
<1> HIDE DEF f, g, a
<1>5. ASSUME NEW i \in 1 .. n - Oldest(n) + 1
      PROVE  f[i] = g[i]
  <2>1. Oldest(n) + i - 1 \in 1 .. Len(list)
    BY <1>1, <1>3
  <2> QED
    BY <1>1, <1>3, <1>4, <2>1
<1>6. f = g
  BY <1>3, <1>4, <1>5, SeqEqual
<1> QED
  BY <1>6 DEF f, g, a

\* last_three goes on to show the latest.
LEMMA RememberRecent ==
  ASSUME NEW list \in Seq(Records), NEW latest, NEW r \in Records,
         latest = SubSeq(list, Oldest(Len(list)), Len(list))
  PROVE  Remember(latest, r) = SubSeq(Append(list, r), Oldest(Len(list) + 1), Len(list) + 1)
<1> DEFINE n == Len(list)
           all == Append(latest, r)
           a == Append(list, r)
           f == Remember(latest, r)
           g == SubSeq(a, Oldest(n + 1), n + 1)
           o == Oldest(n)
<1>1. /\ a \in Seq(Records) /\ Len(a) = n + 1 /\ n \in Nat /\ a[n + 1] = r
      /\ \A i \in 1 .. n : a[i] = list[i]
  BY AppendProperties, LenProperties
<1>2. /\ latest \in Seq(Records) /\ Len(latest) = n - o + 1 /\ o \in 1 .. n + 1
      /\ \A i \in 1 .. n - o + 1 : latest[i] = list[o + i - 1]
  BY <1>1, RecentIndex
<1>3. /\ g \in Seq(Records) /\ Len(g) = (n + 1) - Oldest(n + 1) + 1
      /\ \A i \in 1 .. (n + 1) - Oldest(n + 1) + 1 : g[i] = a[Oldest(n + 1) + i - 1]
  <2>1. n + 1 \in 0 .. Len(a)
    BY <1>1
  <2> HIDE DEF a
  <2> QED
    BY <1>1, <2>1, RecentIndex
<1>4. /\ all \in Seq(Records) /\ Len(all) = n - o + 2 /\ all[n - o + 2] = r
      /\ \A i \in 1 .. n - o + 1 : all[i] = list[o + i - 1]
  <2>1. /\ all \in Seq(Records) /\ Len(all) = Len(latest) + 1 /\ all[Len(latest) + 1] = r
        /\ \A i \in 1 .. Len(latest) : all[i] = latest[i]
    BY <1>2, AppendProperties
  <2>2. (n - o + 1) + 1 = n - o + 2
    BY <1>1, <1>2
  <2> QED
    BY <1>2, <2>1, <2>2
<1>5. /\ f = (IF Len(all) > Recent THEN Tail(all) ELSE all)
      /\ Recent \in Nat \ {0}
      /\ o = (IF n > Recent THEN n - Recent + 1 ELSE 1)
      /\ Oldest(n + 1) = (IF n + 1 > Recent THEN n + 1 - Recent + 1 ELSE 1)
  BY ChatRoomAssumption DEF Remember, Oldest
<1> HIDE DEF n, all, a, f, g, o
<1>6. \A i \in 1 .. n - o + 2 : all[i] = a[o + i - 1]
  <2> SUFFICES ASSUME NEW i \in 1 .. n - o + 2 PROVE all[i] = a[o + i - 1]
    OBVIOUS
  <2>1. CASE i = n - o + 2
    <3>1. o + i - 1 = n + 1
      BY <1>1, <1>2, <2>1
    <3> QED
      BY <1>1, <1>4, <2>1, <3>1
  <2>2. CASE i # n - o + 2
    <3>1. i \in 1 .. n - o + 1 /\ o + i - 1 \in 1 .. n
      BY <1>1, <1>2, <2>2
    <3> QED
      BY <1>1, <1>4, <3>1
  <2> QED
    BY <2>1, <2>2
<1>7. CASE Len(all) > Recent
  <2>1. n + 1 > Recent /\ Oldest(n + 1) = o + 1
    <3>1. n - o + 2 > Recent
      BY <1>4, <1>7
    <3> QED
      BY <1>1, <1>2, <1>5, <3>1, SMTT(30)
  <2>2. /\ f \in Seq(Records) /\ Len(f) = Len(all) - 1
        /\ \A i \in 1 .. Len(all) - 1 : f[i] = all[i + 1]
    <3>1. all # <<>>
      BY <1>1, <1>2, <1>4, EmptySeq
    <3> QED
      BY <1>4, <1>5, <1>7, <3>1, TailIndex
  <2>3. Len(f) = n - o + 1 /\ Len(g) = n - o + 1
    BY <1>1, <1>2, <1>3, <1>4, <2>1, <2>2
  <2>4. ASSUME NEW i \in 1 .. n - o + 1
        PROVE  f[i] = g[i]
    <3>1. i + 1 \in 1 .. n - o + 2 /\ o + (i + 1) - 1 = (o + 1) + i - 1
      BY <1>1, <1>2
    <3>2. f[i] = a[o + (i + 1) - 1]
      BY <1>6, <2>2, <2>3, <3>1
    <3>3. g[i] = a[(o + 1) + i - 1]
      BY <1>3, <2>1, <2>3
    <3> QED
      BY <3>1, <3>2, <3>3
  <2> QED
    BY <1>3, <2>2, <2>3, <2>4, SeqEqual DEF f, g, a, n
<1>8. CASE ~(Len(all) > Recent)
  <2>1. o = 1 /\ Oldest(n + 1) = 1
    BY <1>1, <1>2, <1>4, <1>5, <1>8, SMTT(30)
  <2>2. f = all /\ Len(all) = n + 1 /\ Len(g) = n + 1
    <3>1. f = all
      BY <1>5, <1>8
    <3>2. n - o + 2 = n + 1 /\ (n + 1) - 1 + 1 = n + 1
      BY <1>1, <2>1
    <3>3. Len(g) = n + 1
      BY <1>1, <1>3, <2>1
    <3> QED
      BY <1>4, <3>1, <3>2, <3>3
  <2>3. \A i \in 1 .. n + 1 : f[i] = g[i]
    <3>1. n - o + 2 = n + 1 /\ (n + 1) - 1 + 1 = n + 1
      BY <1>1, <2>1
    <3> QED
      BY <1>3, <1>6, <2>1, <2>2, <3>1
  <2> QED
    BY <1>3, <1>4, <2>2, <2>3, SeqEqual DEF f, g, a, n
<1> QED
  BY <1>7, <1>8

\* What a client is sent but for its greeting.
Told(c) ==
  \/ toClient'[c] = toClient[c]
  \/ \E f \in Frames : f.type # "greeting" /\ toClient'[c] = Append(toClient[c], f)

LEMMA ToldMore ==
  ASSUME TypeOK, NEW c \in Conns, Told(c)
  PROVE  ToSet(toClient[c]) \subseteq ToSet(toClient'[c])
<1>1. ASSUME NEW f \in Frames, toClient'[c] = Append(toClient[c], f)
      PROVE  ToSet(toClient[c]) \subseteq ToSet(toClient'[c])
  BY <1>1, ClientList, AppendSet
<1> QED
  BY <1>1 DEF Told

\* The greeting of a connection that was greeted.
LEMMA GreetingAt ==
  ASSUME NEW q, NEW i \in 1 .. Len(q), \A j \in 1 .. Len(q) : q[j].type = "greeting" <=> i = j
  PROVE  q[CHOOSE k \in 1 .. Len(q) : q[k].type = "greeting"] = q[i]
<1> DEFINE k == CHOOSE k \in 1 .. Len(q) : q[k].type = "greeting"
<1>1. k \in 1 .. Len(q) /\ q[k].type = "greeting"
  OBVIOUS
<1>2. k = i
  BY <1>1
<1> QED
  BY <1>2

\* What a connection is sent after its greeting does not change it.
LEMMA GreetingStays ==
  ASSUME TypeOK, NEW c \in Conns, Told(c), GreetsOnce(c), Greeted(c)
  PROVE  /\ \E i \in 1 .. Len(toClient'[c]) : \A j \in 1 .. Len(toClient'[c]) :
              toClient'[c][j].type = "greeting" <=> i = j
         /\ GreetingOf(c)' = GreetingOf(c)
<1>1. PICK i \in 1 .. Len(toClient[c]) : \A j \in 1 .. Len(toClient[c]) :
        toClient[c][j].type = "greeting" <=> i = j
  BY DEF GreetsOnce
<1>2. GreetingOf(c) = toClient[c][i].records
  BY <1>1, GreetingAt DEF GreetingOf
<1>3. i \in 1 .. Len(toClient'[c]) /\ toClient'[c][i] = toClient[c][i]
      /\ \A j \in 1 .. Len(toClient'[c]) : toClient'[c][j].type = "greeting" <=> i = j
  <2>1. CASE toClient'[c] = toClient[c]
    BY <1>1, <2>1
  <2>2. ASSUME NEW f \in Frames, f.type # "greeting", toClient'[c] = Append(toClient[c], f)
        PROVE  i \in 1 .. Len(toClient'[c]) /\ toClient'[c][i] = toClient[c][i]
               /\ \A j \in 1 .. Len(toClient'[c]) : toClient'[c][j].type = "greeting" <=> i = j
    <3> DEFINE n == Len(toClient[c])
    <3>1. /\ n \in Nat /\ Len(toClient'[c]) = n + 1 /\ toClient'[c][n + 1] = f
          /\ \A j \in 1 .. n : toClient'[c][j] = toClient[c][j]
      BY <2>2, ClientList, AppendProperties
    <3>2. i \in 1 .. n
      OBVIOUS
    <3> HIDE DEF n
    <3>3. i \in 1 .. n + 1 /\ i # n + 1
      BY <3>1, <3>2
    <3>4. ASSUME NEW j \in 1 .. n + 1
          PROVE  toClient'[c][j].type = "greeting" <=> i = j
      <4>1. CASE j = n + 1
        BY <2>2, <3>1, <3>3, <4>1
      <4>2. CASE j # n + 1
        <5>1. j \in 1 .. n
          BY <3>1, <4>2
        <5> QED
          BY <1>1, <3>1, <5>1 DEF n
      <4> QED
        BY <4>1, <4>2
    <3> QED
      BY <3>1, <3>2, <3>3, <3>4
  <2> QED
    BY <2>1, <2>2 DEF Told
<1>4. GreetingOf(c)' = toClient'[c][i].records
  BY <1>3, GreetingAt DEF GreetingOf
<1> QED
  BY <1>2, <1>3, <1>4

LEMMA NoGreetingStays ==
  ASSUME TypeOK, NEW c \in Conns, Told(c), GreetsOnce(c), Early(c)
  PROVE  \A i \in 1 .. Len(toClient'[c]) : toClient'[c][i].type # "greeting"
<1>1. \A i \in 1 .. Len(toClient[c]) : toClient[c][i].type # "greeting"
  BY DEF GreetsOnce
<1>2. CASE toClient'[c] = toClient[c]
  BY <1>1, <1>2
<1>3. ASSUME NEW f \in Frames, f.type # "greeting", toClient'[c] = Append(toClient[c], f)
      PROVE  \A i \in 1 .. Len(toClient'[c]) : toClient'[c][i].type # "greeting"
  <2> DEFINE n == Len(toClient[c])
  <2>1. /\ n \in Nat /\ Len(toClient'[c]) = n + 1 /\ toClient'[c][n + 1] = f
        /\ \A j \in 1 .. n : toClient'[c][j] = toClient[c][j]
    BY <1>3, ClientList, AppendProperties
  <2>2. \A i \in 1 .. n : toClient[c][i].type # "greeting"
    BY <1>1
  <2> HIDE DEF n
  <2> SUFFICES ASSUME NEW i \in 1 .. n + 1 PROVE toClient'[c][i].type # "greeting"
    BY <2>1
  <2>3. i = n + 1 \/ i \in 1 .. n
    BY <2>1
  <2> QED
    BY <1>3, <2>1, <2>2, <2>3
<1> QED
  BY <1>2, <1>3 DEF Told

\* A connection that a step does not greet.
Stays(c) ==
  /\ Told(c)
  /\ Early(c)' => Early(c)
  /\ Copied(c)' => Copied(c) /\ thread'[c].text = thread[c].text
  /\ Greeted(c)' => Greeted(c)
  /\ (Copied(c)' \/ Greeted(c)') /\ c \in ToSet(connected') => c \in ToSet(connected)

\* What was said before stays what it was, and what is said now is in progress;
\* what is no longer in progress was sent to all receivers.
Continues ==
  /\ Len(said') >= Len(said)
  /\ \A n \in 1 .. Len(said) : said'[n] = said[n]
  /\ \A n \in 0 .. Len(said) : RecentOf(n)' = RecentOf(n)
  /\ lastThree' = RecentOf(Len(said))'
  /\ \A n \in Len(said) + 1 .. Len(said') : InProgress(said[n])'
  /\ \A l \in ToSet(said) :
       InProgress(l) => InProgress(l)' \/ \A c \in ToSet(connected') : l \in ToSet(toClient[c])

LEMMA MomentStays ==
  ASSUME TypeOK, TypeOK', Continues, NEW c \in Conns, NEW n \in 0 .. Len(said),
         ToSet(toClient[c]) \subseteq ToSet(toClient'[c]),
         Copied(c)' => thread'[c].text = RecentOf(n),
         Greeted(c)' => GreetingOf(c)' = RecentOf(n),
         c \in ToSet(connected') => \A k \in n + 1 .. Len(said) : Delivered(c, k)
  PROVE  n \in 0 .. Len(said') /\ Moment(c, n)'
<1>1. Len(said) \in Nat /\ Len(said') \in Nat /\ Len(said') >= Len(said)
  BY SaidFacts, LenProperties DEF Continues, TypeOK
<1>2. n \in 0 .. Len(said') /\ RecentOf(n)' = RecentOf(n)
  BY <1>1 DEF Continues
<1>3. ASSUME c \in ToSet(connected'), NEW k \in n + 1 .. Len(said')
      PROVE  Delivered(c, k)'
  <2>1. CASE k \in n + 1 .. Len(said)
    <3>1. k \in 1 .. Len(said)
      BY <1>1, <2>1
    <3>2. said'[k] = said[k] /\ said[k] \in ToSet(said)
      BY <3>1, SaidFacts DEF Continues
    <3>3. said[k] \in ToSet(toClient[c]) \/ InProgress(said[k])
      BY <1>3, <2>1 DEF Delivered
    <3>4. PICK l : l = said[k]
      OBVIOUS
    <3>5. l \in ToSet(toClient[c]) \/ InProgress(l)'
      BY <1>3, <3>2, <3>3, <3>4 DEF Continues
    <3>6. l \in ToSet(toClient'[c]) \/ InProgress(l)'
      BY <3>5
    <3> QED
      BY <3>2, <3>4, <3>6 DEF Delivered, InProgress
  <2>2. CASE k \notin n + 1 .. Len(said)
    <3>1. k \in Len(said) + 1 .. Len(said')
      BY <1>1, <2>2
    <3> QED
      BY <3>1 DEF Continues, Delivered
  <2> QED
    BY <2>1, <2>2
<1> QED
  BY <1>2, <1>3 DEF Moment

LEMMA GreetsStay ==
  ASSUME TypeOK, NEW c \in Conns, GreetsOnce(c), Stays(c)
  PROVE  GreetsOnce(c)'
<1>1. Early(c)' => \A i \in 1 .. Len(toClient'[c]) : toClient'[c][i].type # "greeting"
  BY NoGreetingStays DEF Stays
<1>2. Greeted(c)' => \E i \in 1 .. Len(toClient'[c]) : \A j \in 1 .. Len(toClient'[c]) :
                       toClient'[c][j].type = "greeting" <=> i = j
  BY GreetingStays DEF Stays
<1> QED
  BY <1>1, <1>2 DEF GreetsOnce

\* The step of a connection that is not greeted in it.
LEMMA MomentOfStep ==
  ASSUME TypeOK, TypeOK', Greetings, Continues, NEW c \in Conns, Stays(c), Copied(c)' \/ Greeted(c)'
  PROVE  \E n \in 0 .. Len(said') : Moment(c, n)'
<1>1. PICK n \in 0 .. Len(said) : Moment(c, n)
  BY DEF Stays, Greetings
<1>2. Copied(c)' => thread'[c].text = RecentOf(n)
  BY <1>1 DEF Stays, Moment
<1>3. Greeted(c)' => GreetingOf(c)' = RecentOf(n)
  BY <1>1, GreetingStays DEF Stays, Moment, Greetings
<1>4. c \in ToSet(connected') => \A k \in n + 1 .. Len(said) : Delivered(c, k)
  BY <1>1 DEF Stays, Moment
<1>5. ToSet(toClient[c]) \subseteq ToSet(toClient'[c])
  BY ToldMore DEF Stays
<1> QED
  BY <1>2, <1>3, <1>4, <1>5, MomentStays

LEMMA GreetingsStay ==
  ASSUME TypeOK, TypeOK', Greetings, Continues, NEW c \in Conns,
         \A d \in Conns : d # c => Stays(d),
         Stays(c) \/ (GreetsOnce(c)' /\ \E n \in 0 .. Len(said') : Moment(c, n)')
  PROVE  Greetings'
<1>1. \A d \in Conns : GreetsOnce(d)'
  BY GreetsStay DEF Greetings
<1>2. \A d \in Conns : Copied(d)' \/ Greeted(d)' => \E n \in 0 .. Len(said') : Moment(d, n)'
  BY MomentOfStep
<1> QED
  BY <1>1, <1>2 DEF Greetings, Continues

\* A thread that is served goes on, and the others stay.
LEMMA ServedStays ==
  ASSUME NEW c, Told(c), c \in ToSet(connected') => c \in ToSet(connected),
         thread'[c] = thread[c]
           \/ (Greeted(c) /\ thread'[c].at \in {"loop", "post", "send", "bye", "end"})
  PROVE  Stays(c)
BY DEF Stays, Early, Copied, Greeted

LEMMA ContinuesSame ==
  ASSUME TypeOK, Greetings, UNCHANGED <<said, lastThree>>,
         \A l \in ToSet(said) :
           InProgress(l) => InProgress(l)' \/ \A c \in ToSet(connected') : l \in ToSet(toClient[c])
  PROVE  Continues
<1>1. Len(said) \in Nat
  BY SaidFacts
<1>2. \A n : RecentOf(n)' = RecentOf(n)
  BY DEF RecentOf
<1>3. \A n \in Len(said) + 1 .. Len(said') : InProgress(said[n])'
  BY <1>1
<1>4. lastThree' = RecentOf(Len(said))'
  BY DEF Greetings, RecentOf
<1> QED
  BY <1>1, <1>2, <1>3, <1>4 DEF Continues

\* The steps of a thread that neither records nor sends a line.
LEMMA ProgressSame ==
  ASSUME \A d \in Conns :
           /\ thread[d].at = "post" => thread'[d] = thread[d]
           /\ thread[d].at = "send" => thread'[d].at = "send" /\ cast'[d].frame = cast[d].frame
  PROVE  \A l : InProgress(l) => InProgress(l)'
BY DEF InProgress

LEMMA GreetingsServe ==
  ASSUME TypeOK, TypeOK', Greetings, UNCHANGED <<said, lastThree>>, NEW c \in Conns,
         \A d \in Conns : Told(d), ToSet(connected') \subseteq ToSet(connected),
         \A d \in Conns : d # c => thread'[d] = thread[d] /\ cast'[d].frame = cast[d].frame,
         \/ thread'[c] = thread[c] /\ cast'[c].frame = cast[c].frame
         \/ /\ thread[c].at \in {"loop", "bye"}
            /\ thread'[c].at \in {"loop", "post", "send", "bye", "end"}
  PROVE  Greetings'
<1>1. \A d \in Conns :
        /\ thread[d].at = "post" => thread'[d] = thread[d]
        /\ thread[d].at = "send" => thread'[d].at = "send" /\ cast'[d].frame = cast[d].frame
  OBVIOUS
<1>2. \A l : InProgress(l) => InProgress(l)'
  BY <1>1, ProgressSame
<1>3. Continues
  BY <1>2, ContinuesSame
<1>4. \A d \in Conns : Stays(d)
  BY ServedStays DEF Greeted
<1> QED
  BY <1>3, <1>4, GreetingsStay

LEMMA ToldSend ==
  ASSUME TypeOK, NEW c \in Conns, NEW f \in Frames, f.type # "greeting", Send(c, f)
  PROVE  \A d \in Conns : Told(d)
BY SendFacts DEF Told

\* The steps that leave who broadcasts, the records and the threads alone.
LEMMA GreetingsAside ==
  ASSUME TypeOK, TypeOK', Greetings, UNCHANGED <<said, lastThree, thread>>,
         \A d \in Conns : Told(d), ToSet(connected') \subseteq ToSet(connected),
         \A d \in Conns : cast'[d].frame = cast[d].frame
  PROVE  Greetings'
<1>1. <<Owner, 1>> \in Conns
  BY ChatRoomAssumption DEF Conns, Members
<1> QED
  BY <1>1, GreetingsServe

LEMMA BroadcastGreetings ==
  ASSUME TypeOK, TypeOK', Greetings, NEW t \in Threads, Broadcast(t)
  PROVE  Greetings'
<1>1. /\ cast[t].frame \in Frames /\ cast[t].frame.type = "line"
      /\ connected[cast[t].next] \in Conns
      /\ Send(connected[cast[t].next], cast[t].frame)
      /\ cast'[t].frame = cast[t].frame
      /\ \A u \in Threads : u # t => cast'[u] = cast[u]
  BY BroadcastFacts, FrameFacts, LineFacts
<1>2. UNCHANGED <<connected, said, lastThree, thread>>
  BY DEF Broadcast
<1>3. \A d \in Conns : Told(d)
  BY <1>1, ToldSend
<1>4. \A d \in Conns : cast'[d].frame = cast[d].frame
  BY <1>1, ConnFacts
<1> QED
  BY <1>2, <1>3, <1>4, GreetingsAside

\* The steps that take the next command, and the end of a member's leaving.
LEMMA CommandGreetings ==
  ASSUME TypeOK, TypeOK', ConnInv, Greetings, NEW c \in Conns,
         EndOfStream(c) \/ DetachOwner(c) \/ DetachGuest(c) \/ Leave(c) \/ Left(c)
  PROVE  Greetings'
<1>1. UNCHANGED <<said, lastThree>>
  BY DEF EndOfStream, DetachOwner, DetachGuest, Leave, Left
<1>2. \A d \in Conns : Told(d)
  <2>1. CASE DetachOwner(c)
    BY <2>1, ToldSend, FrameFacts, FrameTypes DEF DetachOwner
  <2>2. CASE EndOfStream(c) \/ DetachGuest(c) \/ Leave(c)
    BY <2>2 DEF EndOfStream, DetachGuest, Leave, Told
  <2>3. CASE Left(c)
    BY <2>3, LeftFacts DEF Told
  <2> QED
    BY <2>1, <2>2, <2>3
<1>3. ToSet(connected') \subseteq ToSet(connected)
  <2>1. CASE EndOfStream(c) \/ DetachOwner(c) \/ Leave(c)
    BY <2>1, WithoutFacts DEF EndOfStream, DetachOwner, Leave, ConnInv
  <2>2. CASE Left(c)
    BY <2>2, LeftFacts DEF ToSet
  <2> QED
    BY <2>1, <2>2 DEF DetachGuest
<1>4. /\ \A d \in Conns : d # c => thread'[d] = thread[d]
      /\ \/ thread'[c] = thread[c]
         \/ /\ thread[c].at \in {"loop", "bye"}
            /\ thread'[c].at \in {"loop", "post", "send", "bye", "end"}
  BY GotoFacts DEF EndOfStream, DetachOwner, DetachGuest, Leave, Left, Reading, At, Places
<1>5. \A d \in Conns : d # c => cast'[d].frame = cast[d].frame
  BY ConnFacts DEF EndOfStream, DetachOwner, DetachGuest, Leave, Left, Start, Finish, TypeOK
<1>6. thread'[c] = thread[c] => cast'[c].frame = cast[c].frame \/ thread[c].at \in {"loop", "bye"}
  BY DEF EndOfStream, DetachOwner, DetachGuest, Leave, Left, Reading, At
<1>7. thread'[c] = thread[c] /\ thread[c].at \in {"loop", "bye"} =>
        thread'[c].at \in {"loop", "post", "send", "bye", "end"}
  OBVIOUS
<1> QED
  BY <1>1, <1>2, <1>3, <1>4, <1>5, <1>6, <1>7, GreetingsServe

LEMMA RecordGreetings ==
  ASSUME TypeOK, TypeOK', Greetings, NEW c \in Conns, Record(c)
  PROVE  Greetings'
<1>1. PICK r \in Records :
           /\ lastThree' = Remember(lastThree, r) /\ said' = Append(said, r)
           /\ thread' = [thread EXCEPT ![c] = [at |-> "post", text |-> <<r>>]]
           /\ <<r>> \in Seq(Records) /\ Len(<<r>>) = 1 /\ <<r>>[1] = r
  BY RecordFacts
<1>2. /\ thread[c].at = "loop" /\ thread'[c].at = "post" /\ thread'[c].text = <<r>>
      /\ \A d \in Conns : d # c => thread'[d] = thread[d]
      /\ UNCHANGED <<connected, cast, toClient>>
  <2>1. "post" \in Places
    BY DEF Places
  <2>2. /\ thread'[c].at = "post" /\ thread'[c].text = <<r>>
        /\ \A d \in Conns : d # c => thread'[d] = thread[d]
    BY <1>1, <2>1, PutFacts
  <2>3. thread[c].at = "loop" /\ UNCHANGED <<connected, cast, toClient>>
    BY DEF Record, Reading, At
  <2> QED
    BY <2>2, <2>3
<1>3. /\ said \in Seq(Records) /\ Len(said) \in Nat /\ Len(said') = Len(said) + 1
      /\ said'[Len(said) + 1] = r
      /\ \A n \in 1 .. Len(said) : said'[n] = said[n]
  BY <1>1, SaidFacts, AppendProperties
<1>4. \A l : InProgress(l) => InProgress(l)'
  <2>1. \A d \in Conns :
          /\ thread[d].at = "post" => thread'[d] = thread[d]
          /\ thread[d].at = "send" => thread'[d].at = "send" /\ cast'[d].frame = cast[d].frame
    BY <1>2
  <2> QED
    BY <2>1, ProgressSame
<1>5. InProgress(r)'
  BY <1>2 DEF InProgress
<1>6. \A n \in 0 .. Len(said) : RecentOf(n)' = RecentOf(n)
  BY <1>1, <1>3, RecentStays DEF RecentOf
<1>7. lastThree' = RecentOf(Len(said))'
  BY <1>1, <1>3, RememberRecent DEF Greetings, RecentOf
<1>8. \A n \in Len(said) + 1 .. Len(said') : InProgress(said[n])'
  BY <1>3, <1>5 DEF InProgress
<1>9. Continues
  BY <1>3, <1>4, <1>6, <1>7, <1>8 DEF Continues
<1>10. \A d \in Conns : Stays(d)
  BY <1>2, ServedStays DEF Greeted, Told
<1> QED
  BY <1>9, <1>10, GreetingsStay

LEMMA PostGreetings ==
  ASSUME TypeOK, TypeOK', Posting, Greetings, NEW c \in Conns, Post(c)
  PROVE  Greetings'
<1>1. /\ Head(thread[c].text) = thread[c].text[1] /\ thread[c].text[1] \in Records
      /\ Start(c, thread[c].text[1])
  BY PostFacts
<1>2. /\ thread[c].at = "post" /\ thread'[c].at = "send"
      /\ \A d \in Conns : d # c => thread'[d] = thread[d]
      /\ UNCHANGED <<connected, said, lastThree, toClient>>
  BY GotoFacts DEF Post, At, Places, streams
<1>3. /\ cast'[c].frame = Head(thread[c].text)
      /\ \A t \in Threads : t # c => cast'[t] = cast[t]
  BY <1>1, StartFacts, ConnFacts, FrameFacts
<1>4. \A d \in Conns : d # c => cast'[d] = cast[d]
  BY <1>3, ConnFacts
<1>5. ASSUME NEW l, InProgress(l) PROVE InProgress(l)'
  <2>1. PICK d \in Conns :
          \/ thread[d].at = "post" /\ Head(thread[d].text) = l
          \/ thread[d].at = "send" /\ cast[d].frame = l
    BY <1>5 DEF InProgress
  <2>2. CASE d = c
    BY <1>2, <1>3, <2>1, <2>2 DEF InProgress
  <2>3. CASE d # c
    BY <1>2, <1>4, <2>1, <2>3 DEF InProgress
  <2> QED
    BY <2>2, <2>3
<1>6. Continues
  BY <1>2, <1>5, ContinuesSame
<1>7. \A d \in Conns : Stays(d)
  BY <1>2, ServedStays DEF Greeted, Told
<1> QED
  BY <1>6, <1>7, GreetingsStay

\* When a line was sent to the last receiver, every receiver has it.
LEMMA PostedGreetings ==
  ASSUME TypeOK, TypeOK', Sending, Greetings, NEW c \in Conns, Posted(c)
  PROVE  Greetings'
<1>1. /\ thread[c].at = "send" /\ Sent(c) /\ Finish(c)
      /\ UNCHANGED <<connected, said, lastThree, toClient>>
  BY DEF Posted, At, streams
<1>2. /\ thread'[c].at = "loop"
      /\ \A d \in Conns : d # c => thread'[d] = thread[d]
  BY PutFacts, EmptySeq DEF Posted, Places
<1>3. \A d \in Conns : d # c => cast'[d] = cast[d]
  BY <1>1, FinishFacts, ConnFacts
<1>4. ASSUME NEW l \in ToSet(said), InProgress(l)
      PROVE  InProgress(l)' \/ \A d \in ToSet(connected') : l \in ToSet(toClient[d])
  <2>1. PICK d \in Conns :
          \/ thread[d].at = "post" /\ Head(thread[d].text) = l
          \/ thread[d].at = "send" /\ cast[d].frame = l
    BY <1>4 DEF InProgress
  <2>2. CASE d = c
    <3>1. cast[c].frame = l /\ l \in Records
      BY <1>1, <2>1, <2>2, SaidFacts
    <3>2. \A i \in 1 .. Len(connected) : i < cast[c].next <=> l \in ToSet(toClient[connected[i]])
      BY <3>1, ConnFacts DEF Sending
    <3>3. cast[c].next \in Nat /\ Len(connected) \in Nat /\ cast[c].next > Len(connected)
      BY <1>1, ListFacts, ConnFacts DEF TypeOK, Sent
    <3>4. \A i \in 1 .. Len(connected) : l \in ToSet(toClient[connected[i]])
      BY <3>2, <3>3
    <3>5. \A e \in ToSet(connected) : \E i \in 1 .. Len(connected) : connected[i] = e
      BY ListFacts, SetOfList
    <3> QED
      BY <1>1, <3>4, <3>5
  <2>3. CASE d # c
    BY <1>2, <1>3, <2>1, <2>3 DEF InProgress
  <2> QED
    BY <2>2, <2>3
<1>5. Continues
  BY <1>1, <1>4, ContinuesSame
<1>6. \A d \in Conns : Stays(d)
  BY <1>1, <1>2, ServedStays DEF Greeted, Told
<1> QED
  BY <1>5, <1>6, GreetingsStay

\* A newcomer's greeting: copied, begun and sent.
LEMMA GreetGreetings ==
  ASSUME TypeOK, TypeOK', Greetings, NEW c \in Conns, Greet(c)
  PROVE  Greetings'
<1>1. UNCHANGED <<connected, cast, said, lastThree>>
  BY DEF Greet
<1>2. /\ thread[c].at \in {"greet", "half", "body"}
      /\ \A d \in Conns : d # c => thread'[d] = thread[d] /\ toClient'[d] = toClient[d]
  <2>1. CASE At(c, "greet") /\ toClient' = toClient
             /\ thread' = [thread EXCEPT ![c] = [at |-> "half", text |-> lastThree]]
    BY <2>1 DEF At, TypeOK
  <2>2. CASE At(c, "half") /\ Send(c, Half) /\ Goto(c, "body")
    BY <2>2, GotoFacts, SendFacts, FrameFacts DEF At, Places
  <2>3. CASE At(c, "body") /\ Send(c, Greeting(thread[c].text)) /\ Goto(c, "loop")
    <3>1. thread[c].text \in Seq(Records)
      BY DEF TypeOK
    <3> QED
      BY <2>3, <3>1, GotoFacts, SendFacts, FrameFacts DEF At, Places
  <2> QED
    BY <2>1, <2>2, <2>3 DEF Greet
<1>3. Continues
  <2>1. \A d \in Conns :
          /\ thread[d].at = "post" => thread'[d] = thread[d]
          /\ thread[d].at = "send" => thread'[d].at = "send" /\ cast'[d].frame = cast[d].frame
    BY <1>1, <1>2
  <2> QED
    BY <1>1, <2>1, ProgressSame, ContinuesSame
<1>4. \A d \in Conns : d # c => Stays(d)
  BY <1>1, <1>2, ServedStays DEF Told
<1>5. CASE At(c, "greet") /\ toClient' = toClient
             /\ thread' = [thread EXCEPT ![c] = [at |-> "half", text |-> lastThree]]
  <2> DEFINE n == Len(said)
  <2>1. thread'[c].at = "half" /\ thread'[c].text = lastThree /\ thread[c].at = "greet"
    BY <1>5 DEF TypeOK, At
  <2>2. GreetsOnce(c)'
    BY <1>5, <2>1 DEF Greetings, GreetsOnce, Early, Greeted
  <2>3. PICK m : m = n
    OBVIOUS
  <2>4. m \in Nat /\ m \in 0 .. n /\ lastThree = RecentOf(m)
    BY <2>3, SaidFacts DEF Greetings
  <2>5. Moment(c, m)'
    <3>1. Copied(c)' => thread'[c].text = RecentOf(m)
      BY <2>1, <2>4
    <3>2. ~Greeted(c)'
      BY <2>1 DEF Greeted
    <3>3. \A k \in m + 1 .. Len(said) : Delivered(c, k)
      BY <2>3, <2>4
    <3> QED
      BY <1>3, <1>5, <2>4, <3>1, <3>2, <3>3, MomentStays
  <2> QED
    BY <1>1, <1>3, <1>4, <2>2, <2>4, <2>5, GreetingsStay
<1>6. CASE At(c, "half") /\ Send(c, Half) /\ Goto(c, "body")
  <2>1. thread'[c].at = "body" /\ thread'[c].text = thread[c].text /\ thread[c].at = "half"
    BY <1>6, GotoFacts DEF At, Places
  <2>2. Told(c)
    BY <1>6, ToldSend, FrameFacts, FrameTypes
  <2>3. Stays(c)
    BY <1>1, <2>1, <2>2 DEF Stays, Early, Copied, Greeted
  <2> QED
    BY <1>3, <1>4, <2>3, GreetingsStay
<1>7. CASE At(c, "body") /\ Send(c, Greeting(thread[c].text)) /\ Goto(c, "loop")
  <2>1. thread'[c].at = "loop" /\ thread[c].at = "body"
    BY <1>7, GotoFacts DEF At, Places
  <2>2. PICK text \in Seq(Records) : text = thread[c].text
    BY DEF TypeOK
  <2>3. /\ Greeting(text) \in Frames /\ Greeting(text).type = "greeting"
        /\ Greeting(text).records = text
        /\ toClient'[c] = Append(toClient[c], Greeting(text))
    BY <1>7, <2>2, FrameFacts, FrameTypes, SendFacts
  <2>4. PICK m \in Nat : m = Len(toClient[c])
    BY ClientList
  <2>5. /\ Len(toClient'[c]) = m + 1 /\ toClient'[c][m + 1] = Greeting(text)
        /\ \A i \in 1 .. m : toClient'[c][i] = toClient[c][i]
    BY <2>3, <2>4, ClientList, AppendProperties
  <2>6. \A i \in 1 .. m : toClient[c][i].type # "greeting"
    BY <2>1, <2>4 DEF Greetings, GreetsOnce, Early
  <2>7. m + 1 \in 1 .. Len(toClient'[c])
        /\ \A j \in 1 .. Len(toClient'[c]) : toClient'[c][j].type = "greeting" <=> m + 1 = j
    <3> SUFFICES ASSUME NEW j \in 1 .. m + 1
                 PROVE  toClient'[c][j].type = "greeting" <=> m + 1 = j
      BY <2>5
    <3>1. j = m + 1 \/ j \in 1 .. m
      OBVIOUS
    <3>2. j \in 1 .. m => j # m + 1
      OBVIOUS
    <3> QED
      BY <2>3, <2>5, <2>6, <3>1, <3>2
  <2>8. GreetsOnce(c)'
    BY <2>1, <2>7 DEF GreetsOnce, Early
  <2>9. GreetingOf(c)' = text
    BY <2>3, <2>5, <2>7, GreetingAt DEF GreetingOf
  <2>10. PICK n \in 0 .. Len(said) : Moment(c, n)
    BY <2>1 DEF Greetings, Copied
  <2>11. text = RecentOf(n)
    BY <2>1, <2>2, <2>10 DEF Moment, Copied
  <2>12. c \in ToSet(connected') => \A k \in n + 1 .. Len(said) : Delivered(c, k)
    BY <1>1, <2>10 DEF Moment
  <2>13. ToSet(toClient[c]) \subseteq ToSet(toClient'[c])
    BY <2>3, ClientList, AppendSet
  <2>14. ~Copied(c)'
    BY <2>1 DEF Copied
  <2>15. n \in 0 .. Len(said') /\ Moment(c, n)'
    BY <1>3, <2>9, <2>11, <2>12, <2>13, <2>14, MomentStays
  <2> QED
    BY <1>3, <1>4, <2>8, <2>15, GreetingsStay
<1> QED
  BY <1>5, <1>6, <1>7 DEF Greet

\* A newcomer becomes a receiver before it is greeted.
LEMMA AdmitGreetings ==
  ASSUME TypeOK, TypeOK', ConnInv, Greetings, Admit
  PROVE  Greetings'
<1>1. PICK c \in Conns : c = listener.conn
  BY DEF Admit, TypeOK, ConnInv, Admission
<1>2. /\ UNCHANGED <<said, lastThree, toClient>>
      /\ thread' = [thread EXCEPT ![c].at = "greet"]
      /\ connected' = Append(connected, c)
  BY <1>1 DEF Admit, streams
<1>3. /\ thread'[c].at = "greet" /\ thread[c].at = "off"
      /\ \A d \in Conns : d # c => thread'[d] = thread[d]
  BY <1>1, <1>2 DEF TypeOK, ConnInv, Admission, Waits
<1>4. \A d \in Conns : cast'[d] = cast[d]
  <2>1. CASE Finish(Listener)
    BY <2>1, FinishFacts, ConnFacts
  <2> QED
    BY <2>1 DEF Admit
<1>5. ToSet(connected') = ToSet(connected) \cup {c}
  BY <1>2, ListFacts, AppendSet
<1>6. \A l : InProgress(l) => InProgress(l)'
  <2>1. \A d \in Conns :
          /\ thread[d].at = "post" => thread'[d] = thread[d]
          /\ thread[d].at = "send" => thread'[d].at = "send" /\ cast'[d].frame = cast[d].frame
    BY <1>3, <1>4
  <2> QED
    BY <2>1, ProgressSame
<1>7. Continues
  BY <1>2, <1>6, ContinuesSame
<1>8. \A d \in Conns : d # c => Stays(d)
  BY <1>2, <1>3, <1>5, ServedStays DEF Told
<1>9. Stays(c)
  BY <1>2, <1>3 DEF Stays, Told, Early, Copied, Greeted
<1> QED
  BY <1>7, <1>8, <1>9, GreetingsStay

LEMMA ListenGreetings ==
  ASSUME TypeOK, TypeOK', ConnInv, Greetings, Listen
  PROVE  Greetings'
<1>1. CASE Accept
  BY <1>1, GreetingsAside DEF Accept, Told
<1>2. CASE Stop
  <2>1. \A d \in Conns : Told(d)
    BY <1>2, FrameFacts, FrameTypes DEF Stop, Told
  <2> QED
    BY <1>2, <2>1, GreetingsAside DEF Stop
<1>3. CASE Announce
  <2>1. \A d \in Conns : cast'[d] = cast[d]
    BY <1>3, ConnFacts DEF Announce, Start, TypeOK
  <2> QED
    BY <1>3, <2>1, GreetingsAside DEF Announce, Told, streams
<1>4. CASE Admit
  BY <1>4, AdmitGreetings
<1>5. CASE Broadcast(Listener)
  BY <1>5, BroadcastGreetings, ConnFacts
<1> QED
  BY <1>1, <1>2, <1>3, <1>4, <1>5 DEF Listen

LEMMA StepGreetings ==
  ASSUME TypeOK, TypeOK', ConnInv, LinesInv, Greetings, [Next]_vars
  PROVE  Greetings'
<1>1. CASE UNCHANGED vars
  BY <1>1, GreetingsAside DEF vars, server, streams, Told
<1>2. CASE \E c \in Conns : Serve(c)
  <2>1. PICK c \in Conns : Serve(c)
    BY <1>2
  <2>2. CASE Terminate(c)
    BY <2>2, GreetingsAside DEF Terminate, server, streams, Told
  <2> QED
    BY <2>1, <2>2, GreetGreetings, CommandGreetings, RecordGreetings, PostGreetings,
       PostedGreetings, BroadcastGreetings, ConnFacts DEF Serve, LinesInv
<1>3. CASE Reopen \/ (\E m \in Members : Use(m) \/ SendJoin(m) \/ Receive(m)) \/ \E g \in Mortal : Die(g)
  <2>1. UNCHANGED <<connected, cast, said, lastThree, thread, toClient>>
    BY <1>3 DEF Reopen, Use, Connect, Type, LeaveRoom, Detach, Command, SendJoin, Receive, Return,
       Stick, CloseStatus, CloseServer, Die, server, streams
  <2> QED
    BY <2>1, GreetingsAside DEF Told
<1> QED
  BY <1>1, <1>2, <1>3, ListenGreetings DEF Next

LEMMA InitGreetings == Init => Greetings
<1> SUFFICES ASSUME Init PROVE Greetings
  OBVIOUS
<1> DEFINE o == <<Owner, 1>>
           q == <<Half, Greeting(<<>>)>>
<1>1. o \in Conns /\ said = <<>> /\ lastThree = <<>> /\ Len(said) = 0
  BY ChatRoomAssumption, EmptySeq DEF Init, Conns, Members
<1>2. /\ thread[o].at = "loop" /\ toClient[o] = q
      /\ \A c \in Conns : c # o => thread[c].at = "off" /\ toClient[c] = <<>>
  BY <1>1 DEF Init
<1>3. /\ Len(q) = 2 /\ q[1].type = "half" /\ q[2].type = "greeting" /\ q[2].records = <<>>
  BY FrameTypes
<1>4. 2 \in 1 .. Len(q) /\ \A j \in 1 .. Len(q) : q[j].type = "greeting" <=> 2 = j
  BY <1>3
<1> HIDE DEF q
<1>5. GreetingOf(o) = <<>>
  BY <1>2, <1>3, <1>4, GreetingAt DEF GreetingOf
<1>6. RecentOf(0) = <<>>
  <2>1. Oldest(0) = 1
    BY ChatRoomAssumption DEF Oldest
  <2> QED
    BY <2>1, SubSeqEmpty DEF RecentOf
<1>7. ASSUME NEW c \in Conns PROVE GreetsOnce(c)
  <2>1. CASE c = o
    BY <1>2, <1>4, <2>1 DEF GreetsOnce, Early
  <2>2. CASE c # o
    BY <1>2, <2>2, EmptySeq DEF GreetsOnce, Greeted
  <2> QED
    BY <2>1, <2>2
<1>8. ASSUME NEW c \in Conns, Copied(c) \/ Greeted(c) PROVE Moment(c, 0)
  <2>1. c = o
    BY <1>2, <1>8 DEF Copied, Greeted
  <2> QED
    BY <1>1, <1>2, <1>5, <1>6, <2>1 DEF Moment, Copied
<1> QED
  BY <1>1, <1>6, <1>7, <1>8 DEF Greetings

-----------------------------------------------------------------------------
(* What holds of every chatroom.                                           *)

ChatInv == TypeOK /\ ConnInv /\ Numbers /\ LinesInv /\ Greetings

\* All of what the parts above say of the connections, of who has conn_mux, of
\* the order of the lines and of the greetings holds at every moment, however
\* the threads of the server and the clients take turns.
THEOREM ChatInvHolds == Safety => []ChatInv
<1>1. Init => ChatInv
  BY InitTypes, InitConns, InitNumbers, InitLines, InitGreetings DEF ChatInv
<1>2. ChatInv /\ [Next]_vars => ChatInv'
  <2> SUFFICES ASSUME ChatInv, [Next]_vars PROVE ChatInv'
    OBVIOUS
  <2>1. TypeOK'
    BY StepTypes DEF ChatInv, ConnInv, LinesInv
  <2>2. ConnInv'
    BY <2>1, StepConns DEF ChatInv, LinesInv
  <2>3. Numbers' /\ LinesInv'
    BY <2>1, StepNumbers, StepLines DEF ChatInv
  <2>4. Greetings'
    BY <2>1, StepGreetings DEF ChatInv
  <2> QED
    BY <2>1, <2>2, <2>3, <2>4 DEF ChatInv
<1> QED
  BY <1>1, <1>2, PTL DEF Safety

\* The variables stay in their sets; last_three never holds more than three.
THEOREM ChatTypesHold == Safety => []TypeOK
<1>1. ChatInv => TypeOK
  BY DEF ChatInv
<1> QED
  BY <1>1, ChatInvHolds, PTL

\* Whoever is in connected has a thread that runs, and is there once: the
\* listener's push_back and the threads' erase go together.
THEOREM ConnectedAreServedTheorem == Safety => []ConnectedAreServed
<1>1. ChatInv => ConnectedAreServed
  <2> SUFFICES ASSUME ChatInv PROVE ConnectedAreServed
    OBVIOUS
  <2>1. \A i \in 1 .. Len(connected) : connected[i] \in ToSet(connected)
    BY ListFacts, SetOfList DEF ChatInv
  <2> QED
    BY <2>1 DEF ChatInv, ConnInv, Admission, ConnectedAreServed
<1> QED
  BY <1>1, ChatInvHolds, PTL

\* Who was told to leave, or saw the room closed, is sent no line afterwards: the
\* threads erase before they tell.
THEOREM NoLineAfterExitTheorem == Safety => []NoLineAfterExit
<1>1. ChatInv => NoLineAfterExit
  BY DEF ChatInv, ConnInv, Exits
<1> QED
  BY <1>1, ChatInvHolds, PTL

\* While the BBS says that the room is open and its process runs, its port is
\* open: the status is closed before the listener stops.
THEOREM OpenRoomListensTheorem == Safety => []OpenRoomListens
<1>1. ChatInv => OpenRoomListens
  BY DEF ChatInv, ConnInv, OwnerRoom, OpenRoomListens
<1> QED
  BY <1>1, ChatInvHolds, PTL

\* No two members see two lines in different orders, and nobody sees a line twice:
\* conn_mux is held for the whole of a broadcast.
THEOREM SameOrderTheorem == Safety => []SameOrder
<1>1. ChatInv => SameOrder
  BY DEF ChatInv, LinesInv
<1> QED
  BY <1>1, ChatInvHolds, PTL

\* A greeting shows the latest records of some moment, in their order: last_three
\* is copied under msg_mux.
THEOREM GreetingIsRecentTheorem == Safety => []GreetingIsRecent
<1>1. ChatInv => GreetingIsRecent
  BY DEF ChatInv, Greetings, Moment, GreetingIsRecent, RecentOf, Oldest
<1> QED
  BY <1>1, ChatInvHolds, PTL

\* No receiver misses a line, between the greeting it was sent and the broadcasts
\* of the lines said since: it is on the list before its greeting is copied.
THEOREM NoMissedLineTheorem == Safety => []NoMissedLine
<1>1. ASSUME ChatInv PROVE NoMissedLine
  <2> SUFFICES ASSUME NEW i \in 1 .. Len(connected), Greeted(connected[i]),
                      NEW k \in 1 .. Len(said)
               PROVE  \/ said[k] \in ToSet(GreetingOf(connected[i]))
                      \/ said[k] \in ToSet(toClient[connected[i]])
                      \/ InProgress(said[k])
                      \/ /\ Len(GreetingOf(connected[i])) = Recent
                         /\ \A j \in 1 .. k : said[j] # GreetingOf(connected[i])[1]
    BY DEF NoMissedLine
  <2>1. PICK c \in Conns : c = connected[i] /\ c \in ToSet(connected)
    BY <1>1, ListFacts, SetOfList, ElementOfSeq DEF ChatInv
  <2>2. PICK n \in 0 .. Len(said) : Moment(c, n)
    BY <1>1, <2>1 DEF ChatInv, Greetings
  <2>3. PICK shown : shown = GreetingOf(c) /\ shown = SubSeq(said, Oldest(n), n)
    BY <2>1, <2>2 DEF Moment, RecentOf
  <2>4. said \in Seq(Records) /\ Len(said) \in Nat /\ Recent \in Nat \ {0}
    BY <1>1, SaidFacts, ChatRoomAssumption DEF ChatInv
  <2>5. /\ shown \in Seq(Records) /\ Len(shown) = n - Oldest(n) + 1
        /\ Oldest(n) \in 1 .. n + 1
        /\ \A j \in 1 .. n - Oldest(n) + 1 : shown[j] = said[Oldest(n) + j - 1]
    BY <2>3, <2>4, RecentIndex
  <2>6. CASE k > n
    <3>1. k \in n + 1 .. Len(said)
      BY <2>4, <2>6
    <3> QED
      BY <2>1, <2>2, <3>1 DEF Moment, Delivered
  <2>7. CASE k <= n /\ k >= Oldest(n)
    <3>1. PICK j \in 1 .. n - Oldest(n) + 1 : k = Oldest(n) + j - 1
      <4>1. k - Oldest(n) + 1 \in 1 .. n - Oldest(n) + 1
            /\ k = Oldest(n) + (k - Oldest(n) + 1) - 1
        BY <2>4, <2>5, <2>7
      <4> QED
        BY <4>1
    <3>2. said[k] \in ToSet(shown)
      BY <2>5, <3>1, SetOfList
    <3> QED
      BY <2>1, <2>3, <3>2
  <2>8. CASE k < Oldest(n)
    <3>1. Oldest(n) = n - Recent + 1 /\ n > Recent
      BY <2>4, <2>8 DEF Oldest
    <3>2. Len(shown) = Recent /\ 1 \in 1 .. n - Oldest(n) + 1
      BY <2>4, <2>5, <3>1, SMTT(30)
    <3>3. shown[1] = said[Oldest(n)] /\ Oldest(n) \in 1 .. Len(said)
      BY <2>4, <2>5, <3>1, <3>2
    <3>4. ASSUME NEW j \in 1 .. k PROVE said[j] # shown[1]
      <4>1. j \in 1 .. Len(said) /\ j # Oldest(n)
        BY <2>4, <2>5, <2>8
      <4> QED
        BY <1>1, <3>3, <4>1 DEF ChatInv, Numbers
    <3> QED
      BY <2>1, <2>3, <3>2, <3>4
  <2>9. k > n \/ (k <= n /\ k >= Oldest(n)) \/ k < Oldest(n)
    BY <2>4, <2>5
  <2> QED
    BY <2>6, <2>7, <2>8, <2>9
<1> QED
  BY <1>1, ChatInvHolds, PTL
=============================================================================
