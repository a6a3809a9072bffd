---------------------------- MODULE AccountCalls ----------------------------
(* What the commands that go over UDP promise: each call of a client takes   *)
(* effect once, between the command and its answer, and the answer is what   *)
(* that effect gave.                                                         *)
CONSTANTS Clients, Users, Numbers, None

VARIABLES taken,      \* who registered each name
          asked,      \* the call of each client
          outcome,    \* what it gave, once it took effect
          answered    \* the last answer of each client

vars == <<taken, asked, outcome, answered>>

\* A call has a number, so that it differs from the client's other calls.
Calls ==
  [client : Clients, number : Numbers, op : {"register"}, name : Users]
  \cup [client : Clients, number : Numbers, op : {"whoami", "list-chatroom"}, name : {None}]

\* addUser: the name is the key of the table.
Registered(table, call) ==
  IF call.op = "register" /\ table[call.name] = None
  THEN [table EXCEPT ![call.name] = call] ELSE table

Outcome(table, call) ==
  IF call.op # "register" THEN "shown"
  ELSE IF table[call.name] = None THEN "registered" ELSE "already used"

Init ==
  /\ taken = [u \in Users |-> None]
  /\ asked = [c \in Clients |-> None]
  /\ outcome = [c \in Clients |-> None]
  /\ answered = [c \in Clients |-> None]

Call(c) ==
  /\ asked[c] = None
  /\ \E call \in Calls : call.client = c /\ asked' = [asked EXCEPT ![c] = call]
  /\ UNCHANGED <<taken, outcome, answered>>

Effect(c) ==
  /\ asked[c] # None
  /\ outcome[c] = None
  /\ outcome' = [outcome EXCEPT ![c] = Outcome(taken, asked[c])]
  /\ taken' = Registered(taken, asked[c])
  /\ UNCHANGED <<asked, answered>>

Answer(c) ==
  /\ outcome[c] # None
  /\ answered' = [answered EXCEPT ![c] = [call |-> asked[c], outcome |-> outcome[c]]]
  /\ asked' = [asked EXCEPT ![c] = None]
  /\ outcome' = [outcome EXCEPT ![c] = None]
  /\ UNCHANGED taken

Next == \E c \in Clients : Call(c) \/ Effect(c) \/ Answer(c)

Spec == Init /\ [][Next]_vars
=============================================================================
