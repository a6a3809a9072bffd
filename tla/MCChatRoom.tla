---------------------------- MODULE MCChatRoom ----------------------------
(* ChatRoom with few guests, visits and lines.                             *)
EXTENDS ChatRoom, TLC

\* The specification treats the guests alike.
GuestSymmetry == Permutations(Guests)
=============================================================================
