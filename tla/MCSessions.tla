---------------------------- MODULE MCSessions ----------------------------
(* Sessions on small sets of clients, users and tokens.                    *)
EXTENDS Sessions, TLC

\* The specification treats the elements of each set alike.
SessionsSymmetry ==
  Permutations(Clients) \cup Permutations(Users) \cup Permutations(Tokens)
=============================================================================
