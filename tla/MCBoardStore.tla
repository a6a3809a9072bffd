---------------------------- MODULE MCBoardStore ----------------------------
(* Small instances of BoardStore.  Nothing in it orders or distinguishes   *)
(* threads, boards or users, and every property checked is a safety        *)
(* property that treats them alike, so the three are symmetric.            *)
EXTENDS BoardStore

StoreSymmetry ==
  Permutations(Threads) \cup Permutations(Boards) \cup Permutations(Users)
=============================================================================
