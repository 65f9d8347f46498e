----------------------------- MODULE RcbAllocator -----------------------------
(***************************************************************************)
(* What a client may expect of PickAndEnableStatDRBRCB ("selects a free    *)
(* buffered report control block"): an allocator of report control blocks. *)
(* A block is given to one session at a time and comes back when that      *)
(* session disables it or its client is gone.                              *)
(***************************************************************************)
CONSTANTS
  Sessions,  \* calls of PickAndEnableStatDRBRCB that may hold a block
  Blocks,    \* report control blocks of the server
  NoSession  \* nobody

VARIABLE
  holder     \* holder[b]: the session block b was given to

Init == holder = [b \in Blocks |-> NoSession]

Acquire(s, b) ==
  /\ holder[b] = NoSession
  /\ \A c \in Blocks : holder[c] # s
  /\ holder' = [holder EXCEPT ![b] = s]

(* Sessions give up what they hold, several at once when a client is lost. *)
Release(S) ==
  holder' = [b \in Blocks |-> IF holder[b] \in S THEN NoSession ELSE holder[b]]

Next ==
  \/ \E s \in Sessions, b \in Blocks : Acquire(s, b)
  \/ \E S \in SUBSET Sessions : Release(S)

Spec == Init /\ [][Next]_holder

=============================================================================
