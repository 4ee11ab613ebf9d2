------------------------------- MODULE MCHub -------------------------------
(* Small instances of Hub for TLC. *)
EXTENDS Hub, TLC

CONSTANT Busy   \* the clients that issue two requests; the others issue one

Requests == [c \in Client |-> IF c \in Busy THEN 2 ELSE 1]

(* Sound where all clients are busy, or none. *)
Symmetry == Permutations(Client) \cup Permutations(Session)
=============================================================================
