---------------------------- MODULE MCChatClient ----------------------------
(* Small instances of ChatClient for TLC. *)
EXTENDS ChatClient, TLC

Symmetry == Permutations(Client \ {Me}) \cup Permutations(Session)
=============================================================================
