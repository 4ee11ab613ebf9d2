---- MODULE MCClientLife ----
(* One client process over either transport. *)
EXTENDS ClientLife
====
