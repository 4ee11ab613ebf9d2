------------------------------ MODULE MCCodec ------------------------------
(* Small instances of Codec for TLC. *)
EXTENDS Codec
=============================================================================
