---- MODULE MCHubLink ----
(* One connection of either kind. *)
EXTENDS HubLink
MCKinds == {"kcp", "ws"}
====
