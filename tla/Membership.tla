----------------------------- MODULE Membership -----------------------------
(***************************************************************************)
(* What the hub promises about who is in which session, without saying     *)
(* how: no goroutines, no requests, no messages. Hub implements it.        *)
(*                                                                         *)
(* A session id is used once: it is drawn by the client that will host it, *)
(* published, and ended only when a client in it is lost: its host, or one *)
(* that hosts another session too, which the hub may take for the host of  *)
(* the session it has just moved to. A client is in at most one session,   *)
(* as its host or as one of its participants.                              *)
(***************************************************************************)
CONSTANTS Client, Session, None

ASSUME MembershipAssumption == None \notin Client /\ None \notin Session

VARIABLES
  gone,         \* the clients whose connection is lost
  sessions,     \* the sessions the hub lists
  host,         \* the host of every session that was ever published
  participants, \* all who ever joined a session
  session       \* the session a client is in

vars == <<gone, sessions, host, participants, session>>

TypeOK ==
  /\ gone \subseteq Client
  /\ sessions \subseteq Session
  /\ host \in [Session -> Client \cup {None}]
  /\ participants \in [Session -> SUBSET Client]
  /\ session \in [Client -> Session \cup {None}]

Init ==
  /\ gone = {}
  /\ sessions = {}
  /\ host = [s \in Session |-> None]
  /\ participants = [s \in Session |-> {}]
  /\ session = [c \in Client |-> None]

Lose(c) ==
  /\ gone' = gone \cup {c}
  /\ UNCHANGED <<sessions, host, participants, session>>

(* A client enters the session it is about to host, which nobody else is in,
   or one that already counts it among its participants.                   *)
Enter(c, s) ==
  /\ \/ host[s] = None /\ \A d \in Client \ {c} : session[d] # s
     \/ c \in participants[s]
  /\ session' = [session EXCEPT ![c] = s]
  /\ UNCHANGED <<gone, sessions, host, participants>>

Publish(c, s) ==
  /\ host[s] = None
  /\ session[c] = s
  /\ sessions' = sessions \cup {s}
  /\ host' = [host EXCEPT ![s] = c]
  /\ participants' = [participants EXCEPT ![s] = {}]
  /\ UNCHANGED <<gone, session>>

(* A join that found its session listed goes on after the session ended. *)
Add(c, s) ==
  /\ host[s] # None
  /\ participants' = [participants EXCEPT ![s] = @ \cup {c}]
  /\ UNCHANGED <<gone, sessions, host, session>>

(* c ends its session: it is its host, or went to it from one it hosts. *)
Ends(c, s) ==
  /\ c \in gone
  /\ session[c] = s
  /\ host[s] = c \/ \E t \in Session \ {s} : host[t] = c

End(s) ==
  /\ s \in sessions
  /\ \E c \in Client : Ends(c, s)
  /\ sessions' = sessions \ {s}
  /\ UNCHANGED <<gone, host, participants, session>>

Next ==
  \/ \E c \in Client :
       Lose(c) \/ \E s \in Session : Enter(c, s) \/ Publish(c, s) \/ Add(c, s)
  \/ \E s \in Session : End(s)

Spec == Init /\ [][Next]_vars

-----------------------------------------------------------------------------

(* Whoever is in a published session is its host or one of its participants,
   so nobody in it is missed by those who iterate over them: Members, Handle,
   CloseSession and the notifying goroutines.                              *)
MembersKnown ==
  \A c \in Client : LET s == session[c] IN
    s # None /\ host[s] # None => c = host[s] \/ c \in participants[s]

(* A session id never comes back once its session has ended. *)
EndedForGood ==
  [][\A s \in Session : s \notin sessions /\ host[s] # None => s \notin sessions']_vars

=============================================================================
