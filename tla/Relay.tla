------------------------------- MODULE Relay -------------------------------
(***************************************************************************)
(* Hub.Handle: how a service message of one client reaches the others.     *)
(*                                                                         *)
(* Each message is handled by a goroutine of its own, which takes a list   *)
(* of candidates and calls them one after the other, waiting for each      *)
(* answer, while clients join, move on, leave and are lost. What happens   *)
(* to the sessions meanwhile is Membership, which Hub implements.          *)
(***************************************************************************)
EXTENDS Membership, Naturals

CONSTANT Message    \* the messages sent; each is sent once

ASSUME RelayAssumption == None \notin Message

VARIABLES
  ready,    \* the clients whose Client.Ready is set
  killed,   \* clients whose rpcClient was shut down by KILL
  state,    \* where the Handle of a message is
  from,     \* SessionMessage.Sender
  to,       \* SessionMessage.Target, None for a broadcast
  about,    \* SessionMessage.Session
  inside,   \* history: who was in the session, and ready, when they were taken
  due,      \* the candidates still to come, without the host
  hostDue,  \* is the host, the last candidate, still to come?
  callee,   \* the candidate being called
  got,      \* how often each client has executed the message
  reply,    \* the client whose answer is in *reply
  failed    \* history: the messages that were answered "Session not found"

relayVars == <<ready, killed, state, from, to, about, inside, due, hostDue,
               callee, got, reply, failed>>
allVars == <<vars, relayVars>>

RelayState == {"new", "sent", "choose", "called", "executed", "done"}

RelayTypeOK ==
  /\ TypeOK
  /\ ready \subseteq Client
  /\ killed \subseteq Client
  /\ state \in [Message -> RelayState]
  /\ from \in [Message -> Client \cup {None}]
  /\ to \in [Message -> Client \cup {None}]
  /\ about \in [Message -> Session \cup {None}]
  /\ inside \in [Message -> SUBSET Client]
  /\ due \in [Message -> SUBSET Client]
  /\ hostDue \in [Message -> BOOLEAN]
  /\ callee \in [Message -> Client \cup {None}]
  /\ got \in [Message -> [Client -> 0..2]]
  /\ reply \in [Message -> Client \cup {None}]
  /\ failed \subseteq Message

RelayInit ==
  /\ Init
  /\ ready = {}
  /\ killed = {}
  /\ state = [m \in Message |-> "new"]
  /\ from = [m \in Message |-> None]
  /\ to = [m \in Message |-> None]
  /\ about = [m \in Message |-> None]
  /\ inside = [m \in Message |-> {}]
  /\ due = [m \in Message |-> {}]
  /\ hostDue = [m \in Message |-> FALSE]
  /\ callee = [m \in Message |-> None]
  /\ got = [m \in Message |-> [c \in Client |-> 0]]
  /\ reply = [m \in Message |-> None]
  /\ failed = {}

(* A step of the hub. Host sets client.Ready between client.Session and the
   publication of the session.                                             *)
HubStep ==
  /\ Next
  /\ \A s \in sessions' \ sessions : host'[s] \in ready
  /\ UNCHANGED relayVars

(* client.Ready = true comes after client.Session in Host and Join; nobody
   ever resets it.                                                         *)
GetReady(c) ==
  /\ session[c] # None
  /\ c \notin ready
  /\ ready' = ready \cup {c}
  /\ UNCHANGED <<vars, killed, state, from, to, about, inside, due, hostDue,
                 callee, got, reply, failed>>

(* Hub.Run has handled the Unregister of a lost client: client.Close. *)
Kill(c) ==
  /\ c \in gone \ killed
  /\ killed' = killed \cup {c}
  /\ UNCHANGED <<vars, ready, state, from, to, about, inside, due, hostDue,
                 callee, got, reply, failed>>

(* The outgoing listener of RegisterService calls Hub.Handle. The session is
   the one the remote believes to be in: JoinSession stores it before, and
   even without, the hub's agreement. The target is any client.            *)
Send(m, c, t, s) ==
  /\ state[m] = "new"
  /\ c \notin gone
  /\ state' = [state EXCEPT ![m] = "sent"]
  /\ from' = [from EXCEPT ![m] = c]
  /\ to' = [to EXCEPT ![m] = t]
  /\ about' = [about EXCEPT ![m] = s]
  /\ UNCHANGED <<vars, ready, killed, inside, due, hostDue, callee, got,
                 reply, failed>>

NotFound(m) ==
  /\ state[m] = "sent"
  /\ about[m] \notin sessions
  /\ state' = [state EXCEPT ![m] = "done"]
  /\ failed' = failed \cup {m}
  /\ UNCHANGED <<vars, ready, killed, from, to, about, inside, due, hostDue,
                 callee, got, reply>>

(* Mutant of Present: client.Ready and client.Session are not looked at. *)
PresentStale(s) == participants[s]

Present(s) == {c \in participants[s] : c \in ready /\ session[c] = s}

(* The participants that are ready and in the session now, and then its host,
   who is appended without a test.                                         *)
Choose(m) ==
  /\ state[m] = "sent"
  /\ about[m] \in sessions
  /\ state' = [state EXCEPT ![m] = "choose"]
  /\ inside' = [inside EXCEPT ![m] = {c \in ready : session[c] = about[m]}]
  /\ due' = [due EXCEPT ![m] = Present(about[m])]
  /\ hostDue' = [hostDue EXCEPT ![m] = TRUE]
  /\ UNCHANGED <<vars, ready, killed, from, to, about, callee, got, reply,
                 failed>>

(* Mutant of Take: the participant stays a candidate and is called again. *)
TakeAgain(m, c) ==
  /\ state[m] = "choose"
  /\ \/ /\ c \in due[m]
        /\ UNCHANGED <<due, hostDue>>
     \/ /\ hostDue[m]
        /\ c = host[about[m]]
        /\ hostDue' = [hostDue EXCEPT ![m] = FALSE]
        /\ due' = [due EXCEPT ![m] = {}]

(* c is the next candidate: the participants come in map order. *)
Take(m, c) ==
  /\ state[m] = "choose"
  /\ \/ /\ c \in due[m]
        /\ due' = [due EXCEPT ![m] = @ \ {c}]
        /\ UNCHANGED hostDue
     \/ /\ due[m] = {}
        /\ hostDue[m]
        /\ c = host[about[m]]
        /\ hostDue' = [hostDue EXCEPT ![m] = FALSE]
        /\ UNCHANGED due

(* Mutant of Addressed: a target is ignored. *)
AddressedAll(m, c) == c # from[m]

Addressed(m, c) == IF to[m] = None THEN c # from[m] ELSE c = to[m]

Skip(m, c) ==
  /\ Take(m, c)
  /\ ~ Addressed(m, c)
  /\ UNCHANGED <<vars, ready, killed, state, from, to, about, inside, callee,
                 got, reply, failed>>

Call(m, c) ==
  /\ Take(m, c)
  /\ Addressed(m, c)
  /\ c \notin killed
  /\ state' = [state EXCEPT ![m] = "called"]
  /\ callee' = [callee EXCEPT ![m] = c]
  /\ UNCHANGED <<vars, ready, killed, from, to, about, inside, got, reply,
                 failed>>

(* Mutant of CallFails: the error is returned. *)
CallFailsReturns(m, c) ==
  /\ Take(m, c)
  /\ Addressed(m, c)
  /\ c \in gone
  /\ state' = [state EXCEPT ![m] = "done"]
  /\ UNCHANGED <<vars, ready, killed, from, to, about, inside, callee, got,
                 reply, failed>>

(* rpcClient is shut down, or the write to a broken connection fails: the
   error is ignored and the loop goes on.                                  *)
CallFails(m, c) ==
  /\ Take(m, c)
  /\ Addressed(m, c)
  /\ c \in gone
  /\ UNCHANGED <<vars, ready, killed, state, from, to, about, inside, callee,
                 got, reply, failed>>

(* Client.Handle executes the message at the remote. *)
Execute(m) ==
  /\ state[m] = "called"
  /\ callee[m] \notin gone
  /\ state' = [state EXCEPT ![m] = "executed"]
  /\ got' = [got EXCEPT ![m][callee[m]] = @ + 1]
  /\ UNCHANGED <<vars, ready, killed, from, to, about, inside, due, hostDue,
                 callee, reply, failed>>

(* Its answer arrives; only a private message keeps it. *)
Answer(m) ==
  /\ state[m] = "executed"
  /\ callee[m] \notin gone
  /\ state' = [state EXCEPT ![m] = "choose"]
  /\ reply' = IF to[m] = None THEN reply ELSE [reply EXCEPT ![m] = callee[m]]
  /\ UNCHANGED <<vars, ready, killed, from, to, about, inside, due, hostDue,
                 callee, got, failed>>

(* Mutant of Abort: a call that was executed is not failed. *)
AbortUnexecuted(m) ==
  /\ state[m] = "called"
  /\ callee[m] \in killed
  /\ state' = [state EXCEPT ![m] = "choose"]
  /\ UNCHANGED <<vars, ready, killed, from, to, about, inside, due, hostDue,
                 callee, got, reply, failed>>

(* KILL fails the call that waits in rpcClient. *)
Abort(m) ==
  /\ state[m] \in {"called", "executed"}
  /\ callee[m] \in killed
  /\ state' = [state EXCEPT ![m] = "choose"]
  /\ UNCHANGED <<vars, ready, killed, from, to, about, inside, due, hostDue,
                 callee, got, reply, failed>>

Return(m) ==
  /\ state[m] = "choose"
  /\ due[m] = {}
  /\ ~ hostDue[m]
  /\ state' = [state EXCEPT ![m] = "done"]
  /\ UNCHANGED <<vars, ready, killed, from, to, about, inside, due, hostDue,
                 callee, got, reply, failed>>

-----------------------------------------------------------------------------

Handle(m) ==
  \/ NotFound(m) \/ Choose(m) \/ Return(m) \/ Abort(m)
  \/ \E c \in Client : Skip(m, c) \/ Call(m, c) \/ CallFails(m, c)

Remote(m) == Execute(m) \/ Answer(m)

RelayNext ==
  \/ HubStep
  \/ \E c \in Client : GetReady(c) \/ Kill(c)
  \/ \E m \in Message, c \in Client, t \in Client \cup {None}, s \in Session :
       Send(m, c, t, s)
  \/ \E m \in Message : Handle(m) \/ Remote(m)

RelaySpec == RelayInit /\ [][RelayNext]_allVars

(* The goroutine of a message runs, a connected remote answers, and Run
   handles every loss (Hub!EveryLossHandled).                              *)
RelayFairSpec ==
  /\ RelaySpec
  /\ \A c \in Client : WF_allVars(Kill(c))
  /\ \A m \in Message : WF_allVars(Handle(m)) /\ WF_allVars(Remote(m))

-----------------------------------------------------------------------------

(* A client executes a message at most once, except for a host that joined
   its own session: it is a candidate twice.                               *)
OnceUnlessHostJoined ==
  \A m \in Message, c \in Client : got[m][c] > 1 =>
    c = host[about[m]] /\ c \in participants[about[m]]

(* When Handle returns from a broadcast, everybody who was in the session when
   the candidates were taken, and its host, has executed it or is lost,
   however many of the others were lost or moved on in between. In the session
   is whose Session is the message's and who is Ready: whoever is about to be
   made ready by its first Host or Join (hub-session.go:28-29, 45-46) has not
   been welcomed yet, and Handle passes it over (hub.go:58).               *)
BroadcastComplete ==
  \A m \in Message :
    state[m] = "done" /\ m \notin failed /\ to[m] = None =>
      \A c \in (inside[m] \cup {host[about[m]]}) \ {from[m]} :
        got[m][c] > 0 \/ c \in gone

(* A private message is executed by nobody but its target, and the sender
   gets the target's answer if the target is the host, or was in the session
   and ready when the candidates were taken, and is not lost.              *)
PrivateAnswered ==
  \A m \in Message : to[m] # None =>
    /\ \A c \in Client \ {to[m]} : got[m][c] = 0
    /\ state[m] = "done" /\ m \notin failed
         /\ to[m] \in (inside[m] \cup {host[about[m]]}) \ gone => reply[m] = to[m]

(* A participant that went to another session stays in Participants, and one
   that is joining is there early, but a message is only executed by clients
   that were ready and in its session when the candidates were taken, and by
   the host wherever it is.                                                *)
OnlyMembersExecute ==
  \A m \in Message, c \in Client :
    got[m][c] > 0 => c \in inside[m] \/ c = host[about[m]]

(* Every Handle returns: no lost or departed client holds it for ever. *)
HandleReturns == \A m \in Message : state[m] = "sent" ~> state[m] = "done"

=============================================================================
