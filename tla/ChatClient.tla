----------------------------- MODULE ChatClient -----------------------------
(***************************************************************************)
(* What one chat client, Me, knows of the session it is in.                *)
(*                                                                         *)
(* The hub tells it of joins, leaves and of the end of its session; each   *)
(* notice is handled by a goroutine of its own, which asks the hub for the *)
(* members and then replaces the participants map by the answer. onReady   *)
(* does the same once. What happens in the hub is Membership.              *)
(***************************************************************************)
EXTENDS Membership, FiniteSets, Naturals

CONSTANTS
  Me,           \* the chat client
  MaxHandlers   \* bound on the notices handled at once

ASSUME ChatAssumption == Me \in Client /\ MaxHandlers \in Nat \ {0}

VARIABLES
  departed,   \* the lost clients Hub.Run has dealt with
  fans,       \* notifying goroutines of the hub that have not told Me yet
  notices,    \* calls to Me that are under way
  main,       \* where onReady is
  mine,       \* client.Session
  asking,     \* refreshes whose SessionMembers call is under way
  fetched,    \* refreshes with the members they got
  roster,     \* ChatClient.participants: no entry, a nil name, or a name
  shown,      \* the clients whose name some goroutine may be about to print
  closed,     \* was Client.Close called?
  panicked,   \* did a goroutine of Me dereference a nil name?
  settled,    \* history: the clients that were known while nothing refreshed
  overlapped  \* history: did two refreshes ever overlap?

chat == <<main, mine, asking, fetched, roster, shown, closed, panicked,
          settled, overlapped>>
allVars == <<vars, departed, fans, notices, chat>>

Roster == [Client -> {"absent", "nil", "named"}]
Nobody == [c \in Client |-> "absent"]

Notice == [kind : {"MemberJoin", "ParticipantLeave", "SessionClosed"}, about : Client]
Ready == [kind |-> "Ready", about |-> Me]

ChatTypeOK ==
  /\ TypeOK
  /\ departed \subseteq gone
  /\ fans \subseteq [n : Notice, s : Session]
  /\ notices \subseteq Notice
  /\ main \in {"start", "hosting", "joining", "ready", "chatting"}
  /\ mine \in Session \cup {None}
  /\ asking \subseteq Notice \cup {Ready}
  /\ fetched \subseteq [n : Notice \cup {Ready}, members : Roster]
  /\ roster \in Roster
  /\ shown \subseteq Client
  /\ closed \in BOOLEAN
  /\ panicked \in BOOLEAN
  /\ overlapped \in BOOLEAN
  /\ settled \subseteq Client

ChatInit ==
  /\ Init
  /\ departed = {}
  /\ fans = {}
  /\ notices = {}
  /\ main = "start"
  /\ mine = None
  /\ asking = {}
  /\ fetched = {}
  /\ roster = Nobody
  /\ shown = {}
  /\ closed = FALSE
  /\ panicked = FALSE
  /\ settled = {}
  /\ overlapped = FALSE

-----------------------------------------------------------------------------
(* The hub *)

(* A client is lost, or has a step of its Host or Join done. Me makes one
   request, for the session in mine.                                       *)
HubStep(c) ==
  /\ \/ Lose(c)
     \/ \E s \in Session :
          \/ (c = Me => main = "hosting" /\ s = mine) /\ Publish(c, s)
          \/ (c = Me => main = "joining" /\ s = mine) /\ Add(c, s)
  /\ UNCHANGED <<departed, fans, notices, chat>>

(* A Join that assigns its client's fields starts the goroutine that tells
   the members of it.                                                      *)
HubEnter(c, s) ==
  /\ c = Me => main \in {"hosting", "joining"} /\ s = mine
  /\ main = "joining" => c # Me \/ c \in participants[s]
  /\ main = "hosting" => c = Me \/ s # mine \/ host[s] = Me
  /\ session[c] # s
  /\ Enter(c, s)
  /\ fans' = IF c \in participants[s]
             THEN fans \cup {[n |-> [kind |-> "MemberJoin", about |-> c], s |-> s]}
             ELSE fans
  /\ UNCHANGED <<departed, notices, chat>>

(* Mutant of Depart: the client need not be lost. *)
DepartAlive(c) ==
  /\ c \notin departed
  /\ departed' = departed \cup {c}
  /\ UNCHANGED <<vars, fans, notices, chat>>

(* Hub.Run's teardown of a lost client: its session ends or is told. Run may
   have decided which by an earlier session of the client.                 *)
Depart(c) ==
  /\ c \in gone \ departed
  /\ departed' = departed \cup {c}
  /\ LET s == session[c]
         fan(k) == fans \cup {[n |-> [kind |-> k, about |-> c], s |-> s]}
     IN \/ /\ s \notin sessions
           /\ UNCHANGED <<vars, fans>>
        \/ /\ s \in sessions
           /\ Ends(c, s)
           /\ End(s)
           /\ fans' = fan("SessionClosed")
        \/ /\ s \in sessions
           /\ host[s] # c \/ \E t \in Session \ {s} : c \in participants[t]
           /\ fans' = fan("ParticipantLeave")
           /\ UNCHANGED vars
  /\ UNCHANGED <<notices, chat>>

(* CloseSession tells the participants but for the host, the goroutines of
   Join and LeaveSession everybody but for the client they are about.      *)
Audience(f) == IF f.n.kind = "SessionClosed"
               THEN participants[f.s] \ {host[f.s]}
               ELSE (participants[f.s] \cup {host[f.s]}) \ {f.n.about}

(* The goroutine, or CloseSession's loop, comes to Me or finds that it is not
   there. Nothing says when: the loop may first wait for others.           *)
FanOut(f) ==
  /\ fans' = fans \ {f}
  /\ notices' = IF Me \in Audience(f) THEN notices \cup {f.n} ELSE notices
  /\ UNCHANGED <<vars, departed, chat>>

(* Mutant of Members: the host is not added. *)
MembersNoHost(s) ==
  [c \in Client |->
     IF s \in sessions /\ c \in participants[s]
     THEN IF session[c] = None THEN "nil" ELSE "named"
     ELSE "absent"]

(* SessionManager.Members: the participants with their names, and the host.
   A client has no name before its first Host or Join fills it in. Without a
   session the reply stays empty, and so does the caller's map.            *)
Members(s) ==
  [c \in Client |->
     IF s \in sessions /\ c \in participants[s] \cup {host[s]}
     THEN IF session[c] = None THEN "nil" ELSE "named"
     ELSE "absent"]

-----------------------------------------------------------------------------
(* The chat client *)

(* onReady: StartHosting draws a session id nobody has, JoinSession is told
   one.                                                                    *)
Request(s) ==
  /\ main = "start"
  /\ \/ main' = "joining"
     \/ /\ host[s] = None /\ \A c \in Client : session[c] # s
        /\ main' = "hosting"
  /\ mine' = s
  /\ UNCHANGED <<vars, departed, fans, notices, asking, fetched, roster,
                 shown, closed, panicked, settled, overlapped>>

(* SessionMembers is called: by onReady when its request has returned, by
   onSessionChange when a notice was read and emitted.                     *)
Ask(n) ==
  /\ asking' = asking \cup {n}
  /\ overlapped' = (overlapped \/ asking \cup fetched # {})
  /\ UNCHANGED <<vars, departed, fans, mine, fetched, roster,
                 shown, closed, panicked, settled>>

(* The request has returned: Me hosts its session, has joined it, was told
   that there is none, or has lost its connection. onReady goes on anyway. *)
Entered ==
  /\ \/ main = "hosting" /\ host[mine] = Me
     \/ main = "joining" /\ session[Me] = mine
     \/ main = "joining" /\ mine \notin sessions /\ Me \notin participants[mine]
     \/ main \in {"hosting", "joining"} /\ Me \in gone
  /\ main' = "ready"
  /\ Ask(Ready)
  /\ UNCHANGED notices

Receive(n) ==
  /\ ~ closed
  /\ Me \notin gone
  /\ Cardinality(asking \cup fetched) < MaxHandlers
  /\ notices' = notices \ {n}
  /\ Ask(n)
  /\ UNCHANGED main

(* Mutant of Fetch: the call may fail although the connection is up. *)
FetchFails(n) ==
  /\ asking' = asking \ {n}
  /\ \E m \in {Members(mine), Nobody} :
       fetched' = fetched \cup {[n |-> n, members |-> m]}
  /\ UNCHANGED <<vars, departed, fans, notices, main, mine, roster,
                 shown, closed, panicked, settled, overlapped>>

(* The call returns with what the hub's handler read; when the connection is
   lost or was closed, with nothing.                                       *)
Fetch(n) ==
  /\ asking' = asking \ {n}
  /\ \/ /\ Me \notin gone
        /\ ~ closed
        /\ fetched' = fetched \cup {[n |-> n, members |-> Members(mine)]}
     \/ /\ Me \in gone \/ closed
        /\ fetched' = fetched \cup {[n |-> n, members |-> Nobody]}
  /\ UNCHANGED <<vars, departed, fans, notices, main, mine, roster,
                 shown, closed, panicked, settled, overlapped>>

(* Mutant of Apply: the end of the session does not close the client. *)
ApplyStays(f) ==
  /\ fetched' = fetched \ {f}
  /\ roster' = f.members
  /\ main' = IF f.n = Ready THEN "chatting" ELSE main
  /\ shown' = shown \cup {c \in Client : f.members[c] = "named"}
  /\ settled' = IF asking \cup fetched' = {}
                THEN settled \cup {c \in Client : f.members[c] = "named"}
                ELSE settled
  /\ UNCHANGED <<vars, departed, fans, notices, mine, asking, closed, panicked,
                 overlapped>>

(* The answer replaces the participants; the end of the session closes the
   client.                                                                 *)
Apply(f) ==
  /\ fetched' = fetched \ {f}
  /\ roster' = f.members
  /\ main' = IF f.n = Ready THEN "chatting" ELSE main
  /\ shown' = shown \cup {c \in Client : f.members[c] = "named"}
  /\ closed' = (closed \/ f.n.kind = "SessionClosed")
  /\ settled' = IF asking \cup fetched' = {}
                THEN settled \cup {c \in Client : f.members[c] = "named"}
                ELSE settled
  /\ UNCHANGED <<vars, departed, fans, notices, mine, asking, panicked,
                 overlapped>>

(* Mutant of PrintName: the test that the name is there is dropped. *)
PrintUnchecked(c) ==
  /\ roster[c] # "named"
  /\ panicked' = TRUE
  /\ UNCHANGED <<vars, departed, fans, notices, main, mine, asking, fetched,
                 roster, shown, closed, settled, overlapped>>

(* OnMessage and onSessionChange find a name in participants and then read
   it again in order to print it: the second time it may be another map.   *)
PrintName(c) ==
  /\ c \in shown
  /\ roster[c] # "named"
  /\ panicked' = TRUE
  /\ UNCHANGED <<vars, departed, fans, notices, main, mine, asking, fetched,
                 roster, shown, closed, settled, overlapped>>

(* findParticipantFromName compares every name until one fits. *)
FindNil(c) ==
  /\ main = "chatting"
  /\ roster[c] = "nil"
  /\ panicked' = TRUE
  /\ UNCHANGED <<vars, departed, fans, notices, main, mine, asking, fetched,
                 roster, shown, closed, settled, overlapped>>

-----------------------------------------------------------------------------

HubSteps ==
  \/ \E c \in Client :
       HubStep(c) \/ Depart(c) \/ \E s \in Session : HubEnter(c, s)
  \/ \E f \in fans : FanOut(f)

ChatStep ==
  \/ \E s \in Session : Request(s)
  \/ Entered
  \/ \E n \in notices : Receive(n)
  \/ \E n \in asking : Fetch(n)
  \/ \E f \in fetched : Apply(f)
  \/ \E c \in Client : PrintName(c) \/ FindNil(c)

(* A panic ends Me, and what the hub does later does not matter to it. *)
ChatNext == ~ panicked /\ (HubSteps \/ ChatStep)

ChatSpec == ChatInit /\ [][ChatNext]_allVars

(* The client's goroutines run, and a call of a live connection returns. *)
ChatFairSpec ==
  /\ ChatSpec
  /\ \A n \in Notice :
       /\ WF_allVars(~ panicked /\ n \in notices /\ Receive(n))
       /\ WF_allVars(~ panicked /\ n \in asking /\ Fetch(n))
       /\ WF_allVars(~ panicked /\ \E f \in fetched : f.n = n /\ Apply(f))

-----------------------------------------------------------------------------

(* Me is not in its session, or no longer. *)
Over == mine \notin sessions \/ session[Me] # mine \/ Me \in gone \/ closed

Quiet == fans \cup notices \cup asking \cup fetched = {} /\ main = "chatting"

(* If refreshes never overlapped, then whenever nothing is under way
   participants names everybody who is in the session: those who were there
   first, those who came later, and those whose Join the hub announced while
   Me was not among the participants yet.                                  *)
Converged ==
  Quiet /\ ~ overlapped /\ ~ Over =>
    \A c \in Client : session[c] = mine => roster[c] = "named"

(* However refreshes overlap later, a participant that was known at a moment
   when none was under way stays known while the session lasts: an answer
   that overtakes another is never older than that moment.                 *)
KnownForGood == ~ Over => \A c \in settled : roster[c] = "named"

(* Without an overlap, and while the session lasts, the two reads of
   participants in OnMessage and onSessionChange agree; what remains is a
   participant without a name, met before its join is announced.           *)
PanicExplained ==
  panicked => \/ Over
              \/ overlapped
              \/ \E c \in Client : roster[c] = "nil"

(* A client that hears of the end of its session closes. *)
EndCloses ==
  (\E n \in notices : n.kind = "SessionClosed") ~> closed \/ Me \in gone \/ panicked
=============================================================================
