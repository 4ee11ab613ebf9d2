-------------------------------- MODULE Hub --------------------------------
(***************************************************************************)
(* The chezmoi-net hub: the goroutine Hub.Run that registers and           *)
(* unregisters clients, the SessionManager whose Host and Join handlers    *)
(* run in RPC goroutines of their own, and for every connection the        *)
(* reader goroutine of its socket and the goroutine startJsonRPC.          *)
(*                                                                         *)
(* None of the maps Clients, IdClients, Sessions and Participants, nor     *)
(* the fields of hub.Client, is protected by a lock that two of these      *)
(* goroutines share (Hub.mutex is only ever taken by Run), so a handler is *)
(* split into the steps between which another goroutine can be seen.       *)
(***************************************************************************)
EXTENDS Naturals, FiniteSets

CONSTANTS
  Client,       \* the connections; a hub.Client and its uuid are one value
  Session,      \* the session ids; StartHosting mints a fresh one per call
  None,         \* Go's nil
  MaxRequests,  \* bound: Host and Join calls issued by every connection
  LossSilent    \* may a peer vanish while a call from the hub awaits it?

ASSUME HubAssumption ==
  /\ None \notin Client
  /\ None \notin Session
  /\ MaxRequests \in [Client -> Nat]
  /\ LossSilent \in BOOLEAN

VARIABLES
  conn,         \* the transport of a connection: "new", "open" or "gone"
  reader,       \* the goroutine started by Socket.Connect
  starter,      \* the goroutine startJsonRPC
  known,        \* has the remote been told its id (Client.Registered)?
  clients,      \* Hub.Clients
  idClients,    \* the keys of Hub.IdClients
  killed,       \* has KILL been emitted, so that rpcClient is shut down?
  at,           \* where Hub.Run is
  cl,           \* the client whose Unregister Hub.Run is handling
  cs,           \* the session CloseSession is closing
  todo,         \* the participants its range loop started with
  visited,      \* the participants its range loop has produced
  sessions,     \* the keys of SessionManager.Sessions
  host,         \* Session.Host of every session object
  participants, \* Session.Participants of every session object
  session,      \* Client.Session; Name is assigned with it
  minted,       \* session ids already drawn by StartHosting
  op,           \* the request of a client in progress: "Host" or "Join"
  arg,          \* the session that request names
  pc,           \* how far that request has come
  made,         \* number of requests the client has issued
  fans,         \* goroutines that are about to notify a whole session
  notices,      \* calls hub -> client that the client has not yet received
  seen,         \* the session events every client has been told of
  departs,      \* history: how often Run tore down the client's session
  late,         \* history: sessions published after their host departed
  abandoned,    \* history: sessions whose host went on to another session
  crashed       \* has a goroutine panicked (which ends the process)?

transport == <<conn, reader, starter, known>>
registry  == <<clients, idClients, killed>>
run       == <<at, cl, cs, todo, visited>>
store     == <<sessions, host, participants, session>>
request   == <<minted, op, arg, pc, made>>
outbox    == <<fans, notices, seen>>
history   == <<departs, late, abandoned>>

vars == <<transport, registry, run, store, request, outbox, history, crashed>>

-----------------------------------------------------------------------------
(* Types *)

ConnState    == {"new", "open", "gone"}
ReaderState  == {"off", "reading", "unreg2", "unreg1", "done"}
StarterState == {"off", "register", "setup", "serving"}
RunState     == {"select", "check", "decide", "end", "leave", "notify", "wait", "close"}
RequestState == {"idle", "sent", "lost", "lookup", "add", "fill", "publish"}

(* A session event names a client, or for SessionClosed a session. *)
Fan    == [kind : {"MemberJoin", "ParticipantLeave"},
           about : Client, s : Session]
Notice == [kind : {"Registered", "MemberJoin", "ParticipantLeave", "SessionClosed"},
           to : Client, about : Client \cup Session, s : Session \cup {None}]
Event  == [kind : {"MemberJoin", "ParticipantLeave", "SessionClosed"},
           about : Client \cup Session]

TransportOK ==
  /\ conn \in [Client -> ConnState]
  /\ reader \in [Client -> ReaderState]
  /\ starter \in [Client -> StarterState]
  /\ known \in [Client -> BOOLEAN]

RegistryOK ==
  /\ clients \subseteq Client
  /\ idClients \subseteq Client
  /\ killed \in [Client -> BOOLEAN]

RunOK ==
  /\ at \in RunState
  /\ cl \in Client \cup {None}
  /\ cs \in Session \cup {None}
  /\ todo \subseteq Client
  /\ visited \subseteq Client

StoreOK ==
  /\ sessions \subseteq Session
  /\ host \in [Session -> Client \cup {None}]
  /\ participants \in [Session -> SUBSET Client]
  /\ session \in [Client -> Session \cup {None}]

RequestOK ==
  /\ minted \subseteq Session
  /\ op \in [Client -> {"Host", "Join"}]
  /\ arg \in [Client -> Session \cup {None}]
  /\ pc \in [Client -> RequestState]
  /\ made \in [Client -> Nat]
  /\ \A c \in Client : made[c] <= MaxRequests[c]

OutboxOK ==
  /\ fans \subseteq Fan
  /\ notices \subseteq Notice
  /\ seen \in [Client -> SUBSET Event]

HistoryOK ==
  /\ departs \in [Client -> Nat]
  /\ late \subseteq Session
  /\ abandoned \subseteq Session
  /\ crashed \in BOOLEAN

TypeOK == /\ TransportOK /\ RegistryOK /\ RunOK /\ StoreOK
          /\ RequestOK /\ OutboxOK /\ HistoryOK

-----------------------------------------------------------------------------
(* NewHub and NewSessionManager: empty maps, Run waiting in its select. *)
Init ==
  /\ conn = [c \in Client |-> "new"]
  /\ reader = [c \in Client |-> "off"]
  /\ starter = [c \in Client |-> "off"]
  /\ known = [c \in Client |-> FALSE]
  /\ clients = {}
  /\ idClients = {}
  /\ killed = [c \in Client |-> FALSE]
  /\ at = "select"
  /\ cl = None
  /\ cs = None
  /\ todo = {}
  /\ visited = {}
  /\ sessions = {}
  /\ host = [s \in Session |-> None]
  /\ participants = [s \in Session |-> {}]
  /\ session = [c \in Client |-> None]
  /\ minted = {}
  /\ op = [c \in Client |-> "Host"]
  /\ arg = [c \in Client |-> None]
  /\ pc = [c \in Client |-> "idle"]
  /\ made = [c \in Client |-> 0]
  /\ fans = {}
  /\ notices = {}
  /\ seen = [c \in Client |-> {}]
  /\ departs = [c \in Client |-> 0]
  /\ late = {}
  /\ abandoned = {}
  /\ crashed = FALSE

(* A nil dereference in any goroutine ends the whole process. *)
Panic   == ~ crashed /\ crashed' = TRUE
NoPanic == ~ crashed /\ crashed' = FALSE

-----------------------------------------------------------------------------
(* The connection of one client *)

(* ServeWs, ServeUDP: the socket's reader goroutine and startJsonRPC start. *)
Connect(c) ==
  /\ conn[c] = "new"
  /\ conn' = [conn EXCEPT ![c] = "open"]
  /\ reader' = [reader EXCEPT ![c] = "reading"]
  /\ starter' = [starter EXCEPT ![c] = "register"]
  /\ NoPanic
  /\ UNCHANGED <<known, registry, run, store, request, outbox, history>>

(* The remote closes the connection, exits, or the network loses it. When
   ~LossSilent it first answers the SessionClosed call it may be serving.  *)
Vanish(c) ==
  /\ conn[c] = "open"
  /\ LossSilent \/ ~ \E n \in notices : n.kind = "SessionClosed" /\ n.to = c
  /\ conn' = [conn EXCEPT ![c] = "gone"]
  /\ NoPanic
  /\ UNCHANGED <<reader, starter, known, registry, run, store, request,
                 outbox, history>>

(* ReadMessage / ReceiveUDP fails: OnDisconnected blocks on Unregister. *)
ReadError(c) ==
  /\ conn[c] = "gone"
  /\ reader[c] = "reading"
  /\ reader' = [reader EXCEPT ![c] = "unreg1"]
  /\ NoPanic
  /\ UNCHANGED <<conn, starter, known, registry, run, store, request,
                 outbox, history>>

(* A close frame: the close handler calls OnDisconnected from inside
   ReadMessage, and the error ReadMessage then returns calls it again.     *)
CloseFrame(c) ==
  /\ conn[c] = "gone"
  /\ reader[c] = "reading"
  /\ reader' = [reader EXCEPT ![c] = "unreg2"]
  /\ NoPanic
  /\ UNCHANGED <<conn, starter, known, registry, run, store, request,
                 outbox, history>>

(* startJsonRPC after the Register handoff: only now do the SessionManager
   and Hub channels of this client get a listener.                         *)
Setup(c) ==
  /\ starter[c] = "setup"
  /\ starter' = [starter EXCEPT ![c] = "serving"]
  /\ NoPanic
  /\ UNCHANGED <<conn, reader, known, registry, run, store, request, outbox,
                 history>>

-----------------------------------------------------------------------------
(* Hub.Run *)

(* Mutant of Register: IdClients is forgotten. *)
RegisterNoId(c) ==
  /\ at = "select"
  /\ starter[c] = "register"
  /\ starter' = [starter EXCEPT ![c] = "setup"]
  /\ clients' = clients \cup {c}
  /\ notices' = notices \cup
       {[kind |-> "Registered", to |-> c, about |-> c, s |-> None]}
  /\ NoPanic
  /\ UNCHANGED <<conn, reader, known, idClients, killed, run, store, request,
                 fans, seen, history>>

(* case client := <-h.Register, together with the call Client.Registered. *)
Register(c) ==
  /\ at = "select"
  /\ starter[c] = "register"
  /\ starter' = [starter EXCEPT ![c] = "setup"]
  /\ clients' = clients \cup {c}
  /\ idClients' = idClients \cup {c}
  /\ notices' = notices \cup
       {[kind |-> "Registered", to |-> c, about |-> c, s |-> None]}
  /\ NoPanic
  /\ UNCHANGED <<conn, reader, known, killed, run, store, request, fans,
                 seen, history>>

(* case client := <-h.Unregister: the reader's send completes. *)
Unregister(c) ==
  /\ at = "select"
  /\ reader[c] \in {"unreg1", "unreg2"}
  /\ reader' = [reader EXCEPT ![c] = IF @ = "unreg2" THEN "unreg1" ELSE "done"]
  /\ at' = "check"
  /\ cl' = c
  /\ NoPanic
  /\ UNCHANGED <<conn, starter, known, registry, cs, todo, visited, store,
                 request, outbox, history>>

(* Mutant of Check: the test on Clients is dropped. *)
CheckUnguarded ==
  /\ at = "check"
  /\ at' = IF session[cl] \in sessions THEN "decide" ELSE "close"
  /\ departs' = [departs EXCEPT ![cl] = @ + 1]
  /\ NoPanic
  /\ UNCHANGED <<transport, registry, cl, cs, todo, visited, store, request,
                 outbox, late, abandoned>>

(* Is the client registered, and is it in a session that exists? *)
Check ==
  /\ at = "check"
  /\ at' = IF cl \notin clients THEN "select"
           ELSE IF session[cl] \in sessions THEN "decide" ELSE "close"
  /\ departs' = IF cl \in clients THEN [departs EXCEPT ![cl] = @ + 1]
                                  ELSE departs
  /\ NoPanic
  /\ UNCHANGED <<transport, registry, cl, cs, todo, visited, store, request,
                 outbox, late, abandoned>>

(* The second look-up Sessions[*client.Session] of the test Host == client
   is nil when a Host handler assigned client.Session in between.          *)
DecideMissing ==
  /\ at = "decide"
  /\ session[cl] \notin sessions
  /\ Panic
  /\ UNCHANGED <<transport, registry, run, store, request, outbox, history>>

(* Is it the host of the session it is in? *)
Decide ==
  /\ at = "decide"
  /\ session[cl] \in sessions
  /\ at' = IF host[session[cl]] = cl THEN "end" ELSE "leave"
  /\ NoPanic
  /\ UNCHANGED <<transport, registry, cl, cs, todo, visited, store, request,
                 outbox, history>>

(* CloseSession and LeaveSession are given *client.Session as it is by now:
   a handler of the client may have assigned it again, and one that names no
   listed session makes either of them return.                             *)
Unlisted ==
  /\ at \in {"end", "leave"}
  /\ session[cl] \notin sessions
  /\ at' = "close"
  /\ NoPanic
  /\ UNCHANGED <<transport, registry, cl, cs, todo, visited, store, request,
                 outbox, history>>

(* Mutant of CloseSession: the session is never deleted. *)
CloseSessionKeeps ==
  /\ at = "end"
  /\ session[cl] \in sessions
  /\ cs' = session[cl]
  /\ todo' = participants[session[cl]]
  /\ visited' = {}
  /\ at' = "notify"
  /\ NoPanic
  /\ UNCHANGED <<transport, registry, cl, store, request, outbox, history>>

(* The session leaves the map before anyone is told. *)
CloseSession ==
  /\ at = "end"
  /\ session[cl] \in sessions
  /\ sessions' = sessions \ {session[cl]}
  /\ cs' = session[cl]
  /\ todo' = participants[session[cl]]
  /\ visited' = {}
  /\ at' = "notify"
  /\ NoPanic
  /\ UNCHANGED <<transport, registry, cl, host, participants, session,
                 request, outbox, history>>

(* Mutant of LeaveSession: a leaving participant ends the session. *)
LeaveSessionEnds ==
  /\ at = "leave"
  /\ session[cl] \in sessions
  /\ sessions' = sessions \ {session[cl]}
  /\ fans' = fans \cup
       {[kind |-> "ParticipantLeave", about |-> cl, s |-> session[cl]]}
  /\ at' = "close"
  /\ NoPanic
  /\ UNCHANGED <<transport, registry, cl, cs, todo, visited, host,
                 participants, session, request, notices, seen, history>>

(* A goroutine will tell the others. The participant stays in
   session.Participants.                                                   *)
LeaveSession ==
  /\ at = "leave"
  /\ session[cl] \in sessions
  /\ fans' = fans \cup
       {[kind |-> "ParticipantLeave", about |-> cl, s |-> session[cl]]}
  /\ at' = "close"
  /\ NoPanic
  /\ UNCHANGED <<transport, registry, cl, cs, todo, visited, store, request,
                 notices, seen, history>>

(* One iteration of CloseSession's loop over the participants, in map
   order. The call Client.SessionClosed is synchronous: it returns at once
   when the write fails or rpcClient is shut down, otherwise Run waits for
   the answer. Socket.Close returns at once, since no hub socket ever has
   isConnected set.                                                        *)
NotifySkip(p) ==
  /\ at = "notify"
  /\ p \in participants[cs] \ visited
  /\ \/ p = host[cs]
     \/ session[p] # None /\ (killed[p] \/ conn[p] = "gone")
  /\ visited' = visited \cup {p}
  /\ NoPanic
  /\ UNCHANGED <<transport, registry, at, cl, cs, todo, store, request,
                 outbox, history>>

(* Mutant of NotifyCall: the participant's session may still be nil. *)
NotifyCallNil(p) ==
  /\ at = "notify"
  /\ p \in participants[cs] \ visited
  /\ p # host[cs]
  /\ ~ killed[p]
  /\ conn[p] = "open" \/ LossSilent
  /\ visited' = visited \cup {p}
  /\ notices' = notices \cup
       {[kind |-> "SessionClosed", to |-> p, about |-> session[p], s |-> cs]}
  /\ at' = "wait"
  /\ NoPanic
  /\ UNCHANGED <<transport, registry, cl, cs, todo, store, request, fans,
                 seen, history>>

NotifyCall(p) ==
  /\ at = "notify"
  /\ p \in participants[cs] \ visited
  /\ p # host[cs]
  /\ session[p] # None
  /\ ~ killed[p]
  /\ conn[p] = "open" \/ LossSilent
  /\ visited' = visited \cup {p}
  /\ notices' = notices \cup
       {[kind |-> "SessionClosed", to |-> p, about |-> session[p], s |-> cs]}
  /\ at' = "wait"
  /\ NoPanic
  /\ UNCHANGED <<transport, registry, cl, cs, todo, store, request, fans,
                 seen, history>>

(* *next.Session of a participant whose Join has not assigned it yet. *)
NotifyMissing(p) ==
  /\ at = "notify"
  /\ p \in participants[cs] \ visited
  /\ p # host[cs]
  /\ session[p] = None
  /\ Panic
  /\ UNCHANGED <<transport, registry, run, store, request, outbox, history>>

(* Mutant of NotifyDone: the loop may stop before its last participant. *)
NotifyDoneEarly ==
  /\ at = "notify"
  /\ at' = "close"
  /\ NoPanic
  /\ UNCHANGED <<transport, registry, cl, cs, todo, visited, store, request,
                 outbox, history>>

(* The loop ends when every participant it started with has been produced;
   one added meanwhile may be produced or not.                             *)
NotifyDone ==
  /\ at = "notify"
  /\ todo \subseteq visited
  /\ at' = "close"
  /\ NoPanic
  /\ UNCHANGED <<transport, registry, cl, cs, todo, visited, store, request,
                 outbox, history>>

(* Mutant of Close: the client is not deleted from Clients. *)
CloseKeeps ==
  /\ at = "close"
  /\ killed' = [killed EXCEPT ![cl] = TRUE]
  /\ notices' = {n \in notices : n.to # cl}
  /\ idClients' = idClients \ {cl}
  /\ at' = "select"
  /\ NoPanic
  /\ UNCHANGED <<transport, clients, cl, cs, todo, visited, store, request,
                 fans, seen, history>>

(* client.Close emits KILL, which shuts rpcClient down and fails every call
   waiting in it; then the client leaves both maps.                        *)
Close ==
  /\ at = "close"
  /\ killed' = [killed EXCEPT ![cl] = TRUE]
  /\ notices' = {n \in notices : n.to # cl}
  /\ clients' = clients \ {cl}
  /\ idClients' = idClients \ {cl}
  /\ at' = "select"
  /\ NoPanic
  /\ UNCHANGED <<transport, cl, cs, todo, visited, store, request, fans,
                 seen, history>>

-----------------------------------------------------------------------------
(* SessionManager requests of a remote client *)

Issue(c, what, s) ==
  /\ conn[c] = "open"
  /\ known[c]
  /\ pc[c] = "idle"
  /\ made[c] < MaxRequests[c]
  /\ made' = [made EXCEPT ![c] = @ + 1]
  /\ op' = [op EXCEPT ![c] = what]
  /\ arg' = [arg EXCEPT ![c] = s]
  /\ pc' = [pc EXCEPT ![c] = "sent"]
  /\ NoPanic
  /\ UNCHANGED <<transport, registry, run, store, outbox, history>>

(* StartHosting draws a new uuid; JoinSession takes any string. *)
StartHosting(c, s) ==
  /\ s \notin minted
  /\ minted' = minted \cup {s}
  /\ Issue(c, "Host", s)

JoinSession(c, s) ==
  /\ Issue(c, "Join", s)
  /\ UNCHANGED minted

Advance(c, to) == pc' = [pc EXCEPT ![c] = to]

(* OnBinaryMessage emits the request on its channel. Without a listener the
   emission reaches nobody and the remote's Call never returns.            *)
ReadRequest(c) ==
  /\ pc[c] = "sent"
  /\ reader[c] = "reading"
  /\ Advance(c, IF starter[c] = "serving" THEN "lookup" ELSE "lost")
  /\ NoPanic
  /\ UNCHANGED <<transport, registry, run, store, minted, op, arg, made,
                 outbox, history>>

(* SessionManager.Host: client := IdClients[message.Id] may be nil. *)
HostLookup(c) ==
  /\ pc[c] = "lookup"
  /\ op[c] = "Host"
  /\ \/ /\ c \in idClients
        /\ Advance(c, "fill")
        /\ NoPanic
     \/ /\ c \notin idClients
        /\ Panic
        /\ UNCHANGED pc
  /\ UNCHANGED <<transport, registry, run, store, minted, op, arg, made,
                 outbox, history>>

(* client.Name and client.Session are assigned. client.Ready follows, which
   nobody but Handle reads: it is in Relay.                                *)
Enter(c) ==
  /\ session' = [session EXCEPT ![c] = arg[c]]
  /\ abandoned' = abandoned \cup
       {s \in Session \ {arg[c]} : s = session[c] /\ host[s] = c}
  /\ UNCHANGED <<sessions, host, participants, departs, late>>

HostFill(c) ==
  /\ pc[c] = "fill"
  /\ op[c] = "Host"
  /\ Enter(c)
  /\ Advance(c, "publish")
  /\ NoPanic
  /\ UNCHANGED <<transport, registry, run, minted, op, arg, made, outbox>>

HostPublish(c) ==
  /\ pc[c] = "publish"
  /\ sessions' = sessions \cup {arg[c]}
  /\ host' = [host EXCEPT ![arg[c]] = c]
  /\ participants' = [participants EXCEPT ![arg[c]] = {}]
  /\ late' = IF departs[c] > 0 THEN late \cup {arg[c]} ELSE late
  /\ Advance(c, "idle")
  /\ NoPanic
  /\ UNCHANGED <<transport, registry, run, session, minted, op, arg, made,
                 outbox, departs, abandoned>>

(* Mutant of JoinLookup: a session that does not exist is waited for. *)
JoinLookupWaits(c) ==
  /\ pc[c] = "lookup"
  /\ op[c] = "Join"
  /\ arg[c] \in sessions
  /\ c \in idClients
  /\ Advance(c, "add")
  /\ NoPanic
  /\ UNCHANGED <<transport, registry, run, store, minted, op, arg, made,
                 outbox, history>>

(* SessionManager.Join. *)
JoinLookup(c) ==
  /\ pc[c] = "lookup"
  /\ op[c] = "Join"
  /\ \/ /\ arg[c] \notin sessions       \* "Session does not exist"
        /\ Advance(c, "idle")
        /\ NoPanic
     \/ /\ arg[c] \in sessions
        /\ c \in idClients
        /\ Advance(c, "add")
        /\ NoPanic
     \/ /\ arg[c] \in sessions
        /\ c \notin idClients
        /\ Panic
        /\ UNCHANGED pc
  /\ UNCHANGED <<transport, registry, run, store, minted, op, arg, made,
                 outbox, history>>

(* Mutant of JoinAdd: the client is not made a participant. *)
JoinAddForgets(c) ==
  /\ pc[c] = "add"
  /\ Advance(c, "fill")
  /\ NoPanic
  /\ UNCHANGED <<transport, registry, run, store, minted, op, arg, made,
                 outbox, history>>

(* session.Participants[client] = true *)
JoinAdd(c) ==
  /\ pc[c] = "add"
  /\ participants' = [participants EXCEPT ![arg[c]] = @ \cup {c}]
  /\ Advance(c, "fill")
  /\ NoPanic
  /\ UNCHANGED <<transport, registry, run, sessions, host, session, minted,
                 op, arg, made, outbox, history>>

JoinFill(c) ==
  /\ pc[c] = "fill"
  /\ op[c] = "Join"
  /\ Enter(c)
  /\ fans' = fans \cup
       {[kind |-> "MemberJoin", about |-> c, s |-> arg[c]]}
  /\ Advance(c, "idle")
  /\ NoPanic
  /\ UNCHANGED <<transport, registry, run, minted, op, arg, made, notices,
                 seen>>

-----------------------------------------------------------------------------
(* Calls from the hub to its clients *)

Members(s) == participants[s] \cup {host[s]}

(* Mutant of FanOut: the host is not notified. *)
FanOutNoHost(f) ==
  /\ fans' = fans \ {f}
  /\ notices' = notices \cup
       {[kind |-> f.kind, to |-> m, about |-> f.about, s |-> f.s] :
          m \in {d \in participants[f.s] \ {f.about} : ~ killed[d]}}
  /\ NoPanic
  /\ UNCHANGED <<transport, registry, run, store, request, seen, history>>

(* The goroutine started by Join or LeaveSession starts one call per other
   member; a call on an rpcClient that is shut down fails at once.         *)
FanOut(f) ==
  /\ fans' = fans \ {f}
  /\ notices' = notices \cup
       {[kind |-> f.kind, to |-> m, about |-> f.about, s |-> f.s] :
          m \in {d \in Members(f.s) \ {f.about} : ~ killed[d]}}
  /\ NoPanic
  /\ UNCHANGED <<transport, registry, run, store, request, seen, history>>

(* The remote receives the call and answers it: Registered gives it its id,
   the others become a SessionChangeEvent. The answer to SessionClosed lets
   CloseSession go on.                                                     *)
Deliver(n) ==
  /\ conn[n.to] = "open"
  /\ notices' = notices \ {n}
  /\ known' = IF n.kind = "Registered"
              THEN [known EXCEPT ![n.to] = TRUE] ELSE known
  /\ seen' = IF n.kind = "Registered" THEN seen
             ELSE [seen EXCEPT ![n.to] =
                     @ \cup {[kind |-> n.kind, about |-> n.about]}]
  /\ at' = IF n.kind = "SessionClosed" THEN "notify" ELSE at
  /\ NoPanic
  /\ UNCHANGED <<conn, reader, starter, registry, cl, cs, todo, visited,
                 store, request, fans, history>>

(* The disconnect handler of a KCP client sets the wrapper's conn to nil once
   Run has taken its report. Whoever writes to that client afterwards, with a
   call Run has not failed yet or with the answer of a handler that is about
   to return, dereferences it. Any connection may be a KCP session; what the
   handler's last step does to the store dies with the process.            *)
WriteToNil(c) ==
  /\ reader[c] = "done"
  /\ \/ \E n \in notices : n.to = c
     \/ op[c] = "Host" /\ pc[c] = "publish"
     \/ op[c] = "Join" /\ pc[c] = "fill"
     \/ op[c] = "Join" /\ pc[c] = "lookup" /\ arg[c] \notin sessions
  /\ Panic
  /\ UNCHANGED <<transport, registry, run, store, request, outbox, history>>

-----------------------------------------------------------------------------

RunStep == \/ Check \/ DecideMissing \/ Decide
           \/ Unlisted \/ CloseSession \/ LeaveSession
           \/ \E p \in Client : NotifySkip(p) \/ NotifyCall(p) \/ NotifyMissing(p)
           \/ NotifyDone \/ Close

Handler(c) == \/ ReadRequest(c)
              \/ HostLookup(c) \/ HostFill(c) \/ HostPublish(c)
              \/ JoinLookup(c) \/ JoinAdd(c) \/ JoinFill(c)

Next ==
  \/ \E c \in Client : \/ Connect(c) \/ Vanish(c)
                       \/ ReadError(c) \/ CloseFrame(c) \/ Setup(c)
                       \/ Register(c) \/ Unregister(c)
                       \/ Handler(c) \/ WriteToNil(c)
                       \/ \E s \in Session : StartHosting(c, s) \/ JoinSession(c, s)
  \/ RunStep
  \/ \E f \in fans : FanOut(f)
  \/ \E n \in notices : Deliver(n)

Spec == Init /\ [][Next]_vars

(* Every goroutine of the hub that can run does run. Unregister and Register
   need strong fairness: a sender waits in the FIFO of an unbuffered channel
   while Run comes back to its select, which chooses at random. A remote
   that stays connected answers its calls; a broken connection is noticed.
   No fairness is assumed of what a remote application does.               *)
Fairness ==
  /\ WF_vars(RunStep)
  /\ \A c \in Client :
       /\ SF_vars(Register(c))
       /\ SF_vars(Unregister(c))
       /\ WF_vars(Setup(c))
       /\ WF_vars(ReadError(c) \/ CloseFrame(c))
       /\ WF_vars(Handler(c))
  /\ WF_vars(\E f \in fans : FanOut(f))
  /\ \A c \in Client : WF_vars(\E n \in notices : n.to = c /\ Deliver(n))

FairSpec == Spec /\ Fairness

-----------------------------------------------------------------------------
(* Safety *)

(* Run.Unregister's test on Clients makes the teardown idempotent: although
   a close frame makes the reader report the disconnect twice, and a report
   may overtake the registration, Hub.Run enters the leave-or-close branch at
   most once per client, and a client it has torn down is not in Clients
   again, in whatever order Register and Unregister were taken.            *)
DepartOnce ==
  \A c \in Client :
    /\ departs[c] <= 1
    /\ departs[c] > 0 /\ c \in clients => cl = c /\ at # "select"

(* While every connection that was ever accepted is still up, no goroutine
   of the hub dereferences nil: a remote learns its id only after Register
   stored it in IdClients, so Host and Join find their client.             *)
NoPanicWhileConnected == crashed => \E c \in Client : conn[c] = "gone"

(* A session listed in Sessions has a registered host, except when the host
   moved on to another session before it left (client.Session no longer
   named this one) or when its Host call overtook its own Unregister.      *)
OrphansExplained ==
  \A s \in sessions : host[s] \in clients \/ s \in abandoned \/ s \in late

(* CloseSession deletes the session before it tells anybody: a client that
   made a single session request is never told that a session closed which
   the hub still lists.                                                    *)
ClosedNoticeTrue ==
  \A p \in Client : \A e \in seen[p] :
    e.kind = "SessionClosed" /\ made[p] <= 1 => e.about \notin sessions

(* A session disappears from Sessions only in the teardown of a lost client
   that is in it and hosts it; or that hosted another session and moved to
   this one, by a Join that overlapped its teardown (hub.go:113-114), which
   takes a second request. No other departure and no request ends a session. *)
SessionsEndWithHost ==
  [][\A s \in sessions \ sessions' :
       /\ conn[cl] = "gone" /\ session[cl] = s
       /\ \/ host[s] = cl
          \/ made[cl] > 1 /\ \E t \in abandoned \ {s} : host[t] = cl]_vars

(* CloseSession returns only after every participant its loop began with,
   other than the host, was told SessionClosed or has lost its connection;
   participants that join or leave while the loop waits make no difference. *)
CloseTellsAll ==
  [][at = "notify" /\ at' = "close" =>
       \A p \in todo \ {host[cs]} :
         conn[p] = "gone" \/ \E e \in seen[p] : e.kind = "SessionClosed"]_vars

-----------------------------------------------------------------------------
(* Liveness, under FairSpec *)

(* The last report of a loss was taken before the client was registered. *)
Overtaken(c) == reader[c] = "done" /\ starter[c] = "register"

(* Hub maintains the set of active clients (hub.go:10): for every lost
   connection the reader's last send on Unregister completes, and from some
   moment on the client is outside Clients for good. The exception is one
   whose Register comes after its last Unregister: the reader is started
   before startJsonRPC, and what Register then adds nobody takes out.      *)
EveryLossHandled ==
  \A c \in Client :
    \/ <>[](conn[c] = "gone" => (reader[c] = "done" /\ c \notin clients) \/ crashed)
    \/ <>Overtaken(c)

(* When the host of a session is lost, each member that is in the session by
   then and stays connected is told SessionClosed, unless the host had gone
   on to another session.                                                  *)
MembersToldOfClose ==
  \A s \in Session : \A p \in Client :
    ( /\ s \in sessions
      /\ p \in participants[s] \ {host[s]}
      /\ conn[host[s]] = "gone" )
    ~> ( \/ \E e \in seen[p] : e.kind = "SessionClosed"
         \/ conn[p] = "gone"
         \/ s \in abandoned \cup late
         \/ crashed )

(* Whoever is in a session when a Join completes is told of it, whatever
   joins, leaves and losses happen meanwhile, if it stays connected.       *)
JoinAnnounced ==
  \A s \in Session : \A c \in Client : \A m \in Client \ {c} :
    ([kind |-> "MemberJoin", about |-> c, s |-> s] \in fans /\ m \in Members(s))
    ~> ( \/ [kind |-> "MemberJoin", about |-> c] \in seen[m]
         \/ conn[m] = "gone"
         \/ crashed )

(* A request that the hub has read is answered, whatever Run and the other
   handlers do, if its client stays connected. The exception is the first
   request of a client that did not wait for Setup: nobody listens to it yet,
   and its Call never returns (hub-client.go:52-64, 168-176).              *)
RequestsAnswered ==
  \A c \in Client :
    pc[c] = "sent"
      ~> \/ pc[c] = "idle" \/ conn[c] = "gone" \/ crashed
         \/ pc[c] = "lost" /\ made[c] = 1

-----------------------------------------------------------------------------
(* The hub implements Membership: its goroutines change the session store,
   step by step, only as that specification allows.                        *)
Store == INSTANCE Membership WITH gone <- {c \in Client : conn[c] = "gone"}

ImplementsMembership == Store!Spec

(* Members iterates over Participants and adds the host: this is everyone
   whose client.Session names the session.                                 *)
MembersKnown == Store!MembersKnown

=============================================================================
