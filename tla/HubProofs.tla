----------------------------- MODULE HubProofs -----------------------------
(***************************************************************************)
(* Proofs about Hub, for any number of clients, sessions and requests.     *)
(*                                                                         *)
(* The inductive invariant is built in layers, each of which relies on the *)
(* ones before it: TypeInv, ConnInv, DepartInv, OrphanInv, ClosedInv,      *)
(* TellInv and StoreInv.                                                   *)
(***************************************************************************)
EXTENDS Hub, TLAPS

Teardown == {"decide", "end", "leave", "notify", "wait", "close"}

(* What TypeOK leaves open and its preservation needs: when a variable that
   may hold None does not, and that Run waits for the answer to the one
   SessionClosed call that is pending.                                     *)
Filled ==
  /\ at # "select" => cl \in Client
  /\ at \in {"notify", "wait"} => cs \in Session
  /\ \A c \in Client : pc[c] # "idle" => arg[c] \in Session
  /\ \A c \in Client :
       op[c] = "Join" /\ pc[c] \in {"add", "fill"} => host[arg[c]] \in Client
  /\ \A c \in Client : /\ pc[c] = "publish" => op[c] = "Host"
                       /\ pc[c] = "add" => op[c] = "Join"
  /\ \A s \in sessions : host[s] \in Client
  /\ \A f \in fans : host[f.s] \in Client
  /\ \A n \in notices : n.kind = "SessionClosed" => at = "wait"
  /\ \A m, n \in notices :
       m.kind = "SessionClosed" /\ n.kind = "SessionClosed" => m = n

TypeInv == TypeOK /\ Filled

(* A client that is being torn down is gone; a remote knows its id only
   while the hub knows it too, or after it is gone.                        *)
ConnInv ==
  /\ at # "select" => conn[cl] = "gone"
  /\ \A c \in Client :
       /\ reader[c] \in {"unreg2", "unreg1", "done"} => conn[c] = "gone"
       /\ killed[c] => conn[c] = "gone"
       /\ pc[c] # "idle" => known[c]
       /\ known[c] => c \in idClients \/ conn[c] = "gone"
  /\ \A n \in notices :
       n.kind = "Registered" => n.to \in idClients \/ conn[n.to] = "gone"
  /\ NoPanicWhileConnected

(* A client is in Clients from its only Register to its only teardown. *)
DepartInv ==
  /\ clients = idClients
  /\ at \in Teardown => cl \in clients /\ departs[cl] = 1
  /\ \A c \in Client :
       /\ conn[c] = "new" => starter[c] = "off"
       /\ starter[c] \in {"off", "register"} => c \notin clients /\ departs[c] = 0
       /\ c \in clients => departs[c] = 0 \/ (cl = c /\ at \in Teardown)
  /\ DepartOnce

(* A listed session is the one its host is in, or the host has gone on, or
   it was published after its host's teardown began.                       *)
OrphanInv ==
  /\ \A s \in sessions :
       session[host[s]] = s \/ s \in abandoned \/ s \in late
  /\ at \in {"leave", "notify", "wait", "close"} =>
       \A s \in sessions : host[s] = cl => s \in abandoned \/ s \in late
  /\ \A c \in Client :
       /\ pc[c] \in {"add", "fill", "publish"} => c \in clients \/ departs[c] > 0
       /\ pc[c] = "publish" => session[c] = arg[c]
  /\ OrphansExplained

(* A session id is published at most once, by the one client that drew it,
   so a session that was closed never comes back; and a client with a single
   request is in no session but the one it asked for.                      *)
Hosting(c) == op[c] = "Host" /\ pc[c] # "idle"

Drawn ==
  /\ \A s \in Session : host[s] # None => s \in minted
  /\ \A c \in Client : Hosting(c) => arg[c] \in minted /\ host[arg[c]] = None

DrawnOnce ==
  \A c, d \in Client : Hosting(c) /\ Hosting(d) /\ arg[c] = arg[d] => c = d

FewRequests ==
  \A c \in Client :
    /\ made[c] = 0 => /\ pc[c] = "idle" /\ session[c] = None
                      /\ \A s \in Session : c \notin participants[s]
    /\ made[c] <= 1 => /\ session[c] \in {None, arg[c]}
                       /\ \A s \in Session : c \in participants[s] => s = arg[c]

Over(s) == s \in Session \ sessions /\ host[s] # None

Told ==
  /\ at \in {"notify", "wait"} => Over(cs)
  /\ \A n \in notices :
       n.kind = "SessionClosed" /\ made[n.to] <= 1 => Over(n.about)
  /\ \A p \in Client : \A e \in seen[p] :
       e.kind = "SessionClosed" /\ made[p] <= 1 => Over(e.about)

ClosedInv == Drawn /\ DrawnOnce /\ FewRequests /\ Told

(* Whom CloseSession's loop has passed: the host, the lost, those that have
   answered, and the one whose answer it waits for.                        *)
Passed(p) ==
  \/ p = host[cs]
  \/ conn[p] = "gone"
  \/ \E e \in seen[p] : e.kind = "SessionClosed"
  \/ \E n \in notices : n.kind = "SessionClosed" /\ n.to = p

TellInv == at \in {"notify", "wait"} => \A p \in visited : Passed(p)

(* Who is in a session was added to it before, or is about to publish it. *)
StoreInv ==
  /\ \A c \in Client :
       op[c] = "Join" /\ pc[c] = "fill" => c \in participants[arg[c]]
  /\ \A c \in Client : session[c] # None /\ host[session[c]] = None =>
       Hosting(c) /\ pc[c] = "publish" /\ arg[c] = session[c]
  /\ MembersKnown

(* Every step of the hub and of its remotes keeps the types. *)
LEMMA TypeStep == TypeInv /\ Next => TypeInv'
<1> SUFFICES ASSUME TypeInv PROVE Next => TypeInv'
  OBVIOUS
<1> USE DEF TypeInv, TypeOK
<1>1. ASSUME NEW c \in Client, Connect(c) PROVE TypeInv'
  <2>1. RegistryOK' /\ RunOK' /\ StoreOK' /\ RequestOK' /\ OutboxOK'
    BY <1>1 DEF Connect, registry, run, store, request, outbox, RegistryOK,
       RunOK, RunState, StoreOK, RequestOK, RequestState, OutboxOK, Fan,
       Notice, Event
  <2>2. TransportOK'
    BY <1>1, HubAssumption DEF Connect, TransportOK, ConnState, ReaderState,
       StarterState
  <2>3. HistoryOK'
    BY <1>1, HubAssumption DEF Connect, NoPanic, history, HistoryOK
  <2>4. Filled'
    BY <1>1 DEF Connect, Filled, registry, run, store, request, outbox,
       history
  <2> QED
    BY <2>1, <2>2, <2>3, <2>4
<1>2. ASSUME NEW c \in Client, Vanish(c) PROVE TypeInv'
  <2>1. RegistryOK' /\ RunOK' /\ StoreOK' /\ RequestOK' /\ OutboxOK'
    BY <1>2 DEF Vanish, registry, run, store, request, outbox, RegistryOK,
       RunOK, RunState, StoreOK, RequestOK, RequestState, OutboxOK, Fan,
       Notice, Event
  <2>2. TransportOK'
    BY <1>2, HubAssumption DEF Vanish, TransportOK, ConnState, ReaderState,
       StarterState
  <2>3. HistoryOK'
    BY <1>2, HubAssumption DEF Vanish, NoPanic, history, HistoryOK
  <2>4. Filled'
    BY <1>2 DEF Vanish, Filled, registry, run, store, request, outbox,
       history
  <2> QED
    BY <2>1, <2>2, <2>3, <2>4
<1>3. ASSUME NEW c \in Client, ReadError(c) PROVE TypeInv'
  <2>1. RegistryOK' /\ RunOK' /\ StoreOK' /\ RequestOK' /\ OutboxOK'
    BY <1>3 DEF ReadError, registry, run, store, request, outbox, RegistryOK,
       RunOK, RunState, StoreOK, RequestOK, RequestState, OutboxOK, Fan,
       Notice, Event
  <2>2. TransportOK'
    BY <1>3, HubAssumption DEF ReadError, TransportOK, ConnState,
       ReaderState, StarterState
  <2>3. HistoryOK'
    BY <1>3, HubAssumption DEF ReadError, NoPanic, history, HistoryOK
  <2>4. Filled'
    BY <1>3 DEF ReadError, Filled, registry, run, store, request, outbox,
       history
  <2> QED
    BY <2>1, <2>2, <2>3, <2>4
<1>4. ASSUME NEW c \in Client, CloseFrame(c) PROVE TypeInv'
  <2>1. RegistryOK' /\ RunOK' /\ StoreOK' /\ RequestOK' /\ OutboxOK'
    BY <1>4 DEF CloseFrame, registry, run, store, request, outbox,
       RegistryOK, RunOK, RunState, StoreOK, RequestOK, RequestState,
       OutboxOK, Fan, Notice, Event
  <2>2. TransportOK'
    BY <1>4, HubAssumption DEF CloseFrame, TransportOK, ConnState,
       ReaderState, StarterState
  <2>3. HistoryOK'
    BY <1>4, HubAssumption DEF CloseFrame, NoPanic, history, HistoryOK
  <2>4. Filled'
    BY <1>4 DEF CloseFrame, Filled, registry, run, store, request, outbox,
       history
  <2> QED
    BY <2>1, <2>2, <2>3, <2>4
<1>5. ASSUME NEW c \in Client, Setup(c) PROVE TypeInv'
  <2>1. RegistryOK' /\ RunOK' /\ StoreOK' /\ RequestOK' /\ OutboxOK'
    BY <1>5 DEF Setup, registry, run, store, request, outbox, RegistryOK,
       RunOK, RunState, StoreOK, RequestOK, RequestState, OutboxOK, Fan,
       Notice, Event
  <2>2. TransportOK'
    BY <1>5, HubAssumption DEF Setup, TransportOK, ConnState, ReaderState,
       StarterState
  <2>3. HistoryOK'
    BY <1>5, HubAssumption DEF Setup, NoPanic, history, HistoryOK
  <2>4. Filled'
    BY <1>5 DEF Setup, Filled, registry, run, store, request, outbox, history
  <2> QED
    BY <2>1, <2>2, <2>3, <2>4
<1>6. ASSUME NEW c \in Client, Register(c) PROVE TypeInv'
  <2>1. RunOK' /\ StoreOK' /\ RequestOK'
    BY <1>6 DEF Register, run, store, request, RunOK, RunState, StoreOK,
       RequestOK, RequestState
  <2>2. TransportOK'
    BY <1>6, HubAssumption DEF Register, TransportOK, ConnState, ReaderState,
       StarterState
  <2>3. RegistryOK'
    BY <1>6, HubAssumption DEF Register, RegistryOK, RunOK, RunState, Filled
  <2>4. OutboxOK'
    BY <1>6, HubAssumption DEF Register, OutboxOK, Fan, Notice, Event,
       Filled, RunOK, StoreOK, RequestOK, RunState, RequestState
  <2>5. HistoryOK'
    BY <1>6, HubAssumption DEF Register, NoPanic, history, HistoryOK
  <2>6. Filled'
    BY <1>6, HubAssumption DEF Register, Filled, run, store, request,
       history, RunOK, StoreOK, RequestOK, OutboxOK, RunState, RequestState,
       Fan, Notice
  <2> QED
    BY <2>1, <2>2, <2>3, <2>4, <2>5, <2>6
<1>7. ASSUME NEW c \in Client, Unregister(c) PROVE TypeInv'
  <2>1. RegistryOK' /\ StoreOK' /\ RequestOK' /\ OutboxOK'
    BY <1>7 DEF Unregister, registry, store, request, outbox, RegistryOK,
       StoreOK, RequestOK, RequestState, OutboxOK, Fan, Notice, Event
  <2>2. TransportOK'
    BY <1>7, HubAssumption DEF Unregister, TransportOK, ConnState,
       ReaderState, StarterState
  <2>3. RunOK'
    BY <1>7, HubAssumption DEF Unregister, RunOK, RunState, Filled, OutboxOK,
       Notice, RegistryOK, StoreOK
  <2>4. HistoryOK'
    BY <1>7, HubAssumption DEF Unregister, NoPanic, history, HistoryOK
  <2>5. Filled'
    BY <1>7, HubAssumption DEF Unregister, Filled, registry, store, request,
       outbox, history, RunOK, StoreOK, RequestOK, OutboxOK, RunState,
       RequestState, Fan, Notice
  <2> QED
    BY <2>1, <2>2, <2>3, <2>4, <2>5
<1>8. ASSUME NEW c \in Client, ReadRequest(c) PROVE TypeInv'
  <2>1. TransportOK' /\ RegistryOK' /\ RunOK' /\ StoreOK' /\ OutboxOK'
    BY <1>8 DEF ReadRequest, transport, registry, run, store, outbox,
       TransportOK, ConnState, ReaderState, StarterState, RegistryOK, RunOK,
       RunState, StoreOK, OutboxOK, Fan, Notice, Event
  <2>2. RequestOK'
    BY <1>8, HubAssumption DEF ReadRequest, Advance, RequestOK, RequestState
  <2>3. HistoryOK'
    BY <1>8, HubAssumption DEF ReadRequest, NoPanic, Advance, history,
       HistoryOK
  <2>4. Filled'
    BY <1>8, HubAssumption DEF ReadRequest, Advance, Filled, transport,
       registry, run, store, outbox, history, RunOK, StoreOK, RequestOK,
       OutboxOK, RunState, RequestState, Fan, Notice
  <2> QED
    BY <2>1, <2>2, <2>3, <2>4
<1>9. ASSUME NEW c \in Client, HostLookup(c) PROVE TypeInv'
  <2>1. TransportOK' /\ RegistryOK' /\ RunOK' /\ StoreOK' /\ OutboxOK'
    BY <1>9 DEF HostLookup, transport, registry, run, store, outbox,
       TransportOK, ConnState, ReaderState, StarterState, RegistryOK, RunOK,
       RunState, StoreOK, OutboxOK, Fan, Notice, Event
  <2>2. RequestOK'
    BY <1>9, HubAssumption DEF HostLookup, Advance, RequestOK, RequestState
  <2>3. HistoryOK'
    BY <1>9, HubAssumption DEF HostLookup, NoPanic, Panic, Advance, history,
       HistoryOK
  <2>4. Filled'
    BY <1>9, HubAssumption DEF HostLookup, Advance, Filled, transport,
       registry, run, store, outbox, history, RunOK, StoreOK, RequestOK,
       OutboxOK, RunState, RequestState, Fan, Notice
  <2> QED
    BY <2>1, <2>2, <2>3, <2>4
<1>10. ASSUME NEW c \in Client, HostFill(c) PROVE TypeInv'
  <2>1. TransportOK' /\ RegistryOK' /\ RunOK' /\ OutboxOK'
    BY <1>10 DEF HostFill, Enter, transport, registry, run, outbox,
       TransportOK, ConnState, ReaderState, StarterState, RegistryOK, RunOK,
       RunState, OutboxOK, Fan, Notice, Event
  <2>2. StoreOK'
    BY <1>10, HubAssumption DEF HostFill, Advance, Enter, StoreOK, RequestOK,
       RequestState, Filled
  <2>3. RequestOK'
    BY <1>10, HubAssumption DEF HostFill, Advance, Enter, RequestOK,
       RequestState
  <2>4. HistoryOK'
    BY <1>10, HubAssumption DEF HostFill, NoPanic, Advance, Enter, HistoryOK,
       RequestOK, RequestState, StoreOK, Filled
  <2>5. Filled'
    BY <1>10, HubAssumption DEF HostFill, Advance, Enter, Filled, transport,
       registry, run, outbox, RunOK, StoreOK, RequestOK, OutboxOK, RunState,
       RequestState, Fan, Notice
  <2> QED
    BY <2>1, <2>2, <2>3, <2>4, <2>5
<1>11. ASSUME NEW c \in Client, HostPublish(c) PROVE TypeInv'
  <2>1. TransportOK' /\ RegistryOK' /\ RunOK' /\ OutboxOK'
    BY <1>11 DEF HostPublish, transport, registry, run, outbox, TransportOK,
       ConnState, ReaderState, StarterState, RegistryOK, RunOK, RunState,
       OutboxOK, Fan, Notice, Event
  <2>2. StoreOK'
    BY <1>11, HubAssumption DEF HostPublish, Advance, StoreOK, RequestOK,
       RequestState, Filled
  <2>3. RequestOK'
    BY <1>11, HubAssumption DEF HostPublish, Advance, RequestOK, RequestState
  <2>4. HistoryOK'
    <3>1. arg[c] \in Session
      BY <1>11 DEF HostPublish, RequestOK, Filled
    <3>2. late' \subseteq Session /\ crashed' = FALSE /\ UNCHANGED <<departs, abandoned>>
      BY <1>11, <3>1 DEF HostPublish, NoPanic, HistoryOK
    <3> QED
      BY <3>2 DEF HistoryOK
  <2>5. Filled'
    BY <1>11, HubAssumption DEF HostPublish, Advance, Filled, transport,
       registry, run, outbox, RunOK, StoreOK, RequestOK, OutboxOK, RunState,
       RequestState, Fan, Notice
  <2> QED
    BY <2>1, <2>2, <2>3, <2>4, <2>5
<1>12. ASSUME NEW c \in Client, JoinLookup(c) PROVE TypeInv'
  <2>1. TransportOK' /\ RegistryOK' /\ RunOK' /\ StoreOK' /\ OutboxOK'
    BY <1>12 DEF JoinLookup, transport, registry, run, store, outbox,
       TransportOK, ConnState, ReaderState, StarterState, RegistryOK, RunOK,
       RunState, StoreOK, OutboxOK, Fan, Notice, Event
  <2>2. RequestOK'
    BY <1>12, HubAssumption DEF JoinLookup, Advance, RequestOK, RequestState
  <2>3. HistoryOK'
    BY <1>12, HubAssumption DEF JoinLookup, NoPanic, Panic, Advance, history,
       HistoryOK
  <2>4. Filled'
    BY <1>12, HubAssumption DEF JoinLookup, Advance, Filled, transport,
       registry, run, store, outbox, history, RunOK, StoreOK, RequestOK,
       OutboxOK, RunState, RequestState, Fan, Notice
  <2> QED
    BY <2>1, <2>2, <2>3, <2>4
<1>13. ASSUME NEW c \in Client, JoinAdd(c) PROVE TypeInv'
  <2>1. TransportOK' /\ RegistryOK' /\ RunOK' /\ OutboxOK'
    BY <1>13 DEF JoinAdd, transport, registry, run, outbox, TransportOK,
       ConnState, ReaderState, StarterState, RegistryOK, RunOK, RunState,
       OutboxOK, Fan, Notice, Event
  <2>2. StoreOK'
    BY <1>13, HubAssumption DEF JoinAdd, Advance, StoreOK, RequestOK,
       RequestState, Filled
  <2>3. RequestOK'
    BY <1>13, HubAssumption DEF JoinAdd, Advance, RequestOK, RequestState
  <2>4. HistoryOK'
    BY <1>13, HubAssumption DEF JoinAdd, NoPanic, Advance, history, HistoryOK
  <2>5. Filled'
    BY <1>13, HubAssumption DEF JoinAdd, Advance, Filled, transport,
       registry, run, outbox, history, RunOK, StoreOK, RequestOK, OutboxOK,
       RunState, RequestState, Fan, Notice
  <2> QED
    BY <2>1, <2>2, <2>3, <2>4, <2>5
<1>14. ASSUME NEW c \in Client, JoinFill(c) PROVE TypeInv'
  <2>1. TransportOK' /\ RegistryOK' /\ RunOK'
    BY <1>14 DEF JoinFill, Enter, transport, registry, run, TransportOK,
       ConnState, ReaderState, StarterState, RegistryOK, RunOK, RunState
  <2>2. StoreOK'
    BY <1>14, HubAssumption DEF JoinFill, Advance, Enter, StoreOK, Filled,
       RequestOK, RequestState
  <2>3. RequestOK'
    BY <1>14, HubAssumption DEF JoinFill, Advance, Enter, RequestOK,
       RequestState, Filled
  <2>4. OutboxOK'
    BY <1>14, HubAssumption DEF JoinFill, Advance, Enter, OutboxOK, Fan,
       Notice, Event, Filled, RunOK, StoreOK, RequestOK, RunState,
       RequestState
  <2>5. HistoryOK'
    BY <1>14, HubAssumption DEF JoinFill, NoPanic, Advance, Enter, HistoryOK,
       Filled, RequestOK, RequestState, StoreOK
  <2>6. Filled'
    BY <1>14, HubAssumption DEF JoinFill, Advance, Enter, Filled, transport,
       registry, run, RunOK, StoreOK, RequestOK, OutboxOK, RunState,
       RequestState, Fan, Notice
  <2> QED
    BY <2>1, <2>2, <2>3, <2>4, <2>5, <2>6
<1>15. ASSUME NEW c \in Client, NEW s \in Session, StartHosting(c, s) PROVE TypeInv'
  <2>1. TransportOK' /\ RegistryOK' /\ RunOK' /\ StoreOK' /\ OutboxOK'
    BY <1>15 DEF StartHosting, Issue, transport, registry, run, store,
       outbox, TransportOK, ConnState, ReaderState, StarterState, RegistryOK,
       RunOK, RunState, StoreOK, OutboxOK, Fan, Notice, Event
  <2>2. RequestOK'
    <3>1. made' \in [Client -> Nat] /\ \A d \in Client : made'[d] <= MaxRequests[d]
      <4>1. made[c] + 1 \in Nat /\ made[c] + 1 <= MaxRequests[c]
        <5>1. made[c] \in Nat /\ MaxRequests[c] \in Nat
          BY HubAssumption DEF RequestOK
        <5>2. made[c] < MaxRequests[c]
          BY <1>15 DEF StartHosting, Issue
        <5> QED
          BY <5>1, <5>2
      <4>2. made' = [made EXCEPT ![c] = made[c] + 1]
        BY <1>15 DEF StartHosting, Issue
      <4> QED
        BY <4>1, <4>2 DEF RequestOK
    <3>2. /\ minted' \subseteq Session /\ op' \in [Client -> {"Host", "Join"}]
          /\ arg' \in [Client -> Session \cup {None}]
          /\ pc' \in [Client -> RequestState]
      BY <1>15 DEF StartHosting, Issue, RequestOK, RequestState
    <3> QED
      BY <3>1, <3>2 DEF RequestOK
  <2>3. HistoryOK'
    BY <1>15, HubAssumption DEF StartHosting, Issue, NoPanic, history,
       HistoryOK
  <2>4. Filled'
    BY <1>15, HubAssumption DEF StartHosting, Issue, Filled, transport,
       registry, run, store, outbox, history, RunOK, StoreOK, RequestOK,
       OutboxOK, RunState, RequestState, Fan, Notice
  <2> QED
    BY <2>1, <2>2, <2>3, <2>4
<1>16. ASSUME NEW c \in Client, NEW s \in Session, JoinSession(c, s) PROVE TypeInv'
  <2>1. TransportOK' /\ RegistryOK' /\ RunOK' /\ StoreOK' /\ OutboxOK'
    BY <1>16 DEF JoinSession, Issue, transport, registry, run, store, outbox,
       TransportOK, ConnState, ReaderState, StarterState, RegistryOK, RunOK,
       RunState, StoreOK, OutboxOK, Fan, Notice, Event
  <2>2. RequestOK'
    <3>1. made' \in [Client -> Nat] /\ \A d \in Client : made'[d] <= MaxRequests[d]
      <4>1. made[c] + 1 \in Nat /\ made[c] + 1 <= MaxRequests[c]
        <5>1. made[c] \in Nat /\ MaxRequests[c] \in Nat
          BY HubAssumption DEF RequestOK
        <5>2. made[c] < MaxRequests[c]
          BY <1>16 DEF JoinSession, Issue
        <5> QED
          BY <5>1, <5>2
      <4>2. made' = [made EXCEPT ![c] = made[c] + 1]
        BY <1>16 DEF JoinSession, Issue
      <4> QED
        BY <4>1, <4>2 DEF RequestOK
    <3>2. /\ minted' \subseteq Session /\ op' \in [Client -> {"Host", "Join"}]
          /\ arg' \in [Client -> Session \cup {None}]
          /\ pc' \in [Client -> RequestState]
      BY <1>16 DEF JoinSession, Issue, RequestOK, RequestState
    <3> QED
      BY <3>1, <3>2 DEF RequestOK
  <2>3. HistoryOK'
    BY <1>16, HubAssumption DEF JoinSession, Issue, NoPanic, history,
       HistoryOK
  <2>4. Filled'
    BY <1>16, HubAssumption DEF JoinSession, Issue, Filled, transport,
       registry, run, store, outbox, history, RunOK, StoreOK, RequestOK,
       OutboxOK, RunState, RequestState, Fan, Notice
  <2> QED
    BY <2>1, <2>2, <2>3, <2>4
<1>17. ASSUME Check PROVE TypeInv'
  <2>1. TransportOK' /\ RegistryOK' /\ StoreOK' /\ RequestOK' /\ OutboxOK'
    BY <1>17 DEF Check, transport, registry, store, request, outbox,
       TransportOK, ConnState, ReaderState, StarterState, RegistryOK,
       StoreOK, RequestOK, RequestState, OutboxOK, Fan, Notice, Event
  <2>2. RunOK'
    BY <1>17, HubAssumption DEF Check, RunOK, RunState, Filled, OutboxOK,
       Notice, RegistryOK, StoreOK
  <2>3. HistoryOK'
    <3>1. departs' \in [Client -> Nat]
      BY <1>17 DEF Check, HistoryOK, RegistryOK
    <3> QED
      BY <1>17, <3>1 DEF Check, NoPanic, HistoryOK
  <2>4. Filled'
    BY <1>17, HubAssumption DEF Check, Filled, transport, registry, store,
       request, outbox, RunOK, StoreOK, RequestOK, OutboxOK, RunState,
       RequestState, Fan, Notice
  <2> QED
    BY <2>1, <2>2, <2>3, <2>4
<1>18. ASSUME DecideMissing PROVE TypeInv'
  <2>1. TransportOK' /\ RegistryOK' /\ RunOK' /\ StoreOK' /\ RequestOK' /\
     OutboxOK'
    BY <1>18 DEF DecideMissing, transport, registry, run, store, request,
       outbox, TransportOK, ConnState, ReaderState, StarterState, RegistryOK,
       RunOK, RunState, StoreOK, RequestOK, RequestState, OutboxOK, Fan,
       Notice, Event
  <2>2. HistoryOK'
    BY <1>18, HubAssumption DEF DecideMissing, Panic, NoPanic, history,
       HistoryOK
  <2>3. Filled'
    BY <1>18 DEF DecideMissing, Filled, transport, registry, run, store,
       request, outbox, history
  <2> QED
    BY <2>1, <2>2, <2>3
<1>19. ASSUME CloseSession PROVE TypeInv'
  <2>1. TransportOK' /\ RegistryOK' /\ RequestOK' /\ OutboxOK'
    BY <1>19 DEF CloseSession, transport, registry, request, outbox,
       TransportOK, ConnState, ReaderState, StarterState, RegistryOK,
       RequestOK, RequestState, OutboxOK, Fan, Notice, Event
  <2>2. RunOK'
    BY <1>19, HubAssumption DEF CloseSession, RunOK, RunState, Filled,
       OutboxOK, Notice, RegistryOK, StoreOK
  <2>3. StoreOK'
    BY <1>19, HubAssumption DEF CloseSession, StoreOK, RequestOK,
       RequestState, Filled
  <2>4. HistoryOK'
    BY <1>19, HubAssumption DEF CloseSession, NoPanic, history, HistoryOK
  <2>5. Filled'
    BY <1>19, HubAssumption DEF CloseSession, Filled, transport, registry,
       request, outbox, history, RunOK, StoreOK, RequestOK, OutboxOK,
       RunState, RequestState, Fan, Notice
  <2> QED
    BY <2>1, <2>2, <2>3, <2>4, <2>5
<1>20. ASSUME LeaveSession PROVE TypeInv'
  <2>1. TransportOK' /\ RegistryOK' /\ StoreOK' /\ RequestOK'
    BY <1>20 DEF LeaveSession, transport, registry, store, request,
       TransportOK, ConnState, ReaderState, StarterState, RegistryOK,
       StoreOK, RequestOK, RequestState
  <2>2. RunOK'
    BY <1>20, HubAssumption DEF LeaveSession, RunOK, RunState, Filled,
       OutboxOK, Notice, RegistryOK, StoreOK
  <2>3. OutboxOK'
    BY <1>20, HubAssumption DEF LeaveSession, OutboxOK, Fan, Notice, Event,
       Filled, RunOK, StoreOK, RequestOK, RunState, RequestState
  <2>4. HistoryOK'
    BY <1>20, HubAssumption DEF LeaveSession, NoPanic, history, HistoryOK
  <2>5. Filled'
    BY <1>20, HubAssumption DEF LeaveSession, Filled, transport, registry,
       store, request, history, RunOK, StoreOK, RequestOK, OutboxOK,
       RunState, RequestState, Fan, Notice
  <2> QED
    BY <2>1, <2>2, <2>3, <2>4, <2>5
<1>21. ASSUME NEW p \in Client, NotifySkip(p) PROVE TypeInv'
  <2>1. TransportOK' /\ RegistryOK' /\ StoreOK' /\ RequestOK' /\ OutboxOK'
    BY <1>21 DEF NotifySkip, transport, registry, store, request, outbox,
       TransportOK, ConnState, ReaderState, StarterState, RegistryOK,
       StoreOK, RequestOK, RequestState, OutboxOK, Fan, Notice, Event
  <2>2. RunOK'
    BY <1>21, HubAssumption DEF NotifySkip, RunOK, RunState, Filled,
       OutboxOK, Notice, RegistryOK, StoreOK
  <2>3. HistoryOK'
    BY <1>21, HubAssumption DEF NotifySkip, NoPanic, history, HistoryOK
  <2>4. Filled'
    BY <1>21 DEF NotifySkip, Filled, transport, registry, store, request,
       outbox, history
  <2> QED
    BY <2>1, <2>2, <2>3, <2>4
<1>22. ASSUME NEW p \in Client, NotifyCall(p) PROVE TypeInv'
  <2>1. TransportOK' /\ RegistryOK' /\ StoreOK' /\ RequestOK'
    BY <1>22 DEF NotifyCall, transport, registry, store, request,
       TransportOK, ConnState, ReaderState, StarterState, RegistryOK,
       StoreOK, RequestOK, RequestState
  <2>2. RunOK'
    BY <1>22, HubAssumption DEF NotifyCall, RunOK, RunState, Filled,
       OutboxOK, Notice, RegistryOK, StoreOK
  <2>3. OutboxOK'
    BY <1>22, HubAssumption DEF NotifyCall, OutboxOK, Fan, Notice, Event,
       Filled, RunOK, StoreOK, RequestOK, RunState, RequestState
  <2>4. HistoryOK'
    BY <1>22, HubAssumption DEF NotifyCall, NoPanic, history, HistoryOK
  <2>5. Filled'
    BY <1>22, HubAssumption DEF NotifyCall, Filled, transport, registry,
       store, request, history, RunOK, StoreOK, RequestOK, OutboxOK,
       RunState, RequestState, Fan, Notice
  <2> QED
    BY <2>1, <2>2, <2>3, <2>4, <2>5
<1>23. ASSUME NEW p \in Client, NotifyMissing(p) PROVE TypeInv'
  <2>1. TransportOK' /\ RegistryOK' /\ RunOK' /\ StoreOK' /\ RequestOK' /\
     OutboxOK'
    BY <1>23 DEF NotifyMissing, transport, registry, run, store, request,
       outbox, TransportOK, ConnState, ReaderState, StarterState, RegistryOK,
       RunOK, RunState, StoreOK, RequestOK, RequestState, OutboxOK, Fan,
       Notice, Event
  <2>2. HistoryOK'
    BY <1>23, HubAssumption DEF NotifyMissing, Panic, NoPanic, history,
       HistoryOK
  <2>3. Filled'
    BY <1>23 DEF NotifyMissing, Filled, transport, registry, run, store,
       request, outbox, history
  <2> QED
    BY <2>1, <2>2, <2>3
<1>24. ASSUME NotifyDone PROVE TypeInv'
  <2>1. TransportOK' /\ RegistryOK' /\ StoreOK' /\ RequestOK' /\ OutboxOK'
    BY <1>24 DEF NotifyDone, transport, registry, store, request, outbox,
       TransportOK, ConnState, ReaderState, StarterState, RegistryOK,
       StoreOK, RequestOK, RequestState, OutboxOK, Fan, Notice, Event
  <2>2. RunOK'
    BY <1>24, HubAssumption DEF NotifyDone, RunOK, RunState, Filled,
       OutboxOK, Notice, RegistryOK, StoreOK
  <2>3. HistoryOK'
    BY <1>24, HubAssumption DEF NotifyDone, NoPanic, history, HistoryOK
  <2>4. Filled'
    BY <1>24, HubAssumption DEF NotifyDone, Filled, transport, registry,
       store, request, outbox, history, RunOK, StoreOK, RequestOK, OutboxOK,
       RunState, RequestState, Fan, Notice
  <2> QED
    BY <2>1, <2>2, <2>3, <2>4
<1>25. ASSUME Close PROVE TypeInv'
  <2>1. TransportOK' /\ StoreOK' /\ RequestOK'
    BY <1>25 DEF Close, transport, store, request, TransportOK, ConnState,
       ReaderState, StarterState, StoreOK, RequestOK, RequestState
  <2>2. RegistryOK'
    BY <1>25, HubAssumption DEF Close, RegistryOK, RunOK, RunState, Filled
  <2>3. RunOK'
    BY <1>25, HubAssumption DEF Close, RunOK, RunState, Filled, OutboxOK,
       Notice, RegistryOK, StoreOK
  <2>4. OutboxOK'
    BY <1>25, HubAssumption DEF Close, OutboxOK, Fan, Notice, Event, Filled,
       RunOK, StoreOK, RequestOK, RunState, RequestState
  <2>5. HistoryOK'
    BY <1>25, HubAssumption DEF Close, NoPanic, history, HistoryOK
  <2>6. Filled'
    BY <1>25, HubAssumption DEF Close, Filled, transport, store, request,
       history, RunOK, StoreOK, RequestOK, OutboxOK, RunState, RequestState,
       Fan, Notice
  <2> QED
    BY <2>1, <2>2, <2>3, <2>4, <2>5, <2>6
<1>26. ASSUME NEW f \in fans, FanOut(f) PROVE TypeInv'
  <2>1. TransportOK' /\ RegistryOK' /\ RunOK' /\ StoreOK' /\ RequestOK'
    BY <1>26 DEF FanOut, transport, registry, run, store, request,
       TransportOK, ConnState, ReaderState, StarterState, RegistryOK, RunOK,
       RunState, StoreOK, RequestOK, RequestState
  <2>2. OutboxOK'
    BY <1>26, HubAssumption DEF FanOut, Members, OutboxOK, Fan, Notice,
       Event, Filled, RunOK, StoreOK, RequestOK, RunState, RequestState
  <2>3. HistoryOK'
    BY <1>26, HubAssumption DEF FanOut, NoPanic, Members, history, HistoryOK,
       Filled
  <2>4. Filled'
    BY <1>26, HubAssumption DEF FanOut, Members, Filled, transport, registry,
       run, store, request, history, RunOK, StoreOK, RequestOK, OutboxOK,
       RunState, RequestState, Fan, Notice
  <2> QED
    BY <2>1, <2>2, <2>3, <2>4
<1>27. ASSUME NEW n \in notices, Deliver(n) PROVE TypeInv'
  <2>1. RegistryOK' /\ StoreOK' /\ RequestOK'
    BY <1>27 DEF Deliver, registry, store, request, RegistryOK, StoreOK,
       RequestOK, RequestState
  <2>2. TransportOK'
    BY <1>27, HubAssumption DEF Deliver, TransportOK, ConnState, ReaderState,
       StarterState, OutboxOK, Notice
  <2>3. RunOK'
    BY <1>27, HubAssumption DEF Deliver, RunOK, RunState, Filled, OutboxOK,
       Notice, RegistryOK, StoreOK
  <2>4. OutboxOK'
    BY <1>27, HubAssumption DEF Deliver, OutboxOK, Fan, Notice, Event,
       Filled, RunOK, StoreOK, RequestOK, RunState, RequestState
  <2>5. HistoryOK'
    BY <1>27, HubAssumption DEF Deliver, NoPanic, history, HistoryOK,
       OutboxOK, Notice
  <2>6. Filled'
    BY <1>27, HubAssumption DEF Deliver, Filled, registry, store, request,
       history, RunOK, StoreOK, RequestOK, OutboxOK, RunState, RequestState,
       Fan, Notice
  <2> QED
    BY <2>1, <2>2, <2>3, <2>4, <2>5, <2>6
<1>28. ASSUME NEW c \in Client, WriteToNil(c) PROVE TypeInv'
  <2>1. TransportOK' /\ RegistryOK' /\ RunOK' /\ StoreOK' /\ RequestOK' /\
     OutboxOK'
    BY <1>28 DEF WriteToNil, transport, registry, run, store, request,
       outbox, TransportOK, ConnState, ReaderState, StarterState, RegistryOK,
       RunOK, RunState, StoreOK, RequestOK, RequestState, OutboxOK, Fan,
       Notice, Event
  <2>2. HistoryOK'
    BY <1>28, HubAssumption DEF WriteToNil, Panic, NoPanic, history,
       HistoryOK
  <2>3. Filled'
    BY <1>28 DEF WriteToNil, Filled, transport, registry, run, store,
       request, outbox, history
  <2> QED
    BY <2>1, <2>2, <2>3
<1>29. ASSUME Decide PROVE TypeInv'
  <2>1. TransportOK' /\ RegistryOK' /\ StoreOK' /\ RequestOK' /\ OutboxOK'
    BY <1>29 DEF Decide, transport, registry, store, request, outbox,
       TransportOK, ConnState, ReaderState, StarterState, RegistryOK,
       StoreOK, RequestOK, RequestState, OutboxOK, Fan, Notice, Event
  <2>2. RunOK'
    BY <1>29, HubAssumption DEF Decide, RunOK, RunState, Filled, OutboxOK,
       Notice, RegistryOK, StoreOK
  <2>3. HistoryOK'
    BY <1>29, HubAssumption DEF Decide, NoPanic, history, HistoryOK
  <2>4. Filled'
    BY <1>29, HubAssumption DEF Decide, Filled, transport, registry, store,
       request, outbox, history, RunOK, StoreOK, RequestOK, OutboxOK,
       RunState, RequestState, Fan, Notice
  <2> QED
    BY <2>1, <2>2, <2>3, <2>4
<1>30. ASSUME Unlisted PROVE TypeInv'
  <2>1. TransportOK' /\ RegistryOK' /\ StoreOK' /\ RequestOK' /\ OutboxOK'
    BY <1>30 DEF Unlisted, transport, registry, store, request, outbox,
       TransportOK, ConnState, ReaderState, StarterState, RegistryOK,
       StoreOK, RequestOK, RequestState, OutboxOK, Fan, Notice, Event
  <2>2. RunOK'
    BY <1>30, HubAssumption DEF Unlisted, RunOK, RunState, Filled, OutboxOK,
       Notice, RegistryOK, StoreOK
  <2>3. HistoryOK'
    BY <1>30, HubAssumption DEF Unlisted, NoPanic, history, HistoryOK
  <2>4. Filled'
    BY <1>30, HubAssumption DEF Unlisted, Filled, transport, registry, store,
       request, outbox, history, RunOK, StoreOK, RequestOK, OutboxOK,
       RunState, RequestState, Fan, Notice
  <2> QED
    BY <2>1, <2>2, <2>3, <2>4
<1> QED
  BY <1>1, <1>2, <1>3, <1>4, <1>5, <1>6, <1>7, <1>8, <1>9, <1>10, <1>11,
     <1>12, <1>13, <1>14, <1>15, <1>16, <1>17, <1>18, <1>19, <1>20, <1>21,
     <1>22, <1>23, <1>24, <1>25, <1>26, <1>27,
     <1>28, <1>29, <1>30 DEF Next, RunStep, Handler

(* conn[c] = "gone" is for ever, and Run only handles clients that are gone. *)
LEMMA ConnStep == TypeInv /\ ConnInv /\ Next => ConnInv'
<1> SUFFICES ASSUME TypeInv, ConnInv PROVE Next => ConnInv'
  OBVIOUS
<1> USE DEF TypeInv, TypeOK, Filled, TransportOK, RegistryOK, RunOK, StoreOK,
   RequestOK, OutboxOK, HistoryOK, ConnState, ReaderState, StarterState,
   RunState, RequestState, Fan, Notice, ConnInv, NoPanicWhileConnected
<1>1. ASSUME NEW c \in Client, Connect(c) PROVE ConnInv'
  BY <1>1 DEF Connect, NoPanic, registry, run, store, request, outbox,
     history
<1>2. ASSUME NEW c \in Client, Vanish(c) PROVE ConnInv'
  BY <1>2 DEF Vanish, NoPanic, registry, run, store, request, outbox, history
<1>3. ASSUME NEW c \in Client, ReadError(c) PROVE ConnInv'
  BY <1>3 DEF ReadError, NoPanic, registry, run, store, request, outbox,
     history
<1>4. ASSUME NEW c \in Client, CloseFrame(c) PROVE ConnInv'
  BY <1>4 DEF CloseFrame, NoPanic, registry, run, store, request, outbox,
     history
<1>5. ASSUME NEW c \in Client, Setup(c) PROVE ConnInv'
  BY <1>5 DEF Setup, NoPanic, registry, run, store, request, outbox, history
<1>6. ASSUME NEW c \in Client, Register(c) PROVE ConnInv'
  BY <1>6 DEF Register, NoPanic, run, store, request, history
<1>7. ASSUME NEW c \in Client, Unregister(c) PROVE ConnInv'
  BY <1>7 DEF Unregister, NoPanic, registry, store, request, outbox, history
<1>8. ASSUME NEW c \in Client, ReadRequest(c) PROVE ConnInv'
  BY <1>8 DEF ReadRequest, NoPanic, Advance, transport, registry, run, store,
     outbox, history
<1>9. ASSUME NEW c \in Client, HostLookup(c) PROVE ConnInv'
  BY <1>9 DEF HostLookup, NoPanic, Panic, Advance, transport, registry, run,
     store, outbox, history
<1>10. ASSUME NEW c \in Client, HostFill(c) PROVE ConnInv'
  BY <1>10 DEF HostFill, NoPanic, Advance, Enter, transport, registry, run,
     outbox
<1>11. ASSUME NEW c \in Client, HostPublish(c) PROVE ConnInv'
  BY <1>11 DEF HostPublish, NoPanic, Advance, transport, registry, run,
     outbox
<1>12. ASSUME NEW c \in Client, JoinLookup(c) PROVE ConnInv'
  BY <1>12 DEF JoinLookup, NoPanic, Panic, Advance, transport, registry, run,
     store, outbox, history
<1>13. ASSUME NEW c \in Client, JoinAdd(c) PROVE ConnInv'
  BY <1>13 DEF JoinAdd, NoPanic, Advance, transport, registry, run, outbox,
     history
<1>14. ASSUME NEW c \in Client, JoinFill(c) PROVE ConnInv'
  BY <1>14 DEF JoinFill, NoPanic, Advance, Enter, transport, registry, run
<1>15. ASSUME NEW c \in Client, NEW s \in Session, StartHosting(c, s) PROVE ConnInv'
  BY <1>15 DEF StartHosting, Issue, NoPanic, transport, registry, run, store,
     outbox, history
<1>16. ASSUME NEW c \in Client, NEW s \in Session, JoinSession(c, s) PROVE ConnInv'
  BY <1>16 DEF JoinSession, Issue, NoPanic, transport, registry, run, store,
     outbox, history
<1>17. ASSUME Check PROVE ConnInv'
  BY <1>17 DEF Check, NoPanic, transport, registry, store, request, outbox
<1>18. ASSUME DecideMissing PROVE ConnInv'
  BY <1>18 DEF DecideMissing, Panic, NoPanic, transport, registry, run,
     store, request, outbox, history
<1>19. ASSUME CloseSession PROVE ConnInv'
  BY <1>19 DEF CloseSession, NoPanic, transport, registry, request, outbox,
     history
<1>20. ASSUME LeaveSession PROVE ConnInv'
  BY <1>20 DEF LeaveSession, NoPanic, transport, registry, store, request,
     history
<1>21. ASSUME NEW p \in Client, NotifySkip(p) PROVE ConnInv'
  BY <1>21 DEF NotifySkip, NoPanic, transport, registry, store, request,
     outbox, history
<1>22. ASSUME NEW p \in Client, NotifyCall(p) PROVE ConnInv'
  BY <1>22 DEF NotifyCall, NoPanic, transport, registry, store, request,
     history
<1>23. ASSUME NEW p \in Client, NotifyMissing(p) PROVE ConnInv'
  BY <1>23 DEF NotifyMissing, Panic, NoPanic, transport, registry, run,
     store, request, outbox, history
<1>24. ASSUME NotifyDone PROVE ConnInv'
  BY <1>24 DEF NotifyDone, NoPanic, transport, registry, store, request,
     outbox, history
<1>25. ASSUME Close PROVE ConnInv'
  BY <1>25 DEF Close, NoPanic, transport, store, request, history
<1>26. ASSUME NEW f \in fans, FanOut(f) PROVE ConnInv'
  BY <1>26 DEF FanOut, NoPanic, Members, transport, registry, run, store,
     request, history
<1>27. ASSUME NEW n \in notices, Deliver(n) PROVE ConnInv'
  BY <1>27 DEF Deliver, NoPanic, registry, store, request, history
<1>28. ASSUME NEW c \in Client, WriteToNil(c) PROVE ConnInv'
  BY <1>28 DEF WriteToNil, Panic, NoPanic, transport, registry, run,
     store, request, outbox, history
<1>29. ASSUME Decide PROVE ConnInv'
  BY <1>29 DEF Decide, NoPanic, transport, registry, store, request,
     outbox, history
<1>30. ASSUME Unlisted PROVE ConnInv'
  BY <1>30 DEF Unlisted, NoPanic, transport, registry, store, request,
     outbox, history
<1> QED
  BY <1>1, <1>2, <1>3, <1>4, <1>5, <1>6, <1>7, <1>8, <1>9, <1>10, <1>11,
     <1>12, <1>13, <1>14, <1>15, <1>16, <1>17, <1>18, <1>19, <1>20, <1>21,
     <1>22, <1>23, <1>24, <1>25, <1>26, <1>27,
     <1>28, <1>29, <1>30 DEF Next, RunStep, Handler

(* Register adds a client once; Close ends the one teardown it has. *)
LEMMA DepartStep == TypeInv /\ DepartInv /\ Next => DepartInv'
<1> SUFFICES ASSUME TypeInv, DepartInv PROVE Next => DepartInv'
  OBVIOUS
<1> USE DEF TypeInv, TypeOK, Filled, TransportOK, RegistryOK, RunOK, StoreOK,
   RequestOK, OutboxOK, HistoryOK, ConnState, ReaderState, StarterState,
   RunState, RequestState, Fan, Notice, DepartInv, DepartOnce, Teardown
<1>1. ASSUME NEW c \in Client, Connect(c) PROVE DepartInv'
  BY <1>1 DEF Connect, NoPanic, registry, run, store, request, outbox,
     history
<1>2. ASSUME NEW c \in Client, Vanish(c) PROVE DepartInv'
  BY <1>2 DEF Vanish, NoPanic, registry, run, store, request, outbox, history
<1>3. ASSUME NEW c \in Client, ReadError(c) PROVE DepartInv'
  BY <1>3 DEF ReadError, NoPanic, registry, run, store, request, outbox,
     history
<1>4. ASSUME NEW c \in Client, CloseFrame(c) PROVE DepartInv'
  BY <1>4 DEF CloseFrame, NoPanic, registry, run, store, request, outbox,
     history
<1>5. ASSUME NEW c \in Client, Setup(c) PROVE DepartInv'
  BY <1>5 DEF Setup, NoPanic, registry, run, store, request, outbox, history
<1>6. ASSUME NEW c \in Client, Register(c) PROVE DepartInv'
  BY <1>6 DEF Register, NoPanic, run, store, request, history
<1>7. ASSUME NEW c \in Client, Unregister(c) PROVE DepartInv'
  BY <1>7 DEF Unregister, NoPanic, registry, store, request, outbox, history
<1>8. ASSUME NEW c \in Client, ReadRequest(c) PROVE DepartInv'
  BY <1>8 DEF ReadRequest, NoPanic, Advance, transport, registry, run, store,
     outbox, history
<1>9. ASSUME NEW c \in Client, HostLookup(c) PROVE DepartInv'
  BY <1>9 DEF HostLookup, NoPanic, Panic, Advance, transport, registry, run,
     store, outbox, history
<1>10. ASSUME NEW c \in Client, HostFill(c) PROVE DepartInv'
  BY <1>10 DEF HostFill, NoPanic, Advance, Enter, transport, registry, run,
     outbox
<1>11. ASSUME NEW c \in Client, HostPublish(c) PROVE DepartInv'
  BY <1>11 DEF HostPublish, NoPanic, Advance, transport, registry, run,
     outbox
<1>12. ASSUME NEW c \in Client, JoinLookup(c) PROVE DepartInv'
  BY <1>12 DEF JoinLookup, NoPanic, Panic, Advance, transport, registry, run,
     store, outbox, history
<1>13. ASSUME NEW c \in Client, JoinAdd(c) PROVE DepartInv'
  BY <1>13 DEF JoinAdd, NoPanic, Advance, transport, registry, run, outbox,
     history
<1>14. ASSUME NEW c \in Client, JoinFill(c) PROVE DepartInv'
  BY <1>14 DEF JoinFill, NoPanic, Advance, Enter, transport, registry, run
<1>15. ASSUME NEW c \in Client, NEW s \in Session, StartHosting(c, s) PROVE DepartInv'
  BY <1>15 DEF StartHosting, Issue, NoPanic, transport, registry, run, store,
     outbox, history
<1>16. ASSUME NEW c \in Client, NEW s \in Session, JoinSession(c, s) PROVE DepartInv'
  BY <1>16 DEF JoinSession, Issue, NoPanic, transport, registry, run, store,
     outbox, history
<1>17. ASSUME Check PROVE DepartInv'
  BY <1>17 DEF Check, NoPanic, transport, registry, store, request, outbox
<1>18. ASSUME DecideMissing PROVE DepartInv'
  BY <1>18 DEF DecideMissing, Panic, NoPanic, transport, registry, run,
     store, request, outbox, history
<1>19. ASSUME CloseSession PROVE DepartInv'
  BY <1>19 DEF CloseSession, NoPanic, transport, registry, request, outbox,
     history
<1>20. ASSUME LeaveSession PROVE DepartInv'
  BY <1>20 DEF LeaveSession, NoPanic, transport, registry, store, request,
     history
<1>21. ASSUME NEW p \in Client, NotifySkip(p) PROVE DepartInv'
  BY <1>21 DEF NotifySkip, NoPanic, transport, registry, store, request,
     outbox, history
<1>22. ASSUME NEW p \in Client, NotifyCall(p) PROVE DepartInv'
  BY <1>22 DEF NotifyCall, NoPanic, transport, registry, store, request,
     history
<1>23. ASSUME NEW p \in Client, NotifyMissing(p) PROVE DepartInv'
  BY <1>23 DEF NotifyMissing, Panic, NoPanic, transport, registry, run,
     store, request, outbox, history
<1>24. ASSUME NotifyDone PROVE DepartInv'
  BY <1>24 DEF NotifyDone, NoPanic, transport, registry, store, request,
     outbox, history
<1>25. ASSUME Close PROVE DepartInv'
  BY <1>25 DEF Close, NoPanic, transport, store, request, history
<1>26. ASSUME NEW f \in fans, FanOut(f) PROVE DepartInv'
  BY <1>26 DEF FanOut, NoPanic, Members, transport, registry, run, store,
     request, history
<1>27. ASSUME NEW n \in notices, Deliver(n) PROVE DepartInv'
  BY <1>27 DEF Deliver, NoPanic, registry, store, request, history
<1>28. ASSUME NEW c \in Client, WriteToNil(c) PROVE DepartInv'
  BY <1>28 DEF WriteToNil, Panic, NoPanic, transport, registry, run,
     store, request, outbox, history
<1>29. ASSUME Decide PROVE DepartInv'
  BY <1>29 DEF Decide, NoPanic, transport, registry, store, request,
     outbox, history
<1>30. ASSUME Unlisted PROVE DepartInv'
  BY <1>30 DEF Unlisted, NoPanic, transport, registry, store, request,
     outbox, history
<1> QED
  BY <1>1, <1>2, <1>3, <1>4, <1>5, <1>6, <1>7, <1>8, <1>9, <1>10, <1>11,
     <1>12, <1>13, <1>14, <1>15, <1>16, <1>17, <1>18, <1>19, <1>20, <1>21,
     <1>22, <1>23, <1>24, <1>25, <1>26, <1>27,
     <1>28, <1>29, <1>30 DEF Next, RunStep, Handler

(* Enter records what its host abandons, HostPublish what comes late. *)
LEMMA OrphanStep == TypeInv /\ DepartInv /\ OrphanInv /\ Next => OrphanInv'
<1> SUFFICES ASSUME TypeInv, DepartInv, OrphanInv PROVE Next => OrphanInv'
  OBVIOUS
<1> USE DEF TypeInv, TypeOK, Filled, TransportOK, RegistryOK, RunOK, StoreOK,
   RequestOK, OutboxOK, HistoryOK, ConnState, ReaderState, StarterState,
   RunState, RequestState, Fan, Notice, DepartInv, DepartOnce, Teardown,
   OrphanInv, OrphansExplained
<1>1. ASSUME NEW c \in Client, Connect(c) PROVE OrphanInv'
  BY <1>1 DEF Connect, NoPanic, registry, run, store, request, outbox,
     history
<1>2. ASSUME NEW c \in Client, Vanish(c) PROVE OrphanInv'
  BY <1>2 DEF Vanish, NoPanic, registry, run, store, request, outbox, history
<1>3. ASSUME NEW c \in Client, ReadError(c) PROVE OrphanInv'
  BY <1>3 DEF ReadError, NoPanic, registry, run, store, request, outbox,
     history
<1>4. ASSUME NEW c \in Client, CloseFrame(c) PROVE OrphanInv'
  BY <1>4 DEF CloseFrame, NoPanic, registry, run, store, request, outbox,
     history
<1>5. ASSUME NEW c \in Client, Setup(c) PROVE OrphanInv'
  BY <1>5 DEF Setup, NoPanic, registry, run, store, request, outbox, history
<1>6. ASSUME NEW c \in Client, Register(c) PROVE OrphanInv'
  BY <1>6 DEF Register, NoPanic, run, store, request, history
<1>7. ASSUME NEW c \in Client, Unregister(c) PROVE OrphanInv'
  BY <1>7 DEF Unregister, NoPanic, registry, store, request, outbox, history
<1>8. ASSUME NEW c \in Client, ReadRequest(c) PROVE OrphanInv'
  BY <1>8 DEF ReadRequest, NoPanic, Advance, transport, registry, run, store,
     outbox, history
<1>9. ASSUME NEW c \in Client, HostLookup(c) PROVE OrphanInv'
  BY <1>9 DEF HostLookup, NoPanic, Panic, Advance, transport, registry, run,
     store, outbox, history
<1>10. ASSUME NEW c \in Client, HostFill(c) PROVE OrphanInv'
  BY <1>10 DEF HostFill, NoPanic, Advance, Enter, transport, registry, run,
     outbox
<1>11. ASSUME NEW c \in Client, HostPublish(c) PROVE OrphanInv'
  BY <1>11 DEF HostPublish, NoPanic, Advance, transport, registry, run,
     outbox
<1>12. ASSUME NEW c \in Client, JoinLookup(c) PROVE OrphanInv'
  BY <1>12 DEF JoinLookup, NoPanic, Panic, Advance, transport, registry, run,
     store, outbox, history
<1>13. ASSUME NEW c \in Client, JoinAdd(c) PROVE OrphanInv'
  BY <1>13 DEF JoinAdd, NoPanic, Advance, transport, registry, run, outbox,
     history
<1>14. ASSUME NEW c \in Client, JoinFill(c) PROVE OrphanInv'
  BY <1>14 DEF JoinFill, NoPanic, Advance, Enter, transport, registry, run
<1>15. ASSUME NEW c \in Client, NEW s \in Session, StartHosting(c, s) PROVE OrphanInv'
  BY <1>15 DEF StartHosting, Issue, NoPanic, transport, registry, run, store,
     outbox, history
<1>16. ASSUME NEW c \in Client, NEW s \in Session, JoinSession(c, s) PROVE OrphanInv'
  BY <1>16 DEF JoinSession, Issue, NoPanic, transport, registry, run, store,
     outbox, history
<1>17. ASSUME Check PROVE OrphanInv'
  BY <1>17 DEF Check, NoPanic, transport, registry, store, request, outbox
<1>18. ASSUME DecideMissing PROVE OrphanInv'
  BY <1>18 DEF DecideMissing, Panic, NoPanic, transport, registry, run,
     store, request, outbox, history
<1>19. ASSUME CloseSession PROVE OrphanInv'
  BY <1>19 DEF CloseSession, NoPanic, transport, registry, request, outbox,
     history
<1>20. ASSUME LeaveSession PROVE OrphanInv'
  BY <1>20 DEF LeaveSession, NoPanic, transport, registry, store, request,
     history
<1>21. ASSUME NEW p \in Client, NotifySkip(p) PROVE OrphanInv'
  BY <1>21 DEF NotifySkip, NoPanic, transport, registry, store, request,
     outbox, history
<1>22. ASSUME NEW p \in Client, NotifyCall(p) PROVE OrphanInv'
  BY <1>22 DEF NotifyCall, NoPanic, transport, registry, store, request,
     history
<1>23. ASSUME NEW p \in Client, NotifyMissing(p) PROVE OrphanInv'
  BY <1>23 DEF NotifyMissing, Panic, NoPanic, transport, registry, run,
     store, request, outbox, history
<1>24. ASSUME NotifyDone PROVE OrphanInv'
  BY <1>24 DEF NotifyDone, NoPanic, transport, registry, store, request,
     outbox, history
<1>25. ASSUME Close PROVE OrphanInv'
  BY <1>25 DEF Close, NoPanic, transport, store, request, history
<1>26. ASSUME NEW f \in fans, FanOut(f) PROVE OrphanInv'
  BY <1>26 DEF FanOut, NoPanic, Members, transport, registry, run, store,
     request, history
<1>27. ASSUME NEW n \in notices, Deliver(n) PROVE OrphanInv'
  BY <1>27 DEF Deliver, NoPanic, registry, store, request, history
<1>28. ASSUME NEW c \in Client, WriteToNil(c) PROVE OrphanInv'
  BY <1>28 DEF WriteToNil, Panic, NoPanic, transport, registry, run,
     store, request, outbox, history
<1>29. ASSUME Decide PROVE OrphanInv'
  BY <1>29 DEF Decide, NoPanic, transport, registry, store, request,
     outbox, history
<1>30. ASSUME Unlisted PROVE OrphanInv'
  BY <1>30 DEF Unlisted, NoPanic, transport, registry, store, request,
     outbox, history
<1> QED
  BY <1>1, <1>2, <1>3, <1>4, <1>5, <1>6, <1>7, <1>8, <1>9, <1>10, <1>11,
     <1>12, <1>13, <1>14, <1>15, <1>16, <1>17, <1>18, <1>19, <1>20, <1>21,
     <1>22, <1>23, <1>24, <1>25, <1>26, <1>27,
     <1>28, <1>29, <1>30 DEF Next, RunStep, Handler

(* HostPublish only lists sessions that were never listed before. *)
LEMMA ClosedStep == TypeInv /\ ClosedInv /\ Next => ClosedInv'
<1> SUFFICES ASSUME TypeInv, ClosedInv PROVE Next => ClosedInv'
  OBVIOUS
<1> USE DEF TypeInv, TypeOK, Filled, TransportOK, RegistryOK, RunOK, StoreOK,
   RequestOK, OutboxOK, HistoryOK, ConnState, ReaderState, StarterState,
   RunState, RequestState, Fan, Notice, Event, ClosedInv, Drawn, DrawnOnce,
   FewRequests, Told, Hosting, Over
<1>1. ASSUME NEW c \in Client, Connect(c) PROVE ClosedInv'
  BY <1>1, HubAssumption DEF Connect, NoPanic, registry, run, store, request,
     outbox, history
<1>2. ASSUME NEW c \in Client, Vanish(c) PROVE ClosedInv'
  BY <1>2, HubAssumption DEF Vanish, NoPanic, registry, run, store, request,
     outbox, history
<1>3. ASSUME NEW c \in Client, ReadError(c) PROVE ClosedInv'
  BY <1>3, HubAssumption DEF ReadError, NoPanic, registry, run, store,
     request, outbox, history
<1>4. ASSUME NEW c \in Client, CloseFrame(c) PROVE ClosedInv'
  BY <1>4, HubAssumption DEF CloseFrame, NoPanic, registry, run, store,
     request, outbox, history
<1>5. ASSUME NEW c \in Client, Setup(c) PROVE ClosedInv'
  BY <1>5, HubAssumption DEF Setup, NoPanic, registry, run, store, request,
     outbox, history
<1>6. ASSUME NEW c \in Client, Register(c) PROVE ClosedInv'
  BY <1>6, HubAssumption DEF Register, NoPanic, run, store, request, history
<1>7. ASSUME NEW c \in Client, Unregister(c) PROVE ClosedInv'
  BY <1>7, HubAssumption DEF Unregister, NoPanic, registry, store, request,
     outbox, history
<1>8. ASSUME NEW c \in Client, ReadRequest(c) PROVE ClosedInv'
  BY <1>8, HubAssumption DEF ReadRequest, NoPanic, Advance, transport,
     registry, run, store, outbox, history
<1>9. ASSUME NEW c \in Client, HostLookup(c) PROVE ClosedInv'
  BY <1>9, HubAssumption DEF HostLookup, NoPanic, Panic, Advance, transport,
     registry, run, store, outbox, history
<1>10. ASSUME NEW c \in Client, HostFill(c) PROVE ClosedInv'
  BY <1>10, HubAssumption DEF HostFill, NoPanic, Advance, Enter, transport,
     registry, run, outbox
<1>11. ASSUME NEW c \in Client, HostPublish(c) PROVE ClosedInv'
  <2>1. /\ Hosting(c) /\ arg[c] \in Session /\ host[arg[c]] = None
        /\ arg[c] \in minted
    BY <1>11 DEF HostPublish, Filled, Drawn, Hosting
  <2>2. \A s \in Session : Over(s) => s # arg[c] /\ Over(s)'
    BY <1>11, <2>1 DEF HostPublish, Over, TypeInv, TypeOK, StoreOK
  <2>3. Drawn'
    <3>1. \A s \in Session : host'[s] # None => s \in minted
      BY <1>11, <2>1 DEF HostPublish, ClosedInv, Drawn, TypeInv, TypeOK, StoreOK
    <3>2. ASSUME NEW d \in Client, Hosting(d)' PROVE arg[d] \in minted /\ host'[arg[d]] = None
      <4>1. d # c /\ Hosting(d)
        BY <1>11, <3>2 DEF HostPublish, Advance, Hosting, TypeInv, TypeOK, RequestOK
      <4>2. arg[d] # arg[c] /\ arg[d] \in Session
        BY <2>1, <4>1 DEF ClosedInv, DrawnOnce, TypeInv, Filled, Hosting
      <4> QED
        BY <1>11, <2>1, <4>1, <4>2 DEF HostPublish, ClosedInv, Drawn, TypeInv, TypeOK, StoreOK
    <3> QED
      BY <1>11, <3>1, <3>2 DEF HostPublish, Drawn
  <2>4. DrawnOnce'
    BY <1>11, HubAssumption DEF HostPublish, Advance, registry, run, outbox
  <2>5. FewRequests'
    BY <1>11, HubAssumption DEF HostPublish, Advance, registry, run, outbox
  <2>6. Told'
    BY <1>11, <2>2 DEF HostPublish, Advance, run, outbox, ClosedInv, Told, Over
  <2> QED
    BY <2>3, <2>4, <2>5, <2>6 DEF ClosedInv
<1>12. ASSUME NEW c \in Client, JoinLookup(c) PROVE ClosedInv'
  <2>1. Drawn'
    BY <1>12, HubAssumption DEF JoinLookup, NoPanic, Panic, Advance, transport,
       registry, run, store, outbox, history
  <2>2. DrawnOnce'
    BY <1>12, HubAssumption DEF JoinLookup, NoPanic, Panic, Advance, transport,
       registry, run, store, outbox, history
  <2>3. FewRequests'
    BY <1>12, HubAssumption DEF JoinLookup, NoPanic, Panic, Advance, transport,
       registry, run, store, outbox, history
  <2>4. Told'
    BY <1>12, HubAssumption DEF JoinLookup, NoPanic, Panic, Advance, transport,
       registry, run, store, outbox, history
  <2> QED
    BY <2>1, <2>2, <2>3, <2>4
<1>13. ASSUME NEW c \in Client, JoinAdd(c) PROVE ClosedInv'
  BY <1>13, HubAssumption DEF JoinAdd, NoPanic, Advance, transport, registry,
     run, outbox, history
<1>14. ASSUME NEW c \in Client, JoinFill(c) PROVE ClosedInv'
  BY <1>14, HubAssumption DEF JoinFill, NoPanic, Advance, Enter, transport,
     registry, run
<1>15. ASSUME NEW c \in Client, NEW s \in Session, StartHosting(c, s) PROVE ClosedInv'
  <2>1. Drawn'
    BY <1>15, HubAssumption DEF StartHosting, Issue, NoPanic, transport,
       registry, run, store, outbox, history
  <2>2. DrawnOnce'
    BY <1>15, HubAssumption DEF StartHosting, Issue, NoPanic, transport,
       registry, run, store, outbox, history
  <2>3. FewRequests'
    BY <1>15, HubAssumption DEF StartHosting, Issue, NoPanic, transport,
       registry, run, store, outbox, history
  <2>4. Told'
    BY <1>15, HubAssumption DEF StartHosting, Issue, NoPanic, transport,
       registry, run, store, outbox, history
  <2> QED
    BY <2>1, <2>2, <2>3, <2>4
<1>16. ASSUME NEW c \in Client, NEW s \in Session, JoinSession(c, s) PROVE ClosedInv'
  <2>1. Drawn'
    BY <1>16, HubAssumption DEF JoinSession, Issue, NoPanic, transport,
       registry, run, store, outbox, history
  <2>2. DrawnOnce'
    BY <1>16, HubAssumption DEF JoinSession, Issue, NoPanic, transport,
       registry, run, store, outbox, history
  <2>3. FewRequests'
    BY <1>16, HubAssumption DEF JoinSession, Issue, NoPanic, transport,
       registry, run, store, outbox, history
  <2>4. Told'
    BY <1>16, HubAssumption DEF JoinSession, Issue, NoPanic, transport,
       registry, run, store, outbox, history
  <2> QED
    BY <2>1, <2>2, <2>3, <2>4
<1>17. ASSUME Check PROVE ClosedInv'
  BY <1>17, HubAssumption DEF Check, NoPanic, transport, registry, store,
     request, outbox
<1>18. ASSUME DecideMissing PROVE ClosedInv'
  BY <1>18, HubAssumption DEF DecideMissing, Panic, NoPanic, transport,
     registry, run, store, request, outbox, history
<1>19. ASSUME CloseSession PROVE ClosedInv'
  BY <1>19, HubAssumption DEF CloseSession, NoPanic, transport, registry,
     request, outbox, history
<1>20. ASSUME LeaveSession PROVE ClosedInv'
  BY <1>20, HubAssumption DEF LeaveSession, NoPanic, transport, registry,
     store, request, history
<1>21. ASSUME NEW p \in Client, NotifySkip(p) PROVE ClosedInv'
  BY <1>21, HubAssumption DEF NotifySkip, NoPanic, transport, registry,
     store, request, outbox, history
<1>22. ASSUME NEW p \in Client, NotifyCall(p) PROVE ClosedInv'
  BY <1>22, HubAssumption DEF NotifyCall, NoPanic, transport, registry,
     store, request, history
<1>23. ASSUME NEW p \in Client, NotifyMissing(p) PROVE ClosedInv'
  BY <1>23, HubAssumption DEF NotifyMissing, Panic, NoPanic, transport,
     registry, run, store, request, outbox, history
<1>24. ASSUME NotifyDone PROVE ClosedInv'
  BY <1>24, HubAssumption DEF NotifyDone, NoPanic, transport, registry,
     store, request, outbox, history
<1>25. ASSUME Close PROVE ClosedInv'
  BY <1>25, HubAssumption DEF Close, NoPanic, transport, store, request,
     history
<1>26. ASSUME NEW f \in fans, FanOut(f) PROVE ClosedInv'
  <2>1. Drawn'
    BY <1>26, HubAssumption DEF FanOut, NoPanic, Members, transport, registry,
       run, store, request, history
  <2>2. DrawnOnce'
    BY <1>26, HubAssumption DEF FanOut, NoPanic, Members, transport, registry,
       run, store, request, history
  <2>3. FewRequests'
    BY <1>26, HubAssumption DEF FanOut, NoPanic, Members, transport, registry,
       run, store, request, history
  <2>4. UNCHANGED <<run, store, request, seen>>
    BY <1>26 DEF FanOut
  <2>5. \A n \in notices' : n.kind = "SessionClosed" => n \in notices
    <3>1. f.kind # "SessionClosed"
      BY <1>26
    <3>2. notices' = notices \cup
            {[kind |-> f.kind, to |-> m, about |-> f.about, s |-> f.s] :
               m \in {d \in Members(f.s) \ {f.about} : ~ killed[d]}}
      BY <1>26 DEF FanOut
    <3> QED
      BY <3>1, <3>2
  <2>6. Told'
    BY <2>4, <2>5 DEF run, store, request
  <2> QED
    BY <2>1, <2>2, <2>3, <2>6
<1>27. ASSUME NEW n \in notices, Deliver(n) PROVE ClosedInv'
  BY <1>27, HubAssumption DEF Deliver, NoPanic, registry, store, request,
     history
<1>28. ASSUME NEW c \in Client, WriteToNil(c) PROVE ClosedInv'
  BY <1>28, HubAssumption DEF WriteToNil, Panic, NoPanic, transport,
     registry, run, store, request, outbox, history
<1>29. ASSUME Decide PROVE ClosedInv'
  BY <1>29, HubAssumption DEF Decide, NoPanic, transport, registry, store, request,
     outbox, history
<1>30. ASSUME Unlisted PROVE ClosedInv'
  BY <1>30, HubAssumption DEF Unlisted, NoPanic, transport, registry, store, request,
     outbox, history
<1> QED
  BY <1>1, <1>2, <1>3, <1>4, <1>5, <1>6, <1>7, <1>8, <1>9, <1>10, <1>11,
     <1>12, <1>13, <1>14, <1>15, <1>16, <1>17, <1>18, <1>19, <1>20, <1>21,
     <1>22, <1>23, <1>24, <1>25, <1>26, <1>27,
     <1>28, <1>29, <1>30 DEF Next, RunStep, Handler

(* An answer to SessionClosed moves its client from waited for to told. *)
LEMMA TellStep == TypeInv /\ ConnInv /\ ClosedInv /\ TellInv /\ Next => TellInv'
<1> SUFFICES ASSUME TypeInv, ConnInv, ClosedInv, TellInv PROVE Next => TellInv'
  OBVIOUS
<1> USE DEF TypeInv, TypeOK, Filled, TransportOK, RegistryOK, RunOK, StoreOK,
   RequestOK, OutboxOK, HistoryOK, ConnState, ReaderState, StarterState,
   RunState, RequestState, Fan, Notice, Event, ClosedInv, Drawn, Told,
   Hosting, Over, TellInv, Passed
<1>1. ASSUME NEW c \in Client, Connect(c) PROVE TellInv'
  BY <1>1, HubAssumption DEF Connect, NoPanic, registry, run, store, request,
     outbox, history
<1>2. ASSUME NEW c \in Client, Vanish(c) PROVE TellInv'
  BY <1>2, HubAssumption DEF Vanish, NoPanic, registry, run, store, request,
     outbox, history
<1>3. ASSUME NEW c \in Client, ReadError(c) PROVE TellInv'
  BY <1>3, HubAssumption DEF ReadError, NoPanic, registry, run, store,
     request, outbox, history
<1>4. ASSUME NEW c \in Client, CloseFrame(c) PROVE TellInv'
  BY <1>4, HubAssumption DEF CloseFrame, NoPanic, registry, run, store,
     request, outbox, history
<1>5. ASSUME NEW c \in Client, Setup(c) PROVE TellInv'
  BY <1>5, HubAssumption DEF Setup, NoPanic, registry, run, store, request,
     outbox, history
<1>6. ASSUME NEW c \in Client, Register(c) PROVE TellInv'
  BY <1>6, HubAssumption DEF Register, NoPanic, run, store, request, history
<1>7. ASSUME NEW c \in Client, Unregister(c) PROVE TellInv'
  BY <1>7, HubAssumption DEF Unregister, NoPanic, registry, store, request,
     outbox, history
<1>8. ASSUME NEW c \in Client, ReadRequest(c) PROVE TellInv'
  BY <1>8, HubAssumption DEF ReadRequest, NoPanic, Advance, transport,
     registry, run, store, outbox, history
<1>9. ASSUME NEW c \in Client, HostLookup(c) PROVE TellInv'
  BY <1>9, HubAssumption DEF HostLookup, NoPanic, Panic, Advance, transport,
     registry, run, store, outbox, history
<1>10. ASSUME NEW c \in Client, HostFill(c) PROVE TellInv'
  BY <1>10, HubAssumption DEF HostFill, NoPanic, Advance, Enter, transport,
     registry, run, outbox
<1>11. ASSUME NEW c \in Client, HostPublish(c) PROVE TellInv'
  BY <1>11, HubAssumption DEF HostPublish, NoPanic, Advance, transport,
     registry, run, outbox
<1>12. ASSUME NEW c \in Client, JoinLookup(c) PROVE TellInv'
  BY <1>12, HubAssumption DEF JoinLookup, NoPanic, Panic, Advance, transport,
     registry, run, store, outbox, history
<1>13. ASSUME NEW c \in Client, JoinAdd(c) PROVE TellInv'
  BY <1>13, HubAssumption DEF JoinAdd, NoPanic, Advance, transport, registry,
     run, outbox, history
<1>14. ASSUME NEW c \in Client, JoinFill(c) PROVE TellInv'
  BY <1>14, HubAssumption DEF JoinFill, NoPanic, Advance, Enter, transport,
     registry, run
<1>15. ASSUME NEW c \in Client, NEW s \in Session, StartHosting(c, s) PROVE TellInv'
  BY <1>15, HubAssumption DEF StartHosting, Issue, NoPanic, transport,
     registry, run, store, outbox, history
<1>16. ASSUME NEW c \in Client, NEW s \in Session, JoinSession(c, s) PROVE TellInv'
  BY <1>16, HubAssumption DEF JoinSession, Issue, NoPanic, transport,
     registry, run, store, outbox, history
<1>17. ASSUME Check PROVE TellInv'
  BY <1>17, HubAssumption DEF Check, NoPanic, transport, registry, store,
     request, outbox
<1>18. ASSUME DecideMissing PROVE TellInv'
  BY <1>18, HubAssumption DEF DecideMissing, Panic, NoPanic, transport,
     registry, run, store, request, outbox, history
<1>19. ASSUME CloseSession PROVE TellInv'
  BY <1>19, HubAssumption DEF CloseSession, NoPanic, transport, registry,
     request, outbox, history
<1>20. ASSUME LeaveSession PROVE TellInv'
  BY <1>20, HubAssumption DEF LeaveSession, NoPanic, transport, registry,
     store, request, history
<1>21. ASSUME NEW p \in Client, NotifySkip(p) PROVE TellInv'
  <2>1. \A q \in Client : Passed(q) => Passed(q)'
    BY <1>21 DEF NotifySkip, transport, store, outbox
  <2>2. Passed(p)'
    BY <1>21 DEF NotifySkip, ConnInv, transport, store
  <2> QED
    BY <1>21, <2>1, <2>2 DEF NotifySkip
<1>22. ASSUME NEW p \in Client, NotifyCall(p) PROVE TellInv'
  <2>1. \A q \in Client : Passed(q) => Passed(q)'
    BY <1>22 DEF NotifyCall, transport, store
  <2>2. Passed(p)'
    <3> DEFINE call == [kind |-> "SessionClosed", to |-> p,
                        about |-> session[p], s |-> cs]
    <3>1. call \in notices' /\ call.kind = "SessionClosed" /\ call.to = p
      BY <1>22 DEF NotifyCall
    <3> QED
      BY <3>1
  <2> QED
    BY <1>22, <2>1, <2>2 DEF NotifyCall
<1>23. ASSUME NEW p \in Client, NotifyMissing(p) PROVE TellInv'
  BY <1>23, HubAssumption DEF NotifyMissing, Panic, NoPanic, transport,
     registry, run, store, request, outbox, history
<1>24. ASSUME NotifyDone PROVE TellInv'
  BY <1>24, HubAssumption DEF NotifyDone, NoPanic, transport, registry,
     store, request, outbox, history
<1>25. ASSUME Close PROVE TellInv'
  BY <1>25, HubAssumption DEF Close, NoPanic, transport, store, request,
     history
<1>26. ASSUME NEW f \in fans, FanOut(f) PROVE TellInv'
  BY <1>26, HubAssumption DEF FanOut, NoPanic, Members, transport, registry,
     run, store, request, history
<1>27. ASSUME NEW n \in notices, Deliver(n) PROVE TellInv'
  <2>1. ASSUME NEW q \in Client, Passed(q) PROVE Passed(q)'
    <3>1. UNCHANGED <<host, cs, conn>>
      BY <1>27 DEF Deliver, store
    <3>2. CASE \E e \in seen[q] : e.kind = "SessionClosed"
      <4>1. seen[q] \subseteq seen'[q]
        BY <1>27 DEF Deliver
      <4> QED
        BY <3>2, <4>1
    <3>3. CASE \E m \in notices : m.kind = "SessionClosed" /\ m.to = q
      <4>1. PICK m \in notices : m.kind = "SessionClosed" /\ m.to = q
        BY <3>3
      <4>2. CASE m # n
        BY <1>27, <4>1, <4>2 DEF Deliver
      <4>3. CASE m = n
        <5> DEFINE e == [kind |-> n.kind, about |-> n.about]
        <5>1. e \in seen'[q] /\ e.kind = "SessionClosed"
          BY <1>27, <4>1, <4>3 DEF Deliver
        <5> QED
          BY <5>1
      <4> QED
        BY <4>2, <4>3
    <3> QED
      BY <2>1, <3>1, <3>2, <3>3
  <2>2. visited' = visited /\ (at' \in {"notify", "wait"} => at \in {"notify", "wait"})
    BY <1>27 DEF Deliver
  <2> QED
    BY <2>1, <2>2
<1>28. ASSUME NEW c \in Client, WriteToNil(c) PROVE TellInv'
  BY <1>28, HubAssumption DEF WriteToNil, Panic, NoPanic, transport,
     registry, run, store, request, outbox, history
<1>29. ASSUME Decide PROVE TellInv'
  BY <1>29, HubAssumption DEF Decide, NoPanic, transport, registry, store, request,
     outbox, history
<1>30. ASSUME Unlisted PROVE TellInv'
  BY <1>30, HubAssumption DEF Unlisted, NoPanic, transport, registry, store, request,
     outbox, history
<1> QED
  BY <1>1, <1>2, <1>3, <1>4, <1>5, <1>6, <1>7, <1>8, <1>9, <1>10, <1>11,
     <1>12, <1>13, <1>14, <1>15, <1>16, <1>17, <1>18, <1>19, <1>20, <1>21,
     <1>22, <1>23, <1>24, <1>25, <1>26, <1>27,
     <1>28, <1>29, <1>30 DEF Next, RunStep, Handler

(* JoinAdd comes before JoinFill, HostFill before HostPublish. *)
LEMMA StoreStep == TypeInv /\ ClosedInv /\ StoreInv /\ Next => StoreInv'
<1> SUFFICES ASSUME TypeInv, ClosedInv, StoreInv PROVE Next => StoreInv'
  OBVIOUS
<1> USE DEF TypeInv, TypeOK, Filled, TransportOK, RegistryOK, RunOK, StoreOK,
   RequestOK, OutboxOK, HistoryOK, ConnState, ReaderState, StarterState,
   RunState, RequestState, Fan, Notice, ClosedInv, Drawn, DrawnOnce, Hosting,
   StoreInv, MembersKnown, Store!MembersKnown
<1>1. ASSUME NEW c \in Client, Connect(c) PROVE StoreInv'
  BY <1>1, HubAssumption DEF Connect, NoPanic, registry, run, store, request,
     outbox, history
<1>2. ASSUME NEW c \in Client, Vanish(c) PROVE StoreInv'
  BY <1>2, HubAssumption DEF Vanish, NoPanic, registry, run, store, request,
     outbox, history
<1>3. ASSUME NEW c \in Client, ReadError(c) PROVE StoreInv'
  BY <1>3, HubAssumption DEF ReadError, NoPanic, registry, run, store,
     request, outbox, history
<1>4. ASSUME NEW c \in Client, CloseFrame(c) PROVE StoreInv'
  BY <1>4, HubAssumption DEF CloseFrame, NoPanic, registry, run, store,
     request, outbox, history
<1>5. ASSUME NEW c \in Client, Setup(c) PROVE StoreInv'
  BY <1>5, HubAssumption DEF Setup, NoPanic, registry, run, store, request,
     outbox, history
<1>6. ASSUME NEW c \in Client, Register(c) PROVE StoreInv'
  BY <1>6, HubAssumption DEF Register, NoPanic, run, store, request, history
<1>7. ASSUME NEW c \in Client, Unregister(c) PROVE StoreInv'
  BY <1>7, HubAssumption DEF Unregister, NoPanic, registry, store, request,
     outbox, history
<1>8. ASSUME NEW c \in Client, ReadRequest(c) PROVE StoreInv'
  BY <1>8, HubAssumption DEF ReadRequest, NoPanic, Advance, transport,
     registry, run, store, outbox, history
<1>9. ASSUME NEW c \in Client, HostLookup(c) PROVE StoreInv'
  BY <1>9, HubAssumption DEF HostLookup, NoPanic, Panic, Advance, transport,
     registry, run, store, outbox, history
<1>10. ASSUME NEW c \in Client, HostFill(c) PROVE StoreInv'
  BY <1>10, HubAssumption DEF HostFill, NoPanic, Advance, Enter, transport,
     registry, run, outbox
<1>11. ASSUME NEW c \in Client, HostPublish(c) PROVE StoreInv'
  BY <1>11, HubAssumption DEF HostPublish, NoPanic, Advance, transport,
     registry, run, outbox
<1>12. ASSUME NEW c \in Client, JoinLookup(c) PROVE StoreInv'
  BY <1>12, HubAssumption DEF JoinLookup, NoPanic, Panic, Advance, transport,
     registry, run, store, outbox, history
<1>13. ASSUME NEW c \in Client, JoinAdd(c) PROVE StoreInv'
  BY <1>13, HubAssumption DEF JoinAdd, NoPanic, Advance, transport, registry,
     run, outbox, history
<1>14. ASSUME NEW c \in Client, JoinFill(c) PROVE StoreInv'
  BY <1>14, HubAssumption DEF JoinFill, NoPanic, Advance, Enter, transport,
     registry, run
<1>15. ASSUME NEW c \in Client, NEW s \in Session, StartHosting(c, s) PROVE StoreInv'
  BY <1>15, HubAssumption DEF StartHosting, Issue, NoPanic, transport,
     registry, run, store, outbox, history
<1>16. ASSUME NEW c \in Client, NEW s \in Session, JoinSession(c, s) PROVE StoreInv'
  BY <1>16, HubAssumption DEF JoinSession, Issue, NoPanic, transport,
     registry, run, store, outbox, history
<1>17. ASSUME Check PROVE StoreInv'
  BY <1>17, HubAssumption DEF Check, NoPanic, transport, registry, store,
     request, outbox
<1>18. ASSUME DecideMissing PROVE StoreInv'
  BY <1>18, HubAssumption DEF DecideMissing, Panic, NoPanic, transport,
     registry, run, store, request, outbox, history
<1>19. ASSUME CloseSession PROVE StoreInv'
  BY <1>19, HubAssumption DEF CloseSession, NoPanic, transport, registry,
     request, outbox, history
<1>20. ASSUME LeaveSession PROVE StoreInv'
  BY <1>20, HubAssumption DEF LeaveSession, NoPanic, transport, registry,
     store, request, history
<1>21. ASSUME NEW p \in Client, NotifySkip(p) PROVE StoreInv'
  BY <1>21, HubAssumption DEF NotifySkip, NoPanic, transport, registry,
     store, request, outbox, history
<1>22. ASSUME NEW p \in Client, NotifyCall(p) PROVE StoreInv'
  BY <1>22, HubAssumption DEF NotifyCall, NoPanic, transport, registry,
     store, request, history
<1>23. ASSUME NEW p \in Client, NotifyMissing(p) PROVE StoreInv'
  BY <1>23, HubAssumption DEF NotifyMissing, Panic, NoPanic, transport,
     registry, run, store, request, outbox, history
<1>24. ASSUME NotifyDone PROVE StoreInv'
  BY <1>24, HubAssumption DEF NotifyDone, NoPanic, transport, registry,
     store, request, outbox, history
<1>25. ASSUME Close PROVE StoreInv'
  BY <1>25, HubAssumption DEF Close, NoPanic, transport, store, request,
     history
<1>26. ASSUME NEW f \in fans, FanOut(f) PROVE StoreInv'
  BY <1>26, HubAssumption DEF FanOut, NoPanic, Members, transport, registry,
     run, store, request, history
<1>27. ASSUME NEW n \in notices, Deliver(n) PROVE StoreInv'
  BY <1>27, HubAssumption DEF Deliver, NoPanic, registry, store, request,
     history
<1>28. ASSUME NEW c \in Client, WriteToNil(c) PROVE StoreInv'
  BY <1>28, HubAssumption DEF WriteToNil, Panic, NoPanic, transport,
     registry, run, store, request, outbox, history
<1>29. ASSUME Decide PROVE StoreInv'
  BY <1>29, HubAssumption DEF Decide, NoPanic, transport, registry, store, request,
     outbox, history
<1>30. ASSUME Unlisted PROVE StoreInv'
  BY <1>30, HubAssumption DEF Unlisted, NoPanic, transport, registry, store, request,
     outbox, history
<1> QED
  BY <1>1, <1>2, <1>3, <1>4, <1>5, <1>6, <1>7, <1>8, <1>9, <1>10, <1>11,
     <1>12, <1>13, <1>14, <1>15, <1>16, <1>17, <1>18, <1>19, <1>20, <1>21,
     <1>22, <1>23, <1>24, <1>25, <1>26, <1>27,
     <1>28, <1>29, <1>30 DEF Next, RunStep, Handler

-----------------------------------------------------------------------------
(* The theorems *)

Inv == /\ TypeInv /\ ConnInv /\ DepartInv /\ OrphanInv
       /\ ClosedInv /\ TellInv /\ StoreInv

(* NewHub and NewSessionManager establish every layer. *)
LEMMA InitInv == Init => Inv
<1> SUFFICES ASSUME Init PROVE Inv
  OBVIOUS
<1>1. TransportOK
  BY DEF Init, TransportOK, ConnState, ReaderState, StarterState
<1>2. RegistryOK /\ RunOK /\ StoreOK
  BY DEF Init, RegistryOK, RunOK, StoreOK, RunState
<1>3. RequestOK
  BY HubAssumption DEF Init, RequestOK, RequestState
<1>4. OutboxOK
  BY DEF Init, OutboxOK
<1>5. HistoryOK
  BY DEF Init, HistoryOK
<1>6. Filled
  BY DEF Init, Filled
<1>7. ConnInv
  BY DEF Init, ConnInv, NoPanicWhileConnected
<1>8. DepartInv
  BY DEF Init, DepartInv, DepartOnce, Teardown
<1>9. OrphanInv
  BY DEF Init, OrphanInv, OrphansExplained
<1>10. ClosedInv
  BY DEF Init, ClosedInv, Drawn, DrawnOnce, FewRequests, Told, Hosting
<1>11. TellInv
  BY DEF Init, TellInv
<1>12. StoreInv
  BY DEF Init, StoreInv, MembersKnown, Store!MembersKnown
<1> QED
  BY <1>1, <1>2, <1>3, <1>4, <1>5, <1>6, <1>7, <1>8, <1>9, <1>10, <1>11,
     <1>12 DEF Inv, TypeInv, TypeOK

(* The layers together are an invariant of the hub. *)
LEMMA Inductive == Spec => []Inv
<1>1. Inv /\ Next => Inv'
  BY TypeStep, ConnStep, DepartStep, OrphanStep, ClosedStep, TellStep,
     StoreStep DEF Inv
<1>2. Inv /\ UNCHANGED vars => Inv'
  BY DEF vars, transport, registry, run, store, request, outbox, history, Inv,
     TypeInv, TypeOK, Filled, TransportOK, RegistryOK, RunOK, StoreOK,
     RequestOK, OutboxOK, HistoryOK, ConnState, ReaderState, StarterState,
     RunState, RequestState, Fan, Notice, Event, ConnInv,
     NoPanicWhileConnected, DepartInv, DepartOnce, Teardown, OrphanInv,
     OrphansExplained, ClosedInv, Drawn, DrawnOnce, FewRequests, Told,
     Hosting, Over, TellInv, Passed, StoreInv, MembersKnown,
     Store!MembersKnown
<1> QED
  BY <1>1, <1>2, InitInv, PTL DEF Spec

(* Every variable keeps its type; in particular no event is ever addressed
   to the nil host of a session that was not published.                    *)
THEOREM TypeCorrect == Spec => []TypeOK
<1>1. Inv => TypeOK
  BY DEF Inv, TypeInv
<1> QED
  BY <1>1, Inductive, PTL

(* Whatever the number of connections and however often their sockets
   report a disconnect, Run tears a client down at most once (hub.go:111). *)
THEOREM TornDownOnce == Spec => []DepartOnce
<1>1. Inv => DepartOnce
  BY DEF Inv, DepartInv
<1> QED
  BY <1>1, Inductive, PTL

(* No interleaving of Host, Join and Run dereferences nil while every
   accepted connection is up.                                              *)
THEOREM NoPanicBeforeLoss == Spec => []NoPanicWhileConnected
<1>1. Inv => NoPanicWhileConnected
  BY DEF Inv, ConnInv
<1> QED
  BY <1>1, Inductive, PTL

(* The sessions the hub lists without a registered host are those whose host
   went on to another session, or published them during its own teardown.  *)
THEOREM OnlyExplainedOrphans == Spec => []OrphansExplained
<1>1. Inv => OrphansExplained
  BY DEF Inv, OrphanInv
<1> QED
  BY <1>1, Inductive, PTL

(* SessionClosed is only ever told of sessions the hub no longer lists, and
   will never list again, to clients that made one session request.        *)
THEOREM ClosedNoticesTrue == Spec => []ClosedNoticeTrue
<1>1. Inv => ClosedNoticeTrue
  BY DEF Inv, ClosedInv, Told, Over, ClosedNoticeTrue
<1> QED
  BY <1>1, Inductive, PTL

(* What a step can change, which spares the proofs below the other actions. *)
LEMMA Touches ==
  ASSUME Next
  PROVE  /\ UNCHANGED conn \/ \E c \in Client : Connect(c) \/ Vanish(c)
         /\ UNCHANGED reader \/ \E c \in Client : \/ Connect(c) \/ ReadError(c)
                                                 \/ CloseFrame(c) \/ Unregister(c)
         /\ UNCHANGED starter \/ \E c \in Client : Connect(c) \/ Setup(c) \/ Register(c)
         /\ UNCHANGED known \/ \E n \in notices : Deliver(n)
         /\ UNCHANGED <<participants, host>> \/ \E c \in Client : HostPublish(c) \/ JoinAdd(c)
         /\ UNCHANGED sessions \/ (\E c \in Client : HostPublish(c)) \/ CloseSession
         /\ UNCHANGED <<session, abandoned>> \/ \E c \in Client : HostFill(c) \/ JoinFill(c)
         /\ UNCHANGED <<at, cl, cs, todo, visited>>
              \/ RunStep \/ (\E c \in Client : Unregister(c)) \/ \E n \in notices : Deliver(n)
         /\ UNCHANGED notices
              \/ (\E c \in Client : Register(c) \/ NotifyCall(c)) \/ Close
              \/ (\E f \in fans : FanOut(f)) \/ \E n \in notices : Deliver(n)
         /\ UNCHANGED fans
              \/ (\E c \in Client : JoinFill(c)) \/ LeaveSession \/ \E f \in fans : FanOut(f)
         /\ UNCHANGED <<pc, made>>
              \/ \E c \in Client : \/ Handler(c)
                                   \/ \E s \in Session : StartHosting(c, s) \/ JoinSession(c, s)
<1> USE DEF transport, registry, run, store, request, outbox, history
<1>1. ASSUME NEW c \in Client, Connect(c) \/ Vanish(c) \/ ReadError(c) \/ CloseFrame(c) \/ Setup(c)
      PROVE  /\ UNCHANGED <<known, run, store, request, outbox, abandoned>>
             /\ UNCHANGED conn \/ Connect(c) \/ Vanish(c)
             /\ UNCHANGED reader \/ Connect(c) \/ ReadError(c) \/ CloseFrame(c)
             /\ UNCHANGED starter \/ Connect(c) \/ Setup(c)
  BY <1>1 DEF Connect, Vanish, ReadError, CloseFrame, Setup
<1>2. ASSUME NEW c \in Client, Register(c) \/ Unregister(c)
      PROVE  /\ UNCHANGED <<conn, known, store, request, fans, abandoned>>
             /\ UNCHANGED <<reader, run>> \/ Unregister(c)
             /\ UNCHANGED <<starter, notices>> \/ Register(c)
  BY <1>2 DEF Register, Unregister
<1>3. ASSUME NEW c \in Client, ReadRequest(c) \/ HostLookup(c) \/ HostFill(c)
      PROVE  /\ UNCHANGED <<transport, run, participants, host, sessions, outbox>>
             /\ UNCHANGED <<session, abandoned>> \/ HostFill(c)
  BY <1>3 DEF ReadRequest, HostLookup, HostFill, Enter
<1>4. ASSUME NEW c \in Client, HostPublish(c) \/ JoinLookup(c) \/ JoinAdd(c)
      PROVE  /\ UNCHANGED <<transport, run, session, outbox, abandoned>>
             /\ JoinLookup(c) => UNCHANGED store
             /\ UNCHANGED sessions \/ HostPublish(c)
  BY <1>4 DEF HostPublish, JoinLookup, JoinAdd
<1>5. ASSUME NEW c \in Client, JoinFill(c)
      PROVE  UNCHANGED <<transport, run, participants, host, sessions, notices>>
  BY <1>5 DEF JoinFill, Enter
<1>6. ASSUME NEW c \in Client, NEW s \in Session, StartHosting(c, s) \/ JoinSession(c, s)
      PROVE  UNCHANGED <<transport, run, store, outbox, abandoned>>
  BY <1>6 DEF StartHosting, JoinSession, Issue
<1>7. ASSUME NEW c \in Client, WriteToNil(c)
      PROVE  UNCHANGED <<transport, run, store, request, outbox, abandoned>>
  BY <1>7 DEF WriteToNil
<1>8. ASSUME RunStep
      PROVE  /\ UNCHANGED <<transport, participants, host, session, request, abandoned>>
             /\ UNCHANGED sessions \/ CloseSession
             /\ UNCHANGED fans \/ LeaveSession
             /\ UNCHANGED notices \/ Close \/ \E p \in Client : NotifyCall(p)
  <2>1. CASE Check \/ DecideMissing \/ Decide \/ Unlisted \/ CloseSession \/ LeaveSession
    BY <2>1 DEF Check, DecideMissing, Decide, Unlisted, CloseSession, LeaveSession
  <2>2. ASSUME NEW p \in Client, NotifySkip(p) \/ NotifyCall(p) \/ NotifyMissing(p)
        PROVE  /\ UNCHANGED <<transport, store, request, fans, abandoned>>
               /\ NotifyCall(p) \/ UNCHANGED notices
    BY <2>2 DEF NotifySkip, NotifyCall, NotifyMissing
  <2>3. CASE NotifyDone \/ Close
    BY <2>3 DEF NotifyDone, Close
  <2> QED
    BY <1>8, <2>1, <2>2, <2>3 DEF RunStep
<1>9. ASSUME NEW f \in fans, FanOut(f)
      PROVE  UNCHANGED <<transport, run, store, request, abandoned>>
  BY <1>9 DEF FanOut
<1>10. ASSUME NEW n \in notices, Deliver(n)
       PROVE  UNCHANGED <<conn, reader, starter, cl, store, request, fans, abandoned>>
  BY <1>10 DEF Deliver
<1>11. UNCHANGED conn \/ \E c \in Client : Connect(c) \/ Vanish(c)
  BY <1>1, <1>2, <1>3, <1>4, <1>5, <1>6, <1>7, <1>8, <1>9, <1>10 DEF Next, Handler
<1>12. UNCHANGED reader \/ \E c \in Client : \/ Connect(c) \/ ReadError(c)
                                          \/ CloseFrame(c) \/ Unregister(c)
  BY <1>1, <1>2, <1>3, <1>4, <1>5, <1>6, <1>7, <1>8, <1>9, <1>10 DEF Next, Handler
<1>13. UNCHANGED starter \/ \E c \in Client : Connect(c) \/ Setup(c) \/ Register(c)
  BY <1>1, <1>2, <1>3, <1>4, <1>5, <1>6, <1>7, <1>8, <1>9, <1>10 DEF Next, Handler
<1>14. UNCHANGED known \/ \E n \in notices : Deliver(n)
  BY <1>1, <1>2, <1>3, <1>4, <1>5, <1>6, <1>7, <1>8, <1>9, <1>10 DEF Next, Handler
<1>15. UNCHANGED <<participants, host>> \/ \E c \in Client : HostPublish(c) \/ JoinAdd(c)
  BY <1>1, <1>2, <1>3, <1>4, <1>5, <1>6, <1>7, <1>8, <1>9, <1>10 DEF Next, Handler
<1>16. UNCHANGED <<at, cl, cs, todo, visited>>
        \/ RunStep \/ (\E c \in Client : Unregister(c)) \/ \E n \in notices : Deliver(n)
  BY <1>1, <1>2, <1>3, <1>4, <1>5, <1>6, <1>7, <1>8, <1>9, <1>10 DEF Next, Handler
<1>17. UNCHANGED notices
        \/ (\E c \in Client : Register(c) \/ NotifyCall(c)) \/ Close
        \/ (\E f \in fans : FanOut(f)) \/ \E n \in notices : Deliver(n)
  BY <1>1, <1>2, <1>3, <1>4, <1>5, <1>6, <1>7, <1>8, <1>9, <1>10 DEF Next, Handler
<1>18. UNCHANGED fans
        \/ (\E c \in Client : JoinFill(c)) \/ LeaveSession \/ \E f \in fans : FanOut(f)
  BY <1>1, <1>2, <1>3, <1>4, <1>5, <1>6, <1>7, <1>8, <1>9, <1>10 DEF Next, Handler
<1>19. UNCHANGED <<pc, made>>
        \/ \E c \in Client : \/ Handler(c)
                             \/ \E s \in Session : StartHosting(c, s) \/ JoinSession(c, s)
  BY <1>1, <1>2, <1>3, <1>4, <1>5, <1>6, <1>7, <1>8, <1>9, <1>10 DEF Next, Handler
<1>20. UNCHANGED sessions \/ (\E c \in Client : HostPublish(c)) \/ CloseSession
  BY <1>1, <1>2, <1>3, <1>4, <1>5, <1>6, <1>7, <1>8, <1>9, <1>10 DEF Next, Handler
<1>21. UNCHANGED <<session, abandoned>> \/ \E c \in Client : HostFill(c) \/ JoinFill(c)
  BY <1>1, <1>2, <1>3, <1>4, <1>5, <1>6, <1>7, <1>8, <1>9, <1>10 DEF Next, Handler
<1> QED
  BY <1>20, <1>21, <1>11, <1>12, <1>13, <1>14, <1>15, <1>16, <1>17, <1>18, <1>19

(* Only an unpublished session loses participants, when it is published. *)
LEMMA MembersStay ==
  ASSUME Inv, Next, NEW s \in Session, host[s] # None
  PROVE  host'[s] = host[s] /\ participants[s] \subseteq participants'[s]
<1> USE DEF Inv, TypeInv, TypeOK, StoreOK, RequestOK, Filled
<1>1. ASSUME NEW c \in Client, HostPublish(c)
      PROVE  host'[s] = host[s] /\ participants'[s] = participants[s]
  <2>1. arg[c] # s
    BY <1>1 DEF HostPublish, ClosedInv, Drawn, Hosting
  <2> QED
    BY <1>1, <2>1 DEF HostPublish
<1>2. ASSUME NEW c \in Client, JoinAdd(c)
      PROVE  host' = host /\ participants[s] \subseteq participants'[s]
  BY <1>2 DEF JoinAdd
<1> QED
  BY <1>1, <1>2, Touches

(* Between the test Host == client and CloseSession the client's session may
   change once more (hub.go:113-114): Run has the client's own session before
   it, or the client has gone on, by a second request, from one it hosts.  *)
LastHosted ==
  at = "end" => \E t \in Session :
    host[t] = cl /\ (session[cl] = t \/ (t \in abandoned /\ made[cl] > 1))

LEMMA LastHostedStep == ASSUME Inv, LastHosted, Next PROVE LastHosted'
<1> USE DEF Inv, TypeInv, TypeOK, StoreOK, RequestOK
<1> SUFFICES ASSUME at' = "end" PROVE LastHosted'
  BY DEF LastHosted
<1>1. \A c \in Client, s \in Session : host[s] = c => host'[s] = c
  BY MembersStay, HubAssumption
<1>2. CASE Decide
  <2>1. cl \in Client /\ session[cl] \in Session /\ host[session[cl]] = cl
    BY <1>2 DEF Decide, Filled
  <2>2. UNCHANGED <<cl, session>>
    BY <1>2 DEF Decide, run, store
  <2> QED
    BY <1>1, <2>1, <2>2 DEF LastHosted
<1>3. CASE ~ Decide
  <2>1. at = "end" /\ cl' = cl
    <3>1. CASE UNCHANGED <<at, cl, cs, todo, visited>>
      BY <3>1
    <3>2. CASE \/ Check \/ DecideMissing \/ Unlisted \/ CloseSession
               \/ LeaveSession \/ NotifyDone \/ Close
      BY <3>2 DEF Check, DecideMissing, Unlisted, CloseSession, LeaveSession, NotifyDone,
         Close, run
    <3>3. ASSUME NEW p \in Client, NotifySkip(p) \/ NotifyCall(p) \/ NotifyMissing(p)
          PROVE  FALSE
      BY <3>3 DEF NotifySkip, NotifyCall, NotifyMissing, run
    <3>4. ASSUME NEW c \in Client, Unregister(c) PROVE FALSE
      BY <3>4 DEF Unregister
    <3>5. ASSUME NEW n \in notices, Deliver(n) PROVE at = "end" /\ cl' = cl
      BY <3>5 DEF Deliver
    <3> QED
      BY <1>3, <3>1, <3>2, <3>3, <3>4, <3>5, Touches DEF RunStep
  <2>2. PICK t \in Session :
          host[t] = cl /\ (session[cl] = t \/ (t \in abandoned /\ made[cl] > 1))
    BY <2>1 DEF LastHosted
  <2>3. cl \in Client
    BY <2>1 DEF Filled
  <2>4. made'[cl] >= made[cl]
    <3>1. ASSUME NEW c \in Client, Handler(c) PROVE made' = made
      BY <3>1 DEF Handler, ReadRequest, HostLookup, HostFill, HostPublish,
         JoinLookup, JoinAdd, JoinFill
    <3>2. ASSUME NEW c \in Client, NEW s \in Session, StartHosting(c, s) \/ JoinSession(c, s)
          PROVE  made'[cl] >= made[cl]
      BY <2>3, <3>2 DEF StartHosting, JoinSession, Issue
    <3> QED
      BY <2>3, <3>1, <3>2, Touches
  <2>5. ASSUME NEW c \in Client, HostFill(c) \/ JoinFill(c)
        PROVE  session'[cl] = t \/ (t \in abandoned' /\ made'[cl] > 1)
    <3>1. abandoned \subseteq abandoned' /\ Enter(c) /\ pc[c] = "fill" /\ made' = made
      BY <2>5 DEF HostFill, JoinFill, Enter
    <3>2. CASE c # cl \/ t # session[cl] \/ t = arg[c]
      BY <2>2, <2>3, <2>4, <3>1, <3>2 DEF Enter
    <3>3. CASE c = cl /\ t = session[cl] /\ t # arg[c]
      <4>1. t \in abandoned'
        BY <2>2, <3>1, <3>3 DEF Enter
      <4>2. made[cl] > 1
        BY <2>3, <3>3, HubAssumption DEF ClosedInv, FewRequests
      <4> QED
        BY <3>1, <4>1, <4>2
    <3> QED
      BY <3>2, <3>3
  <2>6. session'[cl] = t \/ (t \in abandoned' /\ made'[cl] > 1)
    <3>1. made[cl] \in Nat /\ made'[cl] \in Nat
      BY <2>1, <2>3, TypeStep
    <3> QED
      BY <2>2, <2>4, <2>5, <3>1, Touches
  <2> QED
    BY <1>1, <2>1, <2>2, <2>3, <2>6 DEF LastHosted
<1> QED
  BY <1>2, <1>3

LEMMA LastHostedAlways == Spec => [](Inv /\ LastHosted)
<1>1. Init => LastHosted
  BY DEF Init, LastHosted
<1>2. LastHosted /\ UNCHANGED vars => LastHosted'
  BY DEF vars, run, store, request, history, LastHosted
<1> QED
  BY <1>1, <1>2, LastHostedStep, Inductive, PTL DEF Spec

(* Only the teardown of a lost client that is in a session and hosts it, or
   that went there from a session it hosts, removes it from the hub.       *)
THEOREM OnlyHostEndsSession == Spec => SessionsEndWithHost
<1>1. Inv /\ LastHosted /\ [Next]_vars =>
        \A s \in sessions \ sessions' :
          /\ conn[cl] = "gone" /\ session[cl] = s
          /\ \/ host[s] = cl
             \/ made[cl] > 1 /\ \E t \in abandoned \ {s} : host[t] = cl
  <2> SUFFICES ASSUME Inv, LastHosted, [Next]_vars, NEW s \in sessions \ sessions'
               PROVE  /\ conn[cl] = "gone" /\ session[cl] = s
                      /\ \/ host[s] = cl
                         \/ made[cl] > 1 /\ \E t \in abandoned \ {s} : host[t] = cl
    OBVIOUS
  <2>1. CloseSession
    <3>1. ASSUME NEW c \in Client, HostPublish(c) PROVE FALSE
      BY <3>1 DEF HostPublish
    <3>2. CASE UNCHANGED vars
      BY <3>2 DEF vars, store
    <3> QED
      BY <3>1, <3>2, Touches
  <2>2. at = "end" /\ s = session[cl] /\ conn[cl] = "gone"
    BY <2>1 DEF CloseSession, Inv, ConnInv
  <2>3. PICK t \in Session :
          host[t] = cl /\ (session[cl] = t \/ (t \in abandoned /\ made[cl] > 1))
    BY <2>2 DEF LastHosted
  <2> QED
    BY <2>2, <2>3
<1> QED
  BY <1>1, LastHostedAlways, PTL DEF Spec, SessionsEndWithHost

(* CloseSession never returns while a connected participant that its loop
   began with has not been told: its calls are made one after the other and
   each waits for its answer, whoever joins, leaves or is lost meanwhile.  *)
THEOREM NobodyPassedOver == Spec => CloseTellsAll
<1>1. Inv /\ [Next]_vars =>
        (at = "notify" /\ at' = "close" =>
           \A p \in todo \ {host[cs]} :
             conn[p] = "gone" \/ \E e \in seen[p] : e.kind = "SessionClosed")
  <2> SUFFICES ASSUME Inv, [Next]_vars, at = "notify", at' = "close",
                      NEW p \in todo \ {host[cs]}
               PROVE  conn[p] = "gone" \/ \E e \in seen[p] : e.kind = "SessionClosed"
    OBVIOUS
  <2>1. \A n \in notices : n.kind # "SessionClosed"
    BY DEF Inv, TypeInv, Filled
  <2>2. todo \subseteq visited
    <3>1. CASE RunStep
      <4>1. CASE NotifyDone
        BY <4>1 DEF NotifyDone
      <4>2. CASE \/ Check \/ DecideMissing \/ Decide \/ Unlisted
                \/ CloseSession \/ LeaveSession \/ Close
        BY <4>2 DEF Check, DecideMissing, Decide, Unlisted, CloseSession, LeaveSession, Close
      <4>3. ASSUME NEW q \in Client, NotifySkip(q) \/ NotifyCall(q) \/ NotifyMissing(q)
            PROVE  FALSE
        BY <4>3 DEF NotifySkip, NotifyCall, NotifyMissing, run
      <4> QED
        BY <3>1, <4>1, <4>2, <4>3 DEF RunStep
    <3>2. ASSUME NEW c \in Client, Unregister(c) PROVE FALSE
      BY <3>2 DEF Unregister
    <3>3. ASSUME NEW n \in notices, Deliver(n) PROVE FALSE
      BY <3>3 DEF Deliver
    <3>4. CASE UNCHANGED vars
      BY <3>4 DEF vars, run
    <3> QED
      BY <3>1, <3>2, <3>3, <3>4, Touches
  <2> QED
    BY <2>1, <2>2 DEF Inv, TellInv, Passed
<1> QED
  BY <1>1, Inductive, PTL DEF Spec, CloseTellsAll

(* Nobody who is in a published session is missed by an iteration over its
   participants and its host.                                              *)
THEOREM NobodyUnlisted == Spec => []MembersKnown
<1>1. Inv => MembersKnown
  BY DEF Inv, StoreInv
<1> QED
  BY <1>1, Inductive, PTL

(* The hub implements Membership: initially, and in every step, which is a
   step of that specification or leaves its variables alone.               *)
LEMMA StoreStutters == UNCHANGED <<conn, store>> => UNCHANGED Store!vars
  BY DEF store, Store!vars

THEOREM HubImplementsMembership == Spec => ImplementsMembership
<1> DEFINE lost == {c \in Client : conn[c] = "gone"}
<1>1. Init => Store!Init
  BY DEF Init, Store!Init
<1>2. Inv /\ LastHosted /\ Next => Store!Next \/ UNCHANGED Store!vars
  <2> SUFFICES ASSUME Inv, LastHosted, Next PROVE Store!Next \/ UNCHANGED Store!vars
    OBVIOUS
  <2>1. ASSUME NEW c \in Client, Connect(c) PROVE Store!Next \/ UNCHANGED Store!vars
    <3>1. lost' = lost
      BY <2>1 DEF Connect, Inv, TypeInv, TypeOK, TransportOK
    <3> QED
      BY <2>1, <3>1 DEF Connect, store, Store!vars
  <2>2. ASSUME NEW c \in Client, Vanish(c) PROVE Store!Next \/ UNCHANGED Store!vars
    <3>1. Store!Lose(c)
      BY <2>2 DEF Vanish, store, Store!Lose, Inv, TypeInv, TypeOK, TransportOK
    <3> QED
      BY <3>1 DEF Store!Next
  <2>3. ASSUME NEW c \in Client, ReadError(c) PROVE Store!Next \/ UNCHANGED Store!vars
    BY <2>3, StoreStutters DEF ReadError, store
  <2>4. ASSUME NEW c \in Client, CloseFrame(c) PROVE Store!Next \/ UNCHANGED Store!vars
    BY <2>4, StoreStutters DEF CloseFrame, store
  <2>5. ASSUME NEW c \in Client, Setup(c) PROVE Store!Next \/ UNCHANGED Store!vars
    BY <2>5, StoreStutters DEF Setup, store
  <2>6. ASSUME NEW c \in Client, Register(c) PROVE Store!Next \/ UNCHANGED Store!vars
    BY <2>6, StoreStutters DEF Register, store
  <2>7. ASSUME NEW c \in Client, Unregister(c) PROVE Store!Next \/ UNCHANGED Store!vars
    BY <2>7, StoreStutters DEF Unregister, store
  <2>8. ASSUME NEW c \in Client, ReadRequest(c) PROVE Store!Next \/ UNCHANGED Store!vars
    BY <2>8, StoreStutters DEF ReadRequest, transport, store
  <2>9. ASSUME NEW c \in Client, HostLookup(c) PROVE Store!Next \/ UNCHANGED Store!vars
    BY <2>9, StoreStutters DEF HostLookup, transport, store
  <2>10. ASSUME NEW c \in Client, HostFill(c) PROVE Store!Next \/ UNCHANGED Store!vars
    <3>1. arg[c] \in Session /\ Hosting(c)
      BY <2>10 DEF HostFill, Inv, TypeInv, Filled, Hosting
    <3>2. host[arg[c]] = None
      BY <3>1 DEF Inv, ClosedInv, Drawn
    <3>3. ASSUME NEW d \in Client \ {c} PROVE session[d] # arg[c]
      BY <2>10, <3>1, <3>2, HubAssumption
         DEF Inv, ClosedInv, DrawnOnce, StoreInv, HostFill
    <3>4. Store!Enter(c, arg[c])
      BY <2>10, <3>2, <3>3 DEF HostFill, Enter, transport, Store!Enter
    <3> QED
      BY <3>1, <3>4 DEF Store!Next
  <2>11. ASSUME NEW c \in Client, HostPublish(c) PROVE Store!Next \/ UNCHANGED Store!vars
    <3>1. arg[c] \in Session /\ Hosting(c)
      BY <2>11 DEF HostPublish, Inv, TypeInv, Filled, Hosting
    <3>2. host[arg[c]] = None /\ session[c] = arg[c]
      BY <2>11, <3>1 DEF HostPublish, Inv, ClosedInv, Drawn, OrphanInv
    <3>3. Store!Publish(c, arg[c])
      BY <2>11, <3>2 DEF HostPublish, transport, Store!Publish
    <3> QED
      BY <3>1, <3>3 DEF Store!Next
  <2>12. ASSUME NEW c \in Client, JoinLookup(c) PROVE Store!Next \/ UNCHANGED Store!vars
    BY <2>12, StoreStutters DEF JoinLookup, transport, store
  <2>13. ASSUME NEW c \in Client, JoinAdd(c) PROVE Store!Next \/ UNCHANGED Store!vars
    <3>1. arg[c] \in Session /\ op[c] = "Join"
      BY <2>13 DEF JoinAdd, Inv, TypeInv, Filled
    <3>2. host[arg[c]] # None
      BY <2>13, <3>1, HubAssumption DEF JoinAdd, Inv, TypeInv, Filled
    <3>3. Store!Add(c, arg[c])
      BY <2>13, <3>2 DEF JoinAdd, transport, Store!Add
    <3> QED
      BY <3>1, <3>3 DEF Store!Next
  <2>14. ASSUME NEW c \in Client, JoinFill(c) PROVE Store!Next \/ UNCHANGED Store!vars
    <3>1. arg[c] \in Session /\ c \in participants[arg[c]]
      BY <2>14 DEF JoinFill, Inv, TypeInv, Filled, StoreInv
    <3>2. Store!Enter(c, arg[c])
      BY <2>14, <3>1 DEF JoinFill, Enter, transport, Store!Enter
    <3> QED
      BY <3>1, <3>2 DEF Store!Next
  <2>15. ASSUME NEW c \in Client, NEW s \in Session, StartHosting(c, s) PROVE Store!Next \/ UNCHANGED Store!vars
    BY <2>15, StoreStutters DEF StartHosting, Issue, transport, store
  <2>16. ASSUME NEW c \in Client, NEW s \in Session, JoinSession(c, s) PROVE Store!Next \/ UNCHANGED Store!vars
    BY <2>16, StoreStutters DEF JoinSession, Issue, transport, store
  <2>17. ASSUME Check PROVE Store!Next \/ UNCHANGED Store!vars
    BY <2>17, StoreStutters DEF Check, transport, store
  <2>18. ASSUME DecideMissing PROVE Store!Next \/ UNCHANGED Store!vars
    BY <2>18, StoreStutters DEF DecideMissing, transport, store
  <2>19. ASSUME CloseSession PROVE Store!Next \/ UNCHANGED Store!vars
    <3>1. session[cl] \in Session /\ cl \in lost
      BY <2>19 DEF CloseSession, Inv, TypeInv, TypeOK, StoreOK, Filled, ConnInv
    <3>2. PICK t \in Session : host[t] = cl /\ (session[cl] = t \/ t \in abandoned)
      BY <2>19 DEF CloseSession, LastHosted
    <3>3. Store!Ends(cl, session[cl])
      BY <3>1, <3>2 DEF Store!Ends
    <3>4. cl \in Client
      BY <2>19 DEF CloseSession, Inv, TypeInv, Filled
    <3>5. Store!End(session[cl])
      BY <2>19, <3>3, <3>4 DEF CloseSession, transport, Store!End
    <3> QED
      BY <3>1, <3>5 DEF Store!Next
  <2>20. ASSUME LeaveSession PROVE Store!Next \/ UNCHANGED Store!vars
    BY <2>20, StoreStutters DEF LeaveSession, transport, store
  <2>21. ASSUME NEW p \in Client, NotifySkip(p) PROVE Store!Next \/ UNCHANGED Store!vars
    BY <2>21, StoreStutters DEF NotifySkip, transport, store
  <2>22. ASSUME NEW p \in Client, NotifyCall(p) PROVE Store!Next \/ UNCHANGED Store!vars
    BY <2>22, StoreStutters DEF NotifyCall, transport, store
  <2>23. ASSUME NEW p \in Client, NotifyMissing(p) PROVE Store!Next \/ UNCHANGED Store!vars
    BY <2>23, StoreStutters DEF NotifyMissing, transport, store
  <2>24. ASSUME NotifyDone PROVE Store!Next \/ UNCHANGED Store!vars
    BY <2>24, StoreStutters DEF NotifyDone, transport, store
  <2>25. ASSUME Close PROVE Store!Next \/ UNCHANGED Store!vars
    BY <2>25, StoreStutters DEF Close, transport, store
  <2>26. ASSUME NEW f \in fans, FanOut(f) PROVE Store!Next \/ UNCHANGED Store!vars
    BY <2>26, StoreStutters DEF FanOut, transport, store
  <2>27. ASSUME NEW n \in notices, Deliver(n) PROVE Store!Next \/ UNCHANGED Store!vars
    BY <2>27, StoreStutters DEF Deliver, store
  <2>28. ASSUME NEW c \in Client, WriteToNil(c) PROVE Store!Next \/ UNCHANGED Store!vars
    BY <2>28, StoreStutters DEF WriteToNil, transport, store
  <2>29. ASSUME Decide PROVE Store!Next \/ UNCHANGED Store!vars
    BY <2>29, StoreStutters DEF Decide, transport, store
  <2>30. ASSUME Unlisted PROVE Store!Next \/ UNCHANGED Store!vars
    BY <2>30, StoreStutters DEF Unlisted, transport, store
  <2> QED
    BY <2>1, <2>2, <2>3, <2>4, <2>5, <2>6, <2>7, <2>8, <2>9, <2>10, <2>11,
       <2>12, <2>13, <2>14, <2>15, <2>16, <2>17, <2>18, <2>19, <2>20, <2>21,
       <2>22, <2>23, <2>24, <2>25, <2>26, <2>27,
       <2>28, <2>29, <2>30 DEF Next, RunStep, Handler
<1>3. UNCHANGED vars => UNCHANGED Store!vars
  BY StoreStutters DEF vars, transport, store
<1> QED
  BY <1>1, <1>2, <1>3, LastHostedAlways, PTL DEF Spec, ImplementsMembership, Store!Spec

(* What Membership promises holds of the hub, which implements it: the id of a
   session that has ended never names one that is listed. A client that was
   told of the end cannot find itself in another session of that name.     *)
THEOREM EndedIdsStayEnded == Spec => Store!EndedForGood
<1>1. [Store!Next]_(Store!vars) =>
        [\A s \in Session : s \notin sessions /\ host[s] # None => s \notin sessions']_(Store!vars)
  BY DEF Store!Next, Store!Lose, Store!Enter, Store!Publish, Store!Add, Store!End
<1> QED
  BY <1>1, HubImplementsMembership, PTL
     DEF ImplementsMembership, Store!Spec, Store!EndedForGood

-----------------------------------------------------------------------------
(* Run never comes to rest in a teardown: EveryLossHandled and
   MembersToldOfClose without the fairness.                                *)

(* Who is in a session has connected. *)
Arrived ==
  \A c \in Client : conn[c] = "new" =>
    ~ known[c] /\ \A s \in Session : c \notin participants[s]

(* The participants CloseSession's loop began with are still there. *)
LoopInv == at \in {"notify", "wait"} => todo \subseteq participants[cs]

(* While Run waits in CloseSession there is the call it waits for, of the
   session it closes, and unless peers may vanish without an answer its
   client is connected. While the loop runs it is through, or there is a
   participant it has not produced, to whom the hub once was connected:
   that one is passed over, called, or ends the process. Unless it is in its
   select Run therefore can go on (hub.go:107-126, hub-session.go:90-112).  *)
RunGoesOn ==
  /\ at = "wait" => \E n \in notices :
       n.kind = "SessionClosed" /\ n.s = cs /\ (LossSilent \/ conn[n.to] = "open")
  /\ at = "notify" => todo \subseteq visited \/
       \E p \in participants[cs] \ visited : conn[p] \in {"open", "gone"}

RunInv == Arrived /\ LoopInv /\ RunGoesOn

LEMMA ArrivedStep == ASSUME Inv, Arrived, Next PROVE Arrived'
<1> USE DEF Inv, TypeInv, TypeOK, TransportOK, StoreOK, RequestOK, Filled
<1>1. ASSUME NEW c \in Client, conn'[c] = "new" PROVE conn[c] = "new"
  <2>1. CASE UNCHANGED conn
    BY <1>1, <2>1
  <2>2. ASSUME NEW d \in Client, Connect(d) \/ Vanish(d) PROVE conn[c] = "new"
    BY <1>1, <2>2 DEF Connect, Vanish
  <2> QED
    BY <2>1, <2>2, Touches
<1>2. ASSUME NEW c \in Client, conn'[c] = "new", ~ known[c] PROVE ~ known'[c]
  <2>1. ASSUME NEW n \in notices, Deliver(n) PROVE ~ known'[c]
    <3>1. conn' = conn /\ conn[n.to] = "open" /\ n.to \in Client
      BY <2>1 DEF Deliver, OutboxOK, Notice
    <3>2. c # n.to
      BY <1>2, <3>1
    <3>3. known' = [known EXCEPT ![n.to] = TRUE] \/ known' = known
      BY <2>1 DEF Deliver
    <3> QED
      BY <1>2, <3>1, <3>2, <3>3
  <2> QED
    BY <1>2, <2>1, Touches
<1>3. ASSUME NEW c \in Client, NEW s \in Session, c \notin participants[s],
             conn[c] = "new", ~ known[c]
      PROVE  c \notin participants'[s]
  <2>1. ASSUME NEW d \in Client, HostPublish(d) PROVE c \notin participants'[s]
    BY <1>3, <2>1 DEF HostPublish
  <2>2. ASSUME NEW d \in Client, JoinAdd(d) PROVE c \notin participants'[s]
    BY <1>3, <2>2 DEF JoinAdd, ConnInv
  <2> QED
    BY <1>3, <2>1, <2>2, Touches
<1> QED
  BY <1>1, <1>2, <1>3 DEF Arrived

LEMMA LoopStep == ASSUME Inv, LoopInv, Next PROVE LoopInv'
<1> USE DEF Inv, TypeInv, TypeOK, RunOK, Filled
<1>1. ASSUME at \in {"notify", "wait"} PROVE participants[cs] \subseteq participants'[cs]
  BY <1>1, MembersStay DEF ClosedInv, Told, Over
<1>2. CASE UNCHANGED <<at, cs, todo, visited>>
  BY <1>1, <1>2 DEF LoopInv
<1>3. CASE RunStep
  <2>1. CASE \/ Check \/ DecideMissing \/ Decide \/ Unlisted
            \/ LeaveSession \/ NotifyDone \/ Close
    BY <1>1, <2>1 DEF Check, DecideMissing, Decide, Unlisted, LeaveSession, NotifyDone,
       Close, LoopInv, run
  <2>2. CASE CloseSession
    BY <2>2 DEF CloseSession, LoopInv
  <2>3. ASSUME NEW p \in Client, NotifySkip(p) \/ NotifyCall(p) \/ NotifyMissing(p)
        PROVE  LoopInv'
    BY <1>1, <2>3 DEF NotifySkip, NotifyCall, NotifyMissing, LoopInv, run
  <2> QED
    BY <1>3, <2>1, <2>2, <2>3 DEF RunStep
<1>4. ASSUME NEW c \in Client, Unregister(c) PROVE LoopInv'
  BY <1>4 DEF Unregister, LoopInv
<1>5. ASSUME NEW n \in notices, Deliver(n) PROVE LoopInv'
  BY <1>1, <1>5 DEF Deliver, LoopInv
<1> QED
  BY <1>2, <1>3, <1>4, <1>5, Touches

(* The call that Run waits for. *)
Awaited(n) ==
  n.kind = "SessionClosed" /\ n.s = cs /\ (LossSilent \/ conn[n.to] = "open")

LEMMA WaitStep ==
  ASSUME Inv, at = "wait" => \E n \in notices : Awaited(n), Next, at' = "wait"
  PROVE  \E n \in notices' : Awaited(n)'
<1> USE DEF Inv, TypeInv, TypeOK, RunOK, OutboxOK, TransportOK, Notice
<1>1. ASSUME NEW p \in Client, NotifyCall(p) PROVE \E n \in notices' : Awaited(n)'
  <2> DEFINE n == [kind |-> "SessionClosed", to |-> p, about |-> session[p], s |-> cs]
  <2>1. n \in notices' /\ cs' = cs /\ conn' = conn /\ (conn[p] = "open" \/ LossSilent)
    BY <1>1 DEF NotifyCall, transport
  <2>2. n.kind = "SessionClosed" /\ n.s = cs /\ n.to = p
    OBVIOUS
  <2>3. \E m \in notices' :
          m.kind = "SessionClosed" /\ m.s = cs' /\ (LossSilent \/ conn'[m.to] = "open")
    BY <2>1, <2>2
  <2> QED
    BY <2>3 DEF Awaited
<1>2. ASSUME ~ \E p \in Client : NotifyCall(p) PROVE at = "wait" /\ cs' = cs
  <2>1. CASE UNCHANGED <<at, cs, todo, visited>>
    BY <2>1
  <2>2. CASE RunStep
    <3>1. CASE \/ Check \/ DecideMissing \/ Decide \/ Unlisted
              \/ CloseSession \/ LeaveSession \/ NotifyDone \/ Close
      BY <3>1 DEF Check, DecideMissing, Decide, Unlisted, CloseSession, LeaveSession,
         NotifyDone, Close, run
    <3>2. ASSUME NEW p \in Client, NotifySkip(p) \/ NotifyMissing(p) PROVE at = "wait" /\ cs' = cs
      BY <3>2 DEF NotifySkip, NotifyMissing, run
    <3> QED
      BY <1>2, <2>2, <3>1, <3>2 DEF RunStep
  <2>3. ASSUME NEW c \in Client, Unregister(c) PROVE FALSE
    BY <2>3 DEF Unregister
  <2>4. ASSUME NEW n \in notices, Deliver(n) PROVE at = "wait" /\ cs' = cs
    BY <2>4 DEF Deliver
  <2> QED
    BY <2>1, <2>2, <2>3, <2>4, Touches
<1>3. ASSUME NEW n \in notices, Awaited(n), at = "wait", cs' = cs,
             ~ \E p \in Client : NotifyCall(p)
      PROVE  n \in notices' /\ Awaited(n)'
  <2>1. n \in notices'
    <3>1. ASSUME NEW c \in Client, Register(c) PROVE n \in notices'
      BY <3>1 DEF Register
    <3>2. CASE Close
      BY <1>3, <3>2 DEF Close
    <3>3. ASSUME NEW f \in fans, FanOut(f) PROVE n \in notices'
      BY <3>3 DEF FanOut
    <3>4. ASSUME NEW m \in notices, Deliver(m) PROVE n \in notices'
      BY <1>3, <3>4 DEF Deliver, Awaited
    <3> QED
      BY <1>3, <3>1, <3>2, <3>3, <3>4, Touches
  <2>2. LossSilent \/ conn'[n.to] = "open"
    <3>1. n.to \in Client
      OBVIOUS
    <3>2. ASSUME NEW c \in Client, Connect(c), conn[n.to] = "open" PROVE conn'[n.to] = "open"
      BY <3>1, <3>2 DEF Connect
    <3>3. ASSUME NEW c \in Client, Vanish(c), ~ LossSilent, conn[n.to] = "open"
          PROVE  conn'[n.to] = "open"
      <4>1. n.to # c
        BY <1>3, <3>3 DEF Vanish, Awaited
      <4> QED
        BY <3>1, <3>3, <4>1 DEF Vanish
    <3> QED
      BY <1>3, <3>2, <3>3, Touches DEF Awaited
  <2> QED
    BY <1>3, <2>1, <2>2 DEF Awaited
<1> QED
  BY <1>1, <1>2, <1>3

(* CloseSession never waits for an answer that nobody owes it, nor does its
   loop find nobody to go on with before it is through.                    *)
THEOREM RunNeverStuck == Spec => []RunGoesOn
<1>1. Init => RunInv
  BY DEF Init, RunInv, Arrived, LoopInv, RunGoesOn
<1>2. ASSUME Inv, RunInv, Next PROVE RunInv'
  <2>1. Arrived' /\ LoopInv'
    BY <1>2, ArrivedStep, LoopStep DEF RunInv
  <2>2. at' = "wait" => \E n \in notices' : Awaited(n)'
    BY <1>2, WaitStep DEF RunInv, RunGoesOn, Awaited
  <2>3. ASSUME at' = "notify", ~ (todo' \subseteq visited')
        PROVE  \E p \in participants'[cs'] \ visited' : conn'[p] \in {"open", "gone"}
    <3>1. TypeInv'
      BY <1>2, TypeStep DEF Inv
    <3>2. PICK p \in todo' : p \notin visited'
      BY <2>3
    <3>3. p \in participants'[cs'] /\ p \in Client /\ cs' \in Session
      BY <2>1, <2>3, <3>1, <3>2 DEF LoopInv, TypeInv, TypeOK, RunOK, Filled
    <3>4. conn'[p] \in {"open", "gone"}
      BY <2>1, <3>1, <3>3 DEF Arrived, TypeInv, TypeOK, TransportOK, ConnState
    <3> QED
      BY <3>2, <3>3, <3>4
  <2> QED
    BY <2>1, <2>2, <2>3 DEF RunInv, RunGoesOn, Awaited
<1>3. RunInv /\ UNCHANGED vars => RunInv'
  BY DEF vars, transport, run, store, outbox, RunInv, Arrived, LoopInv, RunGoesOn
<1> QED
  BY <1>1, <1>2, <1>3, Inductive, PTL DEF Spec, RunInv

-----------------------------------------------------------------------------
(* What the hub has begun to announce gets through: JoinAnnounced without the
   fairness.                                                               *)

(* A fan-out becomes a call to every other member of the session that was not
   torn down; a call goes away when its client has got it or is lost; and no
   member of a published session is lost in between, so that whoever was a
   member when a Join announced itself is one when its goroutine reads the
   participants (hub-session.go:36-88).                                    *)
About(n) == [kind |-> n.kind, about |-> n.about]

KeepsAnnouncements ==
  /\ \A f \in fans \ fans' : \A m \in Members(f.s) \ {f.about} :
       \/ conn[m] = "gone"
       \/ [kind |-> f.kind, to |-> m, about |-> f.about, s |-> f.s] \in notices'
  /\ \A n \in notices \ notices' :
       \/ conn[n.to] = "gone"
       \/ n.kind = "Registered" /\ known'[n.to]
       \/ n.kind # "Registered" /\ About(n) \in seen'[n.to]
  /\ \A s \in Session : host[s] # None => Members(s) \subseteq Members(s)'

AnnouncementsKept == [][KeepsAnnouncements]_vars

(* No announcement is dropped, whatever goroutines run in between. *)
THEOREM NothingDropped == Spec => AnnouncementsKept
<1>1. ASSUME Inv, Next, NEW f \in fans \ fans', NEW m \in Members(f.s) \ {f.about}
      PROVE  conn[m] = "gone" \/ [kind |-> f.kind, to |-> m, about |-> f.about, s |-> f.s] \in notices'
  <2>1. ASSUME NEW c \in Client, JoinFill(c) PROVE FALSE
    BY <1>1, <2>1 DEF JoinFill
  <2>2. ASSUME LeaveSession PROVE FALSE
    BY <1>1, <2>2 DEF LeaveSession
  <2>3. ASSUME NEW g \in fans, FanOut(g) PROVE g = f
    BY <1>1, <2>3 DEF FanOut
  <2>4. FanOut(f)
    <3>1. fans' # fans
      BY <1>1
    <3>2. PICK g \in fans : FanOut(g)
      BY <1>1, <2>1, <2>2, <3>1, Touches
    <3> QED
      BY <2>3, <3>2
  <2>5. m \in Client
    BY <1>1 DEF Inv, TypeInv, TypeOK, StoreOK, OutboxOK, Fan, Filled, Members
  <2>6. CASE killed[m]
    BY <1>1, <2>5, <2>6 DEF Inv, ConnInv
  <2>7. CASE ~ killed[m]
    BY <1>1, <2>4, <2>7 DEF FanOut
  <2> QED
    BY <2>6, <2>7
<1>2. ASSUME Inv, Next, NEW n \in notices \ notices'
      PROVE  \/ conn[n.to] = "gone"
             \/ n.kind = "Registered" /\ known'[n.to]
             \/ n.kind # "Registered" /\ About(n) \in seen'[n.to]
  <2> USE DEF Inv, TypeInv, TypeOK, TransportOK, OutboxOK, Notice
  <2>1. ASSUME NEW c \in Client, Register(c) \/ NotifyCall(c) PROVE FALSE
    BY <1>2, <2>1 DEF Register, NotifyCall
  <2>2. CASE Close
    BY <1>2, <2>2 DEF Close, ConnInv
  <2>3. ASSUME NEW f \in fans, FanOut(f) PROVE FALSE
    BY <1>2, <2>3 DEF FanOut
  <2>4. ASSUME NEW k \in notices, Deliver(k)
        PROVE  \/ n.kind = "Registered" /\ known'[n.to]
               \/ n.kind # "Registered" /\ About(n) \in seen'[n.to]
    <3>1. k = n
      BY <1>2, <2>4 DEF Deliver
    <3>2. n.to \in Client
      BY <1>2
    <3>3. CASE n.kind = "Registered"
      BY <1>2, <2>4, <3>1, <3>2, <3>3 DEF Deliver
    <3>4. CASE n.kind # "Registered"
      BY <1>2, <2>4, <3>1, <3>2, <3>4 DEF Deliver, About
    <3> QED
      BY <3>3, <3>4
  <2> QED
    BY <1>2, <2>1, <2>2, <2>3, <2>4, Touches
<1>3. ASSUME Inv, Next, NEW s \in Session, host[s] # None
      PROVE  Members(s) \subseteq Members(s)'
  BY <1>3, MembersStay DEF Members
<1>4. ASSUME Inv, UNCHANGED vars
      PROVE  fans' = fans /\ notices' = notices /\ \A s \in Session : Members(s)' = Members(s)
  BY <1>4 DEF vars, store, outbox, Members
<1>5. Inv /\ [Next]_vars => KeepsAnnouncements
  BY <1>1, <1>2, <1>3, <1>4 DEF KeepsAnnouncements
<1> QED
  BY <1>5, Inductive, PTL DEF Spec, AnnouncementsKept

-----------------------------------------------------------------------------
(* Requests find their listener: RequestsAnswered without the fairness. *)

(* A request waits to be read only while somebody reads or the connection is
   gone, and only the first request of a client can be read before there is
   a listener for it (hub-client.go:52-64, 168-178).                       *)
OnlyFirstLost ==
  \A c \in Client : /\ pc[c] = "sent" => reader[c] = "reading" \/ conn[c] = "gone"
                    /\ pc[c] = "lost" => made[c] = 1

(* A client whose channels have no listener has at most one request out. *)
FirstInv ==
  \A c \in Client :
    /\ conn[c] = "open" => reader[c] = "reading"
    /\ starter[c] # "serving" =>
         made[c] = 0 \/ (made[c] = 1 /\ pc[c] \in {"sent", "lost"})
    /\ pc[c] = "lost" => made[c] = 1

(* No request but the first of a client is lost for want of a listener. *)
THEOREM LaterRequestsHeard == Spec => []OnlyFirstLost
<1> USE DEF TransportOK, RequestOK, ReaderState, StarterState, RequestState, ConnState
<1>1. Init => FirstInv
  BY DEF Init, FirstInv
<1>2. ASSUME Inv, FirstInv, Next PROVE FirstInv'
  <2>0. TransportOK /\ RequestOK
    BY <1>2 DEF Inv, TypeInv, TypeOK
  <2>1. ASSUME NEW c \in Client, conn'[c] = "open" PROVE reader'[c] = "reading"
    <3>1. ASSUME NEW d \in Client, Connect(d) PROVE reader'[c] = "reading"
      BY <1>2, <2>0, <2>1, <3>1 DEF FirstInv, Connect
    <3>2. CASE ~ \E d \in Client : Connect(d)
      <4>1. conn[c] = "open"
        BY <2>0, <2>1, <3>2, Touches, <1>2 DEF Vanish
      <4>2. ASSUME NEW d \in Client, ReadError(d) \/ CloseFrame(d) PROVE reader'[c] = reader[c]
        BY <2>0, <4>1, <4>2 DEF ReadError, CloseFrame
      <4>3. ASSUME NEW d \in Client, Unregister(d) PROVE reader'[c] = reader[c]
        BY <1>2, <2>0, <4>1, <4>3 DEF Unregister, FirstInv
      <4> QED
        BY <1>2, <3>2, <4>1, <4>2, <4>3, Touches DEF FirstInv
    <3> QED
      BY <3>1, <3>2
  <2>2. ASSUME NEW c \in Client, starter'[c] # "serving" PROVE starter[c] # "serving"
    <3>1. ASSUME NEW d \in Client, Connect(d) \/ Setup(d) \/ Register(d) PROVE starter[c] # "serving"
      BY <1>2, <2>0, <2>2, <3>1 DEF Connect, Setup, Register, Inv, DepartInv
    <3> QED
      BY <1>2, <2>2, <3>1, Touches
  <2>3. CASE UNCHANGED <<pc, made>>
    BY <1>2, <2>1, <2>2, <2>3 DEF FirstInv
  <2>4. ASSUME NEW d \in Client, Handler(d) PROVE FirstInv'
    <3>1. CASE ReadRequest(d)
      <4>1. /\ pc[d] = "sent" /\ made' = made /\ starter' = starter
            /\ pc' = [pc EXCEPT ![d] = IF starter[d] = "serving" THEN "lookup" ELSE "lost"]
        BY <3>1 DEF ReadRequest, Advance, transport
      <4> QED
        BY <1>2, <2>0, <2>1, <2>2, <4>1 DEF FirstInv, Inv, ClosedInv, FewRequests
    <3>2. CASE ~ ReadRequest(d)
      <4>1. /\ made' = made /\ pc[d] \in {"lookup", "add", "fill", "publish"}
            /\ \A c \in Client \ {d} : pc'[c] = pc[c]
            /\ pc'[d] # "lost"
        BY <2>0, <2>4, <3>2 DEF Handler, HostLookup, HostFill, HostPublish,
           JoinLookup, JoinAdd, JoinFill, Advance
      <4> QED
        BY <1>2, <2>0, <2>1, <2>2, <4>1 DEF FirstInv
    <3> QED
      BY <3>1, <3>2
  <2>5. ASSUME NEW d \in Client, NEW s \in Session, StartHosting(d, s) \/ JoinSession(d, s)
        PROVE  FirstInv'
    <3>1. /\ pc[d] = "idle" /\ made' = [made EXCEPT ![d] = @ + 1]
          /\ pc' = [pc EXCEPT ![d] = "sent"]
      BY <2>5 DEF StartHosting, JoinSession, Issue
    <3> QED
      BY <1>2, <2>0, <2>1, <2>2, <3>1, HubAssumption DEF FirstInv
  <2> QED
    BY <1>2, <2>3, <2>4, <2>5, Touches
<1>3. FirstInv /\ UNCHANGED vars => FirstInv'
  BY DEF vars, transport, request, FirstInv
<1>4. Inv /\ FirstInv => OnlyFirstLost
  <2> SUFFICES ASSUME Inv, FirstInv, NEW c \in Client, pc[c] = "sent"
               PROVE  reader[c] = "reading" \/ conn[c] = "gone"
    BY DEF FirstInv, OnlyFirstLost
  <2>1. conn[c] # "new"
    BY DEF Inv, ConnInv, DepartInv, FirstInv, TypeInv, TypeOK, RegistryOK
  <2> QED
    BY <2>1 DEF Inv, TypeInv, TypeOK, FirstInv
<1> QED
  BY <1>1, <1>2, <1>3, <1>4, Inductive, PTL DEF Spec

=============================================================================
