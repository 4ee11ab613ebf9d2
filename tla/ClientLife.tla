----------------------------- MODULE ClientLife -----------------------------
(***************************************************************************)
(* The life of one client process: the command line program, the Client of *)
(* client.go, its socket (WebSocket or KCP) and the chat client on top,    *)
(* from Connect to the exit of main.                                       *)
(*                                                                         *)
(* Several goroutines may find out that the connection is over, and each   *)
(* of them runs Client.clean: the event loop, a goroutine whose write      *)
(* fails, the chat client when its session ends, main, and the goroutines  *)
(* that Client.Close starts for the socket.  clean emits KILL and waits    *)
(* until the reader of the session manager's rpc.Client takes it: that     *)
(* NetConn is the first to listen to the terminate signal, and the signal  *)
(* refuses the listeners of the others, which have the same key.           *)
(***************************************************************************)
EXTENDS Naturals

Kinds   == {"ws", "kcp"}
Callers == {"app", "chat"}
Closers == {"chat", "main"}
SocketOf == [chat |-> "chatSocket", main |-> "mainSocket"]
Sockets == {SocketOf[c] : c \in Closers}
Reporters == {"loop", "writer"} \cup Sockets      \* they run OnDisconnected
Cleaners == Reporters \cup Closers
Waits == {"starting", "membering"}

VARIABLES
    kind,      \* the transport
    wire,      \* the connection: none, up, broken, or closed on this side
    connected, \* isConnected of the KCP socket; that of a WebSocket stays false
    loop,      \* the event loop: off, reading, ended, or the caller whose
               \* answer it is handing to the session manager's rpc.Client
    session,   \* that rpc.Client: none, ready to be made, reading, ended
    listening, \* the KILL listener is there, and so is sessionChanged's
    server,    \* client.rpcServer # nil
    stage,     \* what the callers are at
    cleaning,  \* what the cleaners are at
    forwarded, \* the command's goroutine has read Interrupt
    main,      \* start, waiting, closing, exited
    panicked,
    clash      \* history: a clean began with a KILL when another clean had not
               \* removed the listener yet, or when nobody would ever take it

conn == <<kind, wire, connected>>
rpcs == <<session, listening, server>>
cleans == <<cleaning, clash>>
ends == <<forwarded, main, panicked>>
vars == <<conn, loop, rpcs, stage, cleans, ends>>

Init ==
    /\ kind \in Kinds
    /\ wire = "none" /\ connected = FALSE /\ loop = "off" /\ session = "none"
    /\ listening = FALSE /\ server = TRUE
    /\ stage = [p \in Callers |-> "off"]
    /\ cleaning = [k \in Cleaners |-> "idle"]
    /\ forwarded = FALSE /\ main = "start" /\ panicked = FALSE /\ clash = FALSE

Stopped == main = "exited" \/ panicked
Busy(k) == cleaning[k] \in {"kill", "rest"}
CanRead == loop = "reading" /\ wire \in {"up", "broken"}

-----------------------------------------------------------------------------
(* The connection *)

Connect ==
    /\ main = "start"
    /\ \/ /\ wire' = "up" /\ connected' = (kind = "kcp") /\ loop' = "reading"
          /\ listening' = TRUE /\ main' = "waiting"
       \/ /\ main' = "exited"                          \* OnConnectError: log.Fatal
          /\ UNCHANGED <<wire, connected, loop, listening>>
    /\ UNCHANGED <<kind, session, server, stage, cleans, forwarded, panicked>>

Break ==
    /\ wire = "up"
    /\ wire' = "broken"
    /\ UNCHANGED <<kind, connected, loop, rpcs, stage, cleans, ends>>

(* Mutant of Begin: KILL is emitted in a goroutine that nobody waits for. *)
BeginAsync(k) ==
    /\ cleaning' = [cleaning EXCEPT ![k] = "rest"]
    /\ clash' = (clash \/ (listening /\ (session = "none" \/ \E j \in Cleaners : Busy(j))))

(* clean of k as far as its Emit of KILL, which blocks if somebody listens. *)
Begin(k) ==
    /\ cleaning' = [cleaning EXCEPT ![k] = IF listening THEN "kill" ELSE "rest"]
    /\ clash' = (clash \/ (listening /\ (session = "none" \/ \E j \in Cleaners : Busy(j))))

(* The event loops report an error of the read, that of the WebSocket only *)
(* if it is a CloseError.                                                  *)
ReadError ==
    /\ loop = "reading" /\ wire \in {"broken", "closed"}
    /\ loop' = "ended"
    /\ connected' = FALSE
    /\ \/ Begin("loop")
       \/ kind = "ws" /\ UNCHANGED <<cleaning, clash>>
    /\ UNCHANGED <<kind, wire, rpcs, stage, ends>>

(* SendBinary of the KCP socket runs OnDisconnected under sendMu: the slot  *)
(* "writer" is the mutex, and ping, a call or a reply may hold it.          *)
WriteFails ==
    /\ kind = "kcp" /\ wire \in {"broken", "closed"}
    /\ cleaning["writer"] = "idle"
    /\ connected' = FALSE
    /\ Begin("writer")
    /\ UNCHANGED <<kind, wire, loop, rpcs, stage, ends>>

-----------------------------------------------------------------------------
(* clean, OnDisconnected and Close *)

(* The reader takes KILL: Read returns an error and the rpc.Client ends. *)
Kill(k) ==
    /\ cleaning[k] = "kill" /\ session = "reading"
    /\ session' = "ended"
    /\ cleaning' = [cleaning EXCEPT ![k] = "rest"]
    /\ UNCHANGED <<conn, loop, listening, server, stage, ends, clash>>

(* Mutant of Rest: the KILL listener is not removed. *)
RestListening(k) ==
    /\ cleaning[k] = "rest"
    /\ server' = FALSE
    /\ cleaning' = IF k \in Reporters THEN [cleaning EXCEPT ![k] = "signal"]
                   ELSE [cleaning EXCEPT ![k] = "done", ![SocketOf[k]] = "close"]
    /\ UNCHANGED <<conn, loop, session, listening, stage, ends, clash>>

(* RemoveListener and what follows; Close then starts the socket's Close. *)
Rest(k) ==
    /\ cleaning[k] = "rest"
    /\ listening' = FALSE /\ server' = FALSE
    /\ cleaning' = IF k \in Reporters THEN [cleaning EXCEPT ![k] = "signal"]
                   ELSE [cleaning EXCEPT ![k] = "done", ![SocketOf[k]] = "close"]
    /\ UNCHANGED <<conn, loop, session, stage, ends, clash>>

(* Interrupt <- 1, which the command reads once.  A writer unlocks sendMu. *)
Signal(k) ==
    /\ cleaning[k] = "signal" /\ ~forwarded
    /\ forwarded' = TRUE
    /\ cleaning' = [cleaning EXCEPT ![k] = IF k = "writer" THEN "idle" ELSE "done"]
    /\ UNCHANGED <<conn, loop, rpcs, stage, main, panicked, clash>>

(* Mutant of CloseSocket: isConnected stays true after Close. *)
CloseSocketConnected(k) ==
    /\ cleaning[k] = "close"
    /\ wire' = IF kind = "kcp" THEN "closed" ELSE wire
    /\ Begin(k)
    /\ UNCHANGED <<kind, connected, loop, rpcs, stage, ends>>

(* Close of the sockets.  The WebSocket is a value whose copy here has no   *)
(* connection, so that its connection stays open.                           *)
CloseSocket(k) ==
    /\ cleaning[k] = "close"
    /\ IF kind = "kcp" /\ ~connected
       THEN /\ cleaning' = [cleaning EXCEPT ![k] = "done"]
            /\ UNCHANGED <<wire, connected, clash>>
       ELSE /\ wire' = IF kind = "kcp" THEN "closed" ELSE wire
            /\ connected' = FALSE
            /\ Begin(k)
    /\ UNCHANGED <<kind, loop, rpcs, stage, ends>>

(* main reads its channel: what the command forwarded, or a signal of the  *)
(* operating system.                                                       *)
Interrupted(bySystem) ==
    /\ main = "waiting" /\ (forwarded \/ bySystem)
    /\ main' = "closing"
    /\ Begin("main")
    /\ UNCHANGED <<conn, loop, rpcs, stage, forwarded, panicked>>

Exit ==
    /\ main = "closing" /\ cleaning["main"] = "done"
    /\ main' = "exited"
    /\ UNCHANGED <<conn, loop, rpcs, stage, cleans, forwarded, panicked>>

-----------------------------------------------------------------------------
(* Registration and calls *)

(* The hub calls Client.Registered, whose handler sends on ready. *)
Registered ==
    /\ session = "none" /\ CanRead
    /\ session' = "ready"
    /\ UNCHANGED <<conn, loop, listening, server, stage, cleans, ends>>

(* The goroutine of OnConnected makes the rpc.Clients and starts OnConnect. *)
Ready ==
    /\ session = "ready"
    /\ session' = "reading"
    /\ stage' = [stage EXCEPT !["app"] = "register"]
    /\ UNCHANGED <<conn, loop, listening, server, cleans, ends>>

(* RegisterService uses rpcServer for Register and for ServeCodec. *)
RegisterService ==
    /\ stage["app"] \in {"register", "serve"}
    /\ IF server
       THEN /\ stage' = [stage EXCEPT !["app"] =
                           IF @ = "register" THEN "serve" ELSE "start"]
            /\ UNCHANGED panicked
       ELSE panicked' = TRUE /\ UNCHANGED stage
    /\ UNCHANGED <<conn, loop, rpcs, cleans, forwarded, main>>

(* What a caller does when its call has returned, with or without an error. *)
Returned(p) ==
    CASE stage[p] \in {"start", "starting"} -> "members"
      [] p = "app"  -> "chatting"
      [] p = "chat" -> "told"

(* A call of the session manager.  An ended rpc.Client refuses it; a write  *)
(* waits for sendMu, and only the WebSocket's returns its error.            *)
Ask(p) ==
    /\ stage[p] \in {"start", "members"}
    /\ \/ /\ session = "ended" \/ (kind = "ws" /\ wire # "up")
          /\ stage' = [stage EXCEPT ![p] = Returned(p)]
       \/ /\ session = "reading" /\ cleaning["writer"] = "idle"
          /\ stage' = [stage EXCEPT ![p] = IF @ = "start" THEN "starting"
                                           ELSE "membering"]
    /\ UNCHANGED <<conn, loop, rpcs, cleans, ends>>

(* The event loop reads the answer and emits it to the rpc.Client's NetConn. *)
Answer(p) ==
    /\ CanRead /\ stage[p] \in Waits
    /\ loop' = p
    /\ UNCHANGED <<conn, rpcs, stage, cleans, ends>>

Taken ==
    /\ loop \in Callers /\ session = "reading"
    /\ loop' = "reading"
    /\ stage' = [stage EXCEPT ![loop] = Returned(loop)]
    /\ UNCHANGED <<conn, rpcs, cleans, ends>>

CallFails(p) ==
    /\ stage[p] \in Waits /\ session = "ended"
    /\ stage' = [stage EXCEPT ![p] = Returned(p)]
    /\ UNCHANGED <<conn, loop, rpcs, cleans, ends>>

(* A notice of the hub: the chat client refreshes its participants. *)
Notice ==
    /\ CanRead /\ listening
    /\ stage["app"] \in {"starting", "members", "membering", "chatting"}
    /\ stage["chat"] = "off"
    /\ stage' = [stage EXCEPT !["chat"] = "members"]
    /\ UNCHANGED <<conn, loop, rpcs, cleans, ends>>

(* The refresh is over; at the end of the session the chat client closes. *)
Told ==
    /\ stage["chat"] = "told"
    /\ stage' = [stage EXCEPT !["chat"] = "off"]
    /\ \/ UNCHANGED <<cleaning, clash>>
       \/ cleaning["chat"] = "idle" /\ Begin("chat")
    /\ UNCHANGED <<conn, loop, rpcs, ends>>

-----------------------------------------------------------------------------
Next ==
    /\ ~Stopped
    /\ \/ Connect \/ Break \/ ReadError \/ WriteFails
       \/ \E k \in Cleaners : Kill(k) \/ Rest(k) \/ Signal(k) \/ CloseSocket(k)
       \/ Interrupted(TRUE) \/ Exit
       \/ Registered \/ Ready \/ RegisterService \/ Taken \/ Notice \/ Told
       \/ \E p \in Callers : Ask(p) \/ Answer(p) \/ CallFails(p)

Spec == Init /\ [][Next]_vars

(* Goroutines that can run do run, but the read and the write of a broken  *)
(* connection need not notice, a caller need not call nor the hub answer.   *)
LifeFairness ==
    /\ \A k \in Cleaners :
         /\ WF_vars(~Stopped /\ Kill(k))
         /\ WF_vars(~Stopped /\ Rest(k))
         /\ WF_vars(~Stopped /\ Signal(k))
         /\ WF_vars(~Stopped /\ CloseSocket(k))
    /\ WF_vars(~Stopped /\ Interrupted(FALSE))
    /\ WF_vars(~Stopped /\ Exit)
    /\ WF_vars(~Stopped /\ Ready)

FairSpec == Spec /\ LifeFairness

-----------------------------------------------------------------------------
(* Types, and what the fields say of each other: a KCP socket that is       *)
(* connected has a connection that was not closed on this side, and the     *)
(* rpcServer is there as long as the listeners are (client.go:236-262).     *)
LifeTypeOK ==
    /\ kind \in Kinds /\ wire \in {"none", "up", "broken", "closed"}
    /\ loop \in {"off", "reading", "ended"} \cup Callers
    /\ session \in {"none", "ready", "reading", "ended"}
    /\ stage \in [Callers -> Waits \cup {"off", "register", "serve", "start",
                                         "members", "chatting", "told"}]
    /\ cleaning \in [Cleaners -> {"idle", "close", "kill", "rest", "signal", "done"}]
    /\ main \in {"start", "waiting", "closing", "exited"}
    /\ {connected, listening, server, forwarded, panicked, clash} \subseteq BOOLEAN
    /\ connected => kind = "kcp" /\ wire \in {"up", "broken"}
    /\ listening => server
    /\ wire = "none" <=> loop = "off"

(* Nobody gets past the KILL of a clean before the rpc.Client that takes it *)
(* has ended: from then on no call of the session manager is left waiting   *)
(* for the connection (client.go:224-239, hub-netconn.go:110-119).          *)
CleanEndsCalls ==
    \A k \in Cleaners :
        cleaning[k] \in {"rest", "signal"} \/ (cleaning[k] = "done" /\ k \in Closers)
            => session = "ended"

(* Whoever begins to clean, the program exits: no KILL blocks it, although  *)
(* the reader takes only one; somebody signals Interrupt, although it is    *)
(* read once and a KCP socket that was reported does not report again; and  *)
(* main's own clean ends as well.  The exception is a clean that begins too *)
(* early, or before another has removed the KILL listener; the program may  *)
(* then wait for ever (client.go:169-173, 209-262, kcp-socket.go:91-133,    *)
(* web-socket.go:195-224, cmd/client/udp/client.go:30-38).                  *)
MainExits ==
    \A k \in Cleaners : Busy(k) ~> clash \/ Stopped

=============================================================================
