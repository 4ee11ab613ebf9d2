-------------------------- MODULE ClientLifeProofs --------------------------
(***************************************************************************)
(* Proofs about ClientLife.                                                *)
(***************************************************************************)
EXTENDS ClientLife, TLAPS

(* Before the connection is made nothing runs that could clean. *)
Unconnected ==
  /\ main = "start" => loop = "off"
  /\ loop = "off" =>
       /\ main \in {"start", "exited"} /\ session = "none" /\ server /\ ~ forwarded
       /\ \A p \in Callers : stage[p] = "off"
       /\ \A k \in Cleaners : cleaning[k] = "idle"

(* The KILL listener is only removed behind a KILL that was taken. *)
Unheard == ~ listening => loop = "off" \/ session = "ended"

(* Only the sockets have a Close that is started for them. *)
SocketsClose == \A k \in Closers : cleaning[k] # "close"

(* The inductive invariant. *)
Inv == LifeTypeOK /\ Unconnected /\ Unheard /\ SocketsClose /\ CleanEndsCalls

LEMMA Names ==
  /\ Cleaners = {"loop", "writer", "chatSocket", "mainSocket", "chat", "main"}
  /\ Reporters = {"loop", "writer", "chatSocket", "mainSocket"}
  /\ \A k \in Closers : SocketOf[k] \in Cleaners \ Closers
  BY DEF Cleaners, Reporters, Sockets, SocketOf, Closers

LEMMA InvInit == Init => Inv
<1> SUFFICES ASSUME Init PROVE Inv
  OBVIOUS
<1>1. LifeTypeOK
  BY Names DEF Init, LifeTypeOK, Kinds
<1>2. Unconnected /\ Unheard /\ SocketsClose /\ CleanEndsCalls
  BY Names DEF Closers, Init, Unconnected, Unheard, SocketsClose, CleanEndsCalls
<1> QED
  BY <1>1, <1>2 DEF Inv

(* The first half of clean. *)
LEMMA BeginStep ==
  ASSUME Inv, NEW k \in Cleaners, Begin(k), loop # "off"
  PROVE  /\ cleaning' = [cleaning EXCEPT ![k] = IF listening THEN "kill" ELSE "rest"]
         /\ cleaning' \in [Cleaners -> {"idle", "close", "kill", "rest", "signal", "done"}]
         /\ clash' \in BOOLEAN
         /\ \A j \in Cleaners :
              cleaning'[j] \in {"rest", "signal"} \/ (cleaning'[j] = "done" /\ j \in Closers)
                => session = "ended"
         /\ \A j \in Closers : cleaning'[j] # "close"
  BY Names DEF Closers, Inv, LifeTypeOK, Unheard, SocketsClose, CleanEndsCalls, Begin

-----------------------------------------------------------------------------

LEMMA TypesStep == Inv /\ Next => LifeTypeOK'
<1> SUFFICES ASSUME Inv, Next PROVE LifeTypeOK'
  OBVIOUS
<1> USE DEF Inv, LifeTypeOK, conn, rpcs, cleans, ends
<1>1. CASE Connect \/ Break
  <2>1. CASE Break
    BY <2>1 DEF Break
  <2>2. CASE Connect /\ main' = "exited"
    BY <2>2 DEF Connect
  <2>3. CASE Connect /\ main' # "exited"
    <3>1. connected' \in BOOLEAN /\ (connected' => kind = "kcp")
      BY <2>3, Zenon DEF Connect
    <3>2. /\ wire' = "up" /\ loop' = "reading" /\ listening' = TRUE
          /\ main' = "waiting" /\ UNCHANGED <<kind, session, server, stage>>
          /\ UNCHANGED <<cleaning, clash, forwarded, panicked>>
      BY <2>3, Zenon DEF Connect, cleans
    <3>3. server
      BY <2>3, Zenon DEF Connect, Unconnected
    <3> QED
      BY <3>1, <3>2, <3>3
  <2> QED
    BY <1>1, <2>1, <2>2, <2>3
<1>2. CASE ReadError
  BY <1>2, BeginStep, Names DEF ReadError, Kinds
<1>3. CASE WriteFails
  BY <1>3, BeginStep, Names DEF WriteFails, Closers
<1>4. ASSUME NEW k \in Cleaners, Kill(k) \/ Rest(k) \/ Signal(k) PROVE LifeTypeOK'
  <2>1. CASE Kill(k)
    BY <1>4, <2>1 DEF Kill
  <2>2. CASE Rest(k)
    BY <1>4, <2>2, Names DEF Rest, Closers
  <2>3. CASE Signal(k)
    BY <1>4, <2>3 DEF Signal
  <2> QED
    BY <1>4, <2>1, <2>2, <2>3
<1>5. ASSUME NEW k \in Cleaners, CloseSocket(k) PROVE LifeTypeOK'
  <2>1. loop # "off"
    BY <1>5 DEF CloseSocket, Unconnected
  <2>2. CASE kind = "kcp" /\ ~ connected
    BY <1>5, <2>1, <2>2 DEF CloseSocket
  <2>3. CASE ~ (kind = "kcp" /\ ~ connected)
    <3>1. wire' \in {"up", "broken", "closed"} /\ connected' = FALSE /\ Begin(k)
      BY <1>5, <2>1, <2>3 DEF CloseSocket
    <3>2. UNCHANGED <<kind, loop, rpcs, stage, ends>>
      BY <1>5 DEF CloseSocket
    <3> QED
      BY <2>1, <3>1, <3>2, BeginStep
  <2> QED
    BY <2>2, <2>3
<1>6. CASE Interrupted(TRUE)
  BY <1>6, BeginStep, Names DEF Interrupted, Unconnected
<1>7. CASE Exit \/ Registered \/ Ready
  BY <1>7 DEF Exit, Registered, Ready, Callers
<1>8. CASE RegisterService \/ Taken \/ Notice
  <2>1. CASE RegisterService
    <3>1. stage' \in [Callers -> Waits \cup {"off", "register", "serve", "start",
                                            "members", "chatting", "told"}]
      BY <2>1 DEF RegisterService, Callers
    <3>2. panicked' \in BOOLEAN
      BY <2>1 DEF RegisterService
    <3>3. UNCHANGED <<conn, loop, rpcs, cleans, forwarded, main>>
      BY <2>1 DEF RegisterService
    <3> QED
      BY <3>1, <3>2, <3>3
  <2>2. CASE Taken
    BY <2>2 DEF Taken, Callers, Returned, Waits
  <2>3. CASE Notice
    BY <2>3 DEF Notice, Callers, Waits
  <2> QED
    BY <1>8, <2>1, <2>2, <2>3
<1>9. CASE Told
  BY <1>9, BeginStep, Names DEF Told, Callers, Unconnected
<1>10. ASSUME NEW p \in Callers, Ask(p) \/ Answer(p) \/ CallFails(p) PROVE LifeTypeOK'
  BY <1>10 DEF Ask, Answer, CallFails, Returned, Waits, Callers, CanRead
<1> QED
  BY <1>1, <1>2, <1>3, <1>4, <1>5, <1>6, <1>7, <1>8, <1>9, <1>10 DEF Next

(* What Inv says besides the types. *)
Fields == Unconnected /\ Unheard /\ SocketsClose /\ CleanEndsCalls

LEMMA RestStep == Inv /\ Next => Fields'
<1> SUFFICES ASSUME Inv, Next PROVE Fields'
  OBVIOUS
<1> USE DEF Fields, Inv, LifeTypeOK, Unconnected, Unheard, SocketsClose, CleanEndsCalls, conn, rpcs, cleans, ends
<1>1. CASE Connect \/ Break
  BY <1>1 DEF Connect, Break
<1>2. CASE ReadError
  BY <1>2, BeginStep, Names DEF ReadError, Closers
<1>3. CASE WriteFails
  BY <1>3, BeginStep, Names DEF WriteFails, Closers
<1>4. ASSUME NEW k \in Cleaners, Kill(k) \/ Rest(k) \/ Signal(k)
      PROVE  Fields'
  BY <1>4, Names DEF Kill, Rest, Signal, Closers
<1>5. ASSUME NEW k \in Cleaners, CloseSocket(k)
      PROVE  Fields'
  <2>1. loop # "off" /\ UNCHANGED <<loop, session, listening, main>>
    BY <1>5 DEF CloseSocket
  <2>2. CASE cleaning' = [cleaning EXCEPT ![k] = "done"]
    <3>1. k \notin Closers
      BY <1>5, <2>2 DEF CloseSocket
    <3> QED
      BY <2>1, <2>2, <3>1
  <2>3. CASE Begin(k)
    BY <2>1, <2>3, BeginStep
  <2> QED
    BY <1>5, <2>2, <2>3 DEF CloseSocket
<1>6. CASE Interrupted(TRUE)
  BY <1>6, BeginStep, Names DEF Interrupted, Closers
<1>7. CASE Exit \/ Registered \/ Ready
  BY <1>7 DEF Exit, Registered, Ready, CanRead
<1>8. CASE RegisterService \/ Taken \/ Notice
  BY <1>8 DEF RegisterService, Taken, Notice, Callers, CanRead
<1>9. CASE Told
  BY <1>9, BeginStep, Names DEF Told, Callers, Closers
<1>10. ASSUME NEW p \in Callers, Ask(p) \/ Answer(p) \/ CallFails(p)
       PROVE  Fields'
  BY <1>10 DEF Ask, Answer, CallFails, Waits, Callers, CanRead
<1> QED
  BY <1>1, <1>2, <1>3, <1>4, <1>5, <1>6, <1>7, <1>8, <1>9, <1>10 DEF Next

(* Inv holds in every reachable state of a client process. *)
THEOREM Invariant == Spec => []Inv
<1>1. Inv /\ [Next]_vars => Inv'
  <2>1. Inv /\ UNCHANGED vars => Inv'
    BY DEF Inv, LifeTypeOK, Unconnected, Unheard, SocketsClose, CleanEndsCalls, vars, conn, rpcs,
           cleans, ends, Waits, Kinds
  <2> QED
    BY <2>1, TypesStep, RestStep DEF Inv, Fields
<1> QED
  BY InvInit, <1>1, PTL DEF Spec

(* The fields of the client and of its socket agree with each other. *)
THEOREM TypesCorrect == Spec => []LifeTypeOK
  BY Invariant, PTL DEF Inv

(* Whoever cleans, and however often, the calls of the session manager have
   ended when clean goes on behind its KILL.                               *)
THEOREM CleanAfterCalls == Spec => []CleanEndsCalls
  BY Invariant, PTL DEF Inv

-----------------------------------------------------------------------------
(* Why the program can still exit: MainExits without the fairness. *)

(* Where the cleaners are: the event loop cleans when it ends and main when it
   closes, a socket is closed for each closer that is done, and only
   reporters signal.                                                       *)
PlaceInv ==
  /\ loop # "ended" => cleaning["loop"] = "idle"
  /\ main \in {"start", "waiting"} => cleaning["main"] = "idle"
  /\ main = "closing" => cleaning["main"] # "idle"
  /\ \A k \in Closers : /\ cleaning[k] # "signal"
                        /\ cleaning[k] = "done" <=> cleaning[SocketOf[k]] # "idle"

(* A KCP socket that is not connected any more is about to be reported, or
   Interrupt was read; so is whatever a reporter has finished with.        *)
ReportInv ==
  \/ forwarded
  \/ \E k \in Reporters : cleaning[k] \in {"kill", "rest", "signal"}
  \/ /\ kind = "kcp" /\ loop # "off" => connected
     /\ \A k \in Reporters : cleaning[k] # "done"

(* Unless two cleans clash the KILL of a clean is taken. *)
KillInv ==
  /\ listening /\ session = "ended" => \E k \in Cleaners : cleaning[k] = "rest"
  /\ \A k \in Cleaners : cleaning[k] = "kill" /\ ~ clash =>
       /\ listening /\ session \in {"ready", "reading"}
       /\ \A j \in Cleaners \ {k} : ~ Busy(j)

(* The next step of a clean that has begun is not blocked; at KILL it is the
   reader of the session manager's rpc.Client that takes the step, once it is
   made.                                                                   *)
GoesOn(k) ==
  \/ cleaning[k] = "kill" /\ session \in {"ready", "reading"}
  \/ cleaning[k] \in {"rest", "close"}
  \/ cleaning[k] = "signal" /\ ~ forwarded

(* main can read what the command forwarded, or is done with Close. *)
MainGoesOn ==
  \/ main = "waiting" /\ forwarded
  \/ main = "closing" /\ cleaning["main"] = "done"

(* Once somebody has begun to clean, and unless two cleans clash, the program
   never comes to rest before it exits: a clean goes on or main does
   (client.go:224-262, kcp-socket.go:91-133, cmd/client/udp/client.go:30-38). *)
ExitReachable ==
  /\ ~ clash /\ ~ Stopped
  /\ forwarded \/ \E k \in Cleaners : cleaning[k] # "idle"
  => MainGoesOn \/ \E k \in Cleaners : GoesOn(k)

Exits == PlaceInv /\ ReportInv /\ KillInv

LEMMA SocketNames ==
  /\ Closers = {"chat", "main"} /\ SocketOf["chat"] = "chatSocket"
  /\ SocketOf["main"] = "mainSocket"
  BY DEF Closers, SocketOf

(* The first half of clean, of somebody who is not cleaning already. *)
LEMMA BeginExits ==
  ASSUME Inv, Exits, NEW k \in Cleaners, Begin(k), cleaning[k] \in {"idle", "close"},
         loop # "off", UNCHANGED <<listening, session, forwarded>>
  PROVE  /\ cleaning' = [cleaning EXCEPT ![k] = IF listening THEN "kill" ELSE "rest"]
         /\ KillInv'
         /\ k \in Reporters => ReportInv'
         /\ k \notin Reporters /\ UNCHANGED <<kind, loop, connected>> => ReportInv'
<1>1. /\ cleaning \in [Cleaners -> {"idle", "close", "kill", "rest", "signal", "done"}]
      /\ listening \in BOOLEAN /\ clash \in BOOLEAN
      /\ session \in {"none", "ready", "reading", "ended"}
  BY DEF Inv, LifeTypeOK
<1>2. /\ cleaning' = [cleaning EXCEPT ![k] = IF listening THEN "kill" ELSE "rest"]
      /\ clash' = (clash \/ (listening /\ (session = "none" \/ \E j \in Cleaners : Busy(j))))
  BY DEF Begin
<1>3. /\ cleaning'[k] = IF listening THEN "kill" ELSE "rest"
      /\ \A j \in Cleaners \ {k} : cleaning'[j] = cleaning[j]
  BY <1>1, <1>2
<1>4. KillInv'
  <2>1. ASSUME listening', session' = "ended"
        PROVE  \E j \in Cleaners : cleaning'[j] = "rest"
    BY <1>3, <2>1 DEF Exits, KillInv
  <2>2. ASSUME NEW j \in Cleaners, cleaning'[j] = "kill", ~ clash'
        PROVE  /\ listening' /\ session' \in {"ready", "reading"}
               /\ \A i \in Cleaners \ {j} : ~ Busy(i)'
    <3>1. CASE listening
      <4>1. session # "none" /\ (\A i \in Cleaners : ~ Busy(i))
        BY <1>2, <2>2, <3>1
      <4>2. session # "ended"
        BY <3>1, <4>1 DEF Exits, KillInv, Busy
      <4>3. j = k
        BY <1>3, <2>2, <4>1 DEF Busy
      <4> QED
        BY <1>1, <1>3, <3>1, <4>1, <4>2, <4>3 DEF Busy
    <3>2. CASE ~ listening
      <4>1. ~ clash
        BY <1>2, <2>2
      <4>2. j # k /\ cleaning[j] = "kill"
        BY <1>3, <2>2, <3>2
      <4> QED
        BY <3>2, <4>1, <4>2 DEF Exits, KillInv
    <3> QED
      BY <3>1, <3>2
  <2> QED
    BY <2>1, <2>2 DEF KillInv
<1>5. k \in Reporters => ReportInv'
  BY <1>3 DEF ReportInv
<1>6. k \notin Reporters /\ UNCHANGED <<kind, loop, connected>> => ReportInv'
  BY <1>3, Names DEF Exits, ReportInv
<1> QED
  BY <1>2, <1>4, <1>5, <1>6

LEMMA ExitsStep == ASSUME Inv, Exits, Next PROVE Exits'
<1> USE DEF conn, rpcs, cleans, ends
<1>0. /\ cleaning \in [Cleaners -> {"idle", "close", "kill", "rest", "signal", "done"}]
      /\ \A k \in Cleaners : cleaning[k] # "idle" => loop # "off"
  BY DEF Inv, LifeTypeOK, Unconnected
<1>1. CASE Connect
  BY <1>1 DEF Connect, Inv, Unconnected, Exits, PlaceInv, ReportInv, KillInv, Busy
<1>2. CASE ReadError
  <2>1. /\ loop = "reading" /\ loop' = "ended" /\ cleaning["loop"] = "idle"
        /\ UNCHANGED <<kind, listening, session, forwarded, main>>
        /\ Begin("loop") \/ (kind = "ws" /\ UNCHANGED <<cleaning, clash>>)
    BY <1>2 DEF ReadError, Exits, PlaceInv
  <2>2. CASE Begin("loop")
    BY <1>0, <2>1, <2>2, BeginExits, Names, SocketNames DEF Exits, PlaceInv
  <2>3. CASE UNCHANGED <<cleaning, clash>> /\ kind = "ws"
    BY <2>1, <2>3 DEF Exits, PlaceInv, ReportInv, KillInv, Busy
  <2> QED
    BY <2>1, <2>2, <2>3
<1>3. CASE WriteFails
  <2>1. /\ cleaning["writer"] = "idle" /\ loop # "off" /\ Begin("writer")
        /\ UNCHANGED <<kind, loop, listening, session, forwarded, main>>
    BY <1>3 DEF WriteFails, Inv, LifeTypeOK
  <2> QED
    BY <1>0, <2>1, BeginExits, Names, SocketNames DEF Exits, PlaceInv
<1>4. ASSUME NEW k \in Cleaners, Kill(k) PROVE Exits'
  <2>1. /\ cleaning[k] = "kill" /\ cleaning' = [cleaning EXCEPT ![k] = "rest"]
        /\ session' = "ended"
        /\ UNCHANGED <<kind, loop, connected, listening, forwarded, main, clash>>
    BY <1>4 DEF Kill
  <2>2. PlaceInv' /\ ReportInv'
    BY <1>0, <2>1, Names, SocketNames DEF Exits, PlaceInv, ReportInv
  <2>3. KillInv'
    BY <1>0, <2>1 DEF Exits, KillInv, Busy
  <2> QED
    BY <2>2, <2>3 DEF Exits
<1>5. ASSUME NEW k \in Cleaners, Rest(k) PROVE Exits'
  <2>1. /\ cleaning[k] = "rest" /\ listening' = FALSE
        /\ UNCHANGED <<kind, loop, connected, session, forwarded, main, clash>>
    BY <1>5 DEF Rest
  <2>2. CASE k \in Reporters /\ cleaning' = [cleaning EXCEPT ![k] = "signal"]
    <3>1. PlaceInv' /\ ReportInv'
      BY <1>0, <2>1, <2>2, Names, SocketNames DEF Exits, PlaceInv, ReportInv
    <3>2. KillInv'
      BY <1>0, <2>1, <2>2 DEF Exits, KillInv, Busy
    <3> QED
      BY <3>1, <3>2 DEF Exits
  <2>3. CASE /\ k \in Closers
             /\ cleaning' = [cleaning EXCEPT ![k] = "done", ![SocketOf[k]] = "close"]
    <3>1. cleaning[SocketOf[k]] = "idle"
      BY <1>0, <2>1, <2>3 DEF Exits, PlaceInv
    <3>2. PlaceInv' /\ ReportInv'
      BY <1>0, <2>1, <2>3, <3>1, Names, SocketNames DEF Exits, PlaceInv, ReportInv
    <3>3. KillInv'
      BY <1>0, <2>1, <2>3, <3>1, Names, SocketNames DEF Exits, KillInv, Busy
    <3> QED
      BY <3>2, <3>3 DEF Exits
  <2> QED
    BY <1>5, <2>2, <2>3 DEF Rest, Cleaners
<1>6. ASSUME NEW k \in Cleaners, Signal(k) PROVE Exits'
  <2>1. /\ cleaning[k] = "signal" /\ forwarded'
        /\ cleaning' = [cleaning EXCEPT ![k] = IF k = "writer" THEN "idle" ELSE "done"]
        /\ UNCHANGED <<loop, session, listening, main, clash>>
    BY <1>6 DEF Signal
  <2>2. PlaceInv' /\ ReportInv'
    BY <1>0, <2>1, Names, SocketNames DEF Exits, PlaceInv, ReportInv
  <2>3. KillInv'
    BY <1>0, <2>1 DEF Exits, KillInv, Busy
  <2> QED
    BY <2>2, <2>3 DEF Exits
<1>7. ASSUME NEW k \in Cleaners, CloseSocket(k) PROVE Exits'
  <2>1. /\ cleaning[k] = "close" /\ loop # "off" /\ k \notin Closers /\ k \in Reporters
        /\ UNCHANGED <<kind, loop, session, listening, forwarded, main>>
    BY <1>0, <1>7 DEF CloseSocket, Inv, SocketsClose, Cleaners
  <2>2. CASE /\ kind = "kcp" /\ ~ connected /\ UNCHANGED <<connected, clash>>
             /\ cleaning' = [cleaning EXCEPT ![k] = "done"]
    <3>1. PlaceInv' /\ ReportInv'
      BY <1>0, <2>1, <2>2, Names, SocketNames DEF Exits, PlaceInv, ReportInv
    <3>2. KillInv'
      BY <1>0, <2>1, <2>2 DEF Exits, KillInv, Busy
    <3> QED
      BY <3>1, <3>2 DEF Exits
  <2>3. CASE Begin(k)
    BY <1>0, <2>1, <2>3, BeginExits, Names, SocketNames DEF Exits, PlaceInv
  <2> QED
    BY <1>7, <2>2, <2>3 DEF CloseSocket
<1>8. CASE Interrupted(TRUE)
  <2>1. /\ main = "waiting" /\ main' = "closing" /\ loop # "off" /\ Begin("main")
        /\ cleaning["main"] = "idle"
        /\ UNCHANGED <<kind, loop, connected, session, listening, forwarded>>
    BY <1>8 DEF Interrupted, Inv, Unconnected, Exits, PlaceInv
  <2> QED
    BY <1>0, <2>1, BeginExits, Names, SocketNames DEF Exits, PlaceInv
<1>9. CASE Told
  <2>1. /\ UNCHANGED <<kind, loop, connected, session, listening, forwarded, main>>
        /\ \/ UNCHANGED <<cleaning, clash>>
           \/ cleaning["chat"] = "idle" /\ Begin("chat")
        /\ loop # "off"
    BY <1>9 DEF Told, Inv, Unconnected, Callers
  <2>2. CASE UNCHANGED <<cleaning, clash>>
    BY <2>1, <2>2 DEF Exits, PlaceInv, ReportInv, KillInv, Busy
  <2>3. CASE cleaning["chat"] = "idle" /\ Begin("chat")
    BY <1>0, <2>1, <2>3, BeginExits, Names, SocketNames DEF Exits, PlaceInv
  <2> QED
    BY <2>1, <2>2, <2>3
<1>10. CASE Break \/ Exit \/ Registered \/ Ready \/ RegisterService \/ Taken \/ Notice
  <2>1. /\ UNCHANGED <<kind, connected, listening, cleaning, clash, forwarded>>
        /\ main' = main \/ main' = "exited"
        /\ session' = session \/ session' \in {"ready", "reading"}
        /\ loop' = loop \/ (loop \in Callers /\ loop' = "reading")
    BY <1>10 DEF Break, Exit, Registered, Ready, RegisterService, Taken, Notice
  <2> QED
    BY <2>1 DEF Exits, PlaceInv, ReportInv, KillInv, Busy, Callers
<1>11. ASSUME NEW p \in Callers, Ask(p) \/ Answer(p) \/ CallFails(p) PROVE Exits'
  <2>1. /\ UNCHANGED <<kind, connected, listening, session, cleaning, clash, forwarded, main>>
        /\ loop' = loop \/ (loop' = p /\ loop = "reading")
    BY <1>11 DEF Ask, Answer, CallFails, CanRead
  <2> QED
    BY <2>1 DEF Exits, PlaceInv, ReportInv, KillInv, Busy, Callers
<1> QED
  BY <1>1, <1>2, <1>3, <1>4, <1>5, <1>6, <1>7, <1>8, <1>9, <1>10, <1>11 DEF Next

(* A client program that has begun to clean can always go on to its exit,
   unless two cleans clash.                                                *)
THEOREM ExitsReachable == Spec => []ExitReachable
<1>1. Init => Exits
  BY Names, SocketNames DEF Init, Exits, PlaceInv, ReportInv, KillInv
<1>2. Inv /\ Exits /\ UNCHANGED vars => Exits'
  BY DEF vars, conn, rpcs, cleans, ends, Exits, PlaceInv, ReportInv, KillInv, Busy
<1>3. Inv /\ Exits => ExitReachable
  <2> SUFFICES ASSUME Inv, Exits, ~ clash, ~ Stopped,
                      forwarded \/ \E k \in Cleaners : cleaning[k] # "idle",
                      \A k \in Cleaners : ~ GoesOn(k)
               PROVE  MainGoesOn
    BY DEF ExitReachable
  <2>1. \A k \in Cleaners : cleaning[k] \in {"idle", "done"} \/ (cleaning[k] = "signal" /\ forwarded)
    BY DEF Inv, LifeTypeOK, GoesOn, Exits, KillInv
  <2>2. forwarded
    <3>1. CASE \E k \in Reporters : cleaning[k] # "idle"
      BY <2>1, <3>1, Names DEF Inv, Unconnected, Exits, ReportInv
    <3>2. CASE \E k \in Closers : cleaning[k] # "idle"
      BY <2>1, <3>1, <3>2, Names, SocketNames DEF Exits, PlaceInv
    <3> QED
      BY <3>1, <3>2 DEF Cleaners
  <2>3. main \in {"waiting", "closing"}
    BY <2>2 DEF Inv, LifeTypeOK, Unconnected, Stopped
  <2>4. main = "closing" => cleaning["main"] = "done"
    BY <2>1, Names, SocketNames DEF Exits, PlaceInv
  <2> QED
    BY <2>2, <2>3, <2>4 DEF MainGoesOn
<1> QED
  BY <1>1, <1>2, <1>3, ExitsStep, Invariant, PTL DEF Spec

=============================================================================
