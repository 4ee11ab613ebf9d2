------------------------------- MODULE HubLink -------------------------------
(***************************************************************************)
(* The hub's side of one connection: who writes to it, and how its loss    *)
(* comes to be reported.                                                   *)
(*                                                                         *)
(* Four goroutines write.  Hub.Run calls the client while it closes a      *)
(* session, the serve routines reply and the ticker pings, all through the *)
(* client's wrapper; the reader answers a "hello" with SendBinary.  KCP    *)
(* writes a message as a frame of several chunks under sendMu, which       *)
(* SendBinary also holds while it reports a failure to Run.  The wrapper   *)
(* of a WebSocket writes without a lock.                                   *)
(***************************************************************************)
EXTENDS Naturals, Sequences

CONSTANTS
    Kinds,     \* the transports: "kcp", "ws"
    Chunks,    \* the chunks of a frame, the first of which has its length
    Nobody

Wrapped == {"run", "reply", "ping"}
Writers == Wrapped \cup {"reader"}

ASSUME LinkAssumption ==
    /\ Kinds \subseteq {"kcp", "ws"}
    /\ Chunks \in Nat \ {0}
    /\ Nobody \notin Writers

VARIABLES
    kind,        \* the transport of this connection
    conn,        \* up, or broken: reads and writes fail
    sendMu,      \* the owner of the mutex, or Nobody
    at,          \* what the writers are at
    holds,       \* does the copy of the wrapper a Write works on have a conn?
    wrapper,     \* wrapper.conn # nil
    isConnected, \* of the Client
    written,     \* chunks of its frame a writer has written
    partial,     \* chunks of the frame that the remote is reading
    taken,       \* has Run taken a report?
    panicked

link == <<kind, conn>>
copies == <<holds, wrapper>>
frames == <<written, partial>>
ends == <<taken, panicked>>
vars == <<link, sendMu, at, copies, isConnected, frames, ends>>

Init ==
    /\ kind \in Kinds /\ conn = "up" /\ sendMu = Nobody
    /\ at = [w \in Writers |-> "idle"]
    /\ holds = [w \in Wrapped |-> TRUE]
    /\ wrapper = TRUE /\ isConnected = TRUE
    /\ written = [w \in Writers |-> 0] /\ partial = <<>>
    /\ taken = FALSE /\ panicked = FALSE

Go(w, to) == at' = [at EXCEPT ![w] = to]

-----------------------------------------------------------------------------
(* What makes the goroutines write *)

Break ==
    /\ conn = "up" /\ conn' = "broken"
    /\ UNCHANGED <<kind, sendMu, at, copies, isConnected, frames, ends>>

(* CloseSession calls SessionClosed; the client has not been torn down. *)
Call ==
    /\ at["run"] = "idle" /\ ~taken
    /\ Go("run", "enter")
    /\ UNCHANGED <<link, sendMu, copies, isConnected, frames, ends>>

Reply ==
    /\ at["reply"] = "idle"
    /\ Go("reply", "enter")
    /\ UNCHANGED <<link, sendMu, copies, isConnected, frames, ends>>

(* A tick of setupPing. *)
Tick ==
    /\ at["ping"] = "idle"
    /\ Go("ping", IF isConnected THEN "enter" ELSE "ended")
    /\ UNCHANGED <<link, sendMu, copies, isConnected, frames, ends>>

(* The reader gets a "hello", which only the KCP client sends. *)
Hello ==
    /\ kind = "kcp" /\ conn = "up" /\ at["reader"] = "idle"
    /\ Go("reader", "lock")
    /\ UNCHANGED <<link, sendMu, copies, isConnected, frames, ends>>

-----------------------------------------------------------------------------
(* Writing *)

(* Mutant of Enter: the wrapper of a KCP client does not lock either. *)
EnterUnlocked(w) ==
    /\ at[w] = "enter"
    /\ holds' = [holds EXCEPT ![w] = wrapper]
    /\ Go(w, "write")
    /\ UNCHANGED <<link, sendMu, wrapper, isConnected, frames, ends>>

(* Write has a value receiver: it works on a copy made when it is called. *)
Enter(w) ==
    /\ at[w] = "enter"
    /\ holds' = [holds EXCEPT ![w] = wrapper]
    /\ Go(w, IF kind = "kcp" THEN "lock" ELSE "write")
    /\ UNCHANGED <<link, sendMu, wrapper, isConnected, frames, ends>>

Lock(w) ==
    /\ at[w] = "lock" /\ sendMu = Nobody
    /\ sendMu' = w
    /\ Go(w, "write")
    /\ UNCHANGED <<link, copies, isConnected, frames, ends>>

Unlock(w) == sendMu' = IF sendMu = w THEN Nobody ELSE sendMu

(* The conn is nil, or the WebSocket finds another write under way. *)
WritePanics(w) ==
    /\ at[w] = "write" /\ w \in Wrapped
    /\ \/ kind = "kcp" /\ ~holds[w]
       \/ kind = "ws" /\ \E v \in Wrapped \ {w} : at[v] = "write"
    /\ panicked' = TRUE
    /\ UNCHANGED <<link, sendMu, at, copies, isConnected, frames, taken>>

(* The next chunk reaches the remote, which begins a message with a length  *)
(* and reads as many chunks as that says.  After the last one Write returns *)
(* and Run waits for the answer.  The silence check of the KCP wrapper does *)
(* nothing: isConnected of a hub socket is never set.                       *)
Write(w) ==
    /\ at[w] = "write" /\ conn = "up"
    /\ w \in Wrapped => holds[w]
    /\ partial' = IF Len(partial) + 1 = Chunks THEN <<>>
                  ELSE Append(partial, <<w, written[w] + 1>>)
    /\ IF written[w] + 1 = Chunks
       THEN /\ written' = [written EXCEPT ![w] = 0]
            /\ Unlock(w)
            /\ Go(w, IF w = "run" THEN "wait" ELSE "idle")
       ELSE /\ written' = [written EXCEPT ![w] = @ + 1]
            /\ UNCHANGED <<sendMu, at>>
    /\ UNCHANGED <<link, copies, isConnected, ends>>

(* Mutant of WriteFails: the wrapper returns without unlocking. *)
WriteFailsLocked(w) ==
    /\ at[w] = "write" /\ conn = "broken"
    /\ w \in Wrapped => holds[w]
    /\ Go(w, IF w = "reader" THEN "report" ELSE "idle")
    /\ isConnected' = (isConnected /\ w # "reader")
    /\ written' = [written EXCEPT ![w] = 0]
    /\ UNCHANGED <<link, sendMu, copies, partial, ends>>

(* The wrapper's Close of the socket does nothing, and Write returns the    *)
(* error; SendBinary runs OnDisconnected and keeps sendMu meanwhile.        *)
WriteFails(w) ==
    /\ at[w] = "write" /\ conn = "broken"
    /\ w \in Wrapped => holds[w]
    /\ written' = [written EXCEPT ![w] = 0]
    /\ IF w = "reader"
       THEN Go(w, "report") /\ isConnected' = FALSE /\ UNCHANGED sendMu
       ELSE Go(w, "idle") /\ Unlock(w) /\ UNCHANGED isConnected
    /\ UNCHANGED <<link, copies, partial, ends>>

(* The remote answers Run's call. *)
Answered ==
    /\ at["run"] = "wait" /\ conn = "up"
    /\ Go("run", "idle")
    /\ UNCHANGED <<link, sendMu, copies, isConnected, frames, ends>>

-----------------------------------------------------------------------------
(* Reporting *)

ReadError ==
    /\ conn = "broken" /\ at["reader"] = "idle"
    /\ Go("reader", "report")
    /\ isConnected' = FALSE
    /\ UNCHANGED <<link, sendMu, copies, frames, ends>>

(* Run takes the report in its select. *)
Unregister ==
    /\ at["reader"] = "report" /\ at["run"] = "idle"
    /\ taken' = TRUE
    /\ Go("reader", "reported")
    /\ UNCHANGED <<link, sendMu, copies, isConnected, frames, panicked>>

(* OnDisconnected returns, for KCP after it has set wrapper.conn to nil.    *)
(* After a failed SendBinary the reader goes on to fail at the next read.   *)
Reported ==
    /\ at["reader"] = "reported"
    /\ wrapper' = (kind # "kcp")
    /\ Go("reader", IF sendMu = "reader" THEN "idle" ELSE "ended")
    /\ Unlock("reader")
    /\ UNCHANGED <<link, holds, isConnected, frames, ends>>

-----------------------------------------------------------------------------
Next ==
    /\ ~panicked
    /\ \/ Break \/ Call \/ Reply \/ Tick \/ Hello
       \/ \E w \in Wrapped : Enter(w)
       \/ \E w \in Writers : Lock(w) \/ WritePanics(w) \/ Write(w) \/ WriteFails(w)
       \/ Answered \/ ReadError \/ Unregister \/ Reported

Spec == Init /\ [][Next]_vars

(* Goroutines that can run do run, and read a broken connection.  The mutex *)
(* and the channel Unregister are first come, first served.  Nothing makes  *)
(* anybody begin to write, and the remote need not answer.                  *)
LinkFairness ==
    /\ \A w \in Wrapped : WF_vars(~panicked /\ Enter(w))
    /\ \A w \in Writers :
         /\ SF_vars(~panicked /\ Lock(w))
         /\ WF_vars(~panicked /\ (WritePanics(w) \/ Write(w) \/ WriteFails(w)))
    /\ WF_vars(~panicked /\ ReadError)
    /\ SF_vars(~panicked /\ Unregister)
    /\ WF_vars(~panicked /\ Reported)

FairSpec == Spec /\ LinkFairness

-----------------------------------------------------------------------------
(* Types, and the discipline of sendMu: over KCP whoever writes owns it, and *)
(* a report that is made under it keeps it (hub-kcp-socket.go:31-45, 77-88). *)
LinkTypeOK ==
    /\ kind \in {"kcp", "ws"} /\ conn \in {"up", "broken"}
    /\ sendMu \in Writers \cup {Nobody}
    /\ at \in [Writers -> {"idle", "enter", "lock", "write", "wait", "report",
                           "reported", "ended"}]
    /\ holds \in [Wrapped -> BOOLEAN]
    /\ {wrapper, isConnected, taken, panicked} \subseteq BOOLEAN
    /\ written \in [Writers -> 0 .. Chunks - 1]
    /\ partial \in Seq(Writers \X (1 .. Chunks))
    /\ kind = "kcp" => \A w \in Writers :
          /\ at[w] = "write" => sendMu = w
          /\ sendMu = w => at[w] \in {"write", "report", "reported"}

(* What the remote reads as one message over KCP are the chunks of one      *)
(* frame in their order, whoever writes at the same time (hub-kcp-socket.go *)
(* 31-45, 77-88; kcp-socket.go 135-158).                                    *)
FramesWhole ==
    kind = "kcp" => \A i \in DOMAIN partial : partial[i] = <<partial[1][1], i>>

(* A broken connection is reported to Run, whoever holds sendMu when it     *)
(* breaks, unless Run is in a call to this very client and waits for the    *)
(* mutex that the reader holds until Run takes its report, or for an answer *)
(* (hub-kcp-socket.go:77-86, hub-client.go:213-217).                        *)
LossReported ==
    conn = "broken" ~> \/ taken \/ panicked
                       \/ at["run"] = "lock" /\ sendMu = "reader"
                       \/ at["run"] = "wait"

(* "Prevent concurrent write to websocket connection" (hub-web-socket.go:67) *)
(* is what sendMu is for.                                                    *)
NoConcurrentWrite ==
    \A v, w \in Wrapped : at[v] = "write" /\ at[w] = "write" => v = w

=============================================================================
