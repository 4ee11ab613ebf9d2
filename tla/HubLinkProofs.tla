--------------------------- MODULE HubLinkProofs ---------------------------
(***************************************************************************)
(* Proofs about HubLink, for frames of any number of chunks.               *)
(***************************************************************************)
EXTENDS HubLink, TLAPS

(* While a KCP connection is up the remote has read, of an unfinished frame,
   what the owner of sendMu has written of it, and nobody else has begun.  *)
Owned(w) == sendMu = w /\ at[w] = "write"

FrameInv ==
  kind = "kcp" /\ conn = "up" =>
    /\ \A w \in Writers : ~ Owned(w) => written[w] = 0
    /\ \A w \in Writers : Owned(w) =>
         /\ written[w] = Len(partial)
         /\ \A i \in 1..Len(partial) : partial[i] = <<w, i>>
    /\ (\A w \in Writers : ~ Owned(w)) => partial = <<>>

Inv == LinkTypeOK /\ FrameInv /\ FramesWhole

LEMMA InvInit == Init => Inv
<1> SUFFICES ASSUME Init PROVE Inv
  OBVIOUS
<1>1. LinkTypeOK
  <2>1. written \in [Writers -> 0 .. Chunks - 1]
    BY LinkAssumption DEF Init
  <2>2. sendMu = Nobody /\ \A w \in Writers : at[w] = "idle" /\ sendMu # w
    BY LinkAssumption DEF Init
  <2>3. partial \in Seq(Writers \X (1 .. Chunks))
    BY DEF Init
  <2> QED
    BY LinkAssumption, <2>1, <2>2, <2>3 DEF Init, LinkTypeOK
<1>2. FrameInv /\ FramesWhole
  BY DEF Init, FrameInv, FramesWhole, Owned
<1> QED
  BY <1>1, <1>2 DEF Inv

(* One more chunk, of a frame that is then complete or not. *)
LEMMA InvWrite == ASSUME Inv, NEW w \in Writers, Write(w) PROVE Inv'
<1> DEFINE last == written[w] + 1 = Chunks
           to   == IF w = "run" THEN "wait" ELSE "idle"
<1> USE LinkAssumption DEF link, copies, ends
<1>1. /\ at[w] = "write" /\ conn = "up" /\ written[w] \in 0 .. Chunks - 1
      /\ UNCHANGED <<kind, conn, holds, wrapper, isConnected, taken, panicked>>
      /\ partial \in Seq(Writers \X (1 .. Chunks))
      /\ at \in [Writers -> {"idle", "enter", "lock", "write", "wait", "report",
                             "reported", "ended"}]
      /\ written \in [Writers -> 0 .. Chunks - 1]
      /\ sendMu \in Writers \cup {Nobody}
  BY DEF Write, Inv, LinkTypeOK
<1>2. last => /\ written' = [written EXCEPT ![w] = 0] /\ at' = [at EXCEPT ![w] = to]
              /\ sendMu' = IF sendMu = w THEN Nobody ELSE sendMu
  BY DEF Write, Go, Unlock
<1>3. ~ last => /\ written' = [written EXCEPT ![w] = @ + 1]
                /\ UNCHANGED <<sendMu, at>>
  BY DEF Write
<1>4. \/ partial' = <<>> /\ Len(partial) + 1 = Chunks
      \/ partial' = Append(partial, <<w, written[w] + 1>>) /\ Len(partial) + 1 # Chunks
  BY DEF Write
<1>5. partial' \in Seq(Writers \X (1 .. Chunks))
  <2>1. <<w, written[w] + 1>> \in Writers \X (1 .. Chunks)
    BY <1>1
  <2>2. ASSUME NEW S, NEW p \in Seq(S), NEW e \in S PROVE Append(p, e) \in Seq(S)
    OBVIOUS
  <2>3. CASE partial' = <<>>
    BY <2>3
  <2>4. CASE partial' = Append(partial, <<w, written[w] + 1>>)
    BY <1>1, <2>1, <2>2, <2>4, Zenon
  <2> QED
    BY <1>4, <2>3, <2>4
<1>6. written' \in [Writers -> 0 .. Chunks - 1]
  <2>1. ~ last => written[w] + 1 \in 0 .. Chunks - 1
    BY <1>1
  <2>2. 0 \in 0 .. Chunks - 1
    OBVIOUS
  <2> QED
    BY <1>1, <1>2, <1>3, <2>1, <2>2
<1>7. at' \in [Writers -> {"idle", "enter", "lock", "write", "wait", "report",
                           "reported", "ended"}]
  BY <1>1, <1>2, <1>3
<1>8. LinkTypeOK'
  <2>1. sendMu' \in Writers \cup {Nobody}
    BY <1>1, <1>2, <1>3
  <2>2. ASSUME kind = "kcp", NEW v \in Writers
        PROVE  /\ at'[v] = "write" => sendMu' = v
               /\ sendMu' = v => at'[v] \in {"write", "report", "reported"}
    BY <1>1, <1>2, <1>3, <2>2 DEF Inv, LinkTypeOK
  <2> QED
    BY <1>1, <1>5, <1>6, <1>7, <2>1, <2>2 DEF Inv, LinkTypeOK
<1>9. CASE kind = "kcp"
  <2>1. /\ sendMu = w /\ written[w] = Len(partial)
        /\ \A i \in 1..Len(partial) : partial[i] = <<w, i>>
        /\ \A v \in Writers \ {w} : written[v] = 0
    BY <1>1, <1>9 DEF Inv, LinkTypeOK, FrameInv, Owned
  <2>2. CASE last
    <3>1. partial' = <<>> /\ \A v \in Writers : written'[v] = 0 /\ ~ Owned(v)'
      BY <1>1, <1>2, <1>4, <2>1, <2>2 DEF Owned, Writers, Wrapped
    <3> QED
      BY <1>8, <3>1 DEF Inv, FrameInv, FramesWhole
  <2>3. CASE ~ last
    <3>1. /\ partial' = Append(partial, <<w, Len(partial) + 1>>)
          /\ Len(partial') = Len(partial) + 1 /\ written'[w] = Len(partial')
          /\ \A v \in Writers \ {w} : written'[v] = 0 /\ ~ Owned(v)'
          /\ Owned(w)'
      BY <1>1, <1>3, <1>4, <2>1, <2>3 DEF Owned
    <3>2. \A i \in 1..Len(partial') : partial'[i] = <<w, i>>
      <4>1. Len(partial) \in Nat
        BY <1>1
      <4> SUFFICES ASSUME NEW i \in 1..Len(partial') PROVE partial'[i] = <<w, i>>
        OBVIOUS
      <4>2. CASE i = Len(partial) + 1
        BY <1>1, <3>1, <4>1, <4>2
      <4>3. CASE i \in 1..Len(partial)
        BY <1>1, <2>1, <3>1, <4>3
      <4> QED
        BY <3>1, <4>1, <4>2, <4>3
    <3>3. FrameInv'
      BY <3>1, <3>2 DEF FrameInv
    <3>4. FramesWhole'
      BY <1>5, <3>1, <3>2 DEF FramesWhole
    <3> QED
      BY <1>8, <3>3, <3>4 DEF Inv
  <2> QED
    BY <2>2, <2>3
<1>10. CASE kind # "kcp"
  BY <1>1, <1>8, <1>10 DEF Inv, FrameInv, FramesWhole
<1> QED
  BY <1>9, <1>10

LEMMA InvStep == Inv /\ [Next]_vars => Inv'
<1> SUFFICES ASSUME Inv, [Next]_vars PROVE Inv'
  OBVIOUS
<1> USE LinkAssumption
    DEF Inv, LinkTypeOK, FrameInv, FramesWhole, Owned, Go, Unlock, Wrapped, Writers,
        link, copies, frames, ends
<1>1. CASE Break \/ Call \/ Reply
  <2>1. CASE Break
    BY <2>1 DEF Break
  <2>2. CASE Call
    BY <2>2 DEF Call
  <2>3. CASE Reply
    BY <2>3 DEF Reply
  <2> QED
    BY <1>1, <2>1, <2>2, <2>3
<1>2. CASE Tick \/ Hello
  <2>1. CASE Tick
    BY <2>1 DEF Tick
  <2>2. CASE Hello
    BY <2>2 DEF Hello
  <2> QED
    BY <1>2, <2>1, <2>2
<1>3. ASSUME NEW w \in Wrapped, Enter(w) PROVE Inv'
  BY <1>3 DEF Enter
<1>4. ASSUME NEW w \in Writers, Lock(w) PROVE Inv'
  BY <1>4 DEF Lock
<1>5. ASSUME NEW w \in Writers, WritePanics(w) PROVE Inv'
  BY <1>5 DEF WritePanics
<1>6. ASSUME NEW w \in Writers, WriteFails(w) PROVE Inv'
  <2>1. CASE w = "reader"
    <3>1. /\ isConnected' = FALSE /\ at' = [at EXCEPT ![w] = "report"]
          /\ written' = [written EXCEPT ![w] = 0] /\ conn = "broken" /\ at[w] = "write"
          /\ UNCHANGED <<kind, conn, sendMu, holds, wrapper, partial, taken, panicked>>
      BY <1>6, <2>1 DEF WriteFails
    <3>2. LinkTypeOK'
      <4>1. written' \in [Writers -> 0 .. Chunks - 1]
        BY <3>1
      <4>2. at' \in [Writers -> {"idle", "enter", "lock", "write", "wait", "report",
                                 "reported", "ended"}]
        BY <3>1
      <4>3. {wrapper', isConnected', taken', panicked'} \subseteq BOOLEAN
        BY <3>1
      <4>4. ASSUME kind = "kcp", NEW v \in Writers
            PROVE  /\ at'[v] = "write" => sendMu = v
                   /\ sendMu = v => at'[v] \in {"write", "report", "reported"}
        BY <2>1, <3>1, <4>4
      <4> QED
        BY <3>1, <4>1, <4>2, <4>3, <4>4
    <3>3. FrameInv' /\ FramesWhole'
      BY <2>1, <3>1
    <3> QED
      BY <3>2, <3>3
  <2>2. CASE w # "reader"
    BY <1>6, <2>2 DEF WriteFails
  <2> QED
    BY <2>1, <2>2
<1>7. CASE Answered
  BY <1>7 DEF Answered
<1>8. CASE ReadError
  BY <1>8 DEF ReadError
<1>9. CASE Unregister
  BY <1>9 DEF Unregister
<1>10. CASE Reported
  <2>1. wrapper' \in BOOLEAN
    BY <1>10, Zenon DEF Reported
  <2>2. /\ Unlock("reader")
        /\ Go("reader", IF sendMu = "reader" THEN "idle" ELSE "ended")
        /\ UNCHANGED <<kind, conn, holds, isConnected, written, partial, taken, panicked>>
    BY <1>10, Zenon DEF Reported
  <2>3. at["reader"] = "reported"
    BY <1>10 DEF Reported
  <2> QED
    BY <2>1, <2>2, <2>3
<1>11. CASE UNCHANGED vars
  BY <1>11 DEF vars
<1> QED
  BY <1>1, <1>2, <1>3, <1>4, <1>5, <1>6, <1>7, <1>8, <1>9, <1>10, <1>11,
     InvWrite DEF Next

(* Inv holds in every reachable state of a connection. *)
THEOREM Invariant == Spec => []Inv
  BY InvInit, InvStep, PTL DEF Spec

(* The types hold, and over KCP whoever writes owns sendMu. *)
THEOREM TypesCorrect == Spec => []LinkTypeOK
  BY Invariant, PTL DEF Inv

(* No two writers mix the chunks of their frames on a KCP connection. *)
THEOREM FramesStayWhole == Spec => []FramesWhole
  BY Invariant, PTL DEF Inv

-----------------------------------------------------------------------------
(* Why a loss can still be reported: LossReported without the fairness. *)

(* The reader of a connection has gone for good only after Run has taken its
   report, nobody but the reader reports, and no one is at a place of the
   other transport.                                                        *)
PlaceInv ==
  /\ at["reader"] \notin {"enter", "wait"}
  /\ at["reader"] \in {"reported", "ended"} => taken
  /\ \A w \in Wrapped : at[w] \notin {"report", "reported"}
  /\ at["run"] # "ended"
  /\ kind = "ws" => /\ sendMu = Nobody /\ wrapper
                    /\ \A w \in Writers : at[w] # "lock"
                    /\ \A w \in Wrapped : holds[w]
                    /\ at["reader"] # "write"

(* One of the goroutines that write can go on: it enters Write, gets the
   mutex, or learns that the connection is broken or its conn nil.         *)
GoesOn(w) ==
  \/ at[w] = "enter"
  \/ at[w] = "lock" /\ sendMu = Nobody
  \/ at[w] = "write" /\ (w = "reader" \/ kind = "kcp" \/ holds[w])

(* On a broken connection whose loss Run has not taken, the reader fails at
   its next read, or Run takes its report, or somebody who is before them
   goes on.  The two ways to be stuck are those of LossReported: Run waits
   for the mutex that the reader keeps while it reports, or for the answer
   of a remote that is gone (hub-kcp-socket.go:77-88, hub-client.go:213-217). *)
LossReportable ==
  conn = "broken" /\ ~ taken =>
    \/ at["reader"] = "idle"
    \/ at["reader"] = "report" /\ at["run"] = "idle"
    \/ \E w \in Writers : GoesOn(w)
    \/ at["run"] = "lock" /\ sendMu = "reader"
    \/ at["run"] = "wait"

LEMMA PlaceStep == Inv /\ PlaceInv /\ [Next]_vars => PlaceInv'
<1> SUFFICES ASSUME Inv, PlaceInv, [Next]_vars PROVE PlaceInv'
  OBVIOUS
<1> USE LinkAssumption
    DEF Inv, LinkTypeOK, PlaceInv, Go, Unlock, Wrapped, Writers, link, copies, frames, ends
<1>1. CASE Break \/ Call \/ Reply \/ Tick \/ Hello
  BY <1>1 DEF Break, Call, Reply, Tick, Hello
<1>2. ASSUME NEW w \in Wrapped, Enter(w) PROVE PlaceInv'
  BY <1>2 DEF Enter
<1>3. ASSUME NEW w \in Writers, Lock(w) PROVE PlaceInv'
  BY <1>3 DEF Lock
<1>4. ASSUME NEW w \in Writers, WritePanics(w) PROVE PlaceInv'
  BY <1>4 DEF WritePanics
<1>5. ASSUME NEW w \in Writers, Write(w) PROVE PlaceInv'
  BY <1>5 DEF Write
<1>6. ASSUME NEW w \in Writers, WriteFails(w) PROVE PlaceInv'
  BY <1>6 DEF WriteFails
<1>7. CASE Answered \/ ReadError \/ Unregister
  BY <1>7 DEF Answered, ReadError, Unregister
<1>8. CASE Reported
  BY <1>8 DEF Reported
<1>9. CASE UNCHANGED vars
  BY <1>9 DEF vars
<1> QED
  BY <1>1, <1>2, <1>3, <1>4, <1>5, <1>6, <1>7, <1>8, <1>9 DEF Next

(* While the loss of a connection is not reported somebody can go on, but in
   the two cases the code does not handle.                                 *)
THEOREM LossesReportable == Spec => []LossReportable
<1>1. Init => PlaceInv
  BY LinkAssumption DEF Init, PlaceInv, Wrapped, Writers
<1>2. Inv /\ PlaceInv => LossReportable
  <2> SUFFICES ASSUME Inv, PlaceInv, conn = "broken", ~ taken,
                      ~ \E w \in Writers : GoesOn(w), at["reader"] # "idle"
               PROVE  \/ at["reader"] = "report" /\ at["run"] = "idle"
                      \/ at["run"] = "lock" /\ sendMu = "reader"
                      \/ at["run"] = "wait"
    BY DEF LossReportable
  <2> USE DEF Inv, LinkTypeOK, PlaceInv, GoesOn, Wrapped, Writers
  <2>1. \A w \in Writers : at[w] # "write" /\ at[w] # "enter"
    OBVIOUS
  <2>2. sendMu \in {"reader", Nobody}
    BY <2>1
  <2>3. at["reader"] = "report"
    BY <2>1, <2>2
  <2> QED
    BY <2>1, <2>2, <2>3
<1> QED
  BY <1>1, <1>2, PlaceStep, Invariant, PTL DEF Spec

=============================================================================
