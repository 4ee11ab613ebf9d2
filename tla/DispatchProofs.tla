--------------------------- MODULE DispatchProofs ---------------------------
(***************************************************************************)
(* Proofs about Dispatch, for any number of requests and workers.          *)
(***************************************************************************)
EXTENDS Dispatch, FiniteSetTheorems, TLAPS

(* Where a request is with its worker, and where it is with the service. *)
InStep ==
  \A r \in Request :
    /\ served[r] = "no" <=> work[r] \in {"new", "queued", "listening", "refused"}
    /\ got[r] = None <=> work[r] \notin {"received", "done"}
    /\ r \in listeners <=> r \in Busy
    /\ served[r] = "sending" <=> sending = r

(* A response on its way is still due to its request, or came too late. *)
StillDue == sending # None => got[sending] # None \/ sending \in due

(* Without an overlap a worker is alone, its request is the only one the
   service has not answered, and nobody else takes the answer.             *)
Alone ==
  ~ overlapped =>
    /\ \A r, q \in Busy : r = q
    /\ \A r \in Request : served[r] \in {"read", "executed"} => work[r] = "waiting"
    /\ due \subseteq {sending}
    /\ \A w \in due : work[w] = "waiting"

(* The inductive invariant. *)
Inv == TypeOK /\ InStep /\ StillDue /\ NoMissedReply /\ Alone /\ OwnReplySerial

(* It holds before the first request arrives. *)
LEMMA InvInit == Init => Inv
  BY DispatchAssumption DEF Init, Inv, TypeOK, WorkState, InStep, StillDue, NoMissedReply,
     Alone, OwnReplySerial, Busy

(* No step of a worker or of the service breaks it. *)
LEMMA InvStep == Inv /\ [Next]_vars => Inv'
<1> SUFFICES ASSUME Inv, [Next]_vars PROVE Inv'
  OBVIOUS
<1> USE DispatchAssumption DEF Inv, TypeOK, WorkState, InStep, StillDue, NoMissedReply,
    Alone, OwnReplySerial, Busy
<1>1. ASSUME NEW r \in Request, Arrive(r) PROVE Inv'
  BY <1>1 DEF Arrive
<1>2. ASSUME NEW r \in Request, Refuse(r) PROVE Inv'
  BY <1>2 DEF Refuse
<1>3. ASSUME NEW r \in Request, Listen(r) PROVE Inv'
  <2>1. TypeOK' /\ InStep' /\ StillDue' /\ NoMissedReply' /\ OwnReplySerial'
    BY <1>3 DEF Listen
  <2>2. Alone'
    <3>1. SUFFICES ASSUME ~ overlapped' PROVE Alone'
      OBVIOUS
    <3>2. ~ overlapped /\ Busy = {}
      BY <1>3, <3>1 DEF Listen
    <3>3. Busy' = {r}
      BY <1>3, <3>2 DEF Listen
    <3>4. ~ \E q \in Request : served[q] \in {"read", "executed"}
      BY <3>2
    <3> QED
      BY <1>3, <3>2, <3>3, <3>4 DEF Listen
  <2> QED
    BY <2>1, <2>2
<1>4. ASSUME NEW r \in Request, Emit(r) PROVE Inv'
  BY <1>4 DEF Emit
<1>5. ASSUME NEW r \in Request, Reply(r) PROVE Inv'
  BY <1>5 DEF Reply
<1>6. ASSUME NEW r \in Request, Execute(r) PROVE Inv'
  BY <1>6 DEF Execute
<1>7. ASSUME NEW r \in Request, Send(r) PROVE Inv'
  BY <1>7 DEF Send
<1>8. ASSUME NEW r \in Request, Take(r) PROVE Inv'
  BY <1>8 DEF Take
<1>9. ASSUME Sent PROVE Inv'
  BY <1>9 DEF Sent
<1>10. CASE UNCHANGED vars
  BY <1>10 DEF vars
<1> QED
  BY <1>1, <1>2, <1>3, <1>4, <1>5, <1>6, <1>7, <1>8, <1>9, <1>10
     DEF Next, Worker, Service

(* So it always holds. *)
LEMMA Inductive == Spec => []Inv
  BY InvInit, InvStep, PTL DEF Spec

(* Every variable keeps its type; between two emissions nobody is owed one. *)
THEOREM TypeCorrect == Spec => []TypeOK
<1>1. Inv => TypeOK
  BY DEF Inv
<1> QED
  BY <1>1, Inductive, PTL

(* A request whose response was emitted has an answer, its own or another's:
   its worker never waits for a response that is gone.                     *)
THEOREM NobodyMissesReply == Spec => []NoMissedReply
<1>1. Inv => NoMissedReply
  BY DEF Inv
<1> QED
  BY <1>1, Inductive, PTL

(* Requests that never overlap get their own responses, although all of them
   listen on one signal.                                                   *)
THEOREM SerialRepliesOwn == Spec => []OwnReplySerial
<1>1. Inv => OwnReplySerial
  BY DEF Inv
<1> QED
  BY <1>1, Inductive, PTL

-----------------------------------------------------------------------------
(* Why requests that do not overlap are answered *)

(* A step that brings the answer to r nearer can be taken: the worker of r
   emits the request or replies, or the service executes it, begins to send
   its response, hands it over, or ends the emission before.               *)
AnswerGoesOn(r) ==
  \/ work[r] \in {"listening", "received"}
  \/ served[r] = "read"
  \/ served[r] = "executed" /\ sending = None
  \/ r \in due /\ work[r] = "waiting"
  \/ sending # None /\ due = {}

SerialGoesOn ==
  ~ overlapped => /\ \A r \in Busy : AnswerGoesOn(r)
                  /\ Busy = {} => FreeWorker

(* As long as no two requests were at work at once, handleMessage and the
   service never wait on each other: whatever request a worker has, a step
   towards its answer can be taken, and when none has one, the next request
   finds a worker. With fairness that is AnsweredSerial. It is false once
   requests overlap: an emission waits for ever for the listener of a worker
   that took another response and no longer reads.                         *)
THEOREM SerialNeverStuck == Spec => []SerialGoesOn
<1>1. ASSUME Inv PROVE SerialGoesOn
  <2>1. ASSUME ~ overlapped, NEW r \in Busy PROVE AnswerGoesOn(r)
    <3> USE <1>1 DEF Inv, TypeOK, InStep, Busy
    <3>1. SUFFICES ASSUME work[r] = "waiting" PROVE AnswerGoesOn(r)
      BY DEF AnswerGoesOn
    <3>2. served[r] # "no" /\ served[r] # "sent"
      BY <3>1 DEF NoMissedReply
    <3>3. CASE sending = None
      BY <3>2, <3>3, DispatchAssumption DEF AnswerGoesOn
    <3>4. ASSUME NEW w \in due PROVE w = r
      BY <2>1, <3>4 DEF Alone
    <3>5. CASE sending # None
      BY <3>1, <3>4, <3>5 DEF AnswerGoesOn
    <3> QED
      BY <3>3, <3>5
  <2>2. Busy = {} => FreeWorker
    BY FS_EmptySet, DispatchAssumption DEF FreeWorker
  <2> QED
    BY <2>1, <2>2 DEF SerialGoesOn
<1> QED
  BY <1>1, Inductive, PTL
=============================================================================
