------------------------------ MODULE Dispatch ------------------------------
(***************************************************************************)
(* How a client executes the service requests that the hub relays to it.   *)
(*                                                                         *)
(* A worker of incommingDispatcher adds a listener to the service's        *)
(* response signal, emits the request on its request signal, waits for one *)
(* response and removes the listener. The service is an RPC server that    *)
(* executes requests concurrently and emits its responses one at a time.   *)
(* An emission hands the response to every listener there is when it       *)
(* begins, and ends when each of them has taken it.                        *)
(***************************************************************************)
EXTENDS Naturals, FiniteSets

CONSTANTS
  Request,  \* the Client.Handle calls for one service
  None,     \* Go's nil
  Workers   \* workers of incommingDispatcher

ASSUME DispatchAssumption == None \notin Request /\ Workers \in Nat \ {0}

VARIABLES
  work,       \* where handleMessage is with a request
  served,     \* where the service is with it
  listeners,  \* the requests whose listener is on the response signal
  sending,    \* the response being emitted (rpc.Server's sending mutex)
  due,        \* the listeners that have not taken it
  got,        \* the response a listener took
  overlapped  \* history: were two requests ever at work at once?

vars == <<work, served, listeners, sending, due, got, overlapped>>

WorkState == {"new", "queued", "listening", "waiting", "received", "done", "refused"}

TypeOK ==
  /\ work \in [Request -> WorkState]
  /\ served \in [Request -> {"no", "read", "executed", "sending", "sent"}]
  /\ listeners \subseteq Request
  /\ sending \in Request \cup {None}
  /\ due \subseteq Request
  /\ got \in [Request -> Request \cup {None}]
  /\ overlapped \in BOOLEAN
  /\ sending = None => due = {}

Init ==
  /\ work = [r \in Request |-> "new"]
  /\ served = [r \in Request |-> "no"]
  /\ listeners = {}
  /\ sending = None
  /\ due = {}
  /\ got = [r \in Request |-> None]
  /\ overlapped = FALSE

(* Client.Handle queues the request and waits for errorChannel. *)
Arrive(r) ==
  /\ work[r] = "new"
  /\ work' = [work EXCEPT ![r] = "queued"]
  /\ UNCHANGED <<served, listeners, sending, due, got, overlapped>>

Busy == {r \in Request : work[r] \in {"listening", "waiting", "received"}}

FreeWorker == Cardinality(Busy) < Workers

(* "invalid target message", or no such service: an error is returned. *)
Refuse(r) ==
  /\ work[r] = "queued"
  /\ FreeWorker
  /\ work' = [work EXCEPT ![r] = "refused"]
  /\ UNCHANGED <<served, listeners, sending, due, got, overlapped>>

Listen(r) ==
  /\ work[r] = "queued"
  /\ FreeWorker
  /\ work' = [work EXCEPT ![r] = "listening"]
  /\ listeners' = listeners \cup {r}
  /\ overlapped' = (overlapped \/ Busy # {})
  /\ UNCHANGED <<served, sending, due, got>>

(* The emission ends when the codec of the service has read the request. *)
Emit(r) ==
  /\ work[r] = "listening"
  /\ work' = [work EXCEPT ![r] = "waiting"]
  /\ served' = [served EXCEPT ![r] = "read"]
  /\ UNCHANGED <<listeners, sending, due, got, overlapped>>

(* The RPC server runs the method in a goroutine of its own. *)
Execute(r) ==
  /\ served[r] = "read"
  /\ served' = [served EXCEPT ![r] = "executed"]
  /\ UNCHANGED <<work, listeners, sending, due, got, overlapped>>

(* The response is written, under the server's sending mutex. *)
Send(r) ==
  /\ served[r] = "executed"
  /\ sending = None
  /\ served' = [served EXCEPT ![r] = "sending"]
  /\ sending' = r
  /\ due' = listeners
  /\ UNCHANGED <<work, listeners, got, overlapped>>

(* Mutant of Take: the first listener ends the emission. *)
TakeOnce(w) ==
  /\ w \in due
  /\ work[w] = "waiting"
  /\ due' = {}
  /\ got' = [got EXCEPT ![w] = sending]
  /\ work' = [work EXCEPT ![w] = "received"]
  /\ UNCHANGED <<served, listeners, sending, overlapped>>

(* ready <- b meets <-ready, which the worker of w executes once. *)
Take(w) ==
  /\ w \in due
  /\ work[w] = "waiting"
  /\ due' = due \ {w}
  /\ got' = [got EXCEPT ![w] = sending]
  /\ work' = [work EXCEPT ![w] = "received"]
  /\ UNCHANGED <<served, listeners, sending, overlapped>>

(* Mutant of Sent: the emission does not wait for its listeners. *)
SentEarly ==
  /\ sending # None
  /\ served' = [served EXCEPT ![sending] = "sent"]
  /\ sending' = None
  /\ UNCHANGED <<work, listeners, due, got, overlapped>>

(* Every listener has taken the response, and Emit returns. *)
Sent ==
  /\ sending # None
  /\ due = {}
  /\ served' = [served EXCEPT ![sending] = "sent"]
  /\ sending' = None
  /\ UNCHANGED <<work, listeners, due, got, overlapped>>

(* Mutant of Reply: RemoveListener is forgotten. *)
ReplyListening(r) ==
  /\ work[r] = "received"
  /\ work' = [work EXCEPT ![r] = "done"]
  /\ UNCHANGED <<served, listeners, sending, due, got, overlapped>>

(* Mutant of Reply: a worker may give up before it has an answer. *)
ReplyUnanswered(r) ==
  /\ work[r] \in {"waiting", "received"}
  /\ work' = [work EXCEPT ![r] = "done"]
  /\ listeners' = listeners \ {r}
  /\ UNCHANGED <<served, sending, due, got, overlapped>>

(* RemoveListener; what was received becomes the reply, under the id of the
   worker's own request.                                                   *)
Reply(r) ==
  /\ work[r] = "received"
  /\ work' = [work EXCEPT ![r] = "done"]
  /\ listeners' = listeners \ {r}
  /\ UNCHANGED <<served, sending, due, got, overlapped>>

-----------------------------------------------------------------------------

Worker(r) == Refuse(r) \/ Listen(r) \/ Emit(r) \/ Reply(r)
Service(r) == Execute(r) \/ Send(r) \/ Take(r)

Next == \/ \E r \in Request : Arrive(r) \/ Worker(r) \/ Service(r)
        \/ Sent

Spec == Init /\ [][Next]_vars

(* Workers and the goroutines of the server run; the workers' channel and the
   sending mutex are FIFO, so nobody is passed over for ever.              *)
FairSpec ==
  /\ Spec
  /\ WF_vars(Sent)
  /\ \A r \in Request : SF_vars(Worker(r)) /\ SF_vars(Service(r))

-----------------------------------------------------------------------------

(* As long as no two requests were ever at work at once, each is answered
   with its own response.                                                  *)
OwnReplySerial ==
  ~ overlapped => \A r \in Request : got[r] \in {r, None}

(* A response that was emitted has met its request: no worker waits for one
   that is gone, even if it was given another's.                           *)
NoMissedReply == \A r \in Request : served[r] = "sent" => got[r] # None

(* Requests that never overlap are all answered. *)
AnsweredSerial ==
  \A r \in Request :
    work[r] = "queued" ~> work[r] \in {"done", "refused"} \/ overlapped

-----------------------------------------------------------------------------
(* What does not hold when requests overlap *)

(* "When rpc responds, we use the sequence number in the response to find the
   original request ID" (jsonrpc-server.go:32): the response a caller gets is
   the one to its own request.                                             *)
OwnReply == \A r \in Request : got[r] \in {r, None}
=============================================================================
