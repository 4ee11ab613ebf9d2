-------------------------------- MODULE Codec --------------------------------
(***************************************************************************)
(* The JSON-RPC codecs between an rpc.Client and the serve routine at the  *)
(* other end of a connection.                                              *)
(*                                                                         *)
(* The client's codec keeps the method of every request under its id, the  *)
(* server's codec numbers the requests it reads and keeps their ids and    *)
(* channels under those numbers; handlers finish in any order. The NetConn *)
(* of the client delivers messages in order and ends with KILL. The rpc    *)
(* client of a service is answered by the outgoing listener of             *)
(* RegisterService instead, whose response may carry an error that is no   *)
(* string: the client's codec does not take it and the input loop ends.    *)
(***************************************************************************)
EXTENDS Naturals, Sequences, FiniteSets

CONSTANT Call    \* the calls made through one rpc.Client

ASSUME CodecAssumption == IsFiniteSet(Call)

VARIABLES
  call,     \* rpc.Client: what became of a call
  id,       \* rpc.Client: the sequence number of a call, 0 before it has one
  seq,      \* rpc.Client: the next sequence number
  pending,  \* client codec: the ids whose method is kept
  up,       \* requests on their way, as ids
  last,     \* server codec: the number of the last request read
  kept,     \* server codec: the ids kept in pending and pendingChannel
  running,  \* rpc.Server: the request numbers whose handler runs, with its call
  down,     \* responses on their way: an id, and the call whose answer it is
  invalid,  \* the ids whose response carries an error that is no string
  answer,   \* the calls whose answer a call was completed with
  shut      \* rpc.Client: has its input loop ended?

client == <<call, id, seq, pending, answer, shut>>
server == <<last, kept, running, invalid>>
vars == <<client, up, server, down>>

Number == 1..Cardinality(Call)

TypeOK ==
  /\ call \in [Call -> {"new", "waiting", "answered", "failed"}]
  /\ id \in [Call -> Number \cup {0}]
  /\ seq \in 1..(Cardinality(Call) + 1)
  /\ pending \subseteq Number
  /\ up \in Seq(Number)
  /\ last \in 0..Cardinality(Call)
  /\ kept \in [Number -> Number \cup {0}]
  /\ running \subseteq Number \X Call
  /\ down \in Seq(Number \X Call)
  /\ invalid \subseteq Number
  /\ answer \in [Call -> SUBSET Call]
  /\ shut \in BOOLEAN

Init ==
  /\ call = [c \in Call |-> "new"]
  /\ id = [c \in Call |-> 0]
  /\ seq = 1
  /\ pending = {}
  /\ up = <<>>
  /\ last = 0
  /\ kept = [n \in Number |-> 0]
  /\ running = {}
  /\ down = <<>>
  /\ invalid = {}
  /\ answer = [c \in Call |-> {}]
  /\ shut = FALSE

CallOf(i) == CHOOSE c \in Call : id[c] = i

(* rpc.Client.send: the call gets its number, and WriteRequest. *)
Register(c) ==
  /\ call[c] = "new"
  /\ ~ shut
  /\ id' = [id EXCEPT ![c] = seq]
  /\ seq' = seq + 1
  /\ pending' = pending \cup {seq}
  /\ UNCHANGED <<answer, shut, server, down>>

WriteRequest(c) ==
  /\ Register(c)
  /\ call' = [call EXCEPT ![c] = "waiting"]
  /\ up' = Append(up, seq)

(* The connection is broken: rpc.Client forgets the call, the codec does not. *)
WriteFails(c) ==
  /\ Register(c)
  /\ call' = [call EXCEPT ![c] = "failed"]
  /\ UNCHANGED up

(* rpc.ErrShutdown *)
Refuse(c) ==
  /\ call[c] = "new"
  /\ shut
  /\ call' = [call EXCEPT ![c] = "failed"]
  /\ UNCHANGED <<id, seq, pending, answer, shut, up, server, down>>

(* Mutant of ReadRequestHeader: seq is not advanced. *)
ReadSameNumber ==
  LET n == IF last = 0 THEN 1 ELSE last IN
  /\ up # <<>>
  /\ up' = Tail(up)
  /\ last' = n
  /\ kept' = [kept EXCEPT ![n] = Head(up)]
  /\ running' = running \cup {<<n, CallOf(Head(up))>>}
  /\ UNCHANGED <<client, down, invalid>>

(* The server's rpc.Server starts a handler for the request it was given. *)
ReadRequestHeader ==
  /\ up # <<>>
  /\ up' = Tail(up)
  /\ last' = last + 1
  /\ kept' = [kept EXCEPT ![last + 1] = Head(up)]
  /\ running' = running \cup {<<last + 1, CallOf(Head(up))>>}
  /\ UNCHANGED <<client, down, invalid>>

(* A handler has returned: its number leads back to the id of its request. *)
WriteResponse(n, c) ==
  /\ <<n, c>> \in running
  /\ running' = running \ {<<n, c>>}
  /\ kept' = [kept EXCEPT ![n] = 0]
  /\ down' = IF kept[n] = 0 THEN down ELSE Append(down, <<kept[n], c>>)
  /\ UNCHANGED <<client, up, last>>

Returns(n, c) == WriteResponse(n, c) /\ UNCHANGED invalid

(* The call of the hub failed with an error of package rpc, such as
   ErrShutdown, which the outgoing listener encodes as {}.                 *)
HubFails(n, c) ==
  /\ WriteResponse(n, c)
  /\ invalid' = invalid \cup {kept[n]}

(* Mutant of ReadResponse: the codec keeps the method. *)
ReadResponseKeeps ==
  LET i == Head(down)[1]
      c == CallOf(i)
  IN /\ down # <<>>
     /\ ~ shut
     /\ i \notin invalid
     /\ down' = Tail(down)
     /\ call' = [call EXCEPT ![c] = "answered"]
     /\ answer' = [answer EXCEPT ![c] = @ \cup {Head(down)[2]}]
     /\ UNCHANGED <<id, seq, pending, shut, up, server>>

(* ReadResponseHeader forgets the method, and rpc.Client completes the call
   it has under that id, if it still has one.                              *)
ReadResponse ==
  LET i == Head(down)[1]
      c == CallOf(i)
  IN /\ down # <<>>
     /\ ~ shut
     /\ i \notin invalid
     /\ down' = Tail(down)
     /\ pending' = pending \ {i}
     /\ IF call[c] = "waiting"
        THEN /\ call' = [call EXCEPT ![c] = "answered"]
             /\ answer' = [answer EXCEPT ![c] = @ \cup {Head(down)[2]}]
        ELSE UNCHANGED <<call, answer>>
     /\ UNCHANGED <<id, seq, shut, up, server>>

(* The input loop has ended: every call that waits fails. *)
Shutdown ==
  /\ shut' = TRUE
  /\ call' = [c \in Call |-> IF call[c] = "waiting" THEN "failed" ELSE call[c]]

(* Mutant of ReadInvalid: the input loop ends without failing the others. *)
ReadInvalidAlone ==
  /\ down # <<>>
  /\ ~ shut
  /\ Head(down)[1] \in invalid
  /\ shut' = TRUE
  /\ call' = [call EXCEPT ![CallOf(Head(down)[1])] = "failed"]
  /\ down' = Tail(down)
  /\ pending' = pending \ {Head(down)[1]}
  /\ UNCHANGED <<id, seq, answer, up, server>>

(* "invalid error": ReadResponseHeader has forgotten the method by then. *)
ReadInvalid ==
  /\ down # <<>>
  /\ ~ shut
  /\ Head(down)[1] \in invalid
  /\ Shutdown
  /\ down' = Tail(down)
  /\ pending' = pending \ {Head(down)[1]}
  /\ UNCHANGED <<id, seq, answer, up, server>>

(* KILL is read from Incomming. *)
Kill ==
  /\ ~ shut
  /\ Shutdown
  /\ UNCHANGED <<id, seq, pending, answer, up, server, down>>

Handler == \E n \in Number, c \in Call : Returns(n, c) \/ HubFails(n, c)

Next ==
  \/ \E c \in Call : WriteRequest(c) \/ WriteFails(c) \/ Refuse(c)
  \/ ReadRequestHeader
  \/ Handler
  \/ ReadResponse \/ ReadInvalid
  \/ Kill

Spec == Init /\ [][Next]_vars

(* Both read loops run, and every handler returns. *)
FairSpec == Spec /\ WF_vars(ReadRequestHeader) /\ WF_vars(Handler)
                 /\ WF_vars(ReadResponse \/ ReadInvalid)

-----------------------------------------------------------------------------

(* A call is completed with the answer to its own request and no other,
   whatever the order in which handlers return and whichever of them fails
   (jsonrpc-client.go:93-117, jsonrpc-server.go:70-138).                    *)
OwnAnswer == \A c \in Call : answer[c] \subseteq {c} /\ (call[c] = "answered" => answer[c] # {})

(* The tables of both codecs hold an entry for a request under way and no
   other, but for a request that could not be written, which the client's
   codec never forgets.                                                    *)
NoLeftovers ==
  ~ shut =>
    /\ pending = {id[c] : c \in {d \in Call : call[d] = "waiting" \/ (call[d] = "failed" /\ id[d] # 0)}}
    /\ {n \in Number : kept[n] # 0} = {r[1] : r \in running}

(* Every call returns, answered or failed: a response the codec does not take
   ends the input loop and fails the others (jsonrpc-client.go:106-110).    *)
CallsReturn == \A c \in Call : call[c] = "waiting" ~> call[c] \in {"answered", "failed"}
=============================================================================
