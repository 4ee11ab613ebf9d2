---------------------------- MODULE CodecProofs ----------------------------
(***************************************************************************)
(* Proofs about Codec, for any finite set of calls.                        *)
(***************************************************************************)
EXTENDS Codec, FiniteSetTheorems, TLAPS

Numbered == {c \in Call : id[c] # 0}

(* The numbers of the calls are different, and all those below seq. *)
IdInv ==
  /\ \A c \in Call : id[c] < seq
  /\ \A c, d \in Call : id[c] # 0 /\ id[c] = id[d] => c = d
  /\ \A c \in Call : call[c] = "new" => id[c] = 0
  /\ \A c \in Call : call[c] \in {"waiting", "answered"} => id[c] # 0
  /\ seq = Cardinality(Numbered) + 1

(* Until the input loop ends, what is under way belongs to a call whose
   request was written.                                                    *)
Written(c) == id[c] # 0 /\ (~ shut => call[c] \in {"waiting", "answered"})

UpInv ==
  /\ last + Len(up) < seq
  /\ \A k \in 1..Len(up) : \E c \in Call : up[k] = id[c] /\ Written(c)

RunInv ==
  /\ \A r \in running : r[1] <= last /\ kept[r[1]] = id[r[2]] /\ Written(r[2])
  /\ \A r, q \in running : r[1] = q[1] => r = q
  /\ \A n \in Number : kept[n] # 0 => \E r \in running : r[1] = n

DownInv ==
  \A k \in 1..Len(down) : down[k][1] = id[down[k][2]] /\ Written(down[k][2])

(* The client's codec keeps the methods of the calls that wait, and of those
   that could not be written.                                              *)
Asked(c) == call[c] = "waiting" \/ (call[c] = "failed" /\ id[c] # 0)

PendingInv ==
  ~ shut => \A i \in Number : i \in pending <=> \E c \in Call : id[c] = i /\ Asked(c)

(* The inductive invariant. *)
Inv == /\ TypeOK /\ IdInv /\ UpInv /\ RunInv /\ DownInv
       /\ PendingInv /\ OwnAnswer

LEMMA Size == Cardinality(Call) \in Nat
  BY CodecAssumption, FS_CardinalityType

LEMMA AppendFacts ==
  ASSUME NEW S, NEW p \in Seq(S), NEW e \in S
  PROVE  /\ Append(p, e) \in Seq(S) /\ Len(Append(p, e)) = Len(p) + 1 /\ Len(p) \in Nat
         /\ \A k \in 1..Len(p) : Append(p, e)[k] = p[k]
         /\ Append(p, e)[Len(p) + 1] = e
  OBVIOUS

LEMMA TailFacts ==
  ASSUME NEW S, NEW p \in Seq(S), p # <<>>
  PROVE  /\ Tail(p) \in Seq(S) /\ Len(Tail(p)) = Len(p) - 1 /\ Len(p) \in Nat \ {0}
         /\ \A k \in 1..Len(p) - 1 : Tail(p)[k] = p[k + 1]
         /\ Head(p) = p[1] /\ Head(p) \in S
  OBVIOUS

LEMMA InvInit == Init => Inv
<1> SUFFICES ASSUME Init PROVE Inv
  OBVIOUS
<1>1. Numbered = {} /\ Cardinality(Numbered) = 0
  BY FS_EmptySet DEF Init, Numbered
<1>2. TypeOK
  <2>1. seq \in 1..(Cardinality(Call) + 1) /\ last \in 0..Cardinality(Call)
    BY Size DEF Init
  <2>2. up \in Seq(Number) /\ down \in Seq(Number \X Call)
    BY DEF Init
  <2> QED
    BY <2>1, <2>2 DEF Init, TypeOK
<1>3. IdInv /\ PendingInv /\ OwnAnswer
  BY <1>1 DEF Init, IdInv, PendingInv, Asked, OwnAnswer
<1>4. UpInv /\ RunInv /\ DownInv
  BY DEF Init, UpInv, RunInv, DownInv, Number
<1> QED
  BY <1>2, <1>3, <1>4 DEF Inv

(* A number leads back to its call. *)
LEMMA CallOfId == ASSUME IdInv, NEW c \in Call, id[c] # 0 PROVE CallOf(id[c]) = c
  BY DEF IdInv, CallOf

(* There is a number for every call. *)
LEMMA NumberLeft ==
  ASSUME TypeOK, IdInv, NEW c \in Call, id[c] = 0
  PROVE  /\ seq \in Number
         /\ Cardinality(Numbered \cup {c}) = Cardinality(Numbered) + 1
<1>1. IsFiniteSet(Numbered) /\ IsFiniteSet(Numbered \cup {c}) /\ c \notin Numbered
  BY CodecAssumption, FS_Subset, FS_AddElement DEF Numbered
<1>2. Cardinality(Numbered \cup {c}) = Cardinality(Numbered) + 1
  BY <1>1, FS_AddElement
<1>3. Cardinality(Numbered \cup {c}) <= Cardinality(Call)
  BY CodecAssumption, FS_Subset DEF Numbered
<1>4. Cardinality(Numbered) \in Nat
  BY <1>1, FS_CardinalityType
<1> QED
  BY <1>2, <1>3, <1>4, Size DEF IdInv, TypeOK, Number

LEMMA RegisterStep ==
  ASSUME Inv, NEW c \in Call, WriteRequest(c) \/ WriteFails(c) PROVE Inv'
<1> USE DEF server
<1>1. /\ id[c] = 0 /\ ~ shut /\ call[c] = "new"
      /\ id' = [id EXCEPT ![c] = seq] /\ seq' = seq + 1
      /\ pending' = pending \cup {seq}
      /\ UNCHANGED <<answer, shut, last, kept, running, invalid, down>>
      /\ \/ call' = [call EXCEPT ![c] = "waiting"] /\ up' = Append(up, seq)
         \/ call' = [call EXCEPT ![c] = "failed"] /\ up' = up
  BY DEF WriteRequest, WriteFails, Register, Inv, IdInv
<1>2. seq \in Number /\ Cardinality(Numbered \cup {c}) = Cardinality(Numbered) + 1
  BY <1>1, NumberLeft DEF Inv
<1>3. Numbered' = Numbered \cup {c}
  BY <1>1, <1>2 DEF Numbered, Inv, TypeOK, Number
<1>4. /\ up \in Seq(Number) /\ seq # 0 /\ seq \in Nat /\ Len(up) \in Nat
      /\ up' \in Seq(Number) /\ Len(up') <= Len(up) + 1 /\ Len(up') \in Nat
      /\ \A k \in 1..Len(up') : up'[k] = seq \/ (k \in 1..Len(up) /\ up'[k] = up[k])
      /\ call[c] = "new" /\ (call'[c] = "waiting" \/ up' = up)
  <2>1. up \in Seq(Number) /\ seq # 0 /\ seq \in Nat /\ Len(up) \in Nat
    BY <1>1, <1>2, Size DEF Inv, TypeOK, Number
  <2>2. CASE up' = up
    BY <1>1, <2>1, <2>2
  <2>3. CASE up' = Append(up, seq) /\ call' = [call EXCEPT ![c] = "waiting"]
    BY <1>1, <1>2, <2>1, <2>3, AppendFacts DEF Inv, TypeOK
  <2> QED
    BY <1>1, <2>2, <2>3
<1>5. TypeOK'
  <2>1. seq' \in 1..(Cardinality(Call) + 1)
    BY <1>1, <1>2, Size DEF Number
  <2> QED
    BY <1>1, <1>2, <1>4, <2>1 DEF Inv, TypeOK
<1>6. IdInv'
  BY <1>1, <1>2, <1>3, Size DEF Inv, TypeOK, IdInv, Number
<1>7. \A d \in Call : Written(d) =>
        id'[d] = id[d] /\ id[d] # 0 /\ call'[d] = call[d] /\ d # c
  BY <1>1 DEF Inv, TypeOK, Written
<1>8. UpInv'
  <2>1. last' + Len(up') < seq'
    BY <1>1, <1>4 DEF Inv, TypeOK, UpInv
  <2>2. ASSUME NEW k \in 1..Len(up')
        PROVE  \E d \in Call : up'[k] = id'[d] /\ Written(d)'
    <3>1. CASE k \in 1..Len(up) /\ up'[k] = up[k]
      <4>1. PICK d \in Call : up[k] = id[d] /\ Written(d)
        BY <3>1 DEF Inv, UpInv
      <4> QED
        BY <1>1, <1>7, <3>1, <4>1 DEF Written
    <3>2. CASE up'[k] = seq /\ call'[c] = "waiting"
      BY <1>1, <1>4, <3>2 DEF Inv, TypeOK, Written
    <3> QED
      BY <1>4, <3>1, <3>2
  <2> QED
    BY <2>1, <2>2 DEF UpInv, Written
<1>9. RunInv'
  <2>1. \A r \in running : r \in Number \X Call
    BY DEF Inv, TypeOK
  <2> QED
    BY <1>1, <1>7, <2>1 DEF Inv, RunInv, Written
<1>10. DownInv'
  <2>1. \A k \in 1..Len(down) : down[k][2] \in Call
    BY DEF Inv, TypeOK
  <2> QED
    BY <1>1, <1>7, <2>1 DEF Inv, DownInv, Written
<1>11. PendingInv'
  <2>1. \A d \in Call : d # c => (Asked(d)' <=> Asked(d)) /\ id'[d] = id[d] /\ id[d] # seq
    BY <1>1 DEF Inv, TypeOK, Asked, IdInv
  <2>2. id'[c] = seq /\ Asked(c)' /\ ~ Asked(c)
    BY <1>1, <1>4 DEF Inv, TypeOK, Asked
  <2> QED
    BY <1>1, <2>1, <2>2 DEF Inv, PendingInv
<1>12. OwnAnswer'
  BY <1>1 DEF Inv, TypeOK, OwnAnswer
<1> QED
  BY <1>5, <1>6, <1>8, <1>9, <1>10, <1>11, <1>12 DEF Inv

LEMMA RefuseStep == ASSUME Inv, NEW c \in Call, Refuse(c) PROVE Inv'
<1>1. /\ shut /\ call' = [call EXCEPT ![c] = "failed"] /\ call[c] = "new"
      /\ UNCHANGED <<id, seq, pending, answer, shut, up, last, kept, running, invalid,
                     down>>
  BY DEF Refuse, server
<1>2. TypeOK' /\ OwnAnswer'
  BY <1>1 DEF Inv, TypeOK, OwnAnswer
<1>3. IdInv'
  BY <1>1 DEF Inv, TypeOK, IdInv, Numbered
<1>4. PendingInv'
  BY <1>1 DEF PendingInv
<1>5. UpInv' /\ RunInv' /\ DownInv'
  BY <1>1 DEF Inv, UpInv, RunInv, DownInv, Written
<1> QED
  BY <1>2, <1>3, <1>4, <1>5 DEF Inv

LEMMA ReadRequestStep == ASSUME Inv, ReadRequestHeader PROVE Inv'
<1> USE Size DEF client, Number
<1> DEFINE n == last + 1
           i == Head(up)
<1>1. /\ n \in Number /\ n < seq /\ Len(up) \in Nat /\ Len(up) > 0
      /\ up' = Tail(up) /\ Len(up') = Len(up) - 1 /\ up' \in Seq(Number)
      /\ i = up[1] /\ \A k \in 1..Len(up') : up'[k] = up[k + 1]
      /\ UNCHANGED <<call, id, seq, pending, answer, shut, down, invalid>>
  BY DEF ReadRequestHeader, Inv, TypeOK, UpInv
<1>2. PICK c \in Call : i = id[c] /\ Written(c)
  BY <1>1 DEF Inv, UpInv
<1>3. CallOf(i) = c
  BY <1>2, CallOfId DEF Inv, Written
<1>4. /\ last' = n /\ kept' = [kept EXCEPT ![n] = id[c]]
      /\ running' = running \cup {<<n, c>>} /\ id[c] # 0
      /\ kept \in [Number -> Number \cup {0}] /\ \A r \in running : r \in Number \X Call
  BY <1>2, <1>3 DEF ReadRequestHeader, Inv, TypeOK, Written
<1>5. TypeOK'
  <2>1. id[c] \in Number /\ n \in 0..Cardinality(Call)
    BY <1>1, <1>4 DEF Inv, TypeOK
  <2>2. kept' \in [Number -> Number \cup {0}] /\ running' \subseteq Number \X Call
    BY <1>1, <1>4, <2>1
  <2> QED
    BY <1>1, <1>4, <2>1, <2>2 DEF Inv, TypeOK
<1>6. UpInv'
  <2>1. \A k \in 1..Len(up') : \E d \in Call : up'[k] = id[d] /\ Written(d)
    BY <1>1 DEF Inv, UpInv
  <2>2. last' + Len(up') < seq'
    BY <1>1, <1>4 DEF Inv, TypeOK, UpInv
  <2> QED
    BY <1>1, <2>1, <2>2 DEF UpInv, Written
<1>7. RunInv'
  <2>1. \A r \in running : r[1] < n /\ kept'[r[1]] = kept[r[1]]
    BY <1>4 DEF Inv, TypeOK, RunInv
  <2>2. \A r \in running' : r[1] <= last' /\ kept'[r[1]] = id'[r[2]] /\ Written(r[2])'
    BY <1>1, <1>2, <1>4, <2>1 DEF Inv, TypeOK, RunInv, Written
  <2>3. \A r, q \in running' : r[1] = q[1] => r = q
    BY <1>4, <2>1 DEF Inv, RunInv
  <2>4. \A m \in Number : kept'[m] # 0 => \E r \in running' : r[1] = m
    <3> SUFFICES ASSUME NEW m \in Number, kept'[m] # 0 PROVE \E r \in running' : r[1] = m
      OBVIOUS
    <3>1. CASE m = n
      <4>1. <<n, c>> \in running' /\ <<n, c>>[1] = m
        BY <1>4, <3>1
      <4> QED
        BY <4>1
    <3>2. CASE m # n
      BY <1>4, <3>2 DEF Inv, RunInv
    <3> QED
      BY <3>1, <3>2
  <2> QED
    BY <2>2, <2>3, <2>4 DEF RunInv
<1>8. IdInv' /\ PendingInv' /\ DownInv' /\ OwnAnswer'
  <2>1. IdInv' /\ OwnAnswer'
    BY <1>1 DEF Inv, IdInv, Numbered, OwnAnswer
  <2>2. PendingInv'
    BY <1>1 DEF Inv, PendingInv, Asked
  <2>3. DownInv'
    BY <1>1 DEF Inv, DownInv, Written
  <2> QED
    BY <2>1, <2>2, <2>3
<1> QED
  BY <1>5, <1>6, <1>7, <1>8 DEF Inv

LEMMA WriteResponseStep ==
  ASSUME Inv, NEW n \in Number, NEW c \in Call, Returns(n, c) \/ HubFails(n, c)
  PROVE  Inv'
<1> USE DEF client
<1>1. /\ <<n, c>> \in running /\ kept[n] = id[c] /\ id[c] # 0 /\ Written(c)
      /\ running' = running \ {<<n, c>>}
      /\ kept' = [kept EXCEPT ![n] = 0]
      /\ down' = Append(down, <<id[c], c>>)
      /\ invalid' = invalid \/ invalid' = invalid \cup {id[c]}
      /\ UNCHANGED <<call, id, seq, pending, answer, shut, up, last>>
  BY DEF Returns, HubFails, WriteResponse, Inv, RunInv, Written
<1>2. /\ <<id[c], c>> \in Number \X Call /\ down \in Seq(Number \X Call)
      /\ kept \in [Number -> Number \cup {0}] /\ \A r \in running : r \in Number \X Call
  BY <1>1 DEF Inv, TypeOK
<1>3. /\ down' \in Seq(Number \X Call) /\ Len(down') = Len(down) + 1 /\ Len(down) \in Nat
      /\ \A k \in 1..Len(down) : down'[k] = down[k]
      /\ down'[Len(down) + 1] = <<id[c], c>>
  <2> DEFINE S == Number \X Call
             e == <<id[c], c>>
  <2>1. down \in Seq(S) /\ e \in S /\ down' = Append(down, e)
    BY <1>1, <1>2
  <2> HIDE DEF S, e
  <2>2. /\ down' \in Seq(S) /\ Len(down') = Len(down) + 1 /\ Len(down) \in Nat
        /\ \A k \in 1..Len(down) : down'[k] = down[k]
        /\ down'[Len(down) + 1] = e
    BY <2>1, AppendFacts
  <2> QED
    BY <2>2 DEF S, e
<1>4. TypeOK'
  BY <1>1, <1>2, <1>3 DEF Inv, TypeOK, Number
<1>5. DownInv'
  <2>1. \A k \in 1..Len(down) : down[k][2] \in Call
    BY <1>2
  <2> SUFFICES ASSUME NEW k \in 1..Len(down')
               PROVE  /\ down'[k][1] = id'[down'[k][2]] /\ id[down'[k][2]] # 0
                      /\ ~ shut => call[down'[k][2]] \in {"waiting", "answered"}
    BY <1>1 DEF DownInv, Written
  <2>2. CASE k = Len(down) + 1
    BY <1>1, <1>3, <2>2 DEF Written
  <2>3. CASE k \in 1..Len(down)
    BY <1>1, <1>3, <2>1, <2>3 DEF Inv, DownInv, Written
  <2> QED
    BY <1>3, <2>2, <2>3
<1>6. RunInv'
  <2>1. \A r \in running' : r \in running /\ r[1] # n /\ kept'[r[1]] = kept[r[1]]
    BY <1>1, <1>2 DEF Inv, RunInv
  <2>2. \A m \in Number : kept'[m] # 0 => kept[m] # 0 /\ m # n
    BY <1>1, <1>2
  <2>3. \A m \in Number : kept'[m] # 0 => \E r \in running' : r[1] = m
    BY <1>1, <2>2 DEF Inv, RunInv
  <2> QED
    BY <1>1, <2>1, <2>3 DEF Inv, RunInv, Written
<1>7. IdInv' /\ UpInv' /\ PendingInv' /\ OwnAnswer'
  BY <1>1 DEF Inv, IdInv, Numbered, UpInv, Written, PendingInv, Asked, OwnAnswer
<1> QED
  BY <1>4, <1>5, <1>6, <1>7 DEF Inv

(* The client's end takes the next response. *)
LEMMA DownTail ==
  ASSUME Inv, down # <<>>, down' = Tail(down)
  PROVE  /\ down' \in Seq(Number \X Call) /\ Head(down) = down[1] /\ Len(down) > 0
         /\ \A k \in 1..Len(down') :
              k + 1 \in 1..Len(down) /\ down'[k] = down[k + 1] /\ down'[k][2] \in Call
<1> DEFINE S == Number \X Call
<1>1. down \in Seq(S)
  BY DEF Inv, TypeOK
<1> HIDE DEF S
<1>2. /\ down' \in Seq(S) /\ Head(down) = down[1] /\ Len(down) > 0
      /\ \A k \in 1..Len(down') :
           k + 1 \in 1..Len(down) /\ down'[k] = down[k + 1] /\ down'[k] \in S
  BY <1>1, TailFacts
<1> QED
  BY <1>2 DEF S

LEMMA ReadResponseStep == ASSUME Inv, ReadResponse PROVE Inv'
<1> USE DEF server
<1>0. down # <<>> /\ down' = Tail(down) /\ ~ shut
  BY DEF ReadResponse
<1>1. PICK c \in Call : /\ Head(down)[1] = id[c] /\ Head(down)[2] = c /\ id[c] # 0
                        /\ call[c] \in {"waiting", "answered"}
  <2>1. 1 \in 1..Len(down) /\ Head(down) = down[1] /\ down[1][2] \in Call
    BY <1>0, DownTail DEF Inv, TypeOK
  <2> QED
    BY <1>0, <2>1 DEF Inv, DownInv, Written
<1>2. CallOf(Head(down)[1]) = c
  BY <1>1, CallOfId DEF Inv
<1>3. /\ pending' = pending \ {id[c]}
      /\ UNCHANGED <<id, seq, shut, up, last, kept, running, invalid>>
      /\ \/ /\ call' = [call EXCEPT ![c] = "answered"] /\ call[c] = "waiting"
            /\ answer' = [answer EXCEPT ![c] = @ \cup {c}]
         \/ call' = call /\ answer' = answer /\ call[c] = "answered"
  BY <1>1, <1>2 DEF ReadResponse
<1>4. /\ call \in [Call -> {"new", "waiting", "answered", "failed"}]
      /\ answer \in [Call -> SUBSET Call] /\ id \in [Call -> Number \cup {0}]
  BY DEF Inv, TypeOK
<1>5. /\ call'[c] = "answered"
      /\ \A d \in Call : d # c => call'[d] = call[d] /\ answer'[d] = answer[d]
      /\ UNCHANGED <<id, seq, shut, up, last, kept, running, invalid>>
  BY <1>1, <1>3, <1>4
<1>6. TypeOK'
  <2>1. answer' \in [Call -> SUBSET Call]
    BY <1>1, <1>3, <1>4
  <2>2. call' \in [Call -> {"new", "waiting", "answered", "failed"}]
    BY <1>1, <1>3, <1>4
  <2>3. down' \in Seq(Number \X Call)
    BY <1>0, DownTail
  <2> QED
    BY <1>0, <1>3, <2>1, <2>2, <2>3 DEF Inv, TypeOK
<1>7. IdInv'
  BY <1>1, <1>5 DEF Inv, IdInv, Numbered
<1>8. OwnAnswer'
  BY <1>1, <1>3, <1>4, <1>5 DEF Inv, OwnAnswer
<1>9. PendingInv'
  <2>1. \A d \in Call : d # c => (Asked(d)' <=> Asked(d)) /\ id'[d] = id[d] /\ id[d] # id[c]
    BY <1>1, <1>5 DEF Inv, Asked, IdInv
  <2>2. id'[c] = id[c] /\ ~ Asked(c)'
    BY <1>5 DEF Asked
  <2>3. \A i \in Number : i \in pending <=> \E d \in Call : id[d] = i /\ Asked(d)
    BY <1>0 DEF Inv, PendingInv
  <2>4. \A i \in Number : i \in pending' <=> \E d \in Call : id'[d] = i /\ Asked(d)'
    BY <1>1, <1>3, <2>1, <2>2, <2>3
  <2> QED
    BY <2>4 DEF PendingInv
<1>10. \A d \in Call : Written(d) => Written(d)' /\ id'[d] = id[d]
  BY <1>1, <1>5 DEF Written
<1>11. DownInv'
  <2>1. \A k \in 1..Len(down') :
          /\ down'[k] = down[k + 1] /\ down'[k][2] \in Call
          /\ down[k + 1][1] = id[down[k + 1][2]] /\ Written(down[k + 1][2])
    BY <1>0, DownTail DEF Inv, DownInv
  <2> QED
    BY <1>1, <1>5, <2>1 DEF DownInv, Written
<1>12. UpInv' /\ RunInv'
  <2>1. \A r \in running : r[2] \in Call
    BY DEF Inv, TypeOK
  <2> QED
    BY <1>1, <1>5, <2>1 DEF Inv, UpInv, RunInv, Written
<1> QED
  BY <1>6, <1>7, <1>8, <1>9, <1>11, <1>12 DEF Inv

LEMMA ShutdownStep == ASSUME Inv, ReadInvalid \/ Kill PROVE Inv'
<1> USE DEF server
<1>1. /\ shut' = TRUE
      /\ call' = [c \in Call |-> IF call[c] = "waiting" THEN "failed" ELSE call[c]]
      /\ UNCHANGED <<id, seq, answer, up, last, kept, running, invalid>>
      /\ pending' \subseteq pending
      /\ down' = down \/ (down # <<>> /\ down' = Tail(down))
  BY DEF ReadInvalid, Kill, Shutdown
<1>2. /\ down' \in Seq(Number \X Call)
      /\ \A k \in 1..Len(down') :
           \E j \in 1..Len(down) : down'[k] = down[j] /\ down[j][2] \in Call
  <2>1. CASE down' = down
    BY <2>1 DEF Inv, TypeOK
  <2>2. CASE down # <<>> /\ down' = Tail(down)
    BY <2>2, DownTail
  <2> QED
    BY <1>1, <2>1, <2>2
<1>3. TypeOK'
  <2>1. call' \in [Call -> {"new", "waiting", "answered", "failed"}] /\ shut' \in BOOLEAN
    BY <1>1 DEF Inv, TypeOK
  <2> QED
    BY <1>1, <1>2, <2>1 DEF Inv, TypeOK
<1>4. IdInv' /\ OwnAnswer' /\ PendingInv'
  BY <1>1 DEF Inv, TypeOK, IdInv, Numbered, OwnAnswer, PendingInv
<1>5. DownInv'
  BY <1>1, <1>2 DEF Inv, DownInv, Written
<1>6. UpInv' /\ RunInv'
  BY <1>1 DEF Inv, UpInv, RunInv, Written
<1> QED
  BY <1>3, <1>4, <1>5, <1>6 DEF Inv

-----------------------------------------------------------------------------

(* Inv holds in every reachable state of the two codecs. *)
THEOREM Invariant == Spec => []Inv
<1>1. Inv /\ UNCHANGED vars => Inv'
  BY DEF vars, client, server, Inv, TypeOK, IdInv, Numbered, UpInv, RunInv, DownInv,
     Written, PendingInv, Asked, OwnAnswer
<1>2. Inv /\ [Next]_vars => Inv'
  BY <1>1, RegisterStep, RefuseStep, ReadRequestStep, WriteResponseStep,
     ReadResponseStep, ShutdownStep DEF Next, Handler
<1> QED
  BY InvInit, <1>2, PTL DEF Spec

(* Every call is completed with its own answer, for any number of calls. *)
THEOREM AnswersMatch == Spec => []OwnAnswer
  BY Invariant, PTL DEF Inv

(* The codecs' tables hold what is under way, and requests that could not be
   written.                                                                *)
THEOREM TablesMatch == Spec => []NoLeftovers
<1>1. ASSUME Inv, ~ shut
      PROVE  pending = {id[c] : c \in {d \in Call : Asked(d)}}
  <2>1. \A c \in Call : Asked(c) => id[c] \in Number
    BY <1>1 DEF Inv, TypeOK, IdInv, Asked
  <2>2. pending \subseteq Number
    BY <1>1 DEF Inv, TypeOK
  <2> QED
    BY <1>1, <2>1, <2>2 DEF Inv, PendingInv
<1>2. ASSUME Inv PROVE {n \in Number : kept[n] # 0} = {r[1] : r \in running}
  <2>1. \A r \in running : r[1] \in Number /\ kept[r[1]] # 0
    BY <1>2 DEF Inv, TypeOK, RunInv, Written
  <2> QED
    BY <1>2, <2>1 DEF Inv, RunInv
<1>3. Inv => NoLeftovers
  BY <1>1, <1>2 DEF NoLeftovers, Asked
<1> QED
  BY <1>3, Invariant, PTL

-----------------------------------------------------------------------------
(* Where a call that waits is: CallsReturn without the fairness. *)

Asks(c) == {k \in 1..Len(up) : up[k] = id[c]}
Runs(c) == {r \in running : r[2] = c}
Answers(c) == {k \in 1..Len(down) : down[k][2] = c}

AtMostOne(S) == \A x, y \in S : x = y

(* Until the input loop ends, a call that waits is in exactly one place, and
   there once: its request is on its way, or its handler runs, or its
   response is on its way. Nothing else is anywhere, so that ReadResponse
   always finds the call it completes (jsonrpc-client.go:93-117,
   jsonrpc-server.go:70-138).                                              *)
OnePlace ==
  ~ shut => \A c \in Call :
    /\ AtMostOne(Asks(c)) /\ AtMostOne(Runs(c)) /\ AtMostOne(Answers(c))
    /\ Asks(c) # {} => Runs(c) = {} /\ Answers(c) = {}
    /\ Runs(c) # {} => Answers(c) = {}
    /\ call[c] = "waiting" <=> Asks(c) \cup Runs(c) \cup Answers(c) # {}

(* A call that is not c stays where it is. *)
LEMMA Elsewhere ==
  ASSUME OnePlace, ~ shut, NEW c \in Call,
         \A d \in Call \ {c} :
           /\ AtMostOne(Asks(d))' /\ (Asks(d)' = {} <=> Asks(d) = {})
           /\ AtMostOne(Runs(d))' /\ (Runs(d)' = {} <=> Runs(d) = {})
           /\ AtMostOne(Answers(d))' /\ (Answers(d)' = {} <=> Answers(d) = {})
           /\ call'[d] = call[d],
         AtMostOne(Asks(c))' /\ AtMostOne(Runs(c))' /\ AtMostOne(Answers(c))',
         Asks(c)' # {} => Runs(c)' = {} /\ Answers(c)' = {},
         Runs(c)' # {} => Answers(c)' = {},
         call'[c] = "waiting" <=> Asks(c)' \cup Runs(c)' \cup Answers(c)' # {}
  PROVE  OnePlace'
<1> SUFFICES ASSUME NEW d \in Call
             PROVE  /\ AtMostOne(Asks(d))' /\ AtMostOne(Runs(d))' /\ AtMostOne(Answers(d))'
                    /\ Asks(d)' # {} => Runs(d)' = {} /\ Answers(d)' = {}
                    /\ Runs(d)' # {} => Answers(d)' = {}
                    /\ call'[d] = "waiting" <=>
                         Asks(d)' \cup Runs(d)' \cup Answers(d)' # {}
  BY DEF OnePlace
<1>1. CASE d = c
  BY <1>1
<1>2. CASE d # c
  <2>1. /\ Asks(d) # {} => Runs(d) = {} /\ Answers(d) = {}
        /\ Runs(d) # {} => Answers(d) = {}
        /\ call[d] = "waiting" <=> Asks(d) # {} \/ Runs(d) # {} \/ Answers(d) # {}
    BY DEF OnePlace
  <2>2. /\ Asks(d)' = {} <=> Asks(d) = {}
        /\ Runs(d)' = {} <=> Runs(d) = {}
        /\ Answers(d)' = {} <=> Answers(d) = {}
        /\ call'[d] = call[d]
        /\ AtMostOne(Asks(d))' /\ AtMostOne(Runs(d))' /\ AtMostOne(Answers(d))'
    BY <1>2
  <2>3. Asks(d)' \cup Runs(d)' \cup Answers(d)' # {} <=>
          Asks(d)' # {} \/ Runs(d)' # {} \/ Answers(d)' # {}
    OBVIOUS
  <2> QED
    BY <2>1, <2>2, <2>3
<1> QED
  BY <1>1, <1>2

(* Sets that do not change have what Elsewhere asks of them. *)
LEMMA Same ==
  ASSUME OnePlace, ~ shut, NEW d \in Call
  PROVE  /\ Asks(d)' = Asks(d) => AtMostOne(Asks(d))' /\ (Asks(d)' = {} <=> Asks(d) = {})
         /\ Runs(d)' = Runs(d) => AtMostOne(Runs(d))' /\ (Runs(d)' = {} <=> Runs(d) = {})
         /\ Answers(d)' = Answers(d) =>
              AtMostOne(Answers(d))' /\ (Answers(d)' = {} <=> Answers(d) = {})
  BY DEF OnePlace, AtMostOne

LEMMA OneRegister ==
  ASSUME Inv, OnePlace, NEW c \in Call, WriteRequest(c) \/ WriteFails(c) PROVE OnePlace'
<1>1. /\ ~ shut /\ call[c] = "new" /\ id' = [id EXCEPT ![c] = seq]
      /\ UNCHANGED <<shut, running, down>>
      /\ \/ call' = [call EXCEPT ![c] = "waiting"] /\ up' = Append(up, seq)
         \/ call' = [call EXCEPT ![c] = "failed"] /\ up' = up
  BY DEF WriteRequest, WriteFails, Register, server
<1>2. /\ id \in [Call -> Number \cup {0}] /\ up \in Seq(Number) /\ Len(up) \in Nat
      /\ call \in [Call -> {"new", "waiting", "answered", "failed"}]
      /\ seq \in Nat /\ seq # 0
  BY Size DEF Inv, TypeOK, Number
<1>3. \A k \in 1..Len(up) : up[k] # seq
  BY <1>2 DEF Inv, TypeOK, UpInv, IdInv, Number
<1>4. Asks(c) = {} /\ Runs(c) = {} /\ Answers(c) = {}
  BY <1>1 DEF OnePlace
<1>5. Runs(c)' = {} /\ Answers(c)' = {}
  BY <1>1, <1>4 DEF Runs, Answers
<1>6. \A d \in Call \ {c} : /\ id'[d] = id[d] /\ id[d] # seq /\ call'[d] = call[d]
                            /\ Runs(d)' = Runs(d) /\ Answers(d)' = Answers(d)
  BY <1>1, <1>2 DEF Inv, IdInv, Runs, Answers
<1>7. CASE call' = [call EXCEPT ![c] = "failed"] /\ up' = up
  <2>1. Asks(c)' = {} /\ \A d \in Call \ {c} : Asks(d)' = Asks(d)
    BY <1>1, <1>2, <1>3, <1>6, <1>7 DEF Asks
  <2>2. \A d \in Call \ {c} :
            /\ AtMostOne(Asks(d))' /\ (Asks(d)' = {} <=> Asks(d) = {})
            /\ AtMostOne(Runs(d))' /\ (Runs(d)' = {} <=> Runs(d) = {})
            /\ AtMostOne(Answers(d))' /\ (Answers(d)' = {} <=> Answers(d) = {})
            /\ call'[d] = call[d]
    BY <1>1, <1>6, <2>1, Same
  <2>3. AtMostOne(Asks(c))' /\ AtMostOne(Runs(c))' /\ AtMostOne(Answers(c))'
    BY <1>5, <2>1 DEF AtMostOne
  <2>4. call'[c] = "failed"
    BY <1>2, <1>7
  <2> QED
    BY <1>1, <1>5, <2>1, <2>2, <2>3, <2>4, Elsewhere
<1>8. CASE call' = [call EXCEPT ![c] = "waiting"] /\ up' = Append(up, seq)
  <2>1. /\ Len(up') = Len(up) + 1 /\ up'[Len(up) + 1] = seq
        /\ \A k \in 1..Len(up) : up'[k] = up[k]
    BY <1>2, <1>8
  <2>2. Asks(c)' = {Len(up) + 1}
    BY <1>1, <1>2, <1>3, <2>1 DEF Asks
  <2>3. \A d \in Call \ {c} : Asks(d)' = Asks(d)
    BY <1>2, <1>6, <2>1 DEF Asks
  <2>4. \A d \in Call \ {c} :
            /\ AtMostOne(Asks(d))' /\ (Asks(d)' = {} <=> Asks(d) = {})
            /\ AtMostOne(Runs(d))' /\ (Runs(d)' = {} <=> Runs(d) = {})
            /\ AtMostOne(Answers(d))' /\ (Answers(d)' = {} <=> Answers(d) = {})
            /\ call'[d] = call[d]
    BY <1>1, <1>6, <2>3, Same
  <2>5. AtMostOne(Asks(c))' /\ AtMostOne(Runs(c))' /\ AtMostOne(Answers(c))'
    BY <1>5, <2>2 DEF AtMostOne
  <2>6. call'[c] = "waiting"
    BY <1>2, <1>8
  <2> QED
    BY <1>1, <1>5, <2>2, <2>4, <2>5, <2>6, Elsewhere
<1> QED
  BY <1>1, <1>7, <1>8

LEMMA OneReadRequest == ASSUME Inv, OnePlace, ~ shut, ReadRequestHeader PROVE OnePlace'
<1>1. /\ Len(up) \in Nat /\ Len(up) > 0 /\ Head(up) = up[1]
      /\ Len(up') = Len(up) - 1 /\ \A k \in 1..Len(up') : up'[k] = up[k + 1]
      /\ UNCHANGED <<call, id, shut, down>>
  BY DEF ReadRequestHeader, client, Inv, TypeOK
<1>2. PICK c \in Call : up[1] = id[c] /\ Written(c)
  BY <1>1 DEF Inv, UpInv
<1>3. running' = running \cup {<<last + 1, c>>}
  BY <1>1, <1>2, CallOfId DEF ReadRequestHeader, Inv, Written
<1>4. 1 \in Asks(c)
  BY <1>1, <1>2 DEF Asks
<1>5. AtMostOne(Asks(c)) /\ Runs(c) = {} /\ Answers(c) = {} /\ call[c] = "waiting"
  BY <1>4 DEF OnePlace
<1>6. Asks(c)' = {}
  <2> SUFFICES ASSUME NEW k \in Asks(c)' PROVE FALSE
    OBVIOUS
  <2>1. k + 1 \in Asks(c) /\ k + 1 # 1
    BY <1>1 DEF Asks
  <2> QED
    BY <1>4, <1>5, <2>1 DEF AtMostOne
<1>7. Runs(c)' = {<<last + 1, c>>} /\ Answers(c)' = {}
  BY <1>1, <1>3, <1>5 DEF Runs, Answers
<1>8. ASSUME NEW d \in Call \ {c}
      PROVE  /\ AtMostOne(Asks(d))' /\ (Asks(d)' = {} <=> Asks(d) = {})
             /\ Runs(d)' = Runs(d) /\ Answers(d)' = Answers(d)
  <2>1. Runs(d)' = Runs(d) /\ Answers(d)' = Answers(d)
    BY <1>1, <1>3 DEF Runs, Answers
  <2>2. id[d] # id[c]
    BY <1>2 DEF Inv, IdInv, Written
  <2>3. \A k : k \in Asks(d)' <=> k \in 1..Len(up') /\ k + 1 \in Asks(d)
    BY <1>1 DEF Asks
  <2>4. \A k \in Asks(d) : k \in 1..Len(up) /\ k # 1
    BY <1>2, <2>2 DEF Asks
  <2>5. AtMostOne(Asks(d))
    BY DEF OnePlace
  <2>6. \A k \in Asks(d) : k - 1 \in Asks(d)'
    BY <1>1, <2>3, <2>4
  <2> QED
    BY <1>1, <2>1, <2>3, <2>5, <2>6 DEF AtMostOne
<1>9. \A d \in Call \ {c} :
          /\ AtMostOne(Asks(d))' /\ (Asks(d)' = {} <=> Asks(d) = {})
          /\ AtMostOne(Runs(d))' /\ (Runs(d)' = {} <=> Runs(d) = {})
          /\ AtMostOne(Answers(d))' /\ (Answers(d)' = {} <=> Answers(d) = {})
          /\ call'[d] = call[d]
  BY <1>1, <1>8, Same
<1>10. AtMostOne(Asks(c))' /\ AtMostOne(Runs(c))' /\ AtMostOne(Answers(c))'
  BY <1>6, <1>7 DEF AtMostOne
<1> QED
  BY <1>1, <1>5, <1>6, <1>7, <1>9, <1>10, Elsewhere

LEMMA OneResponse ==
  ASSUME Inv, OnePlace, ~ shut, NEW n \in Number, NEW c \in Call, WriteResponse(n, c)
  PROVE  OnePlace'
<1>1. /\ <<n, c>> \in running /\ kept[n] = id[c] /\ id[c] # 0
      /\ running' = running \ {<<n, c>>}
      /\ down' = Append(down, <<id[c], c>>)
      /\ UNCHANGED <<call, id, shut, up>>
  BY DEF WriteResponse, client, Inv, RunInv, Written
<1>2. /\ Len(down') = Len(down) + 1 /\ Len(down) \in Nat
      /\ \A k \in 1..Len(down) : down'[k] = down[k]
      /\ down'[Len(down) + 1] = <<id[c], c>>
  <2> DEFINE S == Number \X Call
             e == <<id[c], c>>
  <2>1. down \in Seq(S) /\ e \in S /\ down' = Append(down, e)
    BY <1>1 DEF Inv, TypeOK
  <2> HIDE DEF S, e
  <2>2. /\ Len(down') = Len(down) + 1 /\ Len(down) \in Nat
        /\ \A k \in 1..Len(down) : down'[k] = down[k]
        /\ down'[Len(down) + 1] = e
    BY <2>1, AppendFacts
  <2> QED
    BY <2>2 DEF e
<1>3. <<n, c>> \in Runs(c)
  BY <1>1 DEF Runs
<1>4. AtMostOne(Runs(c)) /\ Asks(c) = {} /\ Answers(c) = {} /\ call[c] = "waiting"
  BY <1>3 DEF OnePlace
<1>5. Runs(c)' = {} /\ Asks(c)' = {}
  BY <1>1, <1>3, <1>4 DEF Runs, Asks, AtMostOne
<1>6. Answers(c)' = {Len(down) + 1}
  BY <1>2, <1>4 DEF Answers
<1>7. \A d \in Call \ {c} :
        Asks(d)' = Asks(d) /\ Runs(d)' = Runs(d) /\ Answers(d)' = Answers(d)
  BY <1>1, <1>2 DEF Asks, Runs, Answers
<1>8. \A d \in Call \ {c} :
          /\ AtMostOne(Asks(d))' /\ (Asks(d)' = {} <=> Asks(d) = {})
          /\ AtMostOne(Runs(d))' /\ (Runs(d)' = {} <=> Runs(d) = {})
          /\ AtMostOne(Answers(d))' /\ (Answers(d)' = {} <=> Answers(d) = {})
          /\ call'[d] = call[d]
  BY <1>1, <1>7, Same
<1>9. AtMostOne(Asks(c))' /\ AtMostOne(Runs(c))' /\ AtMostOne(Answers(c))'
  BY <1>5, <1>6 DEF AtMostOne
<1> QED
  BY <1>1, <1>4, <1>5, <1>6, <1>8, <1>9, Elsewhere

LEMMA OneReadResponse == ASSUME Inv, OnePlace, ReadResponse PROVE OnePlace'
<1>1. /\ ~ shut /\ down # <<>> /\ down' = Tail(down)
      /\ UNCHANGED <<id, shut, up, running>>
  BY DEF ReadResponse, server
<1>2. /\ Head(down) = down[1] /\ Len(down) \in Nat /\ Len(down) > 0
      /\ Len(down') = Len(down) - 1
      /\ \A k \in 1..Len(down') : down'[k] = down[k + 1]
  <2> DEFINE S == Number \X Call
  <2>1. down \in Seq(S)
    BY DEF Inv, TypeOK
  <2> HIDE DEF S
  <2> QED
    BY <1>1, <2>1, TailFacts
<1>3. PICK c \in Call : Head(down)[1] = id[c] /\ down[1][2] = c /\ id[c] # 0
  <2>1. 1 \in 1..Len(down) /\ down[1][2] \in Call
    BY <1>2 DEF Inv, TypeOK
  <2> QED
    BY <1>2, <2>1 DEF Inv, DownInv, Written
<1>4. 1 \in Answers(c)
  BY <1>2, <1>3 DEF Answers
<1>5. /\ AtMostOne(Answers(c)) /\ Asks(c) = {} /\ Runs(c) = {}
      /\ call[c] = "waiting"
  BY <1>1, <1>4 DEF OnePlace
<1>6. call' = [call EXCEPT ![c] = "answered"]
  BY <1>3, <1>5, CallOfId DEF ReadResponse, Inv
<1>7. Answers(c)' = {}
  <2> SUFFICES ASSUME NEW k \in Answers(c)' PROVE FALSE
    OBVIOUS
  <2>1. k + 1 \in Answers(c) /\ k + 1 # 1
    BY <1>2 DEF Answers
  <2> QED
    BY <1>4, <1>5, <2>1 DEF AtMostOne
<1>8. ASSUME NEW d \in Call \ {c}
      PROVE  AtMostOne(Answers(d))' /\ (Answers(d)' = {} <=> Answers(d) = {})
  <2>1. \A k : k \in Answers(d)' <=> k \in 1..Len(down') /\ k + 1 \in Answers(d)
    BY <1>2 DEF Answers
  <2>2. \A k \in Answers(d) : k \in 1..Len(down) /\ k # 1
    BY <1>3 DEF Answers
  <2>3. AtMostOne(Answers(d))
    BY <1>1 DEF OnePlace
  <2>4. \A k \in Answers(d) : k - 1 \in Answers(d)'
    BY <1>2, <2>1, <2>2
  <2> QED
    BY <1>2, <2>1, <2>3, <2>4 DEF AtMostOne
<1>9. /\ \A d \in Call : Asks(d)' = Asks(d) /\ Runs(d)' = Runs(d)
      /\ \A d \in Call \ {c} : call'[d] = call[d]
      /\ call'[c] = "answered"
  BY <1>1, <1>6 DEF Asks, Runs, Inv, TypeOK
<1>10. \A d \in Call \ {c} :
          /\ AtMostOne(Asks(d))' /\ (Asks(d)' = {} <=> Asks(d) = {})
          /\ AtMostOne(Runs(d))' /\ (Runs(d)' = {} <=> Runs(d) = {})
          /\ AtMostOne(Answers(d))' /\ (Answers(d)' = {} <=> Answers(d) = {})
          /\ call'[d] = call[d]
  BY <1>1, <1>8, <1>9, Same
<1>11. AtMostOne(Asks(c))' /\ AtMostOne(Runs(c))' /\ AtMostOne(Answers(c))'
  BY <1>5, <1>7, <1>9 DEF AtMostOne
<1>12. Asks(c)' = {} /\ Runs(c)' = {}
  BY <1>5, <1>9
<1> QED
  BY <1>1, <1>7, <1>9, <1>10, <1>11, <1>12, Elsewhere

(* No call is lost and none is answered twice, for any number of calls. *)
THEOREM CallsInOnePlace == Spec => []OnePlace
<1>1. Init => OnePlace
  BY DEF Init, OnePlace, Asks, Runs, Answers, AtMostOne
<1>2. ASSUME Inv, OnePlace, [Next]_vars PROVE OnePlace'
  <2>1. ASSUME NEW c \in Call, Refuse(c) PROVE OnePlace'
    <3>1. shut' = TRUE
      BY <1>2, <2>1 DEF Refuse, Inv, TypeOK
    <3> QED
      BY <3>1 DEF OnePlace
  <2>2. CASE ReadInvalid \/ Kill
    BY <2>2 DEF ReadInvalid, Kill, Shutdown, OnePlace
  <2>3. CASE ReadRequestHeader \/ Handler
    <3>1. CASE shut
      <4>1. shut' = shut
        BY <2>3 DEF ReadRequestHeader, Handler, Returns, HubFails, WriteResponse, client
      <4> QED
        BY <3>1, <4>1 DEF OnePlace
    <3>2. CASE ~ shut
      BY <1>2, <2>3, <3>2, OneReadRequest, OneResponse DEF Handler, Returns, HubFails
    <3> QED
      BY <3>1, <3>2
  <2>4. CASE UNCHANGED vars
    <3>1. UNCHANGED <<up, id, running, down, call, shut>>
      BY <2>4 DEF vars, client, server
    <3>2. \A c \in Call : Asks(c)' = Asks(c) /\ Runs(c)' = Runs(c) /\ Answers(c)' = Answers(c)
      BY <3>1 DEF Asks, Runs, Answers
    <3> QED
      BY <1>2, <3>1, <3>2 DEF OnePlace, AtMostOne
  <2> QED
    BY <1>2, <2>1, <2>2, <2>3, <2>4, OneRegister, OneReadResponse DEF Next
<1> QED
  BY <1>1, <1>2, Invariant, PTL DEF Spec

=============================================================================
