------------------------------- MODULE Queue -------------------------------
(***************************************************************************)
(* utils.Queue: a ring buffer whose length is doubled when it is full and  *)
(* halved when it is a quarter full. Indices wrap by masking with the      *)
(* length less one, which is a modulus for powers of two only.             *)
(***************************************************************************)
EXTENDS Integers, Sequences, FiniteSets

CONSTANTS
  Elem,      \* the elements
  None,      \* Go's nil
  MinLen,    \* minQueueLen
  MaxCount   \* bound: elements in the queue

Pow2[k \in Nat] == IF k = 0 THEN 1 ELSE 2 * Pow2[k - 1]

IsPow2(n) == \E k \in 0..n : n = Pow2[k]

ASSUME QueueAssumption ==
  /\ None \notin Elem
  /\ MinLen \in Nat /\ MinLen > 1 /\ IsPow2(MinLen)   \* "Must be power of 2"
  /\ MaxCount \in Nat

VARIABLES buf, head, tail, count, ret

vars == <<buf, head, tail, count, ret>>

Size(b) == Cardinality(DOMAIN b)

Init ==
  /\ buf = [i \in 0..(MinLen - 1) |-> None]
  /\ head = 0
  /\ tail = 0
  /\ count = 0
  /\ ret = None

(* x & y of Go: the last binary digit of x and y, and the others. *)
And[x \in Nat] == [y \in Nat |->
  IF x = 0 THEN 0
  ELSE (IF x % 2 = 1 /\ y % 2 = 1 THEN 1 ELSE 0) + 2 * And[x \div 2][y \div 2]]

Wrap(i, b) == And[i][Size(b) - 1]

(* buf[from:upto] as a sequence. *)
Slice(b, from, upto) == [i \in 1..(upto - from) |-> b[from + i - 1]]

(* Mutant of Copied: a full buffer is taken for one that does not wrap. *)
CopiedFull(b, h, t) ==
  IF t >= h THEN Slice(b, h, t) ELSE Slice(b, h, Size(b)) \o Slice(b, 0, t)

(* The two copies of resize: the rest of a buffer that does not wrap, or its
   end and its beginning. h and t are head and tail when it is called.      *)
Copied(b, h, t) ==
  IF t > h THEN Slice(b, h, t) ELSE Slice(b, h, Size(b)) \o Slice(b, 0, t)

Resized(b, h, t, n) ==
  LET c == Copied(b, h, t) IN
    [i \in 0..(2 * n - 1) |-> IF i < Len(c) THEN c[i + 1] ELSE None]

(* Append at the tail, of a buffer that has room for it. *)
Put(b, t, e) ==
  /\ buf' = [b EXCEPT ![t] = e]
  /\ tail' = Wrap(t + 1, b)
  /\ count' = count + 1
  /\ UNCHANGED ret

Add(e) ==
  /\ count < MaxCount
  /\ \/ /\ count # Size(buf)
        /\ Put(buf, tail, e)
        /\ UNCHANGED head
     \/ /\ count = Size(buf)
        /\ Put(Resized(buf, head, tail, count), count, e)
        /\ head' = 0

(* Mutant of Quarter: it is tested before the count goes down. *)
QuarterLate(n, b) == Size(b) > MinLen /\ 4 * (n + 1) = Size(b)

Quarter(n, b) == Size(b) > MinLen /\ 4 * n = Size(b)

(* Mutant of Remove: the slot is not cleared. *)
RemoveKeeps ==
  LET h == Wrap(head + 1, buf)
      n == count - 1
  IN /\ count > 0
     /\ ret' = buf[head]
     /\ count' = n
     /\ \/ /\ ~ Quarter(n, buf)
           /\ head' = h
           /\ UNCHANGED <<buf, tail>>
        \/ /\ Quarter(n, buf)
           /\ buf' = Resized(buf, h, tail, n)
           /\ head' = 0
           /\ tail' = n

(* The buffer is resized when the element that was removed leaves it a
   quarter full.                                                           *)
Remove ==
  LET b == [buf EXCEPT ![head] = None]
      h == Wrap(head + 1, buf)
      n == count - 1
  IN /\ count > 0
     /\ ret' = buf[head]
     /\ count' = n
     /\ \/ /\ ~ Quarter(n, b)
           /\ buf' = b
           /\ head' = h
           /\ UNCHANGED tail
        \/ /\ Quarter(n, b)
           /\ buf' = Resized(b, h, tail, n)
           /\ head' = 0
           /\ tail' = n

(* "queue: Remove() called on empty queue" *)
RemoveEmpty ==
  /\ count <= 0
  /\ ret' = None
  /\ UNCHANGED <<buf, head, tail, count>>

Next == Remove \/ RemoveEmpty \/ \E e \in Elem : Add(e)

Spec == Init /\ [][Next]_vars

(* Get, for both signs of the index; None when it panics. *)
Get(i) ==
  LET j == IF i < 0 THEN i + count ELSE i IN
    IF j < 0 \/ j >= count THEN None ELSE buf[Wrap(head + j, buf)]

Items == [i \in 1..count |-> Get(i - 1)]

-----------------------------------------------------------------------------

TypeOK ==
  /\ IsPow2(Size(buf)) /\ Size(buf) >= MinLen
  /\ buf \in [0..(Size(buf) - 1) -> Elem \cup {None}]
  /\ head \in DOMAIN buf
  /\ tail \in DOMAIN buf
  /\ count \in 0..Size(buf)
  /\ ret \in Elem \cup {None}

(* Whatever was added, removed and resized, in whatever order, the slots in
   use are those from head on, cyclically, and the rest hold nil: a removed
   element is not kept alive by a slot that was missed or copied.          *)
OnlyLiveSlots ==
  {i \in DOMAIN buf : buf[i] # None} = {(head + j) % Size(buf) : j \in 0..(count - 1)}

(* A shrinking buffer stays at least a quarter full, so that adding and
   removing by turns does not resize every time.                           *)
NotTooLarge == Size(buf) > MinLen => 4 * count > Size(buf)

(* The ring buffer is a FIFO sequence, also across a resize. *)
Abstract == INSTANCE Fifo WITH items <- Items

RefinesFifo == Abstract!Spec
=============================================================================
