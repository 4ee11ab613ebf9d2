-------------------------------- MODULE Fifo --------------------------------
(* What utils.Queue promises: a sequence that grows at one end and shrinks at
   the other. Remove panics when it is empty.                              *)
EXTENDS Sequences

CONSTANTS Elem, None

VARIABLES
  items,  \* the elements of the queue, oldest first
  ret     \* what the last Remove returned, None if it panicked

Init == items = <<>> /\ ret = None

Add(e) == items' = Append(items, e) /\ UNCHANGED ret

Remove ==
  /\ items # <<>>
  /\ ret' = Head(items)
  /\ items' = Tail(items)

RemoveEmpty ==
  /\ items = <<>>
  /\ ret' = None
  /\ UNCHANGED items

Next == Remove \/ RemoveEmpty \/ \E e \in Elem : Add(e)

Spec == Init /\ [][Next]_<<items, ret>>
=============================================================================
