-------------------------------- MODULE Mpsc --------------------------------
(***************************************************************************)
(* A bounded tokio::sync::mpsc channel (external), as the capture pipeline *)
(* uses it: `q` holds what was sent and not yet received, `tx` says that   *)
(* the sender is alive, `rx` that the receiver is.  A send waits for room  *)
(* and fails once the receiver is gone; a receive waits for an element and *)
(* yields None once the sender is gone and the queue is empty.             *)
(***************************************************************************)
EXTENDS Naturals, Sequences

NewChan == [q |-> <<>>, tx |-> TRUE, rx |-> TRUE]

CanSend(ch, capacity) == ch.rx /\ Len(ch.q) < capacity
Push(ch, x) == [ch EXCEPT !.q = Append(@, x)]
Pop(ch) == [ch EXCEPT !.q = Tail(@)]
DropTx(ch) == [ch EXCEPT !.tx = FALSE]
\* Dropping the receiver drops whatever it had not received.
DropRx(ch) == [ch EXCEPT !.rx = FALSE, !.q = <<>>]
\* recv() would yield None.
AtEnd(ch) == ch.q = <<>> /\ ~ch.tx
=============================================================================
