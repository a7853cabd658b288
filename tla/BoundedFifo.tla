----------------------------- MODULE BoundedFifo -----------------------------
(***************************************************************************)
(* What d_datas.h promises of the data buffer between the receivers and    *)
(* the database writer: a first-in first-out queue of bounded capacity.    *)
(***************************************************************************)
EXTENDS Naturals, Sequences

CONSTANTS Item, Capacity

VARIABLE queue

Init == queue = <<>>

\* put_data_item_in_buffer returns 0 (1 when full, and nothing happens).
Put(x) == Len(queue) < Capacity /\ queue' = Append(queue, x)

\* get_data_item_from_buffer returns 0 (1 when empty, and nothing happens).
Get == queue # <<>> /\ queue' = Tail(queue)

Next == Get \/ \E x \in Item : Put(x)

Spec == Init /\ [][Next]_queue
=============================================================================
