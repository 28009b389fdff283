----------------------------- MODULE BlockStream -----------------------------
(***************************************************************************)
(* What a streaming response promises its client, whatever produces it:    *)
(* after message_start, blocks with fresh indexes, deltas and stops only   *)
(* for open blocks of the same kind, and an end only after message_stop,   *)
(* with every block closed.  The client may leave at any time.             *)
(***************************************************************************)
EXTENDS StreamContract

VARIABLE client

EventTypes == {"message_start", "message_delta", "message_stop", "error",
               "content_block_start", "content_block_delta", "content_block_stop"}

Init == client = NewClient

\* An event is received, which the client then keeps as its last one.
Receive(e) == e.type \in EventTypes /\ Legal(client, e) /\ client' = After(client, e)

Ends == client.over = "no" /\ Complete(client) /\ client' = [client EXCEPT !.over = "ended"]
Leaves == client.over = "no" /\ client' = [client EXCEPT !.over = "left"]

Next == Receive(client'.last) \/ Ends \/ Leaves
Spec == Init /\ [][Next]_client
=============================================================================
