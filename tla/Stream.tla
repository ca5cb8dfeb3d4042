------------------------------- MODULE Stream -------------------------------
(***************************************************************************)
(* What one direction of a forwarded connection promises: the bytes that   *)
(* are read at one end are delivered at the other in their order, and the  *)
(* end of the stream is passed on when all of them have been.  Only an     *)
(* application that aborts its connection does not get what was sent to    *)
(* it.  Channel implements two of these.                                   *)
(***************************************************************************)
EXTENDS Naturals, Sequences

CONSTANT Bytes    \* how much the sending application writes at most

VARIABLES
    read,         \* how many bytes have been read from the sender
    delivered,    \* the bytes written to the receiver
    state         \* "open", "ended", or "broken" by the receiver

vars == <<read, delivered, state>>

Init == read = 0 /\ delivered = <<>> /\ state = "open"

Read ==
    /\ state # "ended"
    /\ read' \in (read + 1)..Bytes
    /\ UNCHANGED <<delivered, state>>

Deliver ==
    /\ state = "open"
    /\ \E n \in (Len(delivered) + 1)..read : delivered' = [i \in 1..n |-> i]
    /\ UNCHANGED <<read, state>>

End ==
    /\ state = "open" /\ Len(delivered) = read
    /\ state' = "ended"
    /\ UNCHANGED <<read, delivered>>

Break == state' = "broken" /\ UNCHANGED <<read, delivered>>

Next == Read \/ Deliver \/ End \/ Break

Spec == Init /\ [][Next]_vars
=============================================================================
