----------------------------- MODULE MCDevices -----------------------------
(* Instances of Devices for TLC. *)
EXTENDS Devices, TLC

CONSTANTS a1, d1, p1, p2, s1, s2

OneAgent == {a1}
TwoPods == {p1, p2}
TwoSlots == {s1, s2}
OneDevice == {d1}
ServerOfAll == [d \in Devices |-> a1]
NoJumps == {}
=============================================================================
