----------------------------- MODULE MCStartups -----------------------------
(* Instances of Startups for TLC. *)
EXTENDS Startups, TLC

CONSTANTS c1, c2, c3, host1, host2

TwoClients == {c1, c2}
ThreeClients == {c1, c2, c3}
Hosts == {host1, host2}
HostOf == [c \in Clients |-> IF c = c3 THEN host2 ELSE host1]

(* The clients of one host are interchangeable; used without liveness.     *)
Symmetry == Permutations({c1, c2})
=============================================================================
