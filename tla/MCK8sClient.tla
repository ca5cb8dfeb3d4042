---------------------------- MODULE MCK8sClient ----------------------------
(***************************************************************************)
(* Small instances of K8sClient for TLC.                                   *)
(***************************************************************************)
EXTENDS K8sClient, TLC

CONSTANTS u1, u2, f1, f2, p1, p2, i1, i2

OneUser  == {u1}
TwoUsers == {u1, u2}
OnePod   == {p1}
TwoPods  == {p1, p2}
OneIP    == {i1}
TwoIPs   == {i1, i2}
NoForeign  == {}
OneForeign == {f1}
TwoForeign == {f1, f2}

PodSymmetry == Permutations(Pods) \cup Permutations(IPs)

(* Nothing is changed by hand. *)
NoEdits == {}

(* Foreign Services are given any state at all; primaries are deleted or   *)
(* lose their annotation.                                                  *)
AnyEdit ==
    (Foreign \X ServiceStates)
        \cup {<<Primary(u), s>> : u \in Users, s \in {Absent, Plain}}

(* Foreign Services come to announce a hostname and are never deleted. *)
NoDeletion == Foreign \X (ServiceStates \ {Absent})

(* A foreign Service announces a hostname, loses its type or the suffix of *)
(* the annotation, and is deleted.                                         *)
TagThenDelete == Foreign \X (ServiceStates \ {Plain})
=============================================================================
