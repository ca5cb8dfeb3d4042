------------------------------ MODULE KubeAPI ------------------------------
(***************************************************************************)
(* The cluster as cluster/k8s-client/main.go meets it: the Services, the   *)
(* EndpointSlices and the gateway Pods kept by the Kubernetes API server,  *)
(* and the watch streams that tell the client's two informers about them.  *)
(* The API server is not part of the repository; everything here is        *)
(* modelled from the calls main.go makes and the handlers it registers.    *)
(*                                                                         *)
(* A Service is named by a reference.  The Service the client creates for  *)
(* user u, default/dynamic-service-<u>, has the reference u itself; every  *)
(* other Service that may carry a hostname annotation is in Foreign.       *)
(*                                                                         *)
(* Of a Service's annotation and type only what main.go tests is kept:     *)
(* key, the annotation without ".myservices.local" (NoUser when it is      *)
(* missing or names none of the users), and whether isManaged accepts it.  *)
(* A "tagged" Service has the key of a user and is not managed: its type   *)
(* is not LoadBalancer, or its annotation lacks the suffix.                *)
(***************************************************************************)
EXTENDS Naturals, Sequences, FiniteSets

CONSTANTS
    Users,           \* accounts whose login runs createservice.sh
    Foreign,         \* Services that are not the primary of a user
    Pods,            \* names of gateway Pods, never reused
    IPs,             \* addresses of the Pod network, reused
    NoUser,          \* no user name, or no hostname annotation
    NoIP,            \* the empty address
    OperatorEdits,   \* pairs <<r, s>>: r may be put in state s by hand
    MaxOperator      \* bound on changes made by hand or by MetalLB

Refs == Users \cup Foreign

(* The primary Service of u: main.go, "primary := defaultNS + ...". *)
Primary(u) == u

Absent        == [kind |-> "absent", key |-> NoUser]
Plain         == [kind |-> "plain",  key |-> NoUser]
Tagged(u)     == [kind |-> "tagged", key |-> u]
Announcing(u) == [kind |-> "managed", key |-> u]

ServiceStates ==
    {Absent, Plain} \cup {Tagged(u) : u \in Users}
                    \cup {Announcing(u) : u \in Users}

IsManaged(s) == s.kind = "managed"

(* Nobody announces the hostname of another user on the primary of u. *)
PrimaryStates(u) == {Absent, Plain, Announcing(u)}

ASSUME KubeAssumption ==
    /\ NoUser \notin Users
    /\ NoIP \notin IPs
    /\ Users \cap Foreign = {}
    /\ OperatorEdits \subseteq Refs \X ServiceStates
    /\ \A u \in Users, s \in ServiceStates :
         <<Primary(u), s>> \in OperatorEdits => s \in PrimaryStates(u)
    /\ MaxOperator \in Nat

VARIABLES
    svc,            \* svc[r]: the Service r, or Absent
    svcWatch,       \* svcWatch[r]: changes of r the informer has not handled
    slice,          \* slice[u]: address in EndpointSlice <u>-slice, or NoIP
    ew,             \* ew[u]: address named by Service <u>, or NoIP
    podPhase,       \* life of a gateway Pod
    ipOf,           \* address a Pod was given, kept after its end
    podWatch,       \* podWatch[p]: addresses the informer has not handled
    operatorSteps   \* counts the changes bounded by MaxOperator

svcVars   == <<svc, svcWatch>>
podVars   == <<podPhase, ipOf, podWatch>>
routeVars == <<slice, ew>>
kubeVars  == <<svcVars, podVars, routeVars, operatorSteps>>

Phases == {"absent", "pending", "running", "deleted"}

SvcEvent == [old : ServiceStates, new : ServiceStates]

KubeTypeOK ==
    /\ svc \in [Refs -> ServiceStates]
    /\ svcWatch \in [Refs -> Seq(SvcEvent)]
    /\ slice \in [Users -> IPs \cup {NoIP}]
    /\ ew \in [Users -> IPs \cup {NoIP}]
    /\ podPhase \in [Pods -> Phases]
    /\ ipOf \in [Pods -> IPs \cup {NoIP}]
    /\ podWatch \in [Pods -> Seq(IPs \cup {NoIP})]
    /\ operatorSteps \in 0 .. MaxOperator

KubeInit ==
    /\ svc = [r \in Refs |-> Absent]
    /\ svcWatch = [r \in Refs |-> <<>>]
    /\ slice = [u \in Users |-> NoIP]
    /\ ew = [u \in Users |-> NoIP]
    /\ podPhase = [p \in Pods |-> "absent"]
    /\ ipOf = [p \in Pods |-> NoIP]
    /\ podWatch = [p \in Pods |-> <<>>]
    /\ operatorSteps = 0

-----------------------------------------------------------------------------
(* Services.  A write that changes nothing produces no watch event.        *)

Exists(r) == svc[r].kind # "absent"

Notify(r, s) ==
    svcWatch' = [svcWatch EXCEPT ![r] = Append(@, [old |-> svc[r], new |-> s])]

SetService(r, s) ==
    /\ svc' = [svc EXCEPT ![r] = s]
    /\ IF s = svc[r] THEN UNCHANGED svcWatch ELSE Notify(r, s)

(* Someone other than the client creates, edits or deletes a Service. *)
OperatorSets(r, s) ==
    /\ operatorSteps < MaxOperator
    /\ <<r, s>> \in OperatorEdits
    /\ s # svc[r]
    /\ SetService(r, s)
    /\ operatorSteps' = operatorSteps + 1
    /\ UNCHANGED <<podVars, routeVars>>

(* An update that leaves type and annotation alone, as when MetalLB writes  *)
(* the status: the informer sees the same key before and after.            *)
StatusUpdate(r) ==
    /\ operatorSteps < MaxOperator
    /\ svc[r].key # NoUser
    /\ Notify(r, svc[r])
    /\ operatorSteps' = operatorSteps + 1
    /\ UNCHANGED <<svc, podVars, routeVars>>

-----------------------------------------------------------------------------
(* Pods of the cmxsafe-gw Deployment.                                      *)

NotifyPod(p, ip) == podWatch' = [podWatch EXCEPT ![p] = Append(@, ip)]

PodCreated(p) ==
    /\ podPhase[p] = "absent"
    /\ podPhase' = [podPhase EXCEPT ![p] = "pending"]
    /\ NotifyPod(p, NoIP)
    /\ UNCHANGED <<ipOf, svcVars, routeVars, operatorSteps>>

(* The Pod network hands out any address no running Pod holds. *)
PodRuns(p, ip) ==
    /\ podPhase[p] = "pending"
    /\ \A q \in Pods : podPhase[q] = "running" => ipOf[q] # ip
    /\ podPhase' = [podPhase EXCEPT ![p] = "running"]
    /\ ipOf' = [ipOf EXCEPT ![p] = ip]
    /\ NotifyPod(p, ip)
    /\ UNCHANGED <<svcVars, routeVars, operatorSteps>>

(* A DELETED event removes the cache entry, and lookupPodIP answers the    *)
(* same "" for a missing entry as for a Pod without an address.            *)
PodDeleted(p) ==
    /\ podPhase[p] \in {"pending", "running"}
    /\ podPhase' = [podPhase EXCEPT ![p] = "deleted"]
    /\ NotifyPod(p, NoIP)
    /\ UNCHANGED <<ipOf, svcVars, routeVars, operatorSteps>>

(* What a fresh informer is told first: every object that exists. *)
ListedServices ==
    [r \in Refs |-> IF Exists(r) THEN <<[old |-> Absent, new |-> svc[r]]>>
                                 ELSE <<>>]

ListedPods ==
    [p \in Pods |-> IF podPhase[p] \in {"pending", "running"}
                    THEN <<ipOf[p]>> ELSE <<>>]
=============================================================================
