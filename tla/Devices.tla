------------------------------ MODULE Devices ------------------------------
(***************************************************************************)
(* The IoT devices, and with them the whole path: each runs ssh -L in an   *)
(* endless loop, to the hostname of its server from outside the cluster    *)
(* (iot_device_1), or by a jump through the gateway Service to the name    *)
(* inside (iot_device_2); its publisher connects anew for ever to the port *)
(* that ssh listens on.  Names are resolved as the routes say; a forwarded *)
(* connection gets through when the server is listened for on the Pod in   *)
(* which the session ends, and is refused otherwise.                       *)
(***************************************************************************)
EXTENDS Delivery

CONSTANTS
    Devices,
    Server,    \* Server[d]: the agent of the server the device publishes to
    Jumps      \* the devices that come through a jump host

ASSUME DeviceAssumption == Server \in [Devices -> Agents] /\ Jumps \subseteq Devices

VARIABLES
    session,   \* session[d]: "away", "joined", or "lost" with its Pod
    at,        \* at[d]: the Pod in which it ends
    via        \* via[d]: the Pod of the jump host

devices == <<session, at, via>>
allVars == <<vars, routes, devices>>

CInit ==
    /\ DInit
    /\ session = [d \in Devices |-> "away"]
    /\ at = [d \in Devices |-> NoPod] /\ via = [d \in Devices |-> NoPod]

RouteOf(d) == IF d \in Jumps THEN ew[Server[d]] ELSE ns[Server[d]]

JumpHosts(d) == IF d \in Jumps THEN {p \in Pods : up[p]} ELSE {NoPod}

(* Variant: the device ends its session at the jump host. *)
JoinsVariant(d) ==
    /\ session[d] = "away"
    /\ \E p \in Pods, j \in JumpHosts(d) :
         /\ up[p] /\ RouteOf(d).ip = p
         /\ at' = [at EXCEPT ![d] = j]
         /\ via' = [via EXCEPT ![d] = j]
    /\ session' = [session EXCEPT ![d] = "joined"]
    /\ UNCHANGED <<vars, routes>>

(* A turn of the loop that gets as far as authentication; -N asks for no   *)
(* session channel, so that there is no forced command and no login.       *)
Joins(d) ==
    /\ session[d] = "away"
    /\ \E p \in Pods, j \in JumpHosts(d) :
         /\ up[p] /\ RouteOf(d).ip = p
         /\ at' = [at EXCEPT ![d] = p]
         /\ via' = [via EXCEPT ![d] = j]
    /\ session' = [session EXCEPT ![d] = "joined"]
    /\ UNCHANGED <<vars, routes>>

(* ssh ends: with its host or its container, or because nothing was heard  *)
(* of sshd for serveraliveinterval.                                        *)
Leaves(d) ==
    /\ session[d] # "away"
    /\ session' = [session EXCEPT ![d] = "away"]
    /\ at' = [at EXCEPT ![d] = NoPod]
    /\ via' = [via EXCEPT ![d] = NoPod]
    /\ UNCHANGED <<vars, routes>>

(* The sessions that pass through a Pod are lost with it.                  *)
Lost(d) ==
    /\ session[d] = "joined"
    /\ \E p \in Pods \cap {at[d], via[d]} : up[p] /\ ~up'[p]

Gateway ==
    /\ DNext
    /\ session' = [d \in Devices |-> IF Lost(d) THEN "lost" ELSE session[d]]
    /\ at' = [d \in Devices |-> IF Lost(d) THEN NoPod ELSE at[d]]
    /\ via' = [d \in Devices |-> IF Lost(d) THEN NoPod ELSE via[d]]

CNext == Gateway \/ \E d \in Devices : Joins(d) \/ Leaves(d)

(* ssh leaves an sshd that has gone (SilentServerLeft of Keepalive).  It   *)
(* never leaves one that answers: a connection that is refused is input,   *)
(* too, and the publisher has one refused every few seconds.               *)
CSpec ==
    /\ CInit /\ [][CNext]_allVars /\ DFairness
    /\ \A d \in Devices :
         /\ WF_allVars(Joins(d))
         /\ WF_allVars(session[d] = "lost" /\ Leaves(d))
-----------------------------------------------------------------------------
(* What the device publishes arrives at its server.                        *)
Reaches(d) ==
    /\ session[d] = "joined"
    /\ \E n \in Slots :
         agent[n] = Server[d] /\ pod[n] = at[d] /\ Served(n) /\ listening[n]

(* The route that the device takes has missed its server's latest login.   *)
RouteMissed(d) ==
    LatestMissed(Server[d], RouteOf(d), (IF d \in Jumps THEN ewDone ELSE nsDone)[Server[d]])

(* The device and its server meet on one Pod, again and again, whatever    *)
(* the faults (README.md: session affinity and the dynamic Service see to  *)
(* it), while the route has the server's latest login.  They need not: a   *)
(* session to the Pod that the server has left is kept up by the refusals  *)
(* of that Pod's sshd.                                                     *)
DeviceServed == \A d \in Devices : []<>(Reaches(d) \/ RouteMissed(d))

(* A device whose sessions end again and again does meet its server again  *)
(* and again: every turn of its loop asks the routes, and these have       *)
(* followed the server (main.go, patchEndpointSlice and handleEWService) - *)
(* unless the route has missed the server's latest login, and with it the  *)
(* server until it logs in once more (main.go:450).                        *)
DeviceServedAgain ==
    \A d \in Devices :
        []<>(session[d] = "away") => []<>(Reaches(d) \/ RouteMissed(d))
=============================================================================
