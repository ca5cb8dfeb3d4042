------------------------------ MODULE Delivery ------------------------------
(***************************************************************************)
(* The gateway layer as a whole: the sessions of RemoteForward, and the    *)
(* routes their logins lead to.  The client of the cluster is present by   *)
(* what it promises, RouteRegister, which K8sClient implements; a Pod is   *)
(* known by its address.  The question is whether what connects to the     *)
(* name of a server reaches the Pod on which that server is listened for.  *)
(***************************************************************************)
EXTENDS RemoteForward

VARIABLES
    logins,    \* the logins the client has been told of
    ns, ew,    \* the routes of each agent
    nsDone, ewDone   \* the login of each agent that was dealt with last

done == <<nsDone, ewDone>>
routes == <<logins, ns, ew, done>>

Client == INSTANCE RouteRegister WITH
    Users <- Agents, IPs <- Pods, NoUser <- NoAgent, NoIP <- NoPod,
    ipOf <- [p \in Pods |-> p]

DInit ==
    /\ Init
    /\ logins = <<>>
    /\ ns = [a \in Agents |-> Client!NoRoute]
    /\ ew = [a \in Agents |-> Client!NoRoute]
    /\ nsDone = [a \in Agents |-> 0] /\ ewDone = [a \in Agents |-> 0]

(* The forced command is the login: createservice.sh calls logger, and     *)
(* Tetragon reports it with the Pod and the user.                          *)
Reports(n) == Client!LogIn(pod[n], agent[n]) /\ UNCHANGED done

Session ==
    \/ \E n \in Slots : RunForcedCommand(n) /\ Reports(n)
    \/ /\ Next /\ \A n \in Slots : ~RunForcedCommand(n)
       /\ UNCHANGED routes

(* The client takes the logins as they come, none a second time, and for   *)
(* each the North-South route before the East-West one.                    *)
PublishNS(a) ==
    /\ nsDone[a] = ewDone[a]
    /\ Client!PublishNS(a) /\ ns'[a].login > nsDone[a]
    /\ nsDone' = [nsDone EXCEPT ![a] = ns'[a].login]
    /\ UNCHANGED <<vars, ewDone>>

PublishEW(a) ==
    /\ ewDone[a] < nsDone[a]
    /\ Client!PublishEW(a) /\ ew'[a].login = nsDone[a]
    /\ ewDone' = [ewDone EXCEPT ![a] = nsDone[a]]
    /\ UNCHANGED <<vars, nsDone>>

(* Both routes miss a login whose Pod is not known by its address yet      *)
(* (main.go:450), one on which a Service could not be stripped of its      *)
(* hostname (main.go:456), and one reported while the client was not       *)
(* running (main.go:440); one route misses a login when the calls that     *)
(* write it fail (main.go:459-466).                                        *)
MissNS(a) ==
    /\ nsDone[a] = ewDone[a]
    /\ \E n \in DOMAIN logins :
         /\ logins[n].user = a /\ n > nsDone[a]
         /\ nsDone' = [nsDone EXCEPT ![a] = n]
    /\ UNCHANGED <<vars, logins, ns, ew, ewDone>>

MissEW(a) ==
    /\ ewDone[a] < nsDone[a]
    /\ ewDone' = [ewDone EXCEPT ![a] = nsDone[a]]
    /\ UNCHANGED <<vars, logins, ns, ew, nsDone>>

DNext ==
    \/ Session
    \/ \E a \in Agents : PublishNS(a) \/ PublishEW(a) \/ MissNS(a) \/ MissEW(a)

(* A login is published, or missed, in the end: AcceptedLoginPublished of  *)
(* K8sClient.                                                              *)
DFairness ==
    /\ Fairness
    /\ \A a \in Agents :
         /\ WF_<<vars, routes>>(PublishNS(a) \/ MissNS(a))
         /\ WF_<<vars, routes>>(PublishEW(a) \/ MissEW(a))

DSpec == DInit /\ [][DNext]_<<vars, routes>> /\ DFairness
-----------------------------------------------------------------------------
Leads(route, n) == route.ip = pod[n]

(* All logins of a have been published in route.                           *)
CaughtUp(a, route) ==
    \A i \in DOMAIN logins : logins[i].user = a => i <= route.login

(* A route that has followed its server's logins leads to the Pod that     *)
(* holds the listener, whatever has failed before: the login reported last *)
(* is not one that an earlier session left behind to be executed late      *)
(* (serverloop.c, server_input_channel_req), so that the route which       *)
(* main.go writes for it is right, the North-South and the East-West one.  *)
RouteLeadsToServer ==
    \A a \in Agents, n \in Slots : \A route \in {ns[a], ew[a]} :
        agent[n] = a /\ Served(n) /\ CaughtUp(a, route) => listening[n] /\ Leads(route, n)

(* The latest login of a has been dealt with, but not published in route.  *)
LatestMissed(a, route, last) == CaughtUp(a, [login |-> last]) /\ route.login # last

(* Whatever fails, in the end each route of every server leads for good to *)
(* the Pod that holds its listener: the loop of start.sh gets the session  *)
(* back, no late login of an earlier session has the last word             *)
(* (serverloop.c, server_input_channel_req), and main.go's routes, which   *)
(* only ever follow logins, follow the right one - all but a route that    *)
(* missed the latest login, which no other has to follow.                  *)
DeliveredInTheEnd ==
    \A a \in Agents :
        <>[](\E n \in Slots :
                /\ agent[n] = a /\ Served(n) /\ listening[n]
                /\ Leads(ns[a], n) \/ LatestMissed(a, ns[a], nsDone[a])
                /\ Leads(ew[a], n) \/ LatestMissed(a, ew[a], ewDone[a]))
=============================================================================
