--------------------------- MODULE RouteRegister ---------------------------
(***************************************************************************)
(* What the CMXsafe gateway layer promises about the two routes of a user: *)
(* the North-South route (the EndpointSlice behind dynamic-service-<u>)    *)
(* and the East-West route (the ExternalName Service <u>).  A route names  *)
(* a login of that very user and the address of the gateway Pod on which   *)
(* the login took place, and it only ever moves to a later login.  The two *)
(* routes of a user move independently of each other.                      *)
(***************************************************************************)
EXTENDS Naturals, Sequences

CONSTANTS Users, Pods, IPs, NoUser, NoIP

VARIABLES
    ipOf,     \* ipOf[p]: the address of Pod p, NoIP before it has one
    logins,   \* the logins that have taken place, in order
    ns,       \* ns[u]: login and address of the North-South route of u
    ew        \* ew[u]: login and address of the East-West route of u

rvars == <<ipOf, logins, ns, ew>>

NoRoute == [login |-> 0, ip |-> NoIP]

RInit ==
    /\ ipOf = [p \in Pods |-> NoIP]
    /\ logins = <<>>
    /\ ns = [u \in Users |-> NoRoute]
    /\ ew = [u \in Users |-> NoRoute]

(* A Pod keeps the address it was given. *)
AssignIP(p, ip) ==
    /\ ipOf[p] = NoIP
    /\ ipOf' = [ipOf EXCEPT ![p] = ip]
    /\ UNCHANGED <<logins, ns, ew>>

LogIn(p, u) ==
    /\ ipOf[p] # NoIP
    /\ logins' = Append(logins, [pod |-> p, user |-> u])
    /\ UNCHANGED <<ipOf, ns, ew>>

(* Login n may follow route as the route of u. *)
Follows(u, route, n) ==
    /\ n > route.login
    /\ logins[n].user = u

RouteTo(n) == [login |-> n, ip |-> ipOf[logins[n].pod]]

PublishNS(u) ==
    /\ \E n \in DOMAIN logins :
         /\ Follows(u, ns[u], n)
         /\ ns' = [ns EXCEPT ![u] = RouteTo(n)]
    /\ UNCHANGED <<ipOf, logins, ew>>

PublishEW(u) ==
    /\ \E n \in DOMAIN logins :
         /\ Follows(u, ew[u], n)
         /\ ew' = [ew EXCEPT ![u] = RouteTo(n)]
    /\ UNCHANGED <<ipOf, logins, ns>>

RNext ==
    \/ \E p \in Pods, ip \in IPs : AssignIP(p, ip)
    \/ \E p \in Pods, u \in Users \cup {NoUser} : LogIn(p, u)
    \/ \E u \in Users : PublishNS(u) \/ PublishEW(u)

RSpec == RInit /\ [][RNext]_rvars
=============================================================================
