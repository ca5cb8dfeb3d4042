--------------------------- MODULE DeliveryProofs ---------------------------
(***************************************************************************)
(* Proofs about Delivery and Devices: what RemoteForward promises of the   *)
(* sessions holds of the whole path, and the routes that have followed the *)
(* logins lead to the servers, for any agents, Pods, sessions, devices and *)
(* number of faults.                                                       *)
(***************************************************************************)
EXTENDS Devices, RemoteForwardProofs

LoginBy(a, p) == [pod |-> p, user |-> a]

(* Login i is the latest of a.                                             *)
Latest(a, i) ==
    /\ i \in DOMAIN logins /\ logins[i].user = a
    /\ \A j \in DOMAIN logins : logins[j].user = a => j <= i

(* A route of a is none, or that to the Pod of a login of a.               *)
FollowsLogin(a, route) ==
    \/ route = Client!NoRoute
    \/ \E i \in DOMAIN logins :
         logins[i].user = a /\ route = [login |-> i, ip |-> logins[i].pod]

(* What the client has been told, and what it has made of it.              *)
LoginInv ==
    /\ logins \in Seq([pod : Pods, user : Agents])
    /\ \A a \in Agents :
         lastLogin[a] # NoPod => \E i : Latest(a, i) /\ logins[i].pod = lastLogin[a]
    /\ ns = [a \in Agents |-> ns[a]] /\ ew = [a \in Agents |-> ew[a]]
    /\ \A a \in Agents : FollowsLogin(a, ns[a]) /\ FollowsLogin(a, ew[a])
-----------------------------------------------------------------------------
LEMMA NoLogin ==
    ASSUME [Next]_vars, \A n \in Slots : ~RunForcedCommand(n)
    PROVE  lastLogin' = lastLogin
  <1>1. CASE UNCHANGED vars
    BY <1>1 DEF vars, serverVars
  <1>2. ASSUME NEW n \in Slots,
               ClientStep(n) \/ ServerAliveCheck(n) \/ ProbeClient(n)
        PROVE  lastLogin' = lastLogin
    BY <1>2 DEF ClientStep, ForwardConfirmed, ForwardRefused, ChannelConfirmed, ShellStarted,
                AnswerProbe, ServerClosed, ClientUnchanged, ServerAliveCheck, ProbeClient,
                serverVars
  <1>3. ASSUME NEW n \in Slots, ServerStep(n)
        PROVE  lastLogin' = lastLogin
    BY <1>3 DEF ServerStep, SetUpForward, OpenSession, DisallowSessions, ProbeAnswered,
                ClientClosed, serverVars
  <1>4. ASSUME NEW n \in Slots,
               GiveUp(n) \/ Lose(n) \/ Abandon(n) \/ Cut(n) \/ Heal(n)
        PROVE  lastLogin' = lastLogin
    BY <1>4 DEF GiveUp, Lose, Abandon, Cut, Heal, serverVars
  <1>5. ASSUME NEW a \in Agents, Connect(a) \/ HostCrash(a) \/ AffinityExpires(a)
        PROVE  lastLogin' = lastLogin
    BY <1>5 DEF Connect, HostCrash, AffinityExpires, serverVars
  <1>6. ASSUME NEW p \in Pods, PodCrash(p) \/ PodStart(p)
        PROVE  lastLogin' = lastLogin
    BY <1>6 DEF PodCrash, PodStart, serverVars
  <1> QED BY <1>1, <1>2, <1>3, <1>4, <1>5, <1>6 DEF Next

LEMMA LoginsTyped ==
    ASSUME LoginInv, NEW i \in DOMAIN logins
    PROVE  i \in Nat /\ i >= 1 /\ logins[i].pod \in Pods
  <1> DEFINE S == [pod : Pods, user : Agents]
  <1>1. \A r \in S : r.pod \in Pods
    OBVIOUS
  <1>2. logins \in Seq(S)
    BY DEF LoginInv
  <1> HIDE DEF S
  <1>3. i \in 1..Len(logins) /\ Len(logins) \in Nat
    BY <1>2
  <1>4. logins[i] \in S
    BY <1>2, <1>3
  <1> QED BY <1>1, <1>3, <1>4

(* A login is recorded as the latest of its user.                          *)
LEMMA LoginRecorded ==
    ASSUME LoginInv, NEW a \in Agents, NEW p \in Pods,
           logins' = Append(logins, LoginBy(a, p)),
           lastLogin' = [lastLogin EXCEPT ![a] = p],
           lastLogin \in [Agents -> Pods \union {NoPod}],
           UNCHANGED <<ns, ew>>
    PROVE  LoginInv'
  <1>1. logins \in Seq([pod : Pods, user : Agents]) /\ LoginBy(a, p) \in [pod : Pods, user : Agents]
    BY DEF LoginInv, LoginBy
  <1>2. logins' \in Seq([pod : Pods, user : Agents])
    BY <1>1
  <1>k. PICK k \in Nat : k = Len(logins) + 1
    BY <1>1
  <1>3. /\ Len(logins) \in Nat /\ DOMAIN logins = 1..Len(logins)
        /\ DOMAIN logins' = 1..k
        /\ \A i \in DOMAIN logins : i \in DOMAIN logins' /\ logins'[i] = logins[i] /\ i < k
        /\ \A i \in DOMAIN logins' : i = k \/ i \in DOMAIN logins
        /\ k \in DOMAIN logins' /\ logins'[k] = LoginBy(a, p)
    BY <1>1, <1>k
  <1>4. LoginBy(a, p).user = a /\ LoginBy(a, p).pod = p
    BY DEF LoginBy
  <1>5. ASSUME NEW b \in Agents, lastLogin'[b] # NoPod
        PROVE  \E i : Latest(b, i)' /\ logins'[i].pod = lastLogin'[b]
    <2>1. CASE b = a
      <3>1. \A j \in DOMAIN logins' : j <= k
        BY <1>3
      <3>2. Latest(a, k)'
        BY <1>3, <1>4, <3>1 DEF Latest
      <3> QED BY <1>3, <1>4, <2>1, <3>2
    <2>2. CASE b # a
      <3>1. PICK i : Latest(b, i) /\ logins[i].pod = lastLogin[b]
        BY <1>5, <2>2 DEF LoginInv
      <3>2. Latest(b, i)'
        BY <1>3, <1>4, <2>2, <3>1 DEF Latest
      <3> QED BY <1>3, <2>2, <3>1, <3>2 DEF Latest
    <2> QED BY <2>1, <2>2
  <1>6. \A b, route : FollowsLogin(b, route) => FollowsLogin(b, route)'
    BY <1>3 DEF FollowsLogin, Client!NoRoute
  <1> QED BY <1>2, <1>5, <1>6 DEF LoginInv

LEMMA LoginStep ==
    ASSUME IInv, LoginInv, [DNext]_<<vars, routes>>
    PROVE  LoginInv'
  <1>0. lastLogin \in [Agents -> Pods \union {NoPod}]
    BY DEF IInv, TypeOK
  <1>1. ASSUME UNCHANGED routes, lastLogin' = lastLogin PROVE LoginInv'
    BY <1>1 DEF LoginInv, Latest, FollowsLogin, Client!NoRoute, routes
  <1>2. ASSUME NEW n \in Slots, RunForcedCommand(n), Reports(n) PROVE LoginInv'
    <2>1. agent[n] \in Agents /\ pod[n] \in Pods
      BY <1>2 DEF IInv, RouteInv, RunForcedCommand, ServerReads
    <2>2. /\ logins' = Append(logins, LoginBy(agent[n], pod[n])) /\ UNCHANGED <<ns, ew>>
          /\ lastLogin' = [lastLogin EXCEPT ![agent[n]] = pod[n]]
      BY <1>2 DEF RunForcedCommand, Reports, Client!LogIn, LoginBy
    <2> QED BY <1>0, <2>1, <2>2, LoginRecorded
  <1>3. ASSUME logins' = logins, lastLogin' = lastLogin, NEW a \in Agents,
               NEW nsNew, NEW ewNew, FollowsLogin(a, nsNew), FollowsLogin(a, ewNew),
               ns' = [ns EXCEPT ![a] = nsNew], ew' = [ew EXCEPT ![a] = ewNew]
        PROVE  LoginInv'
    <2>1. \A b, route : FollowsLogin(b, route)' <=> FollowsLogin(b, route)
      BY <1>3 DEF FollowsLogin, Client!NoRoute
    <2>2. \A b \in Agents : FollowsLogin(b, ns[b])' /\ FollowsLogin(b, ew[b])'
      BY <1>3, <2>1 DEF LoginInv
    <2>3. ns' = [b \in Agents |-> ns'[b]] /\ ew' = [b \in Agents |-> ew'[b]]
      BY <1>3 DEF LoginInv
    <2>4. \A b, i : Latest(b, i)' <=> Latest(b, i)
      BY <1>3 DEF Latest
    <2> QED BY <1>3, <2>2, <2>3, <2>4 DEF LoginInv
  <1>4. ASSUME NEW i \in DOMAIN logins PROVE FollowsLogin(logins[i].user, Client!RouteTo(i))
    <2>1. logins[i].pod \in Pods
      BY LoginsTyped
    <2> QED BY <2>1 DEF FollowsLogin, Client!RouteTo
  <1>5. \A a \in Agents : /\ FollowsLogin(a, ns[a]) /\ ns = [ns EXCEPT ![a] = ns[a]]
                          /\ FollowsLogin(a, ew[a]) /\ ew = [ew EXCEPT ![a] = ew[a]]
    BY DEF LoginInv
  <1>6. ASSUME NEW a \in Agents, PublishNS(a) PROVE LoginInv'
    <2>1. /\ logins' = logins /\ lastLogin' = lastLogin /\ ew' = ew
          /\ \E i \in DOMAIN logins :
               logins[i].user = a /\ ns' = [ns EXCEPT ![a] = Client!RouteTo(i)]
      BY <1>6 DEF PublishNS, Client!PublishNS, Client!Follows, vars, serverVars
    <2>2. PICK i \in DOMAIN logins :
            logins[i].user = a /\ ns' = [ns EXCEPT ![a] = Client!RouteTo(i)]
      BY <2>1
    <2>3. FollowsLogin(a, Client!RouteTo(i)) /\ ew' = [ew EXCEPT ![a] = ew[a]]
      BY <1>4, <1>5, <2>1, <2>2
    <2> QED BY <1>3, <1>5, <2>1, <2>2, <2>3
  <1>7. ASSUME NEW a \in Agents, PublishEW(a) PROVE LoginInv'
    <2>1. /\ logins' = logins /\ lastLogin' = lastLogin /\ ns' = ns
          /\ \E i \in DOMAIN logins :
               logins[i].user = a /\ ew' = [ew EXCEPT ![a] = Client!RouteTo(i)]
      BY <1>7 DEF PublishEW, Client!PublishEW, Client!Follows, vars, serverVars
    <2>2. PICK i \in DOMAIN logins :
            logins[i].user = a /\ ew' = [ew EXCEPT ![a] = Client!RouteTo(i)]
      BY <2>1
    <2>3. FollowsLogin(a, Client!RouteTo(i)) /\ ns' = [ns EXCEPT ![a] = ns[a]]
      BY <1>4, <1>5, <2>1, <2>2
    <2> QED BY <1>3, <1>5, <2>1, <2>2, <2>3
  <1>8. ASSUME UNCHANGED <<logins, ns, ew>>, lastLogin' = lastLogin PROVE LoginInv'
    BY <1>8 DEF LoginInv, Latest, FollowsLogin, Client!NoRoute
  <1>9. ASSUME NEW a \in Agents, MissNS(a) \/ MissEW(a) PROVE LoginInv'
    BY <1>8, <1>9 DEF MissNS, MissEW, vars, serverVars
  <1> QED BY <1>1, <1>2, <1>6, <1>7, <1>9, NoLogin DEF DNext, Session, routes, vars, serverVars

LEMMA DeliveryInit == DInit => Init /\ LoginInv
  <1> SUFFICES ASSUME DInit PROVE LoginInv
    BY DEF DInit
  <1>1. <<>> \in Seq([pod : Pods, user : Agents])
    OBVIOUS
  <1>2. \A a \in Agents : lastLogin[a] = NoPod
    BY DEF DInit, Init
  <1> QED BY <1>1, <1>2 DEF DInit, LoginInv, FollowsLogin

LEMMA DeliveryNext == [DNext]_<<vars, routes>> => [Next]_vars
  BY DEF DNext, Session, PublishNS, PublishEW, MissNS, MissEW, Next, ServerStep

LEMMA DeviceNext == [CNext]_allVars => [DNext]_<<vars, routes>>
  BY DEF CNext, Gateway, Joins, Leaves, allVars

LEMMA DeviceInit == CInit => DInit
  BY DEF CInit

(* A route that has followed the logins of a served agent leads to its Pod. *)
LEMMA CaughtUpLeads ==
    ASSUME IInv, LoginInv, NEW a \in Agents, NEW n \in Slots,
           agent[n] = a, Served(n),
           NEW route, FollowsLogin(a, route), CaughtUp(a, route)
    PROVE  listening[n] /\ Leads(route, n) /\ pod[n] \in Pods
  <1>1. listening[n] /\ lastLogin[a] = pod[n] /\ pod[n] \in Pods
    BY DEF IInv, RouteInv, SessionInv, LoggedIn, Served
  <1>2. lastLogin[a] # NoPod
    BY <1>1, NoneAssumption
  <1>3. PICK i : Latest(a, i) /\ logins[i].pod = lastLogin[a]
    BY <1>2 DEF LoginInv
  <1>4. i \in DOMAIN logins /\ logins[i].user = a /\ i <= route.login
    BY <1>3 DEF Latest, CaughtUp
  <1>5. i \in Nat /\ i >= 1
    BY <1>4, LoginsTyped
  <1>6. route # Client!NoRoute
    BY <1>4, <1>5 DEF Client!NoRoute
  <1>7. PICK j \in DOMAIN logins :
          logins[j].user = a /\ route = [login |-> j, ip |-> logins[j].pod]
    BY <1>6 DEF FollowsLogin
  <1>8. j \in Nat /\ j <= i /\ i <= j
    BY <1>3, <1>4, <1>7, LoginsTyped DEF Latest
  <1>9. route.ip = logins[i].pod
    BY <1>5, <1>7, <1>8
  <1> QED BY <1>1, <1>3, <1>9 DEF Leads
-----------------------------------------------------------------------------
(* The results.                                                            *)

(* The routes and the devices add nothing to what the sessions do: all     *)
(* that is proved of RemoteForward holds of the whole path.                *)
THEOREM SessionsUnaltered == CSpec => DSpec /\ Spec
  <1>1. CInit => DInit /\ Init
    BY DeviceInit, DeliveryInit
  <1>2. [CNext]_allVars => [DNext]_<<vars, routes>> /\ [Next]_vars
    BY DeviceNext, DeliveryNext
  <1> QED BY <1>1, <1>2, PTL DEF CSpec, DSpec, Spec

LEMMA DeliveryInvariance == DSpec => [](IInv /\ LoginInv)
  <1>1. DSpec => []IInv
    BY DeliveryInit, DeliveryNext, Invariance, PTL DEF DSpec, Spec
  <1>2. DInit => LoginInv
    BY DeliveryInit
  <1>3. IInv /\ LoginInv /\ [DNext]_<<vars, routes>> => LoginInv'
    BY LoginStep
  <1> QED BY <1>1, <1>2, <1>3, PTL DEF DSpec

(* Both routes of a server that is being served lead to the Pod where its  *)
(* listener is when they have followed its logins, whatever was lost, cut, *)
(* crashed and begun again (createservice.sh, and main.go for the routes). *)
THEOREM RoutesLead == DSpec => []RouteLeadsToServer
  <1>1. IInv /\ LoginInv => RouteLeadsToServer
    <2> SUFFICES ASSUME IInv, LoginInv, NEW a \in Agents, NEW n \in Slots,
                        NEW route \in {ns[a], ew[a]},
                        agent[n] = a, Served(n), CaughtUp(a, route)
                 PROVE  listening[n] /\ Leads(route, n)
      BY DEF RouteLeadsToServer
    <2>1. FollowsLogin(a, route)
      BY DEF LoginInv
    <2> QED BY <2>1, CaughtUpLeads
  <1> QED BY <1>1, DeliveryInvariance, PTL

(* What RemoteForward promises holds of the whole path.                    *)
THEOREM WholePathCorrect ==
    CSpec => [](TypeOK /\ RouteLeadsToListener /\ RouteLeadsToServer) /\ LoginOnlyWhereListening
  BY SessionsUnaltered, TypeCorrect, RouteCorrect, LoginCorrect, RoutesLead, PTL
=============================================================================
