-------------------------- MODULE K8sClientProofs --------------------------
(***************************************************************************)
(* Proofs about K8sClient, for any sets of users, Services, Pods and       *)
(* addresses and any bounds.                                               *)
(***************************************************************************)
EXTENDS K8sClient, FiniteSetTheorems, SequenceTheorems, TLAPS

-----------------------------------------------------------------------------
(* Families of queues: svcWatch, podWatch and ops.                         *)

(* Appending to one queue of a family. *)
LEMMA AppendToQueue ==
    ASSUME NEW I, NEW S, NEW q \in [I -> Seq(S)], NEW i \in I, NEW e \in S
    PROVE  [q EXCEPT ![i] = Append(@, e)] \in [I -> Seq(S)]
  <1>1. Append(q[i], e) \in Seq(S)
    OBVIOUS
  <1> QED BY <1>1

(* A queue with a single element. *)
LEMMA Singleton == ASSUME NEW S, NEW e \in S PROVE <<e>> \in Seq(S)
  OBVIOUS

(* Appending to a queue. *)
LEMMA AppendOne ==
    ASSUME NEW S, NEW q \in Seq(S), NEW e \in S PROVE Append(q, e) \in Seq(S)
  OBVIOUS

(* Taking the head of a queue. *)
LEMMA TakeFirst ==
    ASSUME NEW S, NEW q \in Seq(S), q # <<>>
    PROVE  Head(q) \in S /\ Tail(q) \in Seq(S)
  OBVIOUS

(* Taking the head of one queue of a family. *)
LEMMA TakeFromQueue ==
    ASSUME NEW I, NEW S, NEW q \in [I -> Seq(S)], NEW i \in I, q[i] # <<>>
    PROVE  /\ Head(q[i]) \in S
           /\ [q EXCEPT ![i] = Tail(@)] \in [I -> Seq(S)]
  <1>1. Head(q[i]) \in S /\ Tail(q[i]) \in Seq(S)
    BY TakeFirst
  <1> QED BY <1>1

-----------------------------------------------------------------------------
(* Services and the informer's operations on them.                         *)

(* What a hand or the client puts a Service into is a state of Services.   *)
LEMMA ServiceStatesType ==
    /\ Absent \in ServiceStates /\ Plain \in ServiceStates
    /\ \A u \in Users : Announcing(u) \in ServiceStates
    /\ \A s \in ServiceStates : s.key \in Users \cup {NoUser}
    /\ \A s \in ServiceStates : IsManaged(s) => s.key \in Users
  <1>1. Absent \in ServiceStates /\ Plain \in ServiceStates
    BY DEF ServiceStates
  <1>2. \A u \in Users : Announcing(u) \in ServiceStates
    BY DEF ServiceStates
  <1>3. ASSUME NEW s \in ServiceStates
        PROVE  s.key \in Users \cup {NoUser} /\ (IsManaged(s) => s.key \in Users)
    <2>1. CASE s \in {Absent, Plain}
      BY <2>1 DEF Absent, Plain, IsManaged
    <2>2. CASE \E u \in Users : s = Tagged(u) \/ s = Announcing(u)
      BY <2>2 DEF Tagged, Announcing
    <2> QED BY <2>1, <2>2 DEF ServiceStates
  <1> QED BY <1>1, <1>2, <1>3

(* A write to a Service leaves Services and watches well-typed. *)
LEMMA SetServiceType ==
    ASSUME KubeTypeOK, NEW r \in Refs, NEW s \in ServiceStates,
           SetService(r, s)
    PROVE  /\ svc' \in [Refs -> ServiceStates]
           /\ svcWatch' \in [Refs -> Seq(SvcEvent)]
  <1>1. svc' \in [Refs -> ServiceStates]
    BY DEF SetService, KubeTypeOK
  <1>2. [old |-> svc[r], new |-> s] \in SvcEvent
    BY DEF KubeTypeOK, SvcEvent
  <1>3. svcWatch' \in [Refs -> Seq(SvcEvent)]
    <2>1. svcWatch \in [Refs -> Seq(SvcEvent)]
      BY DEF KubeTypeOK
    <2>2. [svcWatch EXCEPT ![r] = Append(@, [old |-> svc[r], new |-> s])]
            \in [Refs -> Seq(SvcEvent)]
      BY <1>2, <2>1, AppendToQueue
    <2> QED BY <2>1, <2>2 DEF SetService, Notify
  <1> QED BY <1>1, <1>3

(* The informer's handlers only ask for operations on keys of users. *)
LEMMA CacheOpsType ==
    ASSUME NEW r \in Refs, NEW e \in SvcEvent
    PROVE  CacheOps(r, e) \in Seq(CacheOp)
  <1> DEFINE old == e.old
             new == e.new
  <1>1. old \in ServiceStates /\ new \in ServiceStates
    BY DEF SvcEvent
  <1>2. \A u \in Users : AppendOp(u, r) \in CacheOp /\ RemoveOp(u, r) \in CacheOp
    BY DEF AppendOp, RemoveOp, CacheOp
  <1>3. AddFunc(r, new) \in Seq(CacheOp)
    BY <1>1, <1>2, ServiceStatesType DEF AddFunc
  <1>4. DeleteFunc(r, old) \in Seq(CacheOp)
    BY <1>1, <1>2, ServiceStatesType DEF DeleteFunc
  <1>5. UpdateFunc(r, old, new) \in Seq(CacheOp)
    <2>1. old.key # NoUser => RemoveOp(old.key, r) \in CacheOp
      BY <1>1, <1>2, ServiceStatesType
    <2>2. new.key # NoUser => AppendOp(new.key, r) \in CacheOp
      BY <1>1, <1>2, ServiceStatesType
    <2> QED BY <2>1, <2>2 DEF UpdateFunc
  <1> QED BY <1>3, <1>4, <1>5 DEF CacheOps

-----------------------------------------------------------------------------
(* Type correctness.                                                       *)

(* The values the goroutines start with. *)
LEMMA FirstValues ==
    /\ NoEntry \in CacheEntry /\ NotLoaded \in Held
    /\ Receiving \in MainState
    /\ ~NotLoaded.loaded /\ Receiving.pc = "recv"
    /\ Receiving.todo = {} /\ Receiving.login = 0
  <1>1. NoEntry \in CacheEntry /\ NotLoaded \in Held /\ ~NotLoaded.loaded
    BY DEF NoEntry, CacheEntry, NotLoaded, Held
  <1>2. Receiving \in MainState
    BY ClientAssumption DEF Receiving, MainState, PCs
  <1> QED BY <1>1, <1>2 DEF Receiving

LEMMA TypeInit == Init => TypeInv
  <1> SUFFICES ASSUME Init PROVE TypeInv
    OBVIOUS
  <1>1. KubeTypeOK
    BY KubeAssumption, ServiceStatesType
       DEF Init, KubeInit, KubeTypeOK, Phases
  <1>2. /\ fresh \in BOOLEAN /\ raced \in BOOLEAN
        /\ faults \in 0 .. MaxFaults /\ restarts \in 0 .. MaxRestarts
    <2>1. fresh \in BOOLEAN /\ raced \in BOOLEAN
      BY Zenon DEF Init, ClientInit
    <2>2. faults = 0 /\ restarts = 0
      BY DEF Init, ClientInit
    <2> QED BY <2>1, <2>2, ClientAssumption
  <1>3. /\ stream \in Seq(1 .. MaxLogins)
        /\ logins \in Seq(Login) /\ Len(logins) <= MaxLogins
        /\ nsLogin \in [Users -> 0 .. MaxLogins]
        /\ ewLogin \in [Users -> 0 .. MaxLogins]
    BY ClientAssumption DEF Init, ClientInit
  <1>4. /\ podIPCache \in [Pods -> IPs \cup {NoIP}]
        /\ serviceCache \in [Users -> CacheEntry]
        /\ ops \in [Goroutines -> Seq(CacheOp)]
        /\ held \in [Goroutines -> Held]
        /\ main \in MainState
    BY FirstValues DEF Init, ClientInit
  <1>5. WorkInHand
    BY FirstValues DEF Init, ClientInit, WorkInHand, Goroutines
  <1> QED BY <1>1, <1>2, <1>3, <1>4, <1>5 DEF TypeInv, TypeOK

(* Every step of the client and of its surroundings keeps the types. *)
LEMMA TypeStep == TypeInv /\ [Next]_vars => TypeInv'
  <1> SUFFICES ASSUME TypeInv, [Next]_vars PROVE TypeInv'
    OBVIOUS
  <1> USE DEF TypeInv
  <1>1. CASE Operator
    <2>1. ASSUME NEW r \in Refs, NEW s \in ServiceStates, OperatorSets(r, s)
          PROVE  KubeTypeOK'
      BY <2>1, KubeAssumption, SetServiceType
         DEF OperatorSets, TypeOK, KubeTypeOK, podVars, routeVars
    <2>2. ASSUME NEW r \in Refs, StatusUpdate(r)
          PROVE  KubeTypeOK'
      <3>1. [old |-> svc[r], new |-> svc[r]] \in SvcEvent
        BY DEF TypeOK, KubeTypeOK, SvcEvent
      <3>2. svcWatch' \in [Refs -> Seq(SvcEvent)]
        BY <2>2, <3>1, AppendToQueue DEF StatusUpdate, Notify, TypeOK, KubeTypeOK
      <3> QED BY <2>2, <3>2, KubeAssumption
                 DEF StatusUpdate, TypeOK, KubeTypeOK, podVars, routeVars
    <2>3. KubeTypeOK'
      BY <1>1, <2>1, <2>2 DEF Operator
    <2> QED BY <1>1, <2>3
               DEF Operator, TypeOK, WorkInHand, cacheVars, loginVars,
                   servedVars, budgetVars
  <1>2. CASE PodChanges
    <2>1. ASSUME NEW p \in Pods, NEW ip \in IPs \cup {NoIP}, NotifyPod(p, ip)
          PROVE  podWatch' \in [Pods -> Seq(IPs \cup {NoIP})]
      BY <2>1, AppendToQueue DEF NotifyPod, TypeOK, KubeTypeOK
    <2>2. ASSUME NEW p \in Pods,
                 PodCreated(p) \/ PodDeleted(p) \/ \E ip \in IPs : PodRuns(p, ip)
          PROVE  KubeTypeOK'
      BY <2>1, <2>2 DEF PodCreated, PodDeleted, PodRuns, TypeOK, KubeTypeOK,
                        Phases, svcVars, routeVars
    <2>3. KubeTypeOK' /\ UNCHANGED clientVars
      BY <1>2, <2>2 DEF PodChanges
    <2> QED BY <2>3 DEF TypeOK, WorkInHand, clientVars, cacheVars, loginVars,
                        servedVars, budgetVars
  <1>3. ASSUME NEW p \in Pods, NEW u \in Users \cup {NoUser}, LogsIn(p, u)
        PROVE  TypeInv'
    <2>1. logins' \in Seq(Login) /\ Len(logins') <= MaxLogins
      BY <1>3, ClientAssumption DEF LogsIn, Login, TypeOK
    <2>2. stream' \in Seq(1 .. MaxLogins)
      BY <1>3, ClientAssumption DEF LogsIn, TypeOK
    <2>3. \A i \in DOMAIN stream' : stream'[i] \in DOMAIN logins'
      BY <1>3 DEF LogsIn, TypeOK, WorkInHand
    <2> QED BY <1>3, <2>1, <2>2, <2>3
               DEF LogsIn, TypeOK, KubeTypeOK, WorkInHand, kubeVars, svcVars,
                   podVars, routeVars, cacheVars, servedVars, budgetVars
  <1>4. ASSUME NEW p \in Pods, HandlePod(p)
        PROVE  TypeInv'
    <2>1. Head(podWatch[p]) \in IPs \cup {NoIP}
      BY <1>4, TakeFromQueue DEF HandlePod, TypeOK, KubeTypeOK
    <2>2. podWatch' \in [Pods -> Seq(IPs \cup {NoIP})]
      BY <1>4, TakeFromQueue DEF HandlePod, TypeOK, KubeTypeOK
    <2>3. podIPCache' \in [Pods -> IPs \cup {NoIP}]
      BY <1>4, <2>1 DEF HandlePod, TypeOK
    <2> QED BY <1>4, <2>2, <2>3
               DEF HandlePod, TypeOK, KubeTypeOK, WorkInHand, svcVars,
                   routeVars, cacheVars, loginVars, servedVars, budgetVars
  <1>5. ASSUME NEW r \in Refs, HandleService(r)
        PROVE  TypeInv'
    <2>1. Head(svcWatch[r]) \in SvcEvent
      BY <1>5, TakeFromQueue DEF HandleService, TypeOK, KubeTypeOK
    <2>2. svcWatch' \in [Refs -> Seq(SvcEvent)]
      BY <1>5, TakeFromQueue DEF HandleService, TypeOK, KubeTypeOK
    <2>3. ops' \in [Goroutines -> Seq(CacheOp)]
      BY <1>5, <2>1, CacheOpsType DEF HandleService, TypeOK
    <2>4. \A g \in Goroutines : held'[g].loaded => ops'[g] # <<>>
      BY <1>5 DEF HandleService, TypeOK, WorkInHand
    <2> QED BY <1>5, <2>2, <2>3, <2>4
               DEF HandleService, TypeOK, KubeTypeOK, WorkInHand, podVars,
                   routeVars, loginVars, servedVars, budgetVars
  <1>6. ASSUME NEW g \in Goroutines, CacheLoad(g)
        PROVE  TypeInv'
    <2>1. Head(ops[g]) \in CacheOp
      BY <1>6, TakeFromQueue DEF CacheLoad, TypeOK
    <2>2. [ops EXCEPT ![g] = Tail(@)] \in [Goroutines -> Seq(CacheOp)]
      BY <1>6, TakeFromQueue DEF CacheLoad, TypeOK
    <2>3. ops' \in [Goroutines -> Seq(CacheOp)]
      BY <1>6, <2>2 DEF CacheLoad, TypeOK
    <2>4. serviceCache[Head(ops[g]).key].refs \in SUBSET Refs
      BY <2>1 DEF TypeOK, CacheEntry, CacheOp
    <2>5. held' \in [Goroutines -> Held]
      <3>1. [loaded |-> TRUE, refs |-> serviceCache[Head(ops[g]).key].refs]
              \in Held
        BY <2>4 DEF Held
      <3> QED BY <1>6, <3>1 DEF CacheLoad, TypeOK
    <2>6. \A h \in Goroutines : held'[h].loaded => ops'[h] # <<>>
      BY <1>6 DEF CacheLoad, TypeOK, WorkInHand
    <2>7. ops["main"] = <<>> => ops'["main"] = <<>>
      BY <1>6 DEF CacheLoad, TypeOK, Goroutines
    <2> QED BY <1>6, <2>3, <2>5, <2>6, <2>7
               DEF CacheLoad, TypeOK, KubeTypeOK, WorkInHand, kubeVars,
                   svcVars, podVars, routeVars, loginVars, servedVars,
                   budgetVars
  <1>7. ASSUME NEW g \in Goroutines, CacheStore(g)
        PROVE  TypeInv'
    <2>1. ops[g] # <<>>
      BY <1>7 DEF CacheStore, WorkInHand
    <2>2. Head(ops[g]) \in CacheOp
      BY <2>1, TakeFromQueue DEF TypeOK
    <2>3. ops' \in [Goroutines -> Seq(CacheOp)]
      BY <1>7, <2>1, TakeFromQueue DEF CacheStore, TypeOK
    <2>4. NewRefs(Head(ops[g]), held[g].refs) \in SUBSET Refs
      BY <2>2 DEF NewRefs, TypeOK, Held, CacheOp
    <2>5. serviceCache' \in [Users -> CacheEntry]
      BY <1>7, <2>4 DEF CacheStore, TypeOK, CacheEntry
    <2>6. held' \in [Goroutines -> Held] /\ raced' \in BOOLEAN
      BY <1>7 DEF CacheStore, TypeOK, Held, NotLoaded
    <2>7. \A h \in Goroutines : held'[h].loaded => ops'[h] # <<>>
      BY <1>7 DEF CacheStore, TypeOK, WorkInHand, NotLoaded
    <2>8. ops["main"] = <<>> => ops'["main"] = <<>>
      BY <1>7, <2>1 DEF CacheStore, TypeOK, Goroutines
    <2> QED BY <1>7, <2>3, <2>5, <2>6, <2>7, <2>8
               DEF CacheStore, TypeOK, KubeTypeOK, WorkInHand, kubeVars,
                   svcVars, podVars, routeVars, loginVars, servedVars,
                   budgetVars
  <1>8. CASE DropEvent
    <2>1. stream' \in Seq(1 .. MaxLogins)
      BY <1>8 DEF DropEvent, TypeOK
    <2>2. \A i \in DOMAIN stream' : stream'[i] \in DOMAIN logins
      BY <1>8 DEF DropEvent, TypeOK, WorkInHand
    <2> QED BY <1>8, <2>1, <2>2
               DEF DropEvent, TypeOK, KubeTypeOK, WorkInHand, kubeVars,
                   svcVars, podVars, routeVars, cacheVars, servedVars,
                   budgetVars
  <1>9. CASE AcceptEvent
    <2> DEFINE n == Head(stream)
    <2>1. stream # <<>> /\ stream' = Tail(stream)
      BY <1>9 DEF AcceptEvent
    <2>2. stream' \in Seq(1 .. MaxLogins) /\ n \in 1 .. MaxLogins
      <3>1. stream \in Seq(1 .. MaxLogins)
        BY DEF TypeOK
      <3> QED BY <2>1, <3>1, TakeFirst
    <2>3. \A i \in DOMAIN stream' : stream'[i] \in DOMAIN logins
      BY <2>1 DEF TypeOK, WorkInHand
    <2>4. logins[n] \in Login
      <3>1. n \in DOMAIN logins
        BY <2>1 DEF TypeOK, WorkInHand
      <3> QED BY <3>1 DEF TypeOK
    <2>5. logins[n].user \in Users /\ podIPCache[logins[n].pod] \in IPs
      BY <1>9, <2>4 DEF AcceptEvent, Servable, Login, TypeOK
    <2>6. /\ Serving(n) \in MainState
          /\ Serving(n).user \in Users /\ Serving(n).ip \in IPs
      BY <2>2, <2>5 DEF Serving, MainState, PCs
    <2>7. main' = Serving(n)
      BY <1>9 DEF AcceptEvent
    <2> HIDE DEF n
    <2> QED BY <1>9, <2>2, <2>3, <2>6, <2>7
               DEF AcceptEvent, TypeOK, KubeTypeOK, WorkInHand, kubeVars,
                   svcVars, podVars, routeVars, cacheVars, servedVars,
                   budgetVars
  <1>10. CASE Snapshot
    <2>1. main.user \in Users
      BY <1>10 DEF Snapshot, WorkInHand
    <2>2. main' \in MainState /\ main'.user = main.user /\ main'.ip = main.ip
      BY <1>10, <2>1 DEF Snapshot, Entries, TypeOK, CacheEntry, MainState, PCs
    <2>3. serviceCache' \in [Users -> CacheEntry]
      BY <1>10 DEF Snapshot, TypeOK, CacheEntry
    <2>4. fresh' \in BOOLEAN
      BY <1>10 DEF Snapshot, Quiet
    <2> QED BY <1>10, <2>1, <2>2, <2>3, <2>4
               DEF Snapshot, TypeOK, KubeTypeOK, WorkInHand, kubeVars,
                   svcVars, podVars, routeVars, loginVars, servedVars,
                   budgetVars
  <1>11. ASSUME NEW r \in Refs, Retire(r)
         PROVE  TypeInv'
    <2>1. /\ svc' \in [Refs -> ServiceStates]
          /\ svcWatch' \in [Refs -> Seq(SvcEvent)]
      BY <1>11, SetServiceType, ServiceStatesType
         DEF Retire, Unannotate, svcVars, TypeOK, KubeTypeOK
    <2>2. /\ main' \in MainState /\ main'.user = main.user
          /\ main'.ip = main.ip /\ main.pc # "recv"
      <3>1. \/ main' = [main EXCEPT !.todo = @ \ {r}]
            \/ main' = [main EXCEPT !.todo = @ \ {r}, !.kept = @ \cup {r}]
        BY <1>11 DEF Retire
      <3>2. main.pc # "recv" /\ main \in MainState
        BY <1>11 DEF Retire, TypeOK
      <3> QED BY <3>1, <3>2 DEF MainState
    <2>3. faults' \in 0 .. MaxFaults /\ restarts' \in 0 .. MaxRestarts
      BY <1>11, ClientAssumption DEF Retire, Fault, budgetVars, TypeOK
    <2> QED BY <1>11, <2>1, <2>2, <2>3
               DEF Retire, TypeOK, KubeTypeOK, WorkInHand, podVars,
                   routeVars, cacheVars, loginVars, servedVars
  <1>12. CASE GiveUp
    <2> QED BY <1>12, FirstValues
               DEF GiveUp, TypeOK, KubeTypeOK, WorkInHand, kubeVars,
                   svcVars, podVars, routeVars, cacheVars, loginVars,
                   servedVars, budgetVars
  <1>13. CASE CreateService
    <2>1. main.user \in Users /\ main.pc # "recv"
      BY <1>13 DEF CreateService, WorkInHand
    <2>2. /\ svc' \in [Refs -> ServiceStates]
          /\ svcWatch' \in [Refs -> Seq(SvcEvent)]
      BY <1>13, <2>1, SetServiceType, ServiceStatesType
         DEF CreateService, CreateNSService, Primary, Refs, svcVars, TypeOK,
             KubeTypeOK
    <2>3. AppendOp(main.user, Primary(main.user)) \in CacheOp
      BY <2>1 DEF AppendOp, CacheOp, Primary, Refs
    <2>4. ops' \in [Goroutines -> Seq(CacheOp)]
      BY <1>13, <2>3, Singleton DEF CreateService, TypeOK
    <2>5. \A g \in Goroutines : ops[g] # <<>> => ops'[g] # <<>>
      BY <1>13 DEF CreateService, TypeOK
    <2>6. /\ main' \in MainState /\ main'.user = main.user
          /\ main'.ip = main.ip
      BY <1>13 DEF CreateService, TypeOK, MainState, PCs
    <2>7. faults' \in 0 .. MaxFaults /\ restarts' \in 0 .. MaxRestarts
      BY <1>13, ClientAssumption DEF CreateService, Fault, budgetVars, TypeOK
    <2> QED BY <1>13, <2>1, <2>2, <2>4, <2>5, <2>6, <2>7
               DEF CreateService, TypeOK, KubeTypeOK, WorkInHand, podVars,
                   routeVars, loginVars, servedVars
  <1>14. CASE PatchSlice \/ CreateSlice
    <2>1. main.user \in Users /\ main.ip \in IPs /\ main.pc # "recv"
      BY <1>14 DEF PatchSlice, CreateSlice, WorkInHand
    <2>2. /\ slice' \in [Users -> IPs \cup {NoIP}]
          /\ nsLogin' \in [Users -> 0 .. MaxLogins]
      BY <1>14, <2>1
         DEF PatchSlice, CreateSlice, WriteSlice, TypeOK, KubeTypeOK, MainState
    <2>3. /\ main' \in MainState /\ main'.user = main.user
          /\ main'.ip = main.ip
      BY <1>14 DEF PatchSlice, CreateSlice, GoTo, TypeOK, MainState, PCs
    <2>4. faults' \in 0 .. MaxFaults /\ restarts' \in 0 .. MaxRestarts
      BY <1>14, ClientAssumption
         DEF PatchSlice, CreateSlice, Fault, budgetVars, TypeOK
    <2>5. UNCHANGED sliceFrame
      BY <1>14 DEF PatchSlice, CreateSlice
    <2>6. ops["main"] = <<>>
      BY <1>14 DEF PatchSlice, CreateSlice, WorkInHand
    <2> QED BY <2>1, <2>2, <2>3, <2>4, <2>5, <2>6
               DEF sliceFrame, TypeOK, KubeTypeOK, WorkInHand, svcVars,
                   podVars, cacheVars, loginVars
  <1>15. CASE PatchEW \/ CreateEW
    <2>1. main.user \in Users /\ main.ip \in IPs /\ main.pc # "recv"
      BY <1>15 DEF PatchEW, CreateEW, WorkInHand
    <2>2. /\ ew' \in [Users -> IPs \cup {NoIP}]
          /\ ewLogin' \in [Users -> 0 .. MaxLogins]
      BY <1>15, <2>1
         DEF PatchEW, CreateEW, WriteEW, TypeOK, KubeTypeOK, MainState
    <2>3. /\ main' \in MainState
          /\ main'.pc # "recv" => main'.user = main.user /\ main'.ip = main.ip
      BY <1>15, FirstValues
         DEF PatchEW, CreateEW, GoTo, TypeOK, MainState, PCs
    <2>4. faults' \in 0 .. MaxFaults /\ restarts' \in 0 .. MaxRestarts
      BY <1>15, ClientAssumption
         DEF PatchEW, CreateEW, Fault, budgetVars, TypeOK
    <2>5. UNCHANGED ewFrame
      BY <1>15 DEF PatchEW, CreateEW
    <2>6. ops["main"] = <<>>
      BY <1>15 DEF PatchEW, CreateEW, WorkInHand
    <2> QED BY <2>1, <2>2, <2>3, <2>4, <2>5, <2>6
               DEF ewFrame, TypeOK, KubeTypeOK, WorkInHand, svcVars,
                   podVars, cacheVars, loginVars
  <1>16. CASE Restart
    <2>1. ListedServices \in [Refs -> Seq(SvcEvent)]
      <3>1. \A r \in Refs : [old |-> Absent, new |-> svc[r]] \in SvcEvent
        BY ServiceStatesType DEF SvcEvent, TypeOK, KubeTypeOK
      <3>2. \A r \in Refs : <<[old |-> Absent, new |-> svc[r]]>> \in Seq(SvcEvent)
        BY <3>1, Singleton
      <3> QED BY <3>2 DEF ListedServices
    <2>2. ListedPods \in [Pods -> Seq(IPs \cup {NoIP})]
      <3>1. \A p \in Pods : <<ipOf[p]>> \in Seq(IPs \cup {NoIP})
        BY Singleton DEF TypeOK, KubeTypeOK
      <3>2. <<>> \in Seq(IPs \cup {NoIP})
        OBVIOUS
      <3> QED BY <3>1, <3>2, Zenon DEF ListedPods
    <2>3. KubeTypeOK'
      BY <1>16, <2>1, <2>2 DEF Restart, TypeOK, KubeTypeOK, routeVars
    <2>4. /\ podIPCache' \in [Pods -> IPs \cup {NoIP}]
          /\ serviceCache' \in [Users -> CacheEntry]
          /\ ops' \in [Goroutines -> Seq(CacheOp)]
          /\ held' \in [Goroutines -> Held]
          /\ main' \in MainState
      BY <1>16, FirstValues DEF Restart
    <2>5. /\ stream' \in Seq(1 .. MaxLogins)
          /\ restarts' \in 0 .. MaxRestarts
          /\ UNCHANGED <<logins, nsLogin, ewLogin, faults>>
      BY <1>16, ClientAssumption DEF Restart, TypeOK, servedVars
    <2>6. TypeOK'
      <3>1. fresh' \in BOOLEAN /\ raced' \in BOOLEAN
        BY <1>16 DEF Restart
      <3> QED BY <2>3, <2>4, <2>5, <3>1 DEF TypeOK
    <2>7. WorkInHand'
      BY <1>16, FirstValues DEF Restart, WorkInHand, Goroutines
    <2> QED BY <2>6, <2>7
  <1>17. CASE UNCHANGED vars
    BY <1>17 DEF vars, clientVars, TypeOK, KubeTypeOK, WorkInHand, kubeVars,
                 svcVars, podVars, routeVars, cacheVars, loginVars,
                 servedVars, budgetVars
  <1> QED
    BY <1>1, <1>2, <1>3, <1>4, <1>5, <1>6, <1>7, <1>8, <1>9, <1>10, <1>11,
       <1>12, <1>13, <1>14, <1>15, <1>16, <1>17
       DEF Next, MainLoop, Informers, Cache, Environment

(* The state of the cluster and of the client stays within its types: no   *)
(* handler works on the entry of a user it has not got, or on an operation *)
(* it has already finished.                                                *)
THEOREM TypeCorrect == Spec => []TypeOK
  <1>1. Init => TypeInv
    BY TypeInit
  <1>2. TypeInv /\ [Next]_vars => TypeInv'
    BY TypeStep
  <1>3. TypeInv => TypeOK
    BY DEF TypeInv
  <1> QED BY <1>1, <1>2, <1>3, PTL DEF Spec

-----------------------------------------------------------------------------
(* Primaries keep their hostname.                                          *)

(* A Service of a user is only ever put into a state of a primary. *)
LEMMA SetServiceApart ==
    ASSUME KubeTypeOK, ServicesKeptApart,
           NEW r \in Refs, NEW s \in ServiceStates,
           r \in Users => s \in PrimaryStates(r),
           SetService(r, s)
    PROVE  ServicesKeptApart'
  <1> SUFFICES ASSUME NEW u \in Users
               PROVE  /\ svc'[u] \in PrimaryStates(u)
                      /\ svcWatch'[u] \in Seq(PrimaryEvent(u))
    BY DEF ServicesKeptApart, PrimaryStates, PrimaryEvent
  <1>1. svc'[u] \in PrimaryStates(u)
    BY DEF SetService, ServicesKeptApart, KubeTypeOK, Refs
  <1>2. \/ svcWatch'[u] = svcWatch[u]
        \/ /\ r = u
           /\ svcWatch'[u] = Append(svcWatch[u], [old |-> svc[u], new |-> s])
    BY DEF SetService, Notify, KubeTypeOK, Refs
  <1>3. svcWatch[u] \in Seq(PrimaryEvent(u))
    BY DEF ServicesKeptApart
  <1>4. r = u => [old |-> svc[u], new |-> s] \in PrimaryEvent(u)
    BY DEF ServicesKeptApart, PrimaryEvent
  <1> QED BY <1>1, <1>2, <1>3, <1>4, AppendOne

(* The handlers ask for nothing but operations on a primary's own key. *)
LEMMA CacheOpsApart ==
    ASSUME NEW r \in Refs, NEW e \in SvcEvent,
           r \in Users => e \in PrimaryEvent(r)
    PROVE  CacheOps(r, e) \in Seq(OwnOp)
  <1> DEFINE old == e.old
             new == e.new
  <1>1. ASSUME NEW s \in {old, new}, s.key # NoUser
        PROVE  AppendOp(s.key, r) \in OwnOp /\ RemoveOp(s.key, r) \in OwnOp
    <2>1. s.key \in Users
      BY <1>1, ServiceStatesType DEF SvcEvent
    <2>2. r \in Users => s.key = r
      BY <1>1 DEF PrimaryEvent, PrimaryStates, Absent, Plain, Announcing
    <2> QED BY <2>1, <2>2
               DEF AppendOp, RemoveOp, OwnOp, CacheOp, OwnsRefs, Primary
  <1>2. \A s \in {old, new} : IsManaged(s) => s.key # NoUser
    BY ServiceStatesType, KubeAssumption DEF SvcEvent
  <1>3. AddFunc(r, new) \in Seq(OwnOp) /\ DeleteFunc(r, old) \in Seq(OwnOp)
    BY <1>1, <1>2 DEF AddFunc, DeleteFunc
  <1>4. UpdateFunc(r, old, new) \in Seq(OwnOp)
    <2>1. old.key # NoUser => RemoveOp(old.key, r) \in OwnOp
      BY <1>1
    <2>2. new.key # NoUser => AppendOp(new.key, r) \in OwnOp
      BY <1>1
    <2> QED BY <2>1, <2>2 DEF UpdateFunc
  <1> QED BY <1>3, <1>4 DEF CacheOps

LEMMA ApartInit == Init => PrimariesKeptApart
  <1> SUFFICES ASSUME Init PROVE PrimariesKeptApart
    OBVIOUS
  <1>1. ServicesKeptApart
    BY DEF Init, KubeInit, ServicesKeptApart, PrimaryStates, Refs
  <1>2. EntriesKeptApart
    BY FirstValues
       DEF Init, ClientInit, EntriesKeptApart, OwnsRefs, NoEntry
  <1> QED BY <1>1, <1>2 DEF PrimariesKeptApart

(* No step makes the client take the primary of one user for a Service of  *)
(* another one, or for a duplicate.                                        *)
LEMMA ApartStep ==
    TypeInv /\ PrimariesKeptApart /\ [Next]_vars => PrimariesKeptApart'
  <1> SUFFICES ASSUME TypeInv, PrimariesKeptApart, [Next]_vars
               PROVE  PrimariesKeptApart'
    OBVIOUS
  <1> USE DEF PrimariesKeptApart
  <1>1. CASE Operator
    <2>1. ASSUME NEW r \in Refs, NEW s \in ServiceStates, OperatorSets(r, s)
          PROVE  ServicesKeptApart'
      BY <2>1, KubeAssumption, SetServiceApart
         DEF OperatorSets, Primary, TypeInv, TypeOK
    <2>2. ASSUME NEW r \in Refs, StatusUpdate(r)
          PROVE  ServicesKeptApart'
      <3> SUFFICES ASSUME NEW u \in Users
                   PROVE  /\ svc'[u] \in PrimaryStates(u)
                          /\ svcWatch'[u] \in Seq(PrimaryEvent(u))
        BY DEF ServicesKeptApart, PrimaryStates, PrimaryEvent
      <3>1. /\ svc' = svc
            /\ \/ svcWatch'[u] = svcWatch[u]
               \/ svcWatch'[u] = Append(svcWatch[u], [old |-> svc[u], new |-> svc[u]])
        BY <2>2 DEF StatusUpdate, Notify, TypeInv, TypeOK, KubeTypeOK, Refs
      <3>2. /\ svc[u] \in PrimaryStates(u)
            /\ svcWatch[u] \in Seq(PrimaryEvent(u))
            /\ [old |-> svc[u], new |-> svc[u]] \in PrimaryEvent(u)
        BY DEF ServicesKeptApart, PrimaryEvent
      <3> QED BY <3>1, <3>2, AppendOne
    <2>3. ServicesKeptApart'
      BY <1>1, <2>1, <2>2 DEF Operator
    <2> QED BY <1>1, <2>3 DEF Operator, EntriesKeptApart, cacheVars
  <1>2. ASSUME NEW r \in Refs, HandleService(r)
        PROVE  PrimariesKeptApart'
    <2>1. svcWatch[r] \in Seq(SvcEvent) /\ svcWatch[r] # <<>>
      BY <1>2 DEF HandleService, TypeInv, TypeOK, KubeTypeOK
    <2>2. Head(svcWatch[r]) \in SvcEvent
      BY <2>1, TakeFirst
    <2>3. r \in Users => /\ Head(svcWatch[r]) \in PrimaryEvent(r)
                         /\ Tail(svcWatch[r]) \in Seq(PrimaryEvent(r))
      BY <2>1, TakeFirst DEF ServicesKeptApart
    <2>4. ops' \in [Goroutines -> Seq(OwnOp)]
      BY <1>2, <2>2, <2>3, CacheOpsApart DEF HandleService, EntriesKeptApart
    <2>5. ServicesKeptApart'
      <3> SUFFICES ASSUME NEW u \in Users
                   PROVE  /\ svc'[u] \in PrimaryStates(u)
                          /\ svcWatch'[u] \in Seq(PrimaryEvent(u))
        BY DEF ServicesKeptApart, PrimaryStates, PrimaryEvent
      <3>1. svc' = svc /\ svcWatch'[u] \in {svcWatch[u], Tail(svcWatch[r])}
              /\ (svcWatch'[u] = svcWatch[u] \/ r = u)
        BY <1>2 DEF HandleService, TypeInv, TypeOK, KubeTypeOK, Refs
      <3> QED BY <3>1, <2>3 DEF ServicesKeptApart
    <2>6. \A g \in Goroutines : held'[g].loaded => ops'[g] = ops[g]
      BY <1>2 DEF HandleService, TypeInv, TypeOK, WorkInHand
    <2> QED BY <1>2, <2>4, <2>5, <2>6
               DEF HandleService, EntriesKeptApart, OwnsRefs
  <1>3. ASSUME NEW g \in Goroutines, CacheLoad(g)
        PROVE  PrimariesKeptApart'
    <2>1. ops[g] # <<>> /\ ops[g] \in Seq(OwnOp) /\ ops[g] \in Seq(CacheOp)
      BY <1>3 DEF CacheLoad, EntriesKeptApart, TypeInv, TypeOK
    <2>2. Head(ops[g]) \in OwnOp /\ Tail(ops[g]) \in Seq(OwnOp)
      BY <2>1, TakeFirst
    <2>3. ops' \in [Goroutines -> Seq(OwnOp)]
      BY <1>3, <2>2 DEF CacheLoad, EntriesKeptApart
    <2>4. OwnsRefs(Head(ops[g]).key, serviceCache[Head(ops[g]).key].refs)
      BY <2>2 DEF EntriesKeptApart, OwnOp, CacheOp
    <2>5. \A h \in Goroutines :
            held'[h].loaded => OwnsRefs(Head(ops'[h]).key, held'[h].refs)
      <3> SUFFICES ASSUME NEW h \in Goroutines, held'[h].loaded
                   PROVE  OwnsRefs(Head(ops'[h]).key, held'[h].refs)
        OBVIOUS
      <3>1. CASE held'[h] = held[h] /\ ops'[h] = ops[h]
        BY <3>1 DEF EntriesKeptApart
      <3>2. CASE /\ h = g /\ ops' = ops
                 /\ held'[h].refs = serviceCache[Head(ops[g]).key].refs
        BY <3>2, <2>4
      <3>3. CASE h = g /\ held' = held
        BY <3>3, <1>3 DEF CacheLoad
      <3> QED BY <1>3, <3>1, <3>2, <3>3 DEF CacheLoad, TypeInv, TypeOK
    <2> QED BY <1>3, <2>3, <2>5
               DEF CacheLoad, EntriesKeptApart, ServicesKeptApart, kubeVars,
                   svcVars, OwnsRefs, PrimaryStates, PrimaryEvent
  <1>4. ASSUME NEW g \in Goroutines, CacheStore(g)
        PROVE  PrimariesKeptApart'
    <2>1. ops[g] # <<>> /\ ops[g] \in Seq(OwnOp)
      BY <1>4 DEF CacheStore, EntriesKeptApart, TypeInv, WorkInHand
    <2>2. Head(ops[g]) \in OwnOp /\ Tail(ops[g]) \in Seq(OwnOp)
      BY <2>1, TakeFirst
    <2>3. ops' \in [Goroutines -> Seq(OwnOp)]
      BY <1>4, <2>2 DEF CacheStore, EntriesKeptApart
    <2>4. OwnsRefs(Head(ops[g]).key, NewRefs(Head(ops[g]), held[g].refs))
      BY <1>4, <2>2 DEF CacheStore, EntriesKeptApart, OwnOp, OwnsRefs, NewRefs
    <2>5. \A u \in Users : OwnsRefs(u, serviceCache'[u].refs)
      BY <1>4, <2>2, <2>4
         DEF CacheStore, EntriesKeptApart, OwnOp, CacheOp, TypeInv, TypeOK
    <2>6. \A h \in Goroutines :
            held'[h].loaded => OwnsRefs(Head(ops'[h]).key, held'[h].refs)
      BY <1>4, FirstValues DEF CacheStore, EntriesKeptApart, TypeInv, TypeOK
    <2> QED BY <1>4, <2>3, <2>5, <2>6
               DEF CacheStore, EntriesKeptApart, ServicesKeptApart, kubeVars,
                   svcVars, OwnsRefs, PrimaryStates, PrimaryEvent
  <1>5. CASE Snapshot
    <2>1. main' = [main EXCEPT !.pc = "retire", !.todo = Entries(main.user)]
      BY <1>5 DEF Snapshot
    <2>2. main.user \in Users
      BY <1>5 DEF Snapshot, TypeInv, WorkInHand
    <2>3. main'.todo \cap Users = {}
      BY <2>1, <2>2
         DEF Entries, EntriesKeptApart, OwnsRefs, TypeInv, TypeOK, MainState
    <2>4. \A u \in Users : serviceCache'[u].refs = serviceCache[u].refs
      BY <1>5 DEF Snapshot, TypeInv, TypeOK, CacheEntry
    <2> QED BY <1>5, <2>3, <2>4
               DEF Snapshot, EntriesKeptApart, ServicesKeptApart, kubeVars,
                   svcVars, OwnsRefs, PrimaryStates, PrimaryEvent
  <1>6. ASSUME NEW r \in Refs, Retire(r)
        PROVE  PrimariesKeptApart'
    <2>1. r \notin Users
      BY <1>6 DEF Retire, EntriesKeptApart
    <2>2. ServicesKeptApart'
      <3>1. CASE SetService(r, Plain)
        BY <3>1, <2>1, SetServiceApart, ServiceStatesType DEF TypeInv, TypeOK
      <3>2. CASE UNCHANGED svcVars
        BY <3>2 DEF svcVars, ServicesKeptApart, PrimaryStates, PrimaryEvent
      <3> QED BY <1>6, <3>1, <3>2 DEF Retire, Unannotate
    <2>3. main'.todo = main.todo \ {r}
      BY <1>6 DEF Retire, TypeInv, TypeOK, MainState
    <2> QED BY <1>6, <2>2, <2>3
               DEF Retire, EntriesKeptApart, cacheVars, OwnsRefs
  <1>7. CASE CreateService
    <2>1. main.user \in Users
      BY <1>7 DEF CreateService, TypeInv, WorkInHand
    <2>2. ServicesKeptApart'
      <3>1. CASE SetService(Primary(main.user), Announcing(main.user))
        BY <3>1, <2>1, SetServiceApart, ServiceStatesType
           DEF Primary, Refs, PrimaryStates, TypeInv, TypeOK
      <3>2. CASE UNCHANGED svcVars
        BY <3>2 DEF svcVars, ServicesKeptApart, PrimaryStates, PrimaryEvent
      <3> QED BY <1>7, <3>1, <3>2 DEF CreateService, CreateNSService
    <2>3. AppendOp(main.user, Primary(main.user)) \in OwnOp
      BY <2>1 DEF AppendOp, OwnOp, CacheOp, OwnsRefs, Primary, Refs
    <2>4. ops' \in [Goroutines -> Seq(OwnOp)]
      BY <1>7, <2>3, Singleton DEF CreateService, EntriesKeptApart
    <2>5. ~held["main"].loaded
      BY <1>7 DEF CreateService, TypeInv, WorkInHand, Goroutines
    <2>6. \A g \in Goroutines : held'[g].loaded =>
            OwnsRefs(Head(ops'[g]).key, held'[g].refs)
      BY <1>7, <2>5 DEF CreateService, EntriesKeptApart, TypeInv, TypeOK
    <2>7. main'.todo = main.todo
      BY <1>7 DEF CreateService, TypeInv, TypeOK, MainState
    <2> QED BY <1>7, <2>2, <2>4, <2>6, <2>7
               DEF CreateService, EntriesKeptApart, OwnsRefs
  <1>8. CASE Restart
    <2>1. ASSUME NEW u \in Users
          PROVE  /\ svc'[u] \in PrimaryStates(u)
                 /\ svcWatch'[u] \in Seq(PrimaryEvent(u))
      <3>1. svc'[u] = svc[u] /\ svc[u] \in PrimaryStates(u)
        BY <1>8 DEF Restart, ServicesKeptApart
      <3>2. <<[old |-> Absent, new |-> svc[u]]>> \in Seq(PrimaryEvent(u))
        BY <3>1, Singleton DEF PrimaryEvent, PrimaryStates
      <3>3. svcWatch'[u] = <<[old |-> Absent, new |-> svc[u]]>>
              \/ svcWatch'[u] = <<>>
        <4>1. svcWatch' = ListedServices /\ u \in Refs
          BY <1>8 DEF Restart, Refs
        <4> QED BY <4>1 DEF ListedServices
      <3>4. <<>> \in Seq(PrimaryEvent(u))
        OBVIOUS
      <3> QED BY <3>1, <3>2, <3>3, <3>4
    <2>2. ServicesKeptApart'
      BY <2>1 DEF ServicesKeptApart, PrimaryStates, PrimaryEvent
    <2>3. \A u \in Users : serviceCache'[u].refs = {}
      BY <1>8 DEF Restart, NoEntry
    <2>4. ops' \in [Goroutines -> Seq(OwnOp)]
      BY <1>8 DEF Restart
    <2>5. \A g \in Goroutines : ~held'[g].loaded
      BY <1>8, FirstValues DEF Restart
    <2>6. main'.todo = {}
      BY <1>8, FirstValues DEF Restart
    <2> QED BY <2>2, <2>3, <2>4, <2>5, <2>6 DEF EntriesKeptApart, OwnsRefs
  <1>9. ASSUME UNCHANGED <<svcVars, serviceCache, ops, held>>,
               main'.todo \cap Users = {}
        PROVE  PrimariesKeptApart'
    BY <1>9 DEF svcVars, ServicesKeptApart, EntriesKeptApart, OwnsRefs,
                PrimaryStates, PrimaryEvent
  <1>10. main.todo \cap Users = {} /\ Receiving.todo = {}
    BY FirstValues DEF EntriesKeptApart
  <1>11. CASE PodChanges \/ UNCHANGED vars
    <2>1. UNCHANGED clientVars /\ UNCHANGED svcVars
      BY <1>11 DEF PodChanges, PodCreated, PodDeleted, PodRuns, vars,
                   kubeVars
    <2> QED BY <2>1, <1>9, <1>10 DEF clientVars, cacheVars
  <1>12. ASSUME NEW p \in Pods, NEW u \in Users \cup {NoUser}, LogsIn(p, u)
         PROVE  PrimariesKeptApart'
    BY <1>12, <1>9, <1>10 DEF LogsIn, cacheVars, kubeVars
  <1>13. ASSUME NEW p \in Pods, HandlePod(p)
         PROVE  PrimariesKeptApart'
    BY <1>13, <1>9, <1>10 DEF HandlePod, cacheVars
  <1>14. CASE DropEvent \/ AcceptEvent \/ GiveUp
    <2>1. main'.todo \in {main.todo, {}}
      BY <1>14, <1>10 DEF DropEvent, AcceptEvent, GiveUp, Serving
    <2> QED BY <1>14, <2>1, <1>9, <1>10
               DEF DropEvent, AcceptEvent, GiveUp, cacheVars, kubeVars
  <1>15. CASE PatchSlice \/ CreateSlice
    <2>1. main'.todo = main.todo
      BY <1>15 DEF PatchSlice, CreateSlice, GoTo, TypeInv, TypeOK, MainState
    <2>2. UNCHANGED sliceFrame
      BY <1>15 DEF PatchSlice, CreateSlice
    <2> QED BY <2>1, <2>2, <1>9, <1>10 DEF sliceFrame, cacheVars
  <1>16. CASE PatchEW \/ CreateEW
    <2>1. main'.todo \in {main.todo, {}}
      BY <1>16, <1>10 DEF PatchEW, CreateEW, GoTo, TypeInv, TypeOK, MainState
    <2>2. UNCHANGED ewFrame
      BY <1>16 DEF PatchEW, CreateEW
    <2> QED BY <2>1, <2>2, <1>9, <1>10 DEF ewFrame, cacheVars
  <1> QED
    BY <1>1, <1>2, <1>3, <1>4, <1>5, <1>6, <1>7, <1>8, <1>11, <1>12, <1>13,
       <1>14, <1>15, <1>16
       DEF Next, MainLoop, Informers, Cache, Environment

(* Whatever serviceCache holds by the races between its two writers, the   *)
(* client takes the hostname of no primary away: of all its calls only     *)
(* removeNSServiceAnnotation could, and its target is never a primary.     *)
THEOREM PrimaryHostnameKept == Spec => PrimaryKeepsHostname
  <1> DEFINE Kept ==
        \A u \in Users :
          svc[Primary(u)] = Announcing(u) /\ operatorSteps' = operatorSteps
          => svc'[Primary(u)] = Announcing(u)
  <1>1. TypeInv /\ PrimariesKeptApart /\ [Next]_vars => Kept
    <2> SUFFICES ASSUME TypeInv, PrimariesKeptApart, [Next]_vars,
                        NEW u \in Users, svc[u] = Announcing(u),
                        operatorSteps' = operatorSteps
                 PROVE  svc'[u] = Announcing(u)
      BY DEF Primary
    <2>1. CASE UNCHANGED svc
      BY <2>1
    <2>2. ASSUME NEW r \in Refs, Retire(r)
          PROVE  svc'[u] = Announcing(u)
      <3>1. r # u
        BY <2>2 DEF Retire, PrimariesKeptApart, EntriesKeptApart
      <3> QED BY <2>2, <3>1
                 DEF Retire, Unannotate, SetService, svcVars, TypeInv, TypeOK, KubeTypeOK,
                     Refs
    <2>3. CASE CreateService
      BY <2>3 DEF CreateService, CreateNSService, SetService, svcVars, Exists, Primary,
                  Announcing, Absent, TypeInv, TypeOK, KubeTypeOK, Refs,
                  WorkInHand
    <2>4. CASE Operator
      <3>1. operatorSteps \in Nat
        BY DEF TypeInv, TypeOK, KubeTypeOK
      <3>2. operatorSteps' = operatorSteps + 1 \/ UNCHANGED svc
        BY <2>4 DEF Operator, OperatorSets, StatusUpdate
      <3> QED BY <2>1, <3>1, <3>2
    <2>5. CASE Next
      <3>1. CASE \/ DropEvent \/ AcceptEvent \/ Snapshot \/ GiveUp
                 \/ PatchSlice \/ CreateSlice \/ PatchEW \/ CreateEW
        BY <3>1, <2>1
           DEF DropEvent, AcceptEvent, Snapshot, GiveUp, PatchSlice,
               CreateSlice, PatchEW, CreateEW, sliceFrame, ewFrame, kubeVars,
               svcVars
      <3>2. CASE Informers \/ Cache \/ Restart
        BY <3>2, <2>1
           DEF Informers, Cache, HandlePod, HandleService, CacheLoad,
               CacheStore, Restart, kubeVars, svcVars
      <3>3. CASE \/ PodChanges
                 \/ \E p \in Pods, v \in Users \cup {NoUser} : LogsIn(p, v)
        BY <3>3, <2>1
           DEF PodChanges, PodCreated, PodDeleted, PodRuns, LogsIn, kubeVars,
               svcVars
      <3> QED BY <2>2, <2>3, <2>4, <2>5, <3>1, <3>2, <3>3
                 DEF Next, MainLoop, Environment
    <2> QED BY <2>1, <2>5 DEF vars, kubeVars, svcVars
  <1>2. Init => TypeInv /\ PrimariesKeptApart
    BY TypeInit, ApartInit
  <1>3. TypeInv /\ PrimariesKeptApart /\ [Next]_vars
        => (TypeInv /\ PrimariesKeptApart)'
    BY TypeStep, ApartStep
  <1>4. TypeInv /\ PrimariesKeptApart /\ [Next]_vars => [Kept]_vars
    BY <1>1
  <1> HIDE DEF Kept
  <1>5. Spec => [][Kept]_vars
    BY <1>2, <1>3, <1>4, PTL DEF Spec
  <1> QED BY <1>5 DEF Kept, PrimaryKeepsHostname

-----------------------------------------------------------------------------
(* The client implements RouteRegister.                                    *)

LEMMA RegisterInit == Init => RegisterInv
  <1> SUFFICES ASSUME Init PROVE RegisterInv
    OBVIOUS
  <1>1. AddressesKept
    BY DEF Init, KubeInit, ClientInit, AddressesKept
  <1>2. EventsInOrder /\ EventInHand
    BY FirstValues DEF Init, ClientInit, EventsInOrder, EventInHand
  <1> QED BY <1>1, <1>2 DEF RegisterInv

(* The informer never knows a Pod by the address of another one, although  *)
(* it lags behind and addresses are given out again.                       *)
LEMMA AddressStep ==
    TypeInv /\ AddressesKept /\ [Next]_vars => AddressesKept'
  <1> SUFFICES ASSUME TypeInv, AddressesKept, [Next]_vars, NEW p \in Pods
               PROVE  /\ podPhase'[p] \in {"absent", "pending"} => ipOf'[p] = NoIP
                      /\ podPhase'[p] = "running" => ipOf'[p] # NoIP
                      /\ podIPCache'[p] \in {NoIP, ipOf'[p]}
                      /\ podWatch'[p] \in Seq({NoIP, ipOf'[p]})
    BY DEF AddressesKept
  <1>1. /\ podPhase[p] \in {"absent", "pending"} => ipOf[p] = NoIP
        /\ podPhase[p] = "running" => ipOf[p] # NoIP
        /\ podIPCache[p] \in {NoIP, ipOf[p]}
        /\ podWatch[p] \in Seq({NoIP, ipOf[p]})
    BY DEF AddressesKept
  <1>2. CASE UNCHANGED <<podPhase, ipOf, podIPCache>> /\ podWatch'[p] = podWatch[p]
    BY <1>1, <1>2
  <1>3. CASE PodChanges
    <2> PICK q \in Pods :
          PodCreated(q) \/ PodDeleted(q) \/ \E ip \in IPs : PodRuns(q, ip)
      BY <1>3 DEF PodChanges
    <2>1. podIPCache' = podIPCache
      BY <1>3 DEF PodChanges, clientVars
    <2>2. CASE q # p
      BY <2>1, <2>2, <1>1
         DEF PodCreated, PodDeleted, PodRuns, NotifyPod, TypeInv, TypeOK,
             KubeTypeOK
    <2>3. CASE q = p /\ (PodCreated(q) \/ PodDeleted(q))
      <3>1. podWatch'[p] = Append(podWatch[p], NoIP)
        BY <2>3 DEF PodCreated, PodDeleted, NotifyPod, TypeInv, TypeOK,
                    KubeTypeOK
      <3>2. podWatch'[p] \in Seq({NoIP, ipOf[p]})
        BY <3>1, <1>1, AppendOne
      <3> QED BY <2>1, <2>3, <3>2, <1>1
                 DEF PodCreated, PodDeleted, TypeInv, TypeOK, KubeTypeOK
    <2>4. ASSUME NEW ip \in IPs, q = p, PodRuns(q, ip)
          PROVE  /\ podPhase'[p] = "running" /\ ipOf'[p] = ip /\ ip # NoIP
                 /\ podIPCache'[p] \in {NoIP, ip}
                 /\ podWatch'[p] \in Seq({NoIP, ip})
      <3>1. podPhase'[p] = "running" /\ ipOf'[p] = ip /\ ip # NoIP
        BY <2>4, KubeAssumption DEF PodRuns, TypeInv, TypeOK, KubeTypeOK
      <3>2. ipOf[p] = NoIP
        BY <2>4, <1>1 DEF PodRuns
      <3>3. podWatch[p] \in Seq({NoIP, ip})
        BY <3>2, <1>1
      <3>4. podWatch'[p] = Append(podWatch[p], ip)
        BY <2>4 DEF PodRuns, NotifyPod, TypeInv, TypeOK, KubeTypeOK
      <3> QED BY <2>1, <1>1, <3>1, <3>2, <3>3, <3>4, AppendOne
    <2> QED BY <2>2, <2>3, <2>4
  <1>4. ASSUME NEW q \in Pods, HandlePod(q)
        PROVE  /\ podPhase' = podPhase /\ ipOf' = ipOf
               /\ podIPCache'[p] \in {NoIP, ipOf[p]}
               /\ podWatch'[p] \in Seq({NoIP, ipOf[p]})
    <2>1. podPhase' = podPhase /\ ipOf' = ipOf /\ podWatch[q] # <<>>
      BY <1>4 DEF HandlePod
    <2>2. \/ podIPCache'[p] = podIPCache[p] /\ podWatch'[p] = podWatch[p]
          \/ /\ q = p /\ podIPCache'[p] = Head(podWatch[p])
             /\ podWatch'[p] = Tail(podWatch[p])
      BY <1>4 DEF HandlePod, TypeInv, TypeOK, KubeTypeOK
    <2> QED BY <2>1, <2>2, <1>1, TakeFirst
  <1>5. CASE Restart
    <2>1. /\ podPhase' = podPhase /\ ipOf' = ipOf /\ podIPCache'[p] = NoIP
          /\ podWatch'[p] \in {<<>>, <<ipOf[p]>>}
      BY <1>5 DEF Restart, ListedPods
    <2>2. <<>> \in Seq({NoIP, ipOf[p]}) /\ <<ipOf[p]>> \in Seq({NoIP, ipOf[p]})
      BY Singleton
    <2> QED BY <2>1, <2>2, <1>1
  <1>6. CASE MainLoop
    BY <1>6, <1>2
       DEF MainLoop, DropEvent, AcceptEvent, Snapshot, Retire, GiveUp,
           CreateService, PatchSlice, CreateSlice, PatchEW, CreateEW,
           sliceFrame, ewFrame, kubeVars, podVars
  <1>7. CASE Operator
    BY <1>7, <1>2 DEF Operator, OperatorSets, StatusUpdate, podVars
  <1>8. ASSUME NEW r \in Refs, HandleService(r)
        PROVE  UNCHANGED <<podPhase, ipOf, podIPCache, podWatch>>
    BY <1>8 DEF HandleService, podVars
  <1>9. CASE Cache
    BY <1>9, <1>2 DEF Cache, CacheLoad, CacheStore, kubeVars, podVars
  <1>10. ASSUME NEW q \in Pods, NEW u \in Users \cup {NoUser}, LogsIn(q, u)
         PROVE  UNCHANGED <<podPhase, ipOf, podIPCache, podWatch>>
    BY <1>10 DEF LogsIn, kubeVars, podVars
  <1>11. CASE UNCHANGED vars
    BY <1>11, <1>2 DEF vars, kubeVars, podVars, clientVars
  <1> QED
    BY <1>1, <1>2, <1>3, <1>4, <1>5, <1>6, <1>7, <1>8, <1>9, <1>10, <1>11
       DEF Next, Informers, Environment

(* The main loop takes the events in order and publishes for a user only   *)
(* what it holds.                                                          *)
LEMMA OrderStep ==
    TypeInv /\ RegisterInv /\ [Next]_vars => EventsInOrder' /\ EventInHand'
  <1> SUFFICES ASSUME TypeInv, RegisterInv, [Next]_vars
               PROVE  EventsInOrder' /\ EventInHand'
    OBVIOUS
  <1> USE DEF RegisterInv
  <1>1. /\ stream \in Seq(1 .. MaxLogins) /\ logins \in Seq(Login)
        /\ nsLogin \in [Users -> 0 .. MaxLogins]
        /\ ewLogin \in [Users -> 0 .. MaxLogins]
        /\ main \in MainState
        /\ \A i \in DOMAIN stream : stream[i] \in DOMAIN logins
    BY DEF TypeInv, TypeOK, WorkInHand
  <1>2. CASE UNCHANGED <<ipOf, stream, logins, nsLogin, ewLogin>>
             /\ main'.pc # "recv" /\ main.pc # "recv"
             /\ main'.login = main.login /\ main'.user = main.user
             /\ main'.ip = main.ip
             /\ (main'.pc \notin {"ew", "ewCreate"}
                 => main.pc \notin {"ew", "ewCreate"})
    BY <1>2 DEF EventsInOrder, EventInHand
  <1>3. CASE UNCHANGED <<ipOf, stream, logins, nsLogin, ewLogin, main>>
    BY <1>3 DEF EventsInOrder, EventInHand
  <1>4. CASE Operator
    BY <1>4, <1>3
       DEF Operator, OperatorSets, StatusUpdate, podVars, loginVars, servedVars
  <1>5. CASE PodChanges
    <2>1. UNCHANGED <<stream, logins, nsLogin, ewLogin, main>>
      BY <1>5 DEF PodChanges, clientVars, loginVars, servedVars
    <2>2. \A p \in Pods : ipOf[p] # NoIP => ipOf'[p] = ipOf[p]
      BY <1>5 DEF PodChanges, PodCreated, PodDeleted, PodRuns, AddressesKept,
                  TypeInv, TypeOK, KubeTypeOK
    <2>3. main.pc # "recv" => logins[main.login].pod \in Pods /\ main.ip # NoIP
      <3> SUFFICES ASSUME main.pc # "recv"
                   PROVE  logins[main.login].pod \in Pods /\ main.ip # NoIP
        OBVIOUS
      <3>1. logins[main.login] \in Login
        BY <1>1 DEF EventInHand
      <3>2. main.ip \in IPs
        BY DEF TypeInv, WorkInHand
      <3> QED BY <3>1, <3>2, KubeAssumption DEF Login
    <2> QED BY <2>1, <2>2, <2>3 DEF EventsInOrder, EventInHand
  <1>6. ASSUME NEW p \in Pods, NEW u \in Users \cup {NoUser}, LogsIn(p, u)
        PROVE  EventsInOrder' /\ EventInHand'
    <2>1. /\ logins' = Append(logins, [pod |-> p, user |-> u])
          /\ stream' = Append(stream, Len(logins) + 1)
          /\ UNCHANGED <<ipOf, nsLogin, ewLogin, main>>
      BY <1>6 DEF LogsIn, kubeVars, podVars, servedVars
    <2>2. /\ Len(logins') = Len(logins) + 1
          /\ \A n \in DOMAIN logins : n \in DOMAIN logins' /\ logins'[n] = logins[n]
      BY <2>1, <1>1
    <2>3. EventInHand'
      BY <2>1, <2>2 DEF EventInHand
    <2>4. \A i \in DOMAIN stream' :
            \/ i \in DOMAIN stream /\ stream'[i] = stream[i]
            \/ i = Len(stream) + 1 /\ stream'[i] = Len(logins) + 1
      BY <2>1, <1>1
    <2>5. EventsInOrder'
      BY <1>1, <2>1, <2>2, <2>4 DEF EventsInOrder, MainState
    <2> QED BY <2>3, <2>5
  <1>7. ASSUME stream # <<>>, stream' = Tail(stream),
               UNCHANGED <<ipOf, logins, nsLogin, ewLogin>>,
               main'.login \in {main.login, Head(stream)}
        PROVE  EventsInOrder'
    <2>1. \A i \in DOMAIN stream' :
            i + 1 \in DOMAIN stream /\ stream'[i] = stream[i + 1]
      BY <1>1, <1>7
    <2>2. 1 \in DOMAIN stream /\ Head(stream) = stream[1]
      BY <1>1, <1>7
    <2>3. \A i \in DOMAIN stream' : i \in Nat /\ i > 0 /\ stream'[i] \in Nat
      BY <1>1, <1>7
    <2> QED BY <1>1, <1>7, <2>1, <2>2, <2>3 DEF EventsInOrder, MainState
  <1>8. CASE DropEvent
    <2>1. EventsInOrder'
      BY <1>8, <1>7 DEF DropEvent, kubeVars, podVars, servedVars
    <2> QED BY <1>8, <2>1 DEF DropEvent, EventInHand
  <1>9. CASE AcceptEvent
    <2> DEFINE n == Head(stream)
    <2>1. /\ stream # <<>> /\ stream' = Tail(stream) /\ main' = Serving(n)
          /\ Servable(logins[n])
          /\ UNCHANGED <<ipOf, logins, nsLogin, ewLogin>>
      BY <1>9 DEF AcceptEvent, kubeVars, podVars, servedVars
    <2>2. n \in DOMAIN logins /\ 1 \in DOMAIN stream /\ n = stream[1]
      BY <1>1, <2>1
    <2>3. /\ main'.login = n /\ main'.user = logins[n].user
          /\ main'.ip = podIPCache[logins[n].pod] /\ main'.pc = "snapshot"
      BY <2>1 DEF Serving
    <2>4. EventsInOrder'
      BY <1>7, <2>1, <2>3
    <2>5. main'.ip = ipOf[logins[n].pod]
      <3>1. logins[n] \in Login
        BY <1>1, <2>2
      <3>2. podIPCache[logins[n].pod] \in {NoIP, ipOf[logins[n].pod]}
        BY <3>1 DEF Login, AddressesKept
      <3> QED BY <2>1, <2>3, <3>2 DEF Servable
    <2>6. \A u \in Users : nsLogin[u] < n /\ ewLogin[u] < n
      BY <2>2 DEF EventsInOrder
    <2> QED BY <2>1, <2>2, <2>3, <2>4, <2>5, <2>6 DEF EventInHand
  <1>10. CASE Snapshot \/ CreateService \/ \E r \in Refs : Retire(r)
    BY <1>10, <1>1, <1>2
       DEF Snapshot, CreateService, Retire, MainState, kubeVars, podVars,
           loginVars, servedVars
  <1>11. ASSUME main'.login \in {main.login, 0},
                UNCHANGED <<stream, logins>>,
                \A u \in Users : nsLogin'[u] \in {nsLogin[u], main.login}
                              /\ ewLogin'[u] \in {ewLogin[u], main.login}
         PROVE  EventsInOrder'
    <2>1. main.login \in Nat /\ main.login <= Len(logins) /\ Len(logins) \in Nat
      BY <1>1 DEF EventsInOrder, MainState
    <2>2. \A i \in DOMAIN stream :
            stream[i] \in Nat /\ 0 < stream[i] /\ main.login < stream[i]
      BY <1>1 DEF EventsInOrder
    <2>3. \A u \in Users : nsLogin[u] <= Len(logins) /\ ewLogin[u] <= Len(logins)
      BY DEF EventsInOrder
    <2>4. \A u \in Users : /\ nsLogin'[u] <= Len(logins)
                          /\ ewLogin'[u] <= Len(logins)
      BY <1>11, <2>1, <2>3
    <2>5. \A i \in DOMAIN stream : \A u \in Users :
            nsLogin'[u] < stream[i] /\ ewLogin'[u] < stream[i]
      BY <1>11, <2>2 DEF EventsInOrder
    <2>6. \A i, j \in DOMAIN stream : i < j => stream[i] < stream[j]
      BY DEF EventsInOrder
    <2>7. /\ main'.login <= Len(logins)
          /\ \A i \in DOMAIN stream : main'.login < stream[i]
      BY <1>11, <2>1, <2>2
    <2> QED BY <1>11, <2>4, <2>5, <2>6, <2>7 DEF EventsInOrder
  <1>12. CASE GiveUp
    BY <1>12, <1>11, FirstValues
       DEF GiveUp, EventInHand, kubeVars, podVars, loginVars, servedVars
  <1>13. CASE PatchSlice \/ CreateSlice
    <2>1. /\ UNCHANGED <<ipOf, stream, logins, ewLogin>>
          /\ main'.login = main.login /\ main'.user = main.user
          /\ main'.ip = main.ip /\ main.pc # "recv"
      BY <1>13, <1>1
         DEF PatchSlice, CreateSlice, GoTo, sliceFrame, MainState, podVars,
             loginVars
    <2>2. \/ main'.pc = "ew"
          \/ main'.pc = "sliceCreate" /\ nsLogin' = nsLogin /\ main.pc = "slice"
      BY <1>13, <1>1 DEF PatchSlice, CreateSlice, GoTo, MainState
    <2>3. \A u \in Users : nsLogin'[u] \in {nsLogin[u], main.login}
      BY <1>13, <1>1 DEF PatchSlice, CreateSlice, WriteSlice
    <2>4. EventsInOrder'
      BY <1>11, <2>1, <2>3
    <2> QED BY <2>1, <2>2, <2>3, <2>4 DEF EventInHand
  <1>14. CASE PatchEW \/ CreateEW
    <2>1. UNCHANGED <<ipOf, stream, logins, nsLogin>> /\ main.pc # "recv"
      BY <1>14 DEF PatchEW, CreateEW, ewFrame, podVars, loginVars
    <2>2. \/ main' = Receiving
          \/ /\ main'.login = main.login /\ main'.user = main.user
             /\ main'.ip = main.ip /\ main'.pc = "ewCreate"
             /\ ewLogin' = ewLogin
      BY <1>14, <1>1 DEF PatchEW, CreateEW, GoTo, MainState
    <2>3. \A u \in Users : ewLogin'[u] \in {ewLogin[u], main.login}
      BY <1>14, <1>1 DEF PatchEW, CreateEW, WriteEW
    <2>4. EventsInOrder'
      BY <1>11, <2>1, <2>2, <2>3, FirstValues
    <2> QED BY <2>1, <2>2, <2>4, FirstValues DEF EventInHand
  <1>15. CASE Restart
    BY <1>15, FirstValues, <1>1
       DEF Restart, EventsInOrder, EventInHand, servedVars
  <1>16. CASE Informers \/ Cache \/ UNCHANGED vars
    BY <1>16, <1>3
       DEF Informers, Cache, HandlePod, HandleService, CacheLoad, CacheStore,
           vars, clientVars, kubeVars, podVars, loginVars, servedVars
  <1> QED
    BY <1>4, <1>5, <1>6, <1>8, <1>9, <1>10, <1>12, <1>13, <1>14, <1>15, <1>16
       DEF Next, MainLoop, Environment

LEMMA RegisterInitMaps == Init => Register!RInit
  BY DEF Init, KubeInit, ClientInit, Register!RInit, Register!NoRoute, Route

(* A step is a step of RouteRegister on the two routes, or none. *)
LEMMA RegisterStepMaps ==
    TypeInv /\ RegisterInv /\ [Next]_vars => [Register!RNext]_Register!rvars
  <1> SUFFICES ASSUME TypeInv, RegisterInv, [Next]_vars
               PROVE  [Register!RNext]_Register!rvars
    OBVIOUS
  <1> USE DEF RegisterInv
  <1>1. ASSUME UNCHANGED <<ipOf, logins, slice, ew, nsLogin, ewLogin>>
        PROVE  UNCHANGED Register!rvars
    BY <1>1 DEF Register!rvars, Route
  <1>2. /\ nsLogin \in [Users -> 0 .. MaxLogins]
        /\ ewLogin \in [Users -> 0 .. MaxLogins]
        /\ slice \in [Users -> IPs \cup {NoIP}]
        /\ ew \in [Users -> IPs \cup {NoIP}]
    BY DEF TypeInv, TypeOK, KubeTypeOK
  <1>3. CASE PodChanges
    <2>1. UNCHANGED <<logins, slice, ew, nsLogin, ewLogin>>
      BY <1>3 DEF PodChanges, PodCreated, PodDeleted, PodRuns, routeVars,
                  clientVars, loginVars, servedVars
    <2>2. ASSUME NEW p \in Pods, NEW ip \in IPs, PodRuns(p, ip)
          PROVE  Register!AssignIP(p, ip)
      <3>1. ipOf[p] = NoIP /\ ipOf' = [ipOf EXCEPT ![p] = ip]
        BY <2>2 DEF PodRuns, AddressesKept
      <3> QED BY <2>1, <3>1 DEF Register!AssignIP, Route
    <2>3. CASE UNCHANGED ipOf
      BY <2>1, <2>3, <1>1
    <2> QED BY <1>3, <2>2, <2>3
               DEF PodChanges, PodCreated, PodDeleted, Register!RNext
  <1>4. ASSUME NEW p \in Pods, NEW u \in Users \cup {NoUser}, LogsIn(p, u)
        PROVE  Register!RNext
    <2>1. ipOf[p] # NoIP
      BY <1>4 DEF LogsIn, AddressesKept
    <2>2. Register!LogIn(p, u)
      BY <1>4, <2>1
         DEF LogsIn, Register!LogIn, Route, kubeVars, podVars, routeVars,
             servedVars
    <2> QED BY <2>2 DEF Register!RNext
  <1>5. ASSUME main.pc # "recv"
        PROVE  /\ main.user \in Users /\ main.login \in DOMAIN logins
               /\ Register!RouteTo(main.login)
                    = [login |-> main.login, ip |-> main.ip]
               /\ ewLogin[main.user] < main.login
               /\ logins[main.login].user = main.user
    BY <1>5 DEF EventInHand, TypeInv, WorkInHand, Register!RouteTo
  <1>6. CASE PatchSlice \/ CreateSlice
    <2>1. /\ UNCHANGED <<ipOf, logins, ew, ewLogin>>
          /\ main.pc \in {"slice", "sliceCreate"}
      BY <1>6 DEF PatchSlice, CreateSlice, sliceFrame, podVars, loginVars
    <2>2. CASE UNCHANGED <<slice, nsLogin>>
      BY <2>1, <2>2, <1>1
    <2>3. CASE WriteSlice(main.user)
      <3> DEFINE u == main.user
                 old == Route(nsLogin, slice)
      <3>1. Route(nsLogin', slice')
              = [old EXCEPT ![u] = Register!RouteTo(main.login)]
        BY <2>1, <2>3, <1>2, <1>5 DEF WriteSlice, Route
      <3>2. Register!Follows(u, old[u], main.login)
        BY <2>1, <1>5 DEF Register!Follows, Route, EventInHand
      <3>3. Route(ewLogin', ew') = Route(ewLogin, ew)
        BY <2>1 DEF Route
      <3>4. Register!PublishNS(u)
        BY <2>1, <1>5, <3>1, <3>2, <3>3 DEF Register!PublishNS
      <3> QED BY <2>1, <1>5, <3>4 DEF Register!RNext
    <2> QED BY <1>6, <2>2, <2>3 DEF PatchSlice, CreateSlice
  <1>7. CASE PatchEW \/ CreateEW
    <2>1. /\ UNCHANGED <<ipOf, logins, slice, nsLogin>>
          /\ main.pc # "recv"
      BY <1>7 DEF PatchEW, CreateEW, ewFrame, podVars, loginVars
    <2>2. CASE UNCHANGED <<ew, ewLogin>>
      BY <2>1, <2>2, <1>1
    <2>3. CASE WriteEW(main.user)
      <3> DEFINE u == main.user
                 old == Route(ewLogin, ew)
      <3>1. Route(ewLogin', ew')
              = [old EXCEPT ![u] = Register!RouteTo(main.login)]
        BY <2>1, <2>3, <1>2, <1>5 DEF WriteEW, Route
      <3>2. Register!Follows(u, old[u], main.login)
        BY <2>1, <1>5 DEF Register!Follows, Route
      <3>3. Route(nsLogin', slice') = Route(nsLogin, slice)
        BY <2>1 DEF Route
      <3>4. Register!PublishEW(u)
        BY <2>1, <1>5, <3>1, <3>2, <3>3 DEF Register!PublishEW
      <3> QED BY <2>1, <1>5, <3>4 DEF Register!RNext
    <2> QED BY <1>7, <2>2, <2>3 DEF PatchEW, CreateEW
  <1>8. CASE Operator \/ Informers \/ Cache \/ Restart \/ UNCHANGED vars
    BY <1>8, <1>1
       DEF Operator, OperatorSets, StatusUpdate, Informers, HandlePod,
           HandleService, Cache, CacheLoad, CacheStore, Restart, vars,
           clientVars, kubeVars, podVars, routeVars, loginVars, servedVars
  <1>9. CASE \/ DropEvent \/ AcceptEvent \/ Snapshot \/ GiveUp
             \/ CreateService \/ \E r \in Refs : Retire(r)
    BY <1>9, <1>1
       DEF DropEvent, AcceptEvent, Snapshot, GiveUp, CreateService, Retire,
           kubeVars, podVars, routeVars, loginVars, servedVars
  <1> QED
    BY <1>3, <1>4, <1>6, <1>7, <1>8, <1>9 DEF Next, MainLoop, Environment

(* Through lagging informers, reused addresses, failed calls and restarts, *)
(* the routes written to the cluster are those of a RouteRegister: each    *)
(* leads to the Pod of a login of its own user, and none goes back to an   *)
(* earlier login.                                                          *)
THEOREM ClientImplementsRouteRegister == Spec => RefinesRouteRegister
  <1>1. Init => TypeInv /\ RegisterInv /\ Register!RInit
    BY TypeInit, RegisterInit, RegisterInitMaps
  <1>2. TypeInv /\ RegisterInv /\ [Next]_vars => (TypeInv /\ RegisterInv)'
    BY TypeStep, AddressStep, OrderStep DEF RegisterInv
  <1>3. TypeInv /\ RegisterInv /\ [Next]_vars
        => [Register!RNext]_Register!rvars
    BY RegisterStepMaps
  <1> QED BY <1>1, <1>2, <1>3, PTL
             DEF Spec, RefinesRouteRegister, Register!RSpec
-----------------------------------------------------------------------------
(* The two routes of a user, the completeness of serviceCache, and the     *)
(* removal of duplicate hostnames.                                         *)

(* The users whose two routes were written for different logins.           *)
Differ == {u \in Users : nsLogin[u] # ewLogin[u]}

(* Of the user in hand the slice comes first.                              *)
AgreeInv ==
    /\ IsFiniteSet(Differ)
    /\ main.pc \notin {"ew", "ewCreate"} => Cardinality(Differ) <= faults + restarts
    /\ main.pc \in {"ew", "ewCreate"} =>
         Cardinality(IF nsLogin[main.user] = main.login
                     THEN Differ \ {main.user} ELSE Differ \cup {main.user})
             <= faults + restarts

InQueue(x, q) == \E i \in DOMAIN q : q[i] = x
AppendsLast(q) == \A i \in DOMAIN q : q[i].kind = "append" => i = Len(q)

(* The latest event of a Service tells its state.                          *)
WatchesCurrent ==
    \A r \in Refs : svcWatch[r] # <<>> => svcWatch[r][Len(svcWatch[r])].new = svc[r]

(* What the informer has handled is in the text, or will be when it has    *)
(* done what it has still to do.                                           *)
Listed(u, r) ==
    \/ InQueue(AppendOp(u, r), ops["informer"])
    \/ r \in serviceCache[u].refs /\ ~InQueue(RemoveOp(u, r), ops["informer"])

HandledListed ==
    ~raced => \A u \in Users, r \in Refs :
        svc[r] = Announcing(u) /\ svcWatch[r] = <<>> => Listed(u, r)

OpsShape ==
    /\ \A g \in Goroutines : AppendsLast(ops[g])
    /\ \A i \in DOMAIN ops["main"] : ops["main"][i].kind = "append"

CacheInv == WatchesCurrent /\ OpsShape /\ HandledListed

(* What still announces the hostname of the user in hand is yet to be      *)
(* retired, or has kept the client from going on.                          *)
RetireInv ==
    main.pc \in {"retire", "slice"} /\ fresh /\ ~raced =>
        \A r \in Refs \ {Primary(main.user)} :
            svc[r] = Announcing(main.user) =>
                main.pc = "retire" /\ r \in main.todo \cup main.kept
-----------------------------------------------------------------------------
(* The two routes of a user.                                               *)

(* The users that differ change only where a route is written.             *)
LEMMA AgreeStep == TypeInv /\ AgreeInv /\ [Next]_vars => AgreeInv'
  <1> SUFFICES ASSUME TypeInv, AgreeInv, [Next]_vars PROVE AgreeInv'
    OBVIOUS
  <1> DEFINE u == main.user
             b == faults + restarts
  <1>1. /\ b \in Nat /\ IsFiniteSet(Differ) /\ Cardinality(Differ) \in Nat
        /\ faults \in Nat /\ restarts \in Nat
        /\ main \in MainState
        /\ main.pc # "recv" => u \in Users
        /\ nsLogin \in [Users -> 0 .. MaxLogins] /\ ewLogin \in [Users -> 0 .. MaxLogins]
    BY ClientAssumption, FS_CardinalityType DEF TypeInv, TypeOK, WorkInHand, AgreeInv
  (* With one user more or less. *)
  <1>2. /\ IsFiniteSet(Differ \ {u}) /\ IsFiniteSet(Differ \cup {u})
        /\ Cardinality(Differ \ {u}) \in Nat /\ Cardinality(Differ \cup {u}) \in Nat
        /\ Cardinality(Differ \ {u}) <= Cardinality(Differ)
        /\ Cardinality(Differ) <= Cardinality(Differ \ {u}) + 1
        /\ Cardinality(Differ) <= Cardinality(Differ \cup {u})
        /\ Cardinality(Differ \cup {u}) <= Cardinality(Differ) + 1
    <2>1. IsFiniteSet(Differ \ {u}) /\ IsFiniteSet(Differ \cup {u})
      BY <1>1, FS_RemoveElement, FS_AddElement
    <2>2. Cardinality(Differ \ {u}) \in Nat /\ Cardinality(Differ \cup {u}) \in Nat
      BY <2>1, FS_CardinalityType
    <2>3. Cardinality(Differ \ {u}) = IF u \in Differ THEN Cardinality(Differ) - 1
                                      ELSE Cardinality(Differ)
      BY <1>1, FS_RemoveElement
    <2>4. Cardinality(Differ \cup {u}) = IF u \in Differ THEN Cardinality(Differ)
                                         ELSE Cardinality(Differ) + 1
      BY <1>1, FS_AddElement
    <2> QED BY <1>1, <2>1, <2>2, <2>3, <2>4
  <1>3. \A S : S = Differ \/ S = Differ \ {u} \/ S = Differ \cup {u}
           => IsFiniteSet(S) /\ Cardinality(S) \in Nat
    BY <1>1, <1>2
  <1> HIDE DEF u, b
  <1>4. ASSUME nsLogin' = nsLogin, ewLogin' = ewLogin, main' = main, budgetVars' = budgetVars
        PROVE  AgreeInv'
    <2>1. Differ' = Differ
      BY <1>4 DEF Differ
    <2> QED BY <1>4, <2>1 DEF AgreeInv, budgetVars
  <1>5. ASSUME nsLogin' = nsLogin, ewLogin' = ewLogin,
               budgetVars' = budgetVars \/ Fault,
               main.pc \notin {"ew", "ewCreate"}, main'.pc \notin {"ew", "ewCreate"}
        PROVE  AgreeInv'
    <2>1. Differ' = Differ /\ Cardinality(Differ) <= b
      BY <1>5 DEF Differ, AgreeInv, b
    <2>2. faults' + restarts' >= b
      BY <1>1, <1>5 DEF Fault, budgetVars, b
    <2>3. Cardinality(Differ') <= faults' + restarts'
      BY <1>1, <1>5, <2>1, <2>2 DEF Fault, budgetVars
    <2> QED BY <1>1, <1>5, <2>1, <2>3 DEF AgreeInv
  <1>6. \A pc : /\ [main EXCEPT !.pc = pc].user = main.user
               /\ [main EXCEPT !.pc = pc].login = main.login
               /\ [main EXCEPT !.pc = pc].pc = pc
    BY <1>1 DEF MainState
  (* The slice has been written, or a call has failed. *)
  <1>7. ASSUME main.pc \in {"slice", "sliceCreate"}, main' = [main EXCEPT !.pc = "ew"],
               ewLogin' = ewLogin,
               \/ WriteSlice(main.user) /\ (budgetVars' = budgetVars \/ Fault)
               \/ nsLogin' = nsLogin /\ Fault
        PROVE  AgreeInv'
    <2>1. /\ main'.user = u /\ main'.login = main.login /\ main'.pc = "ew" /\ u \in Users
          /\ Cardinality(Differ) <= b
      BY <1>1, <1>6, <1>7 DEF AgreeInv, u, b
    <2>2. CASE WriteSlice(main.user) /\ (budgetVars' = budgetVars \/ Fault)
      <3>1. nsLogin'[u] = main.login /\ \A v \in Users \ {u} : nsLogin'[v] = nsLogin[v]
        BY <1>1, <2>1, <2>2 DEF WriteSlice, u
      <3>2. Differ' \ {u} = Differ \ {u} /\ (Differ' = Differ \ {u} \/ Differ' = Differ \cup {u})
        BY <1>7, <2>1, <3>1 DEF Differ
      <3>3. faults' + restarts' >= b /\ faults' + restarts' \in Nat
        BY <1>1, <2>2 DEF Fault, budgetVars, b
      <3>4. Cardinality(Differ' \ {u}) <= faults' + restarts'
        BY <1>1, <1>2, <2>1, <3>2, <3>3
      <3> QED BY <1>3, <2>1, <3>1, <3>2, <3>4 DEF AgreeInv
    <2>3. CASE nsLogin' = nsLogin /\ Fault
      <3>1. Differ' = Differ
        BY <1>7, <2>3 DEF Differ
      <3>2. faults' + restarts' = b + 1
        BY <1>1, <2>3 DEF Fault, b
      <3>3. /\ Cardinality(Differ \ {u}) <= faults' + restarts'
            /\ Cardinality(Differ \cup {u}) <= faults' + restarts'
        BY <1>1, <1>2, <2>1, <3>2
      <3> QED BY <1>1, <2>1, <3>1, <3>3 DEF AgreeInv
    <2> QED BY <1>7, <2>2, <2>3
  (* So has the East-West Service, or not, and the event is done. *)
  <1>8. ASSUME main.pc \in {"ew", "ewCreate"}, main' = Receiving, nsLogin' = nsLogin,
               \/ WriteEW(main.user) /\ (budgetVars' = budgetVars \/ Fault)
               \/ ewLogin' = ewLogin /\ Fault
        PROVE  AgreeInv'
    <2> DEFINE D == IF nsLogin[u] = main.login THEN Differ \ {u} ELSE Differ \cup {u}
    <2>1. main'.pc = "recv" /\ u \in Users /\ Cardinality(D) <= b
      BY <1>1, <1>8, FirstValues DEF AgreeInv, u, b
    <2>2. Cardinality(D) \in Nat /\ Cardinality(Differ) <= Cardinality(D) + 1
      BY <1>1, <1>2
    <2>3. CASE WriteEW(main.user) /\ (budgetVars' = budgetVars \/ Fault)
      <3>1. ewLogin'[u] = main.login /\ \A v \in Users \ {u} : ewLogin'[v] = ewLogin[v]
        BY <1>1, <2>1, <2>3 DEF WriteEW, u
      <3>2. Differ' = D
        BY <1>8, <2>1, <3>1 DEF Differ
      <3>3. faults' + restarts' >= b /\ faults' + restarts' \in Nat
        BY <1>1, <2>3 DEF Fault, budgetVars, b
      <3>4. IsFiniteSet(D)
        BY <1>3
      <3> HIDE DEF D
      <3>5. Cardinality(Differ') <= faults' + restarts'
        BY <1>1, <2>1, <2>2, <3>2, <3>3
      <3> QED BY <2>1, <3>2, <3>4, <3>5 DEF AgreeInv
    <2>4. CASE ewLogin' = ewLogin /\ Fault
      <3>1. Differ' = Differ
        BY <1>8, <2>4 DEF Differ
      <3>2. faults' + restarts' = b + 1
        BY <1>1, <2>4 DEF Fault, b
      <3> HIDE DEF D
      <3>3. Cardinality(Differ) <= faults' + restarts'
        BY <1>1, <2>1, <2>2, <3>2
      <3> QED BY <1>1, <2>1, <3>1, <3>3 DEF AgreeInv
    <2> QED BY <1>8, <2>3, <2>4
  <1>9. CASE Restart
    <2>1. /\ Differ' = Differ /\ main'.pc = "recv" /\ faults' = faults
          /\ restarts' = restarts + 1
      BY <1>9, FirstValues DEF Restart, servedVars, Differ
    <2>2. Cardinality(Differ) <= b + 1
      BY <1>1, <1>2 DEF AgreeInv, u, b
    <2> QED BY <1>1, <2>1, <2>2 DEF AgreeInv, b
  <1>10. CASE Environment \/ Informers \/ Cache \/ DropEvent \/ UNCHANGED vars
    <2>1. nsLogin' = nsLogin /\ ewLogin' = ewLogin /\ main' = main /\ budgetVars' = budgetVars
      <3>1. CASE Environment
        BY <3>1 DEF Environment, Operator, PodChanges, LogsIn, clientVars, servedVars, budgetVars
      <3>2. CASE Informers \/ Cache
        BY <3>2 DEF Informers, Cache, HandlePod, HandleService, CacheLoad, CacheStore, servedVars,
                    budgetVars
      <3>3. CASE DropEvent \/ UNCHANGED vars
        BY <3>3 DEF DropEvent, vars, clientVars, servedVars, budgetVars
      <3> QED BY <1>10, <3>1, <3>2, <3>3
    <2> QED BY <1>4, <2>1
  <1>11. CASE AcceptEvent
    BY <1>5, <1>11 DEF AcceptEvent, Serving, servedVars
  <1>12. CASE Snapshot
    BY <1>1, <1>5, <1>12 DEF Snapshot, servedVars, MainState
  <1>13. ASSUME NEW r \in Refs, Retire(r) PROVE AgreeInv'
    <2>1. main'.pc = "retire"
      BY <1>1, <1>13 DEF Retire, MainState
    <2> QED BY <1>5, <1>13, <2>1 DEF Retire, servedVars
  <1>14. CASE GiveUp
    BY <1>5, <1>14, FirstValues DEF GiveUp, servedVars
  <1>15. CASE CreateService
    BY <1>1, <1>5, <1>15 DEF CreateService, servedVars, MainState
  <1>16. CASE PatchSlice
    <2>1. CASE GoTo("sliceCreate") /\ UNCHANGED <<slice, nsLogin, budgetVars>>
      BY <1>5, <1>6, <1>16, <2>1 DEF PatchSlice, GoTo, sliceFrame
    <2>2. CASE GoTo("ew")
      BY <1>6, <1>7, <1>16, <2>2 DEF PatchSlice, GoTo, sliceFrame
    <2> QED BY <1>16, <2>1, <2>2 DEF PatchSlice
  <1>17. CASE CreateSlice
    BY <1>7, <1>17 DEF CreateSlice, GoTo, sliceFrame
  <1>18. CASE PatchEW
    <2>1. CASE GoTo("ewCreate") /\ UNCHANGED <<ew, ewLogin, budgetVars>>
      <3>1. /\ main'.pc = "ewCreate" /\ main'.user = main.user /\ main'.login = main.login
            /\ main.pc = "ew" /\ Differ' = Differ /\ nsLogin' = nsLogin
        BY <1>6, <1>18, <2>1 DEF PatchEW, GoTo, ewFrame, Differ
      <3> QED BY <2>1, <3>1 DEF AgreeInv, budgetVars
    <2>2. CASE main' = Receiving
      <3>1. main.pc = "ew" /\ nsLogin' = nsLogin
        BY <1>18 DEF PatchEW, ewFrame
      <3>2. \/ WriteEW(main.user) /\ (budgetVars' = budgetVars \/ Fault)
            \/ ewLogin' = ewLogin /\ Fault
            \/ main'.pc = "ewCreate"
        BY <1>6, <1>18 DEF PatchEW, GoTo
      <3> QED BY <1>8, <2>2, <3>1, <3>2, FirstValues
    <2> QED BY <1>18, <2>1, <2>2 DEF PatchEW
  <1>19. CASE CreateEW
    BY <1>8, <1>19 DEF CreateEW, ewFrame
  <1> QED BY <1>9, <1>10, <1>11, <1>12, <1>13, <1>14, <1>15, <1>16, <1>17, <1>18, <1>19
          DEF Next, MainLoop

(* However the calls and the restarts fall, between two events the two     *)
(* routes of a user belong to one login, but for one user for every        *)
(* failure (main.go, patchEndpointSlice and handleEWService).              *)
THEOREM RoutesStayTogether == Spec => []RoutesAgree
  <1>1. Init => TypeInv /\ AgreeInv
    <2> SUFFICES ASSUME Init PROVE AgreeInv
      BY TypeInit
    <2>1. Differ = {} /\ main.pc = "recv" /\ faults = 0 /\ restarts = 0
      BY FirstValues DEF Differ, Init, ClientInit
    <2> QED BY <2>1, FS_EmptySet DEF AgreeInv
  <1>2. TypeInv /\ AgreeInv /\ [Next]_vars => (TypeInv /\ AgreeInv)'
    BY TypeStep, AgreeStep
  <1>3. AgreeInv => RoutesAgree
    BY DEF AgreeInv, RoutesAgree, Differ
  <1> QED BY <1>1, <1>2, <1>3, PTL DEF Spec
-----------------------------------------------------------------------------
(* serviceCache.                                                           *)

(* An operation is taken from the head of its list.                        *)
LEMMA TakeOp ==
    ASSUME NEW S, NEW q \in Seq(S), q # <<>>
    PROVE  /\ \A x : InQueue(x, Tail(q)) => InQueue(x, q)
           /\ \A x : InQueue(x, q) /\ x # Head(q) => InQueue(x, Tail(q))
           /\ InQueue(Head(q), q)
           /\ AppendsLast(q) => AppendsLast(Tail(q))
           /\ AppendsLast(q) /\ Head(q).kind = "append" => \A x : ~InQueue(x, Tail(q))
           /\ \A i \in DOMAIN Tail(q) : i + 1 \in DOMAIN q /\ Tail(q)[i] = q[i + 1]
  <1>1. /\ Len(q) \in Nat \ {0} /\ DOMAIN q = 1..Len(q) /\ Head(q) = q[1]
        /\ DOMAIN Tail(q) = 1..(Len(q) - 1) /\ Len(Tail(q)) = Len(q) - 1
        /\ \A i \in 1..(Len(q) - 1) : Tail(q)[i] = q[i + 1]
    OBVIOUS
  <1>2. ASSUME NEW x, InQueue(x, q), x # Head(q) PROVE InQueue(x, Tail(q))
    <2>1. PICK i \in 1..Len(q) : q[i] = x
      BY <1>1, <1>2 DEF InQueue
    <2>2. i - 1 \in 1..(Len(q) - 1) /\ Tail(q)[i - 1] = x
      BY <1>1, <1>2, <2>1
    <2> QED BY <1>1, <2>2 DEF InQueue
  <1>3. \A x : InQueue(x, Tail(q)) => InQueue(x, q)
    BY <1>1 DEF InQueue
  <1>4. InQueue(Head(q), q)
    BY <1>1 DEF InQueue
  <1>5. AppendsLast(q) => AppendsLast(Tail(q))
    BY <1>1 DEF AppendsLast
  <1>6. AppendsLast(q) /\ Head(q).kind = "append" => \A x : ~InQueue(x, Tail(q))
    BY <1>1 DEF AppendsLast, InQueue
  <1>7. \A i \in DOMAIN Tail(q) : i + 1 \in DOMAIN q /\ Tail(q)[i] = q[i + 1]
    BY <1>1
  <1> QED BY <1>2, <1>3, <1>4, <1>5, <1>6, <1>7

(* What the handlers of main.go ask for: at most one removal, then at most *)
(* one addition, of the Service at hand; and the addition when it has come *)
(* to announce a hostname.                                                 *)
LEMMA CacheOpsShape ==
    ASSUME NEW r \in Refs, NEW e \in SvcEvent
    PROVE  /\ AppendsLast(CacheOps(r, e))
           /\ \A x : InQueue(x, CacheOps(r, e)) => x.ref = r
           /\ \A u \in Users : e.new = Announcing(u) => InQueue(AppendOp(u, r), CacheOps(r, e))
  <1> DEFINE Good(q) ==
        /\ AppendsLast(q)
        /\ \A x : InQueue(x, q) => x.ref = r
        /\ \A u \in Users : e.new = Announcing(u) => InQueue(AppendOp(u, r), q)
  <1>1. \A k : /\ AppendOp(k, r).kind = "append" /\ AppendOp(k, r).ref = r
               /\ RemoveOp(k, r).kind = "remove" /\ RemoveOp(k, r).ref = r
    BY DEF AppendOp, RemoveOp
  <1>2. \A u \in Users : /\ IsManaged(Announcing(u)) /\ Announcing(u).key = u
                         /\ Announcing(u) # Absent /\ u # NoUser
    BY KubeAssumption DEF IsManaged, Announcing, Absent
  <1>3. \A x : /\ AppendsLast(<<x>>) /\ \A y : InQueue(y, <<x>>) <=> y = x
    BY DEF AppendsLast, InQueue
  <1>4. AppendsLast(<<>>) /\ \A y : ~InQueue(y, <<>>)
    BY DEF AppendsLast, InQueue
  <1>5. \A x, y : x.kind # "append" =>
            /\ AppendsLast(<<x, y>>) /\ \A z : InQueue(z, <<x, y>>) <=> z = x \/ z = y
    BY DEF AppendsLast, InQueue
  <1>6. Good(AddFunc(r, e.new))
    BY <1>1, <1>2, <1>3, <1>4 DEF AddFunc
  <1>7. e.new = Absent => Good(DeleteFunc(r, e.old))
    BY <1>1, <1>2, <1>3, <1>4 DEF DeleteFunc
  <1>8. Good(UpdateFunc(r, e.old, e.new))
    <2> DEFINE a == RemoveOp(e.old.key, r)
               b == AppendOp(e.new.key, r)
    <2>1. UpdateFunc(r, e.old, e.new) =
            IF e.old.key # NoUser /\ e.old.key # e.new.key
            THEN IF e.new.key # NoUser THEN <<a, b>> ELSE <<a>>
            ELSE IF e.new.key # NoUser THEN <<b>> ELSE <<>>
      <3>1. ASSUME NEW x, NEW y
            PROVE  /\ <<x>> \o <<y>> = <<x, y>> /\ <<x>> \o <<>> = <<x>>
                   /\ <<>> \o <<y>> = <<y>> /\ <<>> \o <<>> = <<>>
        <4> DEFINE S == {x, y}
        <4>1. <<x>> \in Seq(S) /\ <<y>> \in Seq(S) /\ <<>> \in Seq(S)
          OBVIOUS
        <4>2. <<x>> \o <<y>> = <<x, y>>
          <5>1. <<x>> \o <<y>> \in Seq(S) /\ <<x, y>> \in Seq(S)
            BY <4>1
          <5>2. Len(<<x>> \o <<y>>) = 2 /\ Len(<<x, y>>) = 2
            BY <4>1
          <5>3. /\ (<<x>> \o <<y>>)[1] = x /\ (<<x>> \o <<y>>)[2] = y
                /\ <<x, y>>[1] = x /\ <<x, y>>[2] = y
            BY <4>1
          <5>4. \A i \in 1..2 : (<<x>> \o <<y>>)[i] = <<x, y>>[i]
            BY <5>3
          <5> QED BY <5>1, <5>2, <5>4, SeqEqual
        <4>3. <<x>> \o <<>> = <<x>> /\ <<>> \o <<y>> = <<y>> /\ <<>> \o <<>> = <<>>
          BY <4>1
        <4> QED BY <4>2, <4>3
      <3> HIDE DEF a, b
      <3> QED BY <3>1, Zenon DEF UpdateFunc, a, b
    <2>2. a.kind = "remove" /\ a.ref = r /\ b.ref = r
      BY <1>1
    <2>3. \A u \in Users : e.new = Announcing(u) => e.new.key # NoUser /\ b = AppendOp(u, r)
      BY <1>2
    <2> HIDE DEF a, b
    <2> QED BY <1>3, <1>4, <1>5, <2>1, <2>2, <2>3
  <1>9. CASE e.old = Absent
    BY <1>6, <1>9 DEF CacheOps
  <1>10. CASE e.old # Absent /\ e.new = Absent
    BY <1>7, <1>10 DEF CacheOps
  <1>11. CASE e.old # Absent /\ e.new # Absent
    BY <1>8, <1>11 DEF CacheOps
  <1> QED BY <1>9, <1>10, <1>11

(* A write to a Service is told by the latest event of its watch, if it    *)
(* changes anything.                                                       *)
LEMMA NotifyStep ==
    ASSUME TypeInv, WatchesCurrent, NEW r \in Refs, NEW s \in ServiceStates,
           \/ SetService(r, s)
           \/ s = svc[r] /\ svc' = svc /\ Notify(r, s)
    PROVE  /\ WatchesCurrent'
           /\ \A q \in Refs : svcWatch'[q] = <<>> => svcWatch[q] = <<>> /\ svc'[q] = svc[q]
  <1>1. svc \in [Refs -> ServiceStates] /\ svcWatch \in [Refs -> Seq(SvcEvent)]
    BY DEF TypeInv, TypeOK, KubeTypeOK
  <1>2. CASE UNCHANGED <<svc, svcWatch>>
    BY <1>2 DEF WatchesCurrent
  <1>3. CASE svc' = [svc EXCEPT ![r] = s] /\ Notify(r, s)
    <2> DEFINE e == [old |-> svc[r], new |-> s]
    <2>1. /\ svcWatch[r] \in Seq(SvcEvent) /\ e \in SvcEvent
          /\ svcWatch'[r] = Append(svcWatch[r], e) /\ svc'[r] = s
          /\ \A q \in Refs \ {r} : svcWatch'[q] = svcWatch[q] /\ svc'[q] = svc[q]
      BY <1>1, <1>3 DEF Notify, SvcEvent
    <2>2. e.new = s
      OBVIOUS
    <2> HIDE DEF e
    <2>3. /\ svcWatch'[r] # <<>>
          /\ svcWatch'[r][Len(svcWatch'[r])] = e
      BY <2>1
    <2> QED BY <2>1, <2>2, <2>3 DEF WatchesCurrent
  <1>4. svc' = svc /\ s = svc[r] => svc' = [svc EXCEPT ![r] = s]
    BY <1>1
  <1> QED BY <1>1, <1>2, <1>3, <1>4 DEF SetService

(* Neither side touches what is listed, but for the steps on the cache.    *)
LEMMA ListedKept ==
    ASSUME \A u \in Users : serviceCache'[u].refs = serviceCache[u].refs,
           ops'["informer"] = ops["informer"]
    PROVE  \A u \in Users, r \in Refs : Listed(u, r) => Listed(u, r)'
  BY DEF Listed

(* serviceCache lists what the informer has handled.                       *)
LEMMA CacheStep == TypeInv /\ CacheInv /\ [Next]_vars => CacheInv'
  <1> SUFFICES ASSUME TypeInv, CacheInv, [Next]_vars PROVE CacheInv'
    OBVIOUS
  <1> USE DEF CacheInv
  <1>1. /\ svc \in [Refs -> ServiceStates] /\ svcWatch \in [Refs -> Seq(SvcEvent)]
        /\ serviceCache \in [Users -> CacheEntry] /\ ops \in [Goroutines -> Seq(CacheOp)]
        /\ held \in [Goroutines -> Held]
        /\ main.pc # "slice" => ops["main"] = <<>>
        /\ main.pc # "recv" => main.user \in Users
        /\ \A g \in Goroutines : held[g].loaded => ops[g] # <<>>
    BY DEF TypeInv, TypeOK, KubeTypeOK, WorkInHand
  <1>2. ASSUME WatchesCurrent', OpsShape', raced => raced',
               \A r \in Refs : svcWatch'[r] = <<>> => svcWatch[r] = <<>> /\ svc'[r] = svc[r],
               \A u \in Users : serviceCache'[u].refs = serviceCache[u].refs,
               ops'["informer"] = ops["informer"]
        PROVE  CacheInv'
    <2>1. \A u \in Users, r \in Refs : Listed(u, r) => Listed(u, r)'
      BY <1>2, ListedKept
    <2>2. HandledListed'
      BY <1>2, <2>1 DEF HandledListed
    <2> QED BY <1>2, <2>2
  <1>3. ASSUME UNCHANGED <<svc, svcWatch, ops, raced>>,
               \A u \in Users : serviceCache'[u].refs = serviceCache[u].refs
        PROVE  CacheInv'
    <2>1. WatchesCurrent' /\ OpsShape'
      BY <1>3 DEF WatchesCurrent, OpsShape
    <2> QED BY <1>2, <1>3, <2>1
  <1>4. ASSUME NEW r \in Refs, NEW s \in ServiceStates,
               \/ SetService(r, s)
               \/ s = svc[r] /\ svc' = svc /\ Notify(r, s),
               UNCHANGED <<serviceCache, ops, raced>>
        PROVE  CacheInv'
    <2>1. /\ WatchesCurrent'
          /\ \A q \in Refs : svcWatch'[q] = <<>> => svcWatch[q] = <<>> /\ svc'[q] = svc[q]
      BY <1>4, NotifyStep
    <2>2. OpsShape'
      BY <1>4 DEF OpsShape
    <2> QED BY <1>2, <1>4, <2>1, <2>2
  <1>5. CASE Operator
    <2>1. UNCHANGED <<serviceCache, ops, raced>>
      BY <1>5 DEF Operator, cacheVars
    <2>2. ASSUME NEW r \in Refs, NEW s \in ServiceStates, OperatorSets(r, s)
          PROVE  CacheInv'
      BY <1>4, <2>1, <2>2 DEF OperatorSets
    <2>3. ASSUME NEW r \in Refs, StatusUpdate(r) PROVE CacheInv'
      <3>1. svc[r] \in ServiceStates
        BY <1>1
      <3> QED BY <1>4, <2>1, <2>3, <3>1 DEF StatusUpdate
    <2> QED BY <1>5, <2>2, <2>3 DEF Operator
  <1>6. CASE PodChanges \/ (\E p \in Pods, u \in Users \cup {NoUser} : LogsIn(p, u))
             \/ (\E p \in Pods : HandlePod(p)) \/ DropEvent \/ AcceptEvent \/ GiveUp
             \/ PatchSlice \/ CreateSlice \/ PatchEW \/ CreateEW \/ UNCHANGED vars
    <2>1. UNCHANGED <<svc, svcWatch, ops, raced, serviceCache>>
      <3>1. CASE PodChanges
        BY <3>1 DEF PodChanges, PodCreated, PodDeleted, PodRuns, svcVars, clientVars, cacheVars
      <3>2. CASE \E p \in Pods, u \in Users \cup {NoUser} : LogsIn(p, u)
        BY <3>2 DEF LogsIn, kubeVars, svcVars, cacheVars
      <3>3. CASE \E p \in Pods : HandlePod(p)
        BY <3>3 DEF HandlePod, svcVars, cacheVars
      <3>4. CASE DropEvent \/ AcceptEvent \/ GiveUp
        BY <3>4 DEF DropEvent, AcceptEvent, GiveUp, kubeVars, svcVars, cacheVars
      <3>5. CASE PatchSlice \/ CreateSlice \/ PatchEW \/ CreateEW
        BY <3>5 DEF PatchSlice, CreateSlice, PatchEW, CreateEW, sliceFrame, ewFrame, svcVars,
                    cacheVars
      <3>6. CASE UNCHANGED vars
        BY <3>6 DEF vars, kubeVars, svcVars, clientVars, cacheVars
      <3> QED BY <1>6, <3>1, <3>2, <3>3, <3>4, <3>5, <3>6
    <2> QED BY <1>3, <2>1
  <1>7. CASE Snapshot
    <2>1. /\ UNCHANGED <<svc, svcWatch, ops, raced>>
          /\ serviceCache' = [serviceCache EXCEPT ![main.user].ok = TRUE]
      BY <1>7 DEF Snapshot, kubeVars, svcVars
    <2>2. \A u \in Users : serviceCache'[u].refs = serviceCache[u].refs
      BY <1>1, <2>1 DEF CacheEntry
    <2> QED BY <1>3, <2>1, <2>2
  <1>8. ASSUME NEW r \in Refs, Retire(r) PROVE CacheInv'
    <2>1. UNCHANGED <<serviceCache, ops, raced>>
      BY <1>8 DEF Retire, cacheVars
    <2>2. CASE Unannotate(r)
      BY <1>4, <2>1, <2>2, ServiceStatesType DEF Unannotate
    <2>3. CASE UNCHANGED svcVars
      BY <1>3, <2>1, <2>3 DEF svcVars
    <2> QED BY <1>8, <2>2, <2>3 DEF Retire
  <1>9. CASE CreateService
    <2> DEFINE u == main.user
    <2>1. /\ main.pc = "retire" /\ u \in Users
          /\ ops' = [ops EXCEPT !["main"] = <<AppendOp(u, Primary(u))>>]
          /\ serviceCache' = serviceCache /\ raced' = raced
      BY <1>1, <1>9 DEF CreateService
    <2>2. ops'["informer"] = ops["informer"] /\ ops'["main"] = <<AppendOp(u, Primary(u))>>
      BY <1>1, <2>1 DEF Goroutines
    <2>3. OpsShape'
      <3>1. AppendsLast(ops'["main"]) /\ \A i \in DOMAIN ops'["main"] : ops'["main"][i].kind = "append"
        BY <2>2 DEF AppendsLast, AppendOp
      <3>2. AppendsLast(ops'["informer"])
        BY <2>2 DEF OpsShape, Goroutines
      <3> QED BY <3>1, <3>2 DEF OpsShape, Goroutines
    <2>4. /\ WatchesCurrent'
          /\ \A q \in Refs : svcWatch'[q] = <<>> => svcWatch[q] = <<>> /\ svc'[q] = svc[q]
      <3>1. CASE UNCHANGED svcVars
        BY <3>1 DEF svcVars, WatchesCurrent
      <3>2. CASE CreateNSService(u)
        <4>1. SetService(Primary(u), Announcing(u)) /\ Primary(u) \in Refs
          BY <2>1, <3>2 DEF CreateNSService, Primary, Refs
        <4> QED BY <2>1, <4>1, NotifyStep, ServiceStatesType
      <3> QED BY <1>9, <3>1, <3>2 DEF CreateService
    <2> QED BY <1>2, <2>1, <2>2, <2>3, <2>4
  <1>10. ASSUME NEW r \in Refs, HandleService(r) PROVE CacheInv'
    <2> DEFINE e == Head(svcWatch[r])
    <2>1. /\ ops["informer"] = <<>> /\ svcWatch[r] # <<>> /\ svc' = svc
          /\ ops' = [ops EXCEPT !["informer"] = CacheOps(r, e)]
          /\ svcWatch' = [svcWatch EXCEPT ![r] = Tail(@)]
          /\ serviceCache' = serviceCache /\ raced' = raced
      BY <1>10 DEF HandleService
    <2>2. e \in SvcEvent
      BY <1>1, <2>1, TakeFromQueue
    <2>3. /\ ops'["informer"] = CacheOps(r, e) /\ ops'["main"] = ops["main"]
          /\ svcWatch'[r] = Tail(svcWatch[r])
          /\ \A q \in Refs \ {r} : svcWatch'[q] = svcWatch[q]
      BY <1>1, <2>1 DEF Goroutines
    <2>4. /\ AppendsLast(CacheOps(r, e))
          /\ \A x : InQueue(x, CacheOps(r, e)) => x.ref = r
          /\ \A u \in Users : e.new = Announcing(u) => InQueue(AppendOp(u, r), CacheOps(r, e))
      BY <2>2, CacheOpsShape
    <2>5. /\ Tail(svcWatch[r]) # <<>> =>
               Tail(svcWatch[r])[Len(Tail(svcWatch[r]))] = svcWatch[r][Len(svcWatch[r])]
          /\ Tail(svcWatch[r]) = <<>> => e = svcWatch[r][Len(svcWatch[r])]
      <3>1. svcWatch[r] \in Seq(SvcEvent) /\ svcWatch[r] # <<>>
        BY <1>1, <2>1
      <3> QED BY <3>1
    <2> HIDE DEF e
    <2>6. WatchesCurrent'
      BY <2>1, <2>3, <2>5 DEF WatchesCurrent
    <2>7. OpsShape'
      BY <2>3, <2>4 DEF OpsShape, Goroutines
    <2>8. ASSUME ~raced', NEW u \in Users, NEW q \in Refs,
                 svc'[q] = Announcing(u), svcWatch'[q] = <<>>
          PROVE  Listed(u, q)'
      <3>1. CASE q = r
        <4>1. e.new = Announcing(u)
          BY <2>1, <2>3, <2>5, <2>8, <3>1 DEF WatchesCurrent
        <4> QED BY <2>3, <2>4, <3>1, <4>1 DEF Listed
      <3>2. CASE q # r
        <4>1. Listed(u, q)
          BY <2>1, <2>3, <2>8, <3>2 DEF HandledListed
        <4>2. ~InQueue(AppendOp(u, q), ops["informer"])
          BY <2>1 DEF InQueue
        <4>3. ~InQueue(RemoveOp(u, q), ops'["informer"])
          BY <2>3, <2>4, <3>2 DEF RemoveOp
        <4> QED BY <2>1, <4>1, <4>2, <4>3 DEF Listed
      <3> QED BY <3>1, <3>2
    <2> QED BY <2>6, <2>7, <2>8 DEF HandledListed
  <1>11. ASSUME NEW g \in Goroutines, CacheLoad(g) PROVE CacheInv'
    <2> DEFINE op == Head(ops[g])
    <2>1. /\ ops[g] # <<>> /\ UNCHANGED <<svc, svcWatch, serviceCache, raced>>
          /\ \/ NothingToStore(op, serviceCache[op.key]) /\ ops' = [ops EXCEPT ![g] = Tail(@)]
             \/ ops' = ops
      BY <1>11 DEF CacheLoad, kubeVars, svcVars
    <2>2. CASE ops' = ops
      BY <1>3, <2>1, <2>2
    <2>3. CASE NothingToStore(op, serviceCache[op.key]) /\ ops' = [ops EXCEPT ![g] = Tail(@)]
      <3>1. /\ ops[g] \in Seq(CacheOp) /\ op \in CacheOp
            /\ ops'[g] = Tail(ops[g]) /\ \A h \in Goroutines \ {g} : ops'[h] = ops[h]
            /\ AppendsLast(ops[g])
        BY <1>1, <2>1, <2>3, TakeFirst DEF OpsShape
      <3>2. /\ \A x : InQueue(x, Tail(ops[g])) => InQueue(x, ops[g])
            /\ \A x : InQueue(x, ops[g]) /\ x # op => InQueue(x, Tail(ops[g]))
            /\ AppendsLast(Tail(ops[g]))
            /\ op.kind = "append" => \A x : ~InQueue(x, Tail(ops[g]))
            /\ \A i \in DOMAIN Tail(ops[g]) : i + 1 \in DOMAIN ops[g]
                                             /\ Tail(ops[g])[i] = ops[g][i + 1]
        BY <2>1, <3>1, TakeOp
      <3>3. OpsShape'
        <4>1. ASSUME g = "main", NEW i \in DOMAIN ops'["main"]
              PROVE  ops'["main"][i].kind = "append"
          <5>1. i + 1 \in DOMAIN ops["main"] /\ ops'["main"][i] = ops["main"][i + 1]
            BY <3>1, <3>2, <4>1
          <5> QED BY <5>1 DEF OpsShape
        <4> QED BY <3>1, <3>2, <4>1 DEF OpsShape, Goroutines
      <3>4. WatchesCurrent'
        BY <2>1 DEF WatchesCurrent
      <3> HIDE DEF op
      <3>5. ASSUME NEW u \in Users, NEW r \in Refs, Listed(u, r) PROVE Listed(u, r)'
        <4>1. CASE g = "main"
          BY <2>1, <3>1, <3>5, <4>1, ListedKept DEF Goroutines
        <4>2. CASE g = "informer"
          <5>1. CASE InQueue(AppendOp(u, r), ops["informer"]) /\ op = AppendOp(u, r)
            <6>1. op.kind = "append" /\ op.key = u /\ op.ref = r
              BY <5>1 DEF AppendOp
            <6>2. r \in serviceCache[u].refs
              BY <2>3, <6>1 DEF NothingToStore
            <6> QED BY <2>1, <3>1, <3>2, <4>2, <6>1, <6>2 DEF Listed
          <5>2. CASE InQueue(AppendOp(u, r), ops["informer"]) /\ op # AppendOp(u, r)
            BY <2>1, <3>1, <3>2, <4>2, <5>2 DEF Listed
          <5>3. CASE r \in serviceCache[u].refs /\ ~InQueue(RemoveOp(u, r), ops["informer"])
            BY <2>1, <3>1, <3>2, <4>2, <5>3 DEF Listed
          <5> QED BY <3>5, <5>1, <5>2, <5>3 DEF Listed
        <4> QED BY <4>1, <4>2 DEF Goroutines
      <3>6. HandledListed'
        BY <2>1, <3>5 DEF HandledListed
      <3> QED BY <3>3, <3>4, <3>6
    <2> QED BY <2>1, <2>2, <2>3
  <1>12. ASSUME NEW g \in Goroutines, CacheStore(g) PROVE CacheInv'
    <2> DEFINE op == Head(ops[g])
               new == NewRefs(op, held[g].refs)
    <2>1. /\ held[g].loaded /\ UNCHANGED <<svc, svcWatch>>
          /\ ops' = [ops EXCEPT ![g] = Tail(@)]
          /\ serviceCache' = [serviceCache EXCEPT ![op.key] = [ok |-> new # {}, refs |-> new]]
          /\ raced' = (raced \/ serviceCache[op.key].refs # held[g].refs)
      BY <1>12 DEF CacheStore, kubeVars, svcVars
    <2>2. /\ ops[g] # <<>> /\ ops[g] \in Seq(CacheOp) /\ op \in CacheOp
          /\ ops'[g] = Tail(ops[g]) /\ \A h \in Goroutines \ {g} : ops'[h] = ops[h]
          /\ AppendsLast(ops[g])
      BY <1>1, <2>1, TakeFirst DEF OpsShape
    <2>3. /\ \A x : InQueue(x, Tail(ops[g])) => InQueue(x, ops[g])
          /\ \A x : InQueue(x, ops[g]) /\ x # op => InQueue(x, Tail(ops[g]))
          /\ AppendsLast(Tail(ops[g]))
          /\ op.kind = "append" => \A x : ~InQueue(x, Tail(ops[g]))
          /\ \A i \in DOMAIN Tail(ops[g]) : i + 1 \in DOMAIN ops[g]
                                           /\ Tail(ops[g])[i] = ops[g][i + 1]
      BY <2>2, TakeOp
    <2>4. OpsShape'
      <3>1. ASSUME g = "main", NEW i \in DOMAIN ops'["main"]
            PROVE  ops'["main"][i].kind = "append"
        <4>1. i + 1 \in DOMAIN ops["main"] /\ ops'["main"][i] = ops["main"][i + 1]
          BY <2>2, <2>3, <3>1
        <4> QED BY <4>1 DEF OpsShape
      <3> QED BY <2>2, <2>3, <3>1 DEF OpsShape, Goroutines
    <2>5. WatchesCurrent'
      BY <2>1 DEF WatchesCurrent
    <2>6. /\ op.key \in Users /\ op.kind \in {"append", "remove"}
          /\ serviceCache'[op.key].refs = new
          /\ \A u \in Users \ {op.key} : serviceCache'[u].refs = serviceCache[u].refs
      BY <1>1, <2>1, <2>2 DEF CacheOp
    <2>7. /\ op.kind = "append" => new = held[g].refs \cup {op.ref}
          /\ op.kind = "remove" => new = held[g].refs \ {op.ref}
      BY DEF NewRefs
    <2>8. g = "main" => op.kind = "append"
      <3>1. g = "main" => 1 \in DOMAIN ops["main"] /\ op = ops["main"][1]
        BY <2>2
      <3> QED BY <3>1 DEF OpsShape
    <2>9. op.kind = "append" => op = AppendOp(op.key, op.ref)
      BY <2>2 DEF CacheOp, AppendOp
    <2>10. op.kind = "remove" => op = RemoveOp(op.key, op.ref)
      BY <2>2 DEF CacheOp, RemoveOp
    <2> HIDE DEF op, new
    <2>11. ASSUME ~raced', NEW u \in Users, NEW r \in Refs, Listed(u, r)
           PROVE  Listed(u, r)'
      <3>1. ~raced /\ held[g].refs = serviceCache[op.key].refs
        BY <2>1, <2>11
      <3>2. op.kind = "append" => serviceCache[u].refs \subseteq serviceCache'[u].refs
        BY <2>6, <2>7, <3>1
      <3>3. CASE g = "main"
        <4>1. serviceCache[u].refs \subseteq serviceCache'[u].refs /\ ops'["informer"] = ops["informer"]
          BY <2>2, <2>8, <3>2, <3>3 DEF Goroutines
        <4> QED BY <2>11, <4>1 DEF Listed
      <3>4. CASE g = "informer"
        <4>1. CASE InQueue(AppendOp(u, r), ops["informer"]) /\ op = AppendOp(u, r)
          <5>1. op.kind = "append" /\ op.key = u /\ op.ref = r
            BY <4>1 DEF AppendOp
          <5>2. r \in serviceCache'[u].refs
            BY <2>6, <2>7, <5>1
          <5> QED BY <2>2, <2>3, <3>4, <5>1, <5>2 DEF Listed
        <4>2. CASE InQueue(AppendOp(u, r), ops["informer"]) /\ op # AppendOp(u, r)
          BY <2>2, <2>3, <3>4, <4>2 DEF Listed
        <4>3. CASE r \in serviceCache[u].refs /\ ~InQueue(RemoveOp(u, r), ops["informer"])
          <5>1. ~InQueue(RemoveOp(u, r), ops'["informer"])
            BY <2>2, <2>3, <3>4, <4>3
          <5>2. InQueue(op, ops["informer"])
            BY <2>2, <3>4, TakeOp DEF op
          <5>3. r \in serviceCache'[u].refs
            <6>1. CASE op.kind = "append"
              BY <3>2, <4>3, <6>1
            <6>2. CASE op.kind = "remove" /\ op.key = u
              <7>1. op.ref # r
                BY <2>10, <4>3, <5>2, <6>2
              <7> QED BY <2>6, <2>7, <3>1, <4>3, <6>2, <7>1
            <6>3. CASE op.kind = "remove" /\ op.key # u
              BY <2>6, <4>3, <6>3
            <6> QED BY <2>6, <6>1, <6>2, <6>3
          <5> QED BY <5>1, <5>3 DEF Listed
        <4> QED BY <2>11, <4>1, <4>2, <4>3 DEF Listed
      <3> QED BY <3>3, <3>4 DEF Goroutines
    <2>12. HandledListed'
      BY <2>1, <2>11 DEF HandledListed
    <2> QED BY <2>4, <2>5, <2>12
  <1>13. CASE Restart
    <2>1. /\ svc' = svc /\ svcWatch' = ListedServices
          /\ ops' = [g \in Goroutines |-> <<>>]
      BY <1>13 DEF Restart
    <2>2. \A g \in Goroutines : ops'[g] = <<>>
      BY <2>1
    <2>3. OpsShape'
      BY <2>2 DEF OpsShape, AppendsLast, Goroutines
    <2>4. \A r \in Refs : svcWatch'[r] = IF Exists(r) THEN <<[old |-> Absent, new |-> svc[r]]>>
                                         ELSE <<>>
      BY <2>1 DEF ListedServices
    <2>5. ASSUME NEW x PROVE <<x>> # <<>> /\ <<x>>[Len(<<x>>)] = x
      OBVIOUS
    <2>6. WatchesCurrent'
      <3> SUFFICES ASSUME NEW r \in Refs, svcWatch'[r] # <<>>
                   PROVE  svcWatch'[r][Len(svcWatch'[r])].new = svc'[r]
        BY DEF WatchesCurrent
      <3> DEFINE x == [old |-> Absent, new |-> svc[r]]
      <3>1. x.new = svc[r] /\ svcWatch'[r] = <<x>>
        BY <2>4
      <3> HIDE DEF x
      <3> QED BY <2>1, <2>5, <3>1
    <2>7. \A u \in Users, r \in Refs : ~(svc'[r] = Announcing(u) /\ svcWatch'[r] = <<>>)
      <3> SUFFICES ASSUME NEW u \in Users, NEW r \in Refs, svc'[r] = Announcing(u)
                   PROVE  svcWatch'[r] # <<>>
        OBVIOUS
      <3>1. Exists(r)
        BY <2>1 DEF Exists, Announcing
      <3> QED BY <2>4, <2>5, <3>1
    <2> QED BY <2>3, <2>6, <2>7 DEF HandledListed
  <1> QED BY <1>5, <1>6, <1>7, <1>8, <1>9, <1>10, <1>11, <1>12, <1>13
          DEF Next, MainLoop, Informers, Cache, Environment

(* What CacheInv says when everything has been handled.                    *)
LEMMA CompleteWhenQuiet == TypeInv /\ CacheInv => CacheComplete
  <1> SUFFICES ASSUME TypeInv, CacheInv, Quiet, ~raced, NEW u \in Users, NEW r \in Refs,
                      svc[r] = Announcing(u)
               PROVE  r \in serviceCache[u].refs
    BY DEF CacheComplete
  <1>1. svcWatch[r] = <<>> /\ ops["informer"] = <<>>
    BY DEF Quiet
  <1>2. Listed(u, r)
    BY <1>1 DEF CacheInv, HandledListed
  <1> QED BY <1>1, <1>2 DEF Listed, InQueue

(* Whatever order the watch events, the two goroutines' Loads and Stores   *)
(* and the restarts come in, a Service that announces a user's hostname is *)
(* in serviceCache when the informer has caught up, unless a Store has     *)
(* overwritten the other's (main.go, appendToServiceCache).                *)
THEOREM CacheCompleteness == Spec => []CacheComplete
  <1>1. Init => TypeInv /\ CacheInv
    <2> SUFFICES ASSUME Init PROVE CacheInv
      BY TypeInit
    <2>1. /\ \A r \in Refs : svc[r] = Absent /\ svcWatch[r] = <<>>
          /\ \A g \in Goroutines : ops[g] = <<>>
      BY DEF Init, KubeInit, ClientInit
    <2>2. \A u \in Users : Announcing(u) # Absent
      BY DEF Announcing, Absent
    <2> QED BY <2>1, <2>2
            DEF CacheInv, WatchesCurrent, OpsShape, AppendsLast, HandledListed, Goroutines
  <1>2. TypeInv /\ CacheInv /\ [Next]_vars => (TypeInv /\ CacheInv)'
    BY TypeStep, CacheStep
  <1>3. TypeInv /\ CacheInv => CacheComplete
    BY CompleteWhenQuiet
  <1> QED BY <1>1, <1>2, <1>3, PTL DEF Spec
-----------------------------------------------------------------------------
(* Duplicate hostnames.                                                    *)

(* On the way from the snapshot to the slice every duplicate is retired.   *)
LEMMA RetireStep == TypeInv /\ CacheInv /\ RetireInv /\ [Next]_vars => RetireInv'
  <1> SUFFICES ASSUME TypeInv, CacheInv, RetireInv, [Next]_vars,
                      main'.pc \in {"retire", "slice"}, fresh', ~raced',
                      NEW r \in Refs \ {Primary(main'.user)}, svc'[r] = Announcing(main'.user)
               PROVE  main'.pc = "retire" /\ r \in main'.todo \cup main'.kept
    BY DEF RetireInv
  <1>1. /\ svc \in [Refs -> ServiceStates] /\ main \in MainState
        /\ main.pc # "slice" => ops["main"] = <<>>
        /\ main.pc # "recv" => main.user \in Users
    BY DEF TypeInv, TypeOK, KubeTypeOK, WorkInHand
  <1>2. CASE /\ main'.pc = main.pc /\ main'.user = main.user /\ main'.todo = main.todo
             /\ main'.kept = main.kept /\ UNCHANGED <<svc, fresh>>
             /\ raced => raced'
    BY <1>2 DEF RetireInv
  <1>3. CASE Operator
    BY <1>3 DEF Operator
  <1>4. CASE PodChanges \/ (\E p \in Pods, u \in Users \cup {NoUser} : LogsIn(p, u))
    <2>1. CASE PodChanges
      <3>1. svc' = svc
        BY <2>1 DEF PodChanges, PodCreated, PodDeleted, PodRuns, svcVars
      <3>2. main' = main /\ fresh' = fresh /\ raced' = raced
        BY <2>1 DEF PodChanges, clientVars, cacheVars
      <3> QED BY <1>2, <3>1, <3>2
    <2>2. CASE \E p \in Pods, u \in Users \cup {NoUser} : LogsIn(p, u)
      <3>1. svc' = svc /\ main' = main /\ fresh' = fresh /\ raced' = raced
        BY <2>2 DEF LogsIn, kubeVars, svcVars, cacheVars
      <3> QED BY <1>2, <3>1
    <2> QED BY <1>4, <2>1, <2>2
  <1>5. CASE Informers \/ Cache \/ UNCHANGED vars
    <2>1. svc' = svc /\ main' = main /\ fresh' = fresh
      BY <1>5 DEF Informers, HandlePod, HandleService, Cache, CacheLoad, CacheStore, svcVars,
                  kubeVars, vars, clientVars
    <2>2. raced => raced'
      <3>1. CASE Informers
        BY <3>1, Zenon DEF Informers, HandlePod, HandleService, cacheVars
      <3>2. ASSUME NEW g \in Goroutines, CacheLoad(g) PROVE raced => raced'
        BY <3>2, Zenon DEF CacheLoad
      <3>3. ASSUME NEW g \in Goroutines, CacheStore(g) PROVE raced => raced'
        BY <3>3, Zenon DEF CacheStore
      <3>4. CASE UNCHANGED vars
        BY <3>4, Zenon DEF vars, clientVars, cacheVars
      <3> QED BY <1>5, <3>1, <3>2, <3>3, <3>4 DEF Cache
    <2> QED BY <1>2, <2>1, <2>2
  <1>6. CASE DropEvent
    BY <1>6, <1>2 DEF DropEvent, kubeVars, svcVars, cacheVars
  <1>7. CASE AcceptEvent \/ GiveUp \/ Restart
    <2>1. CASE AcceptEvent
      <3>1. main'.pc = "snapshot"
        BY <2>1 DEF AcceptEvent, Serving
      <3> QED BY <3>1
    <2>2. CASE GiveUp \/ Restart
      <3>1. main' = Receiving
        BY <2>2 DEF GiveUp, Restart
      <3> QED BY <3>1, FirstValues
    <2> QED BY <1>7, <2>1, <2>2
  <1>8. CASE PatchSlice \/ CreateSlice \/ PatchEW \/ CreateEW
    <2>1. main' = Receiving \/ \E pc \in {"sliceCreate", "ew", "ewCreate"} :
                                   main' = [main EXCEPT !.pc = pc]
      BY <1>8 DEF PatchSlice, CreateSlice, PatchEW, CreateEW, GoTo
    <2>2. main'.pc \notin {"retire", "slice"}
      BY <1>1, <2>1, FirstValues DEF MainState
    <2> QED BY <2>2
  <1>9. CASE Snapshot
    <2> DEFINE u == main.user
    <2>1. /\ main.pc = "snapshot" /\ svc' = svc /\ raced' = raced /\ Quiet
          /\ main' = [main EXCEPT !.pc = "retire", !.todo = Entries(u)]
      BY <1>9 DEF Snapshot, kubeVars, svcVars
    <2>2. main'.pc = "retire" /\ main'.user = u /\ main'.todo = Entries(u) /\ u \in Users
      BY <1>1, <2>1 DEF MainState
    <2>3. CacheComplete
      BY CompleteWhenQuiet
    <2>4. r \in serviceCache[u].refs
      BY <1>1, <2>1, <2>2, <2>3 DEF CacheComplete
    <2> QED BY <2>2, <2>4 DEF Entries
  <1>10. ASSUME NEW q \in Refs, Retire(q)
         PROVE  main'.pc = "retire" /\ r \in main'.todo \cup main'.kept
    <2>1. /\ main.pc = "retire" /\ fresh' = fresh /\ raced' = raced
          /\ Unannotate(q) \/ UNCHANGED svcVars
      BY <1>10 DEF Retire, cacheVars
    <2>2. \/ main' = [main EXCEPT !.todo = @ \ {q}] /\ Unannotate(q)
          \/ main' = [main EXCEPT !.todo = @ \ {q}, !.kept = @ \cup {q}]
      BY <1>10 DEF Retire
    <2>3. /\ main'.pc = "retire" /\ main'.user = main.user /\ main'.todo = main.todo \ {q}
          /\ \/ main'.kept = main.kept /\ Unannotate(q)
             \/ main'.kept = main.kept \cup {q}
      BY <1>1, <2>1, <2>2 DEF MainState
    <2>4. Unannotate(q) => svc'[q] = Plain
      BY <1>1 DEF Unannotate, SetService
    <2>5. Plain # Announcing(main.user)
      BY DEF Plain, Announcing
    <2>6. r # q => svc[r] = Announcing(main.user)
      BY <1>1, <2>1, <2>3 DEF Unannotate, SetService, svcVars
    <2>7. r # q => r \in main.todo \cup main.kept
      BY <2>1, <2>3, <2>6 DEF RetireInv
    <2> QED BY <2>3, <2>4, <2>5, <2>7
  <1>11. CASE CreateService
    <2> DEFINE u == main.user
    <2>1. /\ main.pc = "retire" /\ main.todo = {} /\ main.kept = {}
          /\ fresh' = fresh /\ raced' = raced /\ main' = [main EXCEPT !.pc = "slice"]
          /\ CreateNSService(u) \/ UNCHANGED svcVars
      BY <1>11 DEF CreateService
    <2>2. main'.user = u
      BY <1>1, <2>1 DEF MainState
    <2>3. svc[r] = Announcing(u)
      BY <1>1, <2>1, <2>2 DEF CreateNSService, SetService, svcVars
    <2> QED BY <2>1, <2>2, <2>3 DEF RetireInv
  <1> QED BY <1>3, <1>4, <1>5, <1>6, <1>7, <1>8, <1>9, <1>10, <1>11
          DEF Next, MainLoop, Environment

(* When a login is served from a snapshot that saw every Service, and no   *)
(* Store was lost, no Service but the primary announces the hostname when  *)
(* the slice is written (main.go, handleNSService).                        *)
THEOREM DuplicatesGone == Spec => []DuplicatesRemovedUnlessRaced
  <1>1. Init => TypeInv /\ CacheInv /\ RetireInv
    <2> SUFFICES ASSUME Init PROVE CacheInv /\ RetireInv
      BY TypeInit
    <2>1. /\ \A r \in Refs : svc[r] = Absent /\ svcWatch[r] = <<>>
          /\ \A g \in Goroutines : ops[g] = <<>>
      BY DEF Init, KubeInit, ClientInit
    <2>2. \A u \in Users : Announcing(u) # Absent
      BY DEF Announcing, Absent
    <2>3. RetireInv
      BY FirstValues DEF Init, ClientInit, RetireInv
    <2> QED BY <2>1, <2>2, <2>3
            DEF CacheInv, WatchesCurrent, OpsShape, AppendsLast, HandledListed, Goroutines
  <1>2. TypeInv /\ CacheInv /\ RetireInv /\ [Next]_vars => (TypeInv /\ CacheInv /\ RetireInv)'
    BY TypeStep, CacheStep, RetireStep
  <1>3. RetireInv => DuplicatesRemovedUnlessRaced
    BY DEF RetireInv, DuplicatesRemovedUnlessRaced
  <1> QED BY <1>1, <1>2, <1>3, PTL DEF Spec
=============================================================================
