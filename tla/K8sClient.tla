----------------------------- MODULE K8sClient -----------------------------
(***************************************************************************)
(* cluster/k8s-client/main.go, the process that turns the login of a user  *)
(* on a gateway Pod into a route to that Pod.  Three goroutines share two  *)
(* sync.Maps:                                                              *)
(*   - the Pod informer fills podIPCache;                                  *)
(*   - the Service informer fills serviceCache, one text per user that     *)
(*     lists the Services announcing the user's hostname;                  *)
(*   - the main loop receives the exec events of createservice.sh and      *)
(*     calls the API server.                                               *)
(* Each operation on serviceCache is a Load followed by a Store, so the    *)
(* informer and the main loop interleave between the two.  Every call to   *)
(* the API server is a step of its own and may fail.                       *)
(*                                                                         *)
(* A cached text is modelled by the set of references it lists.  That is   *)
(* exact when no reference is a suffix of another one (module CacheText).  *)
(* The last branch of handleNSService, which calls patchNSService, needs   *)
(* the primary to be among the entries that the loop before it has just    *)
(* filtered out: it is dead code and has no action here.                   *)
(***************************************************************************)
EXTENDS KubeAPI

CONSTANTS
    MaxLogins,    \* bound on exec events
    MaxFaults,    \* bound on API calls that fail without a verdict
    MaxRestarts   \* bound on restarts of the client container

ASSUME ClientAssumption ==
    MaxLogins \in Nat /\ MaxFaults \in Nat /\ MaxRestarts \in Nat

VARIABLES
    podIPCache,    \* podIPCache[p]: cached address, NoIP when "" or missing
    serviceCache,  \* serviceCache[u]: [ok, refs], the text under u's key
    ops,           \* ops[g]: cache operations goroutine g has still to do
    held,          \* held[g]: what the operation at the head has loaded
    stream,        \* exec events sent by Tetragon, not yet received
    main,          \* the main loop
    logins,        \* history: the exec events, in order
    nsLogin,       \* history: the login that slice[u] was last written for
    ewLogin,       \* history: the login that ew[u] was last written for
    fresh,         \* history: the snapshot in use saw every Service
    raced,         \* history: a Store has overwritten a newer value
    faults, restarts

cacheVars   == <<serviceCache, ops, held, raced>>
loginVars   == <<stream, logins>>
servedVars  == <<nsLogin, ewLogin>>
budgetVars  == <<faults, restarts>>
clientVars  == <<podIPCache, cacheVars, loginVars, main, servedVars, fresh,
                 budgetVars>>
vars        == <<kubeVars, clientVars>>

Goroutines == {"main", "informer"}
CacheEntry == [ok : BOOLEAN, refs : SUBSET Refs]
CacheOp    == [kind : {"append", "remove"}, key : Users, ref : Refs]
Held       == [loaded : BOOLEAN, refs : SUBSET Refs]
Login      == [pod : Pods, user : Users \cup {NoUser}]
PCs == {"recv", "snapshot", "retire", "slice", "sliceCreate", "ew", "ewCreate"}
MainState  == [pc : PCs, login : 0 .. MaxLogins, user : Users \cup {NoUser},
               ip : IPs \cup {NoIP}, todo : SUBSET Refs, kept : SUBSET Refs]

NoEntry   == [ok |-> FALSE, refs |-> {}]
NotLoaded == [loaded |-> FALSE, refs |-> {}]
Receiving == [pc |-> "recv", login |-> 0, user |-> NoUser, ip |-> NoIP,
              todo |-> {}, kept |-> {}]

TypeOK ==
    /\ KubeTypeOK
    /\ podIPCache \in [Pods -> IPs \cup {NoIP}]
    /\ serviceCache \in [Users -> CacheEntry]
    /\ ops \in [Goroutines -> Seq(CacheOp)]
    /\ held \in [Goroutines -> Held]
    /\ logins \in Seq(Login) /\ Len(logins) <= MaxLogins
    /\ stream \in Seq(1 .. MaxLogins)
    /\ main \in MainState
    /\ nsLogin \in [Users -> 0 .. MaxLogins]
    /\ ewLogin \in [Users -> 0 .. MaxLogins]
    /\ fresh \in BOOLEAN /\ raced \in BOOLEAN
    /\ faults \in 0 .. MaxFaults /\ restarts \in 0 .. MaxRestarts

ClientInit ==
    /\ podIPCache = [p \in Pods |-> NoIP]
    /\ serviceCache = [u \in Users |-> NoEntry]
    /\ ops = [g \in Goroutines |-> <<>>]
    /\ held = [g \in Goroutines |-> NotLoaded]
    /\ stream = <<>> /\ logins = <<>>
    /\ main = Receiving
    /\ nsLogin = [u \in Users |-> 0] /\ ewLogin = [u \in Users |-> 0]
    /\ fresh = FALSE /\ raced = FALSE
    /\ faults = 0 /\ restarts = 0

Init == KubeInit /\ ClientInit

-----------------------------------------------------------------------------
(* The world around the client.                                            *)

Operator ==
    /\ \/ \E r \in Refs, s \in ServiceStates : OperatorSets(r, s)
       \/ \E r \in Refs : StatusUpdate(r)
    /\ fresh' = FALSE
    /\ UNCHANGED <<podIPCache, cacheVars, loginVars, main, servedVars,
                   budgetVars>>

PodChanges ==
    /\ \E p \in Pods :
         PodCreated(p) \/ PodDeleted(p) \/ \E ip \in IPs : PodRuns(p, ip)
    /\ UNCHANGED clientVars

(* A user logs in on a running Pod; sshd runs createservice.sh, whose call *)
(* of logger Tetragon reports.  The working directory gives the user, and  *)
(* none when the call was made outside /home.                              *)
LogsIn(p, u) ==
    /\ podPhase[p] = "running"
    /\ Len(logins) < MaxLogins
    /\ logins' = Append(logins, [pod |-> p, user |-> u])
    /\ stream' = Append(stream, Len(logins) + 1)
    /\ UNCHANGED <<kubeVars, podIPCache, cacheVars, main, servedVars, fresh,
                   budgetVars>>

-----------------------------------------------------------------------------
(* The Pod informer: AddFunc, UpdateFunc and DeleteFunc.                   *)

HandlePod(p) ==
    /\ podWatch[p] # <<>>
    /\ podIPCache' = [podIPCache EXCEPT ![p] = Head(podWatch[p])]
    /\ podWatch' = [podWatch EXCEPT ![p] = Tail(@)]
    /\ UNCHANGED <<podPhase, ipOf, svcVars, routeVars, operatorSteps,
                   cacheVars, loginVars, main, servedVars, fresh, budgetVars>>

-----------------------------------------------------------------------------
(* The Service informer, and the two helpers on serviceCache it shares     *)
(* with the main loop.                                                     *)

AppendOp(u, r) == [kind |-> "append", key |-> u, ref |-> r]
RemoveOp(u, r) == [kind |-> "remove", key |-> u, ref |-> r]

AddFunc(r, s) == IF IsManaged(s) THEN <<AppendOp(s.key, r)>> ELSE <<>>

DeleteFunc(r, s) == IF IsManaged(s) THEN <<RemoveOp(s.key, r)>> ELSE <<>>

(* Variant: without the test that the Service had a hostname before.       *)
UpdateFuncUntested(r, old, new) ==
    (IF old.key # new.key THEN <<RemoveOp(old.key, r)>> ELSE <<>>)
    \o
    (IF new.key # NoUser THEN <<AppendOp(new.key, r)>> ELSE <<>>)

(* Variant: a Service whose hostname has changed is only removed.          *)
UpdateFuncForgets(r, old, new) ==
    IF old.key # new.key
    THEN IF old.key # NoUser THEN <<RemoveOp(old.key, r)>> ELSE <<>>
    ELSE IF new.key # NoUser THEN <<AppendOp(new.key, r)>> ELSE <<>>

UpdateFunc(r, old, new) ==
    (IF old.key # NoUser /\ old.key # new.key
     THEN <<RemoveOp(old.key, r)>> ELSE <<>>)
    \o
    (IF new.key # NoUser THEN <<AppendOp(new.key, r)>> ELSE <<>>)

CacheOps(r, e) ==
    CASE e.old = Absent -> AddFunc(r, e.new)
      [] e.old # Absent /\ e.new = Absent -> DeleteFunc(r, e.old)
      [] OTHER -> UpdateFunc(r, e.old, e.new)

HandleService(r) ==
    /\ ops["informer"] = <<>>
    /\ svcWatch[r] # <<>>
    /\ ops' = [ops EXCEPT !["informer"] = CacheOps(r, Head(svcWatch[r]))]
    /\ svcWatch' = [svcWatch EXCEPT ![r] = Tail(@)]
    /\ UNCHANGED <<svc, podVars, routeVars, operatorSteps, podIPCache,
                   serviceCache, held, raced, loginVars, main, servedVars,
                   fresh, budgetVars>>

(* Variant: any text at all keeps appendToServiceCache from storing.       *)
NothingToStoreIfCached(op, entry) ==
    entry.ok <=> op.kind = "append"

(* The Load of appendToServiceCache or removeFromServiceCache.  Nothing is *)
(* stored when the text already lists the reference, or when there is no   *)
(* text to remove it from.                                                 *)
NothingToStore(op, entry) ==
    \/ op.kind = "append" /\ op.ref \in entry.refs
    \/ op.kind = "remove" /\ ~entry.ok

CacheLoad(g) ==
    /\ ops[g] # <<>>
    /\ ~held[g].loaded
    /\ LET op == Head(ops[g])
           entry == serviceCache[op.key]
       IN IF NothingToStore(op, entry)
          THEN /\ ops' = [ops EXCEPT ![g] = Tail(@)]
               /\ UNCHANGED held
          ELSE /\ held' = [held EXCEPT ![g] =
                             [loaded |-> TRUE, refs |-> entry.refs]]
               /\ UNCHANGED ops
    /\ UNCHANGED <<kubeVars, podIPCache, serviceCache, raced, loginVars, main,
                   servedVars, fresh, budgetVars>>

(* The Store, or the Delete of a text that has become empty. *)
NewRefs(op, refs) ==
    IF op.kind = "append" THEN refs \cup {op.ref} ELSE refs \ {op.ref}

CacheStore(g) ==
    /\ held[g].loaded
    /\ LET op == Head(ops[g])
           refs == NewRefs(op, held[g].refs)
       IN /\ serviceCache' = [serviceCache EXCEPT ![op.key] =
                                [ok |-> refs # {}, refs |-> refs]]
          /\ raced' = (raced \/ serviceCache[op.key].refs # held[g].refs)
    /\ ops' = [ops EXCEPT ![g] = Tail(@)]
    /\ held' = [held EXCEPT ![g] = NotLoaded]
    /\ UNCHANGED <<kubeVars, podIPCache, loginVars, main, servedVars, fresh,
                   budgetVars>>

-----------------------------------------------------------------------------
(* The main loop.                                                          *)

(* An API call that answers an error other than NotFound or AlreadyExists; *)
(* its effect may or may not have taken place.                             *)
Fault ==
    /\ faults < MaxFaults
    /\ faults' = faults + 1
    /\ UNCHANGED restarts

(* Variant: the address is not looked at before it is published.           *)
HasUser(l) == l.user # NoUser

(* lookupPodIP has found an address and extractUsername a user. *)
Servable(l) == podIPCache[l.pod] # NoIP /\ l.user # NoUser

(* Recv, and "continue" on an event that lacks the one or the other. *)
DropEvent ==
    /\ main.pc = "recv"
    /\ stream # <<>>
    /\ ~Servable(logins[Head(stream)])
    /\ stream' = Tail(stream)
    /\ UNCHANGED <<kubeVars, podIPCache, cacheVars, logins, main, servedVars,
                   fresh, budgetVars>>

(* The loop starts to serve login n. *)
Serving(n) ==
    [pc |-> "snapshot", login |-> n, user |-> logins[n].user,
     ip |-> podIPCache[logins[n].pod], todo |-> {}, kept |-> {}]

AcceptEvent ==
    /\ main.pc = "recv"
    /\ stream # <<>>
    /\ Servable(logins[Head(stream)])
    /\ main' = Serving(Head(stream))
    /\ stream' = Tail(stream)
    /\ UNCHANGED <<kubeVars, podIPCache, cacheVars, logins, servedVars, fresh,
                   budgetVars>>

(* The informer has handled every event and stored its last result. *)
Quiet ==
    /\ \A r \in Refs : svcWatch[r] = <<>>
    /\ ops["informer"] = <<>>

(* Variant: the primary is not spared.                                     *)
AllEntries(u) == serviceCache[u].refs

(* The entries handleNSService goes through, "e == primary" skipped. *)
Entries(u) == serviceCache[u].refs \ {Primary(u)}

(* handleNSService: LoadOrStore, then the split into entries. *)
Snapshot ==
    /\ main.pc = "snapshot"
    /\ LET u == main.user
       IN /\ serviceCache' = [serviceCache EXCEPT ![u].ok = TRUE]
          /\ main' = [main EXCEPT !.pc = "retire", !.todo = Entries(u)]
    /\ fresh' = Quiet
    /\ UNCHANGED <<kubeVars, podIPCache, ops, held, raced, loginVars,
                   servedVars, budgetVars>>

(* The patch of removeNSServiceAnnotation, when it takes place. *)
Unannotate(r) == Exists(r) /\ SetService(r, Plain)

(* handleNSService on one entry; the order of the text is left   *)
(* open.  An entry whose patch failed is kept.                             *)
Retire(r) ==
    /\ main.pc = "retire"
    /\ r \in main.todo
    /\ \/ /\ Unannotate(r)
          /\ main' = [main EXCEPT !.todo = @ \ {r}]
          /\ UNCHANGED budgetVars
       \/ /\ ~Exists(r)
          /\ main' = [main EXCEPT !.todo = @ \ {r}, !.kept = @ \cup {r}]
          /\ UNCHANGED <<svcVars, budgetVars>>
       \/ /\ Fault
          /\ main' = [main EXCEPT !.todo = @ \ {r}, !.kept = @ \cup {r}]
          /\ \/ UNCHANGED svcVars
             \/ Unannotate(r)
    /\ UNCHANGED <<podVars, routeVars, operatorSteps, podIPCache, cacheVars,
                   loginVars, servedVars, fresh>>

(* handleNSService answers "" and the event is forgotten. *)
GiveUp ==
    /\ main.pc = "retire"
    /\ main.todo = {}
    /\ main.kept # {}
    /\ main' = Receiving
    /\ UNCHANGED <<kubeVars, podIPCache, cacheVars, loginVars, servedVars,
                   fresh, budgetVars>>

(* The create of createNSService, when it takes place. *)
CreateNSService(u) ==
    ~Exists(Primary(u)) /\ SetService(Primary(u), Announcing(u))

(* Variant: AlreadyExists ends the handling of the event.                  *)
CreateServiceStrictly ==
    /\ main.pc = "retire" /\ main.todo = {} /\ main.kept = {}
    /\ LET u == main.user
       IN \/ /\ Exists(Primary(u))
             /\ main' = Receiving
             /\ UNCHANGED <<svcVars, ops>>
          \/ /\ CreateNSService(u)
             /\ ops' = [ops EXCEPT !["main"] = <<AppendOp(u, Primary(u))>>]
             /\ main' = [main EXCEPT !.pc = "slice"]
    /\ UNCHANGED <<podVars, routeVars, operatorSteps, podIPCache, serviceCache,
                   held, raced, loginVars, servedVars, fresh, budgetVars>>

(* createNSService, whose error is discarded (AlreadyExists is the normal  *)
(* one), and the start of the append that follows it.                      *)
CreateService ==
    /\ main.pc = "retire"
    /\ main.todo = {}
    /\ main.kept = {}
    /\ LET u == main.user
       IN /\ \/ /\ Exists(Primary(u))
                /\ UNCHANGED <<svcVars, budgetVars>>
             \/ /\ CreateNSService(u)
                /\ UNCHANGED budgetVars
             \/ /\ Fault
                /\ UNCHANGED svcVars \/ CreateNSService(u)
          /\ ops' = [ops EXCEPT !["main"] = <<AppendOp(u, Primary(u))>>]
    /\ main' = [main EXCEPT !.pc = "slice"]
    /\ UNCHANGED <<podVars, routeVars, operatorSteps, podIPCache, serviceCache,
                   held, raced, loginVars, servedVars, fresh>>

WriteSlice(u) ==
    /\ slice' = [slice EXCEPT ![u] = main.ip]
    /\ nsLogin' = [nsLogin EXCEPT ![u] = main.login]

WriteEW(u) ==
    /\ ew' = [ew EXCEPT ![u] = main.ip]
    /\ ewLogin' = [ewLogin EXCEPT ![u] = main.login]

GoTo(pc) == main' = [main EXCEPT !.pc = pc]

sliceFrame == <<svcVars, podVars, ew, operatorSteps, podIPCache, cacheVars,
                loginVars, ewLogin, fresh>>
ewFrame == <<svcVars, podVars, slice, operatorSteps, podIPCache, cacheVars,
             loginVars, nsLogin, fresh>>

(* patchEndpointSlice.  An error but NotFound is logged and the main loop   *)
(* goes on to the East-West Service.                                       *)
PatchSlice ==
    /\ main.pc = "slice"
    /\ ops["main"] = <<>>
    /\ LET u == main.user
       IN \/ /\ slice[u] # NoIP
             /\ WriteSlice(u) /\ GoTo("ew") /\ UNCHANGED budgetVars
          \/ /\ slice[u] = NoIP
             /\ GoTo("sliceCreate") /\ UNCHANGED <<slice, nsLogin, budgetVars>>
          \/ /\ Fault
             /\ GoTo("ew")
             /\ \/ UNCHANGED <<slice, nsLogin>>
                \/ slice[u] # NoIP /\ WriteSlice(u)
    /\ UNCHANGED sliceFrame

(* createEndpointSlice; its error is discarded. *)
CreateSlice ==
    /\ main.pc = "sliceCreate"
    /\ GoTo("ew")
    /\ \/ WriteSlice(main.user) /\ UNCHANGED budgetVars
       \/ Fault /\ (UNCHANGED <<slice, nsLogin>> \/ WriteSlice(main.user))
    /\ UNCHANGED sliceFrame

(* handleEWService: patchEWService, then createEWService on NotFound. *)
PatchEW ==
    /\ main.pc = "ew"
    /\ LET u == main.user
       IN \/ /\ ew[u] # NoIP
             /\ WriteEW(u) /\ main' = Receiving /\ UNCHANGED budgetVars
          \/ /\ ew[u] = NoIP
             /\ GoTo("ewCreate") /\ UNCHANGED <<ew, ewLogin, budgetVars>>
          \/ /\ Fault
             /\ main' = Receiving
             /\ \/ UNCHANGED <<ew, ewLogin>>
                \/ ew[u] # NoIP /\ WriteEW(u)
    /\ UNCHANGED ewFrame

(* Variant: a missing East-West Service is not created.                    *)
CreateEWNever ==
    /\ main.pc = "ewCreate"
    /\ main' = Receiving
    /\ UNCHANGED <<ew, ewLogin, budgetVars>>
    /\ UNCHANGED ewFrame

(* createEWService; its error is logged. *)
CreateEW ==
    /\ main.pc = "ewCreate"
    /\ main' = Receiving
    /\ \/ WriteEW(main.user) /\ UNCHANGED budgetVars
       \/ Fault /\ (UNCHANGED <<ew, ewLogin>> \/ WriteEW(main.user))
    /\ UNCHANGED ewFrame

(* log.Fatalf on a closed stream, or a panic: the container is restarted.  *)
(* The caches, the event in hand and the events Tetragon has sent are      *)
(* lost; the informers list the cluster again.                             *)
Restart ==
    /\ restarts < MaxRestarts
    /\ restarts' = restarts + 1
    /\ podIPCache' = [p \in Pods |-> NoIP]
    /\ serviceCache' = [u \in Users |-> NoEntry]
    /\ ops' = [g \in Goroutines |-> <<>>]
    /\ held' = [g \in Goroutines |-> NotLoaded]
    /\ stream' = <<>>
    /\ main' = Receiving
    /\ fresh' = FALSE /\ raced' = FALSE
    /\ svcWatch' = ListedServices
    /\ podWatch' = ListedPods
    /\ UNCHANGED <<svc, podPhase, ipOf, routeVars, operatorSteps, logins,
                   servedVars, faults>>

MainLoop ==
    \/ DropEvent \/ AcceptEvent
    \/ Snapshot
    \/ \E r \in Refs : Retire(r)
    \/ GiveUp \/ CreateService
    \/ PatchSlice \/ CreateSlice
    \/ PatchEW \/ CreateEW

Informers ==
    \/ \E p \in Pods : HandlePod(p)
    \/ \E r \in Refs : HandleService(r)

Cache == \E g \in Goroutines : CacheLoad(g) \/ CacheStore(g)

Environment ==
    \/ Operator
    \/ PodChanges
    \/ \E p \in Pods, u \in Users \cup {NoUser} : LogsIn(p, u)

Next == MainLoop \/ Informers \/ Cache \/ Restart \/ Environment

Spec == Init /\ [][Next]_vars

(* The goroutines are scheduled and API calls return; nothing else must    *)
(* happen.                                                                 *)
Fairness ==
    /\ WF_vars(MainLoop)
    /\ \A p \in Pods : WF_vars(HandlePod(p))
    /\ \A r \in Refs : WF_vars(HandleService(r))
    /\ \A g \in Goroutines : WF_vars(CacheLoad(g) \/ CacheStore(g))

FairSpec == Spec /\ Fairness
-----------------------------------------------------------------------------
(* Correctness.                                                            *)

Route(login, ip) == [u \in Users |-> [login |-> login[u], ip |-> ip[u]]]

Register == INSTANCE RouteRegister
                WITH ns <- Route(nsLogin, slice), ew <- Route(ewLogin, ew)

(* The slice and the East-West Service of a user always lead to the        *)
(* address of the Pod of one of that user's own logins, and move only to   *)
(* later logins: main.go looks the address up by the name of the Pod, in   *)
(* a cache that lags behind, and handles the events of the stream one at a *)
(* time while Pods are deleted and their addresses given to others.        *)
RefinesRouteRegister == Register!RSpec

(* The client never takes the hostname away from the primary Service of a  *)
(* user: removeNSServiceAnnotation is called on what serviceCache lists    *)
(* for the user, stale or raced as it may be, and only people touch the    *)
(* annotation of a primary.                                                *)
PrimaryKeepsHostname ==
    [][\A u \in Users :
         svc[Primary(u)] = Announcing(u) /\ operatorSteps' = operatorSteps
         => svc'[Primary(u)] = Announcing(u)]_vars

(* Between two events the North-South and the East-West route of a user    *)
(* lead to the same login, but for one user for every API call that failed *)
(* and every restart of the client: the two are written by separate calls, *)
(* and the second one is made even when the first has failed.              *)
RoutesAgree ==
    main.pc = "recv" =>
        Cardinality({u \in Users : nsLogin[u] # ewLogin[u]})
            <= faults + restarts

(* Once the Service informer has caught up, every Service that announces a *)
(* user's hostname is listed in serviceCache, so that the next login finds *)
(* it, unless a Store has overwritten what the other goroutine has stored. *)
CacheComplete ==
    Quiet /\ ops["main"] = <<>> /\ ~raced =>
        \A u \in Users, r \in Refs :
            svc[r] = Announcing(u) => r \in serviceCache[u].refs

(* When the client goes on to publish a route, no Service but the primary  *)
(* announces the user's hostname, provided the snapshot was taken when     *)
(* the informer had caught up and nothing was changed by hand since.       *)
DuplicatesRemoved ==
    main.pc = "slice" /\ fresh =>
        \A r \in Refs \ {Primary(main.user)} : svc[r] # Announcing(main.user)

(* The same, of a client whose two goroutines have not overwritten each    *)
(* other's Store: removeNSServiceAnnotation has succeeded on each of them. *)
DuplicatesRemovedUnlessRaced ==
    main.pc = "slice" /\ fresh /\ ~raced =>
        \A r \in Refs \ {Primary(main.user)} : svc[r] # Announcing(main.user)

LoggedIn(n) == n <= Len(logins) /\ logins[n].user # NoUser

PodGone(n) == n <= Len(logins) /\ podPhase[logins[n].pod] = "deleted"

Published(n) ==
    /\ LoggedIn(n)
    /\ nsLogin[logins[n].user] >= n
    /\ ewLogin[logins[n].user] >= n

InHand(n) == main.pc = "snapshot" /\ main.login = n

(* A login the main loop has accepted ends in both routes being written    *)
(* for it, whatever the informer does to serviceCache meanwhile.           *)
AcceptedLoginPublished ==
    \A n \in 1 .. MaxLogins : InHand(n) ~> Published(n)

(* The same of a login accepted when the informer has caught up and        *)
(* nothing is changed by hand any more: what serviceCache lists then does  *)
(* not keep handleNSService from answering.                                *)
SettledLoginPublished ==
    \A n \in 1 .. MaxLogins :
        (InHand(n) /\ Quiet /\ operatorSteps = MaxOperator) ~> Published(n)

(* Every login of a user on a Pod that is not deleted ends in both routes  *)
(* being written for it, or for a later one.                               *)
LoginPublished ==
    \A n \in 1 .. MaxLogins : LoggedIn(n) ~> (Published(n) \/ PodGone(n))

(* A route is only there together with the Service it is a route of.       *)
RoutedServiceExists ==
    \A u \in Users : slice[u] # NoIP => Exists(Primary(u))

-----------------------------------------------------------------------------
(* The conjuncts that make the properties above inductive (K8sClientProofs) *)

(* The events sent are logins, and one in hand has a user and an address;  *)
(* what a goroutine has loaded is for the operation at the head of its     *)
(* list.  The main loop works on the cache before it writes the slice.     *)
WorkInHand ==
    /\ \A i \in DOMAIN stream : stream[i] \in DOMAIN logins
    /\ main.pc # "recv" => main.user \in Users /\ main.ip \in IPs
    /\ \A g \in Goroutines : held[g].loaded => ops[g] # <<>>
    /\ main.pc # "slice" => ops["main"] = <<>>

TypeInv == TypeOK /\ WorkInHand

(* The only primary that anything kept for u lists is that of u. *)
OwnsRefs(u, refs) == refs \cap Users \subseteq {Primary(u)}

PrimaryEvent(u) == [old : PrimaryStates(u), new : PrimaryStates(u)]
OwnOp == {op \in CacheOp : OwnsRefs(op.key, {op.ref})}

ServicesKeptApart ==
    \A u \in Users :
        svc[u] \in PrimaryStates(u) /\ svcWatch[u] \in Seq(PrimaryEvent(u))

EntriesKeptApart ==
    /\ \A u \in Users : OwnsRefs(u, serviceCache[u].refs)
    /\ ops \in [Goroutines -> Seq(OwnOp)]
    /\ \A g \in Goroutines :
         held[g].loaded => OwnsRefs(Head(ops[g]).key, held[g].refs)
    /\ main.todo \cap Users = {}

PrimariesKeptApart == ServicesKeptApart /\ EntriesKeptApart

(* A Pod has its address from the moment it runs, and the client knows it  *)
(* by this address or by none.                                             *)
AddressesKept ==
    \A p \in Pods :
        /\ podPhase[p] \in {"absent", "pending"} => ipOf[p] = NoIP
        /\ podPhase[p] = "running" => ipOf[p] # NoIP
        /\ podIPCache[p] \in {NoIP, ipOf[p]}
        /\ podWatch[p] \in Seq({NoIP, ipOf[p]})

(* Events are handled in the order of the logins. *)
EventsInOrder ==
    /\ main.login <= Len(logins)
    /\ \A i \in DOMAIN stream :
         /\ main.login < stream[i]
         /\ \A j \in DOMAIN stream : i < j => stream[i] < stream[j]
         /\ \A u \in Users : nsLogin[u] < stream[i] /\ ewLogin[u] < stream[i]
    /\ \A u \in Users : nsLogin[u] <= Len(logins) /\ ewLogin[u] <= Len(logins)

(* The event in hand is a login of its user, later than every published    *)
(* one, and its address is that of the Pod of this login.                  *)
EventInHand ==
    main.pc # "recv" =>
        /\ main.login \in DOMAIN logins
        /\ logins[main.login].user = main.user
        /\ main.ip = ipOf[logins[main.login].pod]
        /\ \A u \in Users :
             /\ ewLogin[u] < main.login
             /\ main.pc \notin {"ew", "ewCreate"} => nsLogin[u] < main.login

RegisterInv == AddressesKept /\ EventsInOrder /\ EventInHand

=============================================================================
