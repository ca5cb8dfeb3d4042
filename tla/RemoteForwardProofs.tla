------------------------ MODULE RemoteForwardProofs ------------------------
(***************************************************************************)
(* Proofs about RemoteForward, for any agents, Pods, sessions and number   *)
(* of faults.                                                              *)
(***************************************************************************)
EXTENDS RemoteForward, TLAPS

Answers == {"success", "failure"}

(* Every m in q comes after one of R.                                      *)
Preceded(q, m, R) ==
    \A i \in DOMAIN q : q[i] = m => \E j \in DOMAIN q : j < i /\ q[j] \in R

(* No m in q but the first message.                                        *)
AtFront(q, m) == \A i \in DOMAIN q : q[i] = m => i = 1

(* Session n has logged in, as far as its ssh can tell or will.            *)
LoggedIn(n) ==
    client[n] /\ server[n] /\ (channel[n] = "running" \/ "started" \in Messages(s2c[n]))

(* Session n may still log in.                                             *)
Pending(n) ==
    /\ server[n]
    /\ \/ "shell" \in Messages(c2s[n])
       \/ client[n] /\ ("confirmation" \in Messages(s2c[n]) \/ "open" \in Messages(c2s[n]))

(* Nothing of session n has been answered.                                 *)
Fresh(n) ==
    /\ "shell" \notin Messages(c2s[n])
    /\ Messages(s2c[n]) \cap {"success", "failure", "confirmation", "started"} = {}
    /\ channel[n] # "running"
    /\ client[n] => confirms[n]

(* What the order of requests and answers gives in one session: ssh reads  *)
(* the answer to its forward before its channel is confirmed, and asks for *)
(* the shell last.                                                         *)
SessionInv(n) ==
    server[n] =>
        /\ AtFront(c2s[n], "forward")
        /\ "forward" \in Messages(c2s[n]) => Fresh(n)
        /\ "shell" \in Messages(c2s[n]) => listening[n]
        /\ "success" \in Messages(s2c[n]) => listening[n]
        /\ LoggedIn(n) => listening[n]
        /\ client[n] =>
             /\ link[n] # "gone"
             /\ ~confirms[n] => listening[n]
             /\ confirms[n] =>
                  /\ Preceded(s2c[n], "confirmation", Answers)
                  /\ \/ Messages(s2c[n]) \cap Answers # {}
                     \/ Preceded(c2s[n], "open", {"forward"})

(* The sessions of one agent: only one has its ssh, and those that may     *)
(* still log in are where the affinity says.                               *)
RouteInv ==
    /\ \A n \in Slots : client[n] \/ server[n] => agent[n] \in Agents /\ pod[n] \in Pods
    /\ \A n \in Slots : client[n] => cur[agent[n]] = n
    /\ \A n \in Slots : Pending(n) => affinity[agent[n]] = pod[n]
    /\ \A m, n \in Slots :
         client[n] /\ server[m] /\ m # n /\ agent[m] = agent[n]
           /\ "shell" \in Messages(c2s[m]) => pod[m] = pod[n]
    /\ \A n \in Slots : LoggedIn(n) => lastLogin[agent[n]] = pod[n]

IInv == TypeOK /\ RouteInv /\ \A n \in Slots : SessionInv(n)
-----------------------------------------------------------------------------
(* Messages on their way.                                                  *)

(* A message that is sent comes last.                                      *)
LEMMA Sending ==
    ASSUME NEW S, NEW q \in Seq(S), NEW x \in S
    PROVE  /\ Append(q, x) \in Seq(S)
           /\ Messages(Append(q, x)) = Messages(q) \union {x}
           /\ \A m, R : Preceded(q, m, R) /\ (x = m => Messages(q) \cap R # {})
                          => Preceded(Append(q, x), m, R)
           /\ \A m : AtFront(q, m) /\ x # m => AtFront(Append(q, x), m)
  <1>1. /\ Append(q, x) \in Seq(S) /\ Len(q) \in Nat
        /\ DOMAIN q = 1..Len(q) /\ DOMAIN Append(q, x) = 1..(Len(q) + 1)
        /\ \A i \in 1..Len(q) : Append(q, x)[i] = q[i]
        /\ Append(q, x)[Len(q) + 1] = x
    OBVIOUS
  <1>2. Messages(Append(q, x)) = Messages(q) \union {x}
    BY <1>1 DEF Messages
  <1>3. ASSUME NEW m, NEW R, Preceded(q, m, R), x = m => Messages(q) \cap R # {}
        PROVE  Preceded(Append(q, x), m, R)
    <2> SUFFICES ASSUME NEW i \in 1..(Len(q) + 1), Append(q, x)[i] = m
                 PROVE  \E j \in 1..(Len(q) + 1) : j < i /\ Append(q, x)[j] \in R
      BY <1>1 DEF Preceded
    <2>1. CASE i \in 1..Len(q)
      BY <1>1, <1>3, <2>1 DEF Preceded
    <2>2. CASE i = Len(q) + 1
      <3>1. PICK j \in 1..Len(q) : q[j] \in R
        BY <1>1, <1>3, <2>2 DEF Messages
      <3> QED BY <1>1, <2>2, <3>1
    <2> QED BY <1>1, <2>1, <2>2
  <1>4. \A m : AtFront(q, m) /\ x # m => AtFront(Append(q, x), m)
    BY <1>1 DEF AtFront
  <1> QED BY <1>1, <1>2, <1>3, <1>4

(* The message that is read was first.                                     *)
LEMMA Reading ==
    ASSUME NEW S, NEW q \in Seq(S), q # <<>>
    PROVE  /\ Tail(q) \in Seq(S) /\ Head(q) \in Messages(q)
           /\ Messages(Tail(q)) \subseteq Messages(q)
           /\ \A m \in Messages(q) : m # Head(q) => m \in Messages(Tail(q))
           /\ \A m, R : Preceded(q, m, R) => Head(q) # m
           /\ \A m, R : Preceded(q, m, R) /\ Head(q) \notin R => Preceded(Tail(q), m, R)
           /\ \A m : AtFront(q, m) => m \notin Messages(Tail(q))
  <1>1. /\ Tail(q) \in Seq(S) /\ Len(q) \in Nat \ {0} /\ Len(Tail(q)) = Len(q) - 1
        /\ DOMAIN q = 1..Len(q) /\ DOMAIN Tail(q) = 1..(Len(q) - 1)
        /\ \A i \in 1..(Len(q) - 1) : Tail(q)[i] = q[i + 1]
        /\ Head(q) = q[1]
    OBVIOUS
  <1>2. Head(q) \in Messages(q) /\ Messages(Tail(q)) \subseteq Messages(q)
    BY <1>1 DEF Messages
  <1>3. ASSUME NEW m \in Messages(q), m # Head(q) PROVE m \in Messages(Tail(q))
    <2>1. PICK i \in 1..Len(q) : q[i] = m
      BY <1>1 DEF Messages
    <2>2. i - 1 \in 1..(Len(q) - 1) /\ Tail(q)[i - 1] = m
      BY <1>1, <1>3, <2>1
    <2> QED BY <1>1, <2>2 DEF Messages
  <1>4. ASSUME NEW m, NEW R, Preceded(q, m, R) PROVE Head(q) # m
    BY <1>1, <1>4 DEF Preceded
  <1>5. ASSUME NEW m, NEW R, Preceded(q, m, R), Head(q) \notin R
        PROVE  Preceded(Tail(q), m, R)
    <2> SUFFICES ASSUME NEW i \in 1..(Len(q) - 1), Tail(q)[i] = m
                 PROVE  \E j \in 1..(Len(q) - 1) : j < i /\ Tail(q)[j] \in R
      BY <1>1 DEF Preceded
    <2>1. PICK j \in 1..Len(q) : j < i + 1 /\ q[j] \in R
      BY <1>1, <1>5 DEF Preceded
    <2>2. j # 1 /\ j - 1 \in 1..(Len(q) - 1) /\ Tail(q)[j - 1] = q[j]
      BY <1>1, <1>5, <2>1
    <2> QED BY <2>1, <2>2
  <1>6. ASSUME NEW m, AtFront(q, m) PROVE m \notin Messages(Tail(q))
    BY <1>1, <1>6 DEF AtFront, Messages
  <1> QED BY <1>1, <1>2, <1>3, <1>4, <1>5, <1>6

(* What is lost was last.                                                  *)
LEMMA Losing ==
    ASSUME NEW S, NEW q \in Seq(S), q # <<>>
    PROVE  /\ SubSeq(q, 1, Len(q) - 1) \in Seq(S)
           /\ Messages(SubSeq(q, 1, Len(q) - 1)) \subseteq Messages(q)
           /\ \A m : AtFront(q, m) => AtFront(SubSeq(q, 1, Len(q) - 1), m)
  <1> DEFINE r == SubSeq(q, 1, Len(q) - 1)
  <1>1. /\ r \in Seq(S) /\ Len(q) \in Nat \ {0}
        /\ DOMAIN q = 1..Len(q) /\ DOMAIN r = 1..(Len(q) - 1)
        /\ \A i \in 1..(Len(q) - 1) : r[i] = q[i]
    OBVIOUS
  <1> QED BY <1>1 DEF Messages, AtFront
-----------------------------------------------------------------------------
(* Types.                                                                  *)

LEMMA TypeInit == Init => TypeOK
  <1> SUFFICES ASSUME Init PROVE TypeOK
    OBVIOUS
  <1>1. <<>> \in Seq(ClientMessages) /\ <<>> \in Seq(ServerMessages)
    OBVIOUS
  <1> QED BY <1>1 DEF Init, TypeOK, ChannelStates

LEMMA ClientTypes ==
    ASSUME TypeOK, NEW n \in Slots, ClientStep(n) \/ ServerAliveCheck(n)
    PROVE  TypeOK'
  <1> USE DEF ClientUnchanged, clientVars, serverVars, fixedVars, netVars
  <1> DEFINE same == UNCHANGED <<up, affinity, agent, pod, server, listening, noMore, lastLogin, link>>
  <1>1. \A q \in Seq(ServerMessages) : q # <<>> => Tail(q) \in Seq(ServerMessages)
    BY Reading
  <1>2. \A q \in Seq(ClientMessages), x \in ClientMessages : Append(q, x) \in Seq(ClientMessages)
    BY Sending
  <1>4. ASSUME ClientExits(n)
        PROVE  /\ cur' \in [Agents -> Slots \union {NoSlot}] /\ client' \in [Slots -> BOOLEAN]
               /\ c2s' \in [Slots -> Seq(ClientMessages)]
    <2>1. c2s[n] \in Seq(ClientMessages) /\ "eof" \in ClientMessages
      BY DEF TypeOK, ClientMessages
    <2>2. Append(c2s[n], "eof") \in Seq(ClientMessages)
      BY <2>1
    <2> QED BY <1>4, <2>2 DEF TypeOK, ClientExits, ClientSends
  <1>3. /\ same /\ faults' \in Nat
        /\ c2s' \in [Slots -> Seq(ClientMessages)] /\ s2c' \in [Slots -> Seq(ServerMessages)]
        /\ cur' \in [Agents -> Slots \union {NoSlot}] /\ client' \in [Slots -> BOOLEAN]
        /\ confirms' \in [Slots -> BOOLEAN] /\ channel' \in [Slots -> ChannelStates]
    <2>1. CASE ServerAliveCheck(n)
      <3>1. /\ same /\ UNCHANGED <<confirms, channel, s2c>> /\ ClientExits(n)
            /\ faults' = faults \/ faults' = faults + 1
        BY <2>1 DEF ServerAliveCheck
      <3> QED BY <1>4, <3>1 DEF TypeOK
    <2>2. CASE ForwardConfirmed(n)
      BY <1>1, <2>2 DEF TypeOK, ForwardConfirmed, ClientReads
    <2>3. CASE ForwardRefused(n)
      BY <1>1, <1>4, <2>3 DEF TypeOK, ForwardRefused, ClientReads
    <2>6. CASE ServerClosed(n)
      BY <1>1, <1>4, <2>6 DEF TypeOK, ServerClosed, ClientReads
    <2>4. CASE ChannelConfirmed(n)
      BY <1>1, <1>2, <2>4
         DEF TypeOK, ChannelConfirmed, ClientReads, ClientSends, ClientMessages, ChannelStates
    <2>7. CASE AnswerProbe(n)
      BY <1>1, <1>2, <2>7 DEF TypeOK, AnswerProbe, ClientReads, ClientSends, ClientMessages
    <2>5. CASE ShellStarted(n)
      BY <1>1, <2>5 DEF TypeOK, ShellStarted, ClientReads, ChannelStates
    <2> QED BY <2>1, <2>2, <2>3, <2>4, <2>5, <2>6, <2>7 DEF ClientStep
  <1> QED BY <1>3 DEF TypeOK

LEMMA ServerTypes ==
    ASSUME TypeOK, NEW n \in Slots, ServerStep(n) \/ ProbeClient(n)
    PROVE  TypeOK'
  <1> USE DEF ServerUnchanged, clientVars, serverVars, fixedVars, netVars
  <1> DEFINE same == UNCHANGED <<up, affinity, cur, faults, client, confirms, channel, agent, pod, link>>
  <1>1. \A q \in Seq(ClientMessages) : q # <<>> => Tail(q) \in Seq(ClientMessages)
    BY Reading
  <1>2. \A q \in Seq(ServerMessages), x \in ServerMessages : Append(q, x) \in Seq(ServerMessages)
    BY Sending
  <1>3. /\ same /\ lastLogin' \in [Agents -> Pods \union {NoPod}]
        /\ c2s' \in [Slots -> Seq(ClientMessages)] /\ s2c' \in [Slots -> Seq(ServerMessages)]
        /\ server' \in [Slots -> BOOLEAN] /\ listening' \in [Slots -> BOOLEAN]
        /\ noMore' \in [Slots -> BOOLEAN]
    <2>1. CASE SetUpForward(n)
      <3>1. AddressTaken(n) \in BOOLEAN
        BY DEF AddressTaken
      <3> QED BY <1>1, <1>2, <2>1, <3>1
              DEF TypeOK, SetUpForward, ServerReads, ServerSends, ServerMessages
    <2>2. CASE OpenSession(n)
      <3>1. same /\ UNCHANGED <<noMore, lastLogin>> /\ ServerReads(n, "open")
        BY <2>2 DEF OpenSession
      <3>2. c2s' \in [Slots -> Seq(ClientMessages)]
        BY <1>1, <3>1 DEF ServerReads, TypeOK
      <3>3. \E x \in {"eof", "confirmation"} : s2c' = [s2c EXCEPT ![n] = Append(s2c[n], x)]
        BY <2>2 DEF OpenSession, ServerExits, ServerSends
      <3>4. s2c' \in [Slots -> Seq(ServerMessages)]
        BY <1>2, <3>3 DEF TypeOK, ServerMessages
      <3>5. server' \in [Slots -> BOOLEAN] /\ listening' \in [Slots -> BOOLEAN]
        BY <2>2 DEF OpenSession, ServerExits, ServerEnds, TypeOK
      <3> QED BY <3>1, <3>2, <3>4, <3>5 DEF TypeOK
    <2>3. CASE DisallowSessions(n)
      BY <1>1, <2>3 DEF TypeOK, DisallowSessions, ServerReads
    <2>7. CASE ProbeAnswered(n)
      BY <1>1, <2>7 DEF TypeOK, ProbeAnswered, ServerReads
    <2>4. CASE RunForcedCommand(n)
      BY <1>1, <1>2, <2>4
         DEF TypeOK, RunForcedCommand, ServerReads, ServerSends, ServerMessages
    <2>5. CASE ClientClosed(n)
      BY <1>1, <1>2, <2>5
         DEF TypeOK, ClientClosed, ServerReads, ServerSends, ServerExits, ServerEnds, ServerMessages
    <2>6. CASE ProbeClient(n)
      BY <1>2, <2>6 DEF TypeOK, ProbeClient, ServerSends, ServerMessages
    <2> QED BY <2>1, <2>2, <2>3, <2>4, <2>5, <2>6, <2>7 DEF ServerStep
  <1> QED BY <1>3 DEF TypeOK

LEMMA NetworkTypes ==
    ASSUME TypeOK, NEW n \in Slots,
           GiveUp(n) \/ Lose(n) \/ Abandon(n) \/ Cut(n) \/ Heal(n)
    PROVE  TypeOK'
  <1> USE DEF clientVars, serverVars, fixedVars, netVars
  <1> DEFINE same == UNCHANGED <<up, affinity, cur, client, confirms, channel, agent, pod, noMore, lastLogin>>
  <1>1. \A q \in Seq(ServerMessages) :
            q # <<>> => SubSeq(q, 1, Len(q) - 1) \in Seq(ServerMessages)
    BY Losing
  <1>2. \A q \in Seq(ClientMessages) :
            q # <<>> => SubSeq(q, 1, Len(q) - 1) \in Seq(ClientMessages)
    BY Losing
  <1>3. /\ same /\ faults' \in Nat
        /\ c2s' \in [Slots -> Seq(ClientMessages)] /\ s2c' \in [Slots -> Seq(ServerMessages)]
        /\ server' \in [Slots -> BOOLEAN] /\ listening' \in [Slots -> BOOLEAN]
        /\ link' \in [Slots -> {"up", "cut", "gone"}]
    <2>1. CASE Lose(n)
      <3>1. CASE server[n] /\ c2s[n] # <<>> /\ c2s' = [c2s EXCEPT ![n] = SubSeq(c2s[n], 1, Len(c2s[n]) - 1)]
                 /\ UNCHANGED s2c
        BY <1>2, <2>1, <3>1 DEF TypeOK, Lose
      <3>2. CASE client[n] /\ s2c[n] # <<>> /\ s2c' = [s2c EXCEPT ![n] = SubSeq(s2c[n], 1, Len(s2c[n]) - 1)]
                 /\ UNCHANGED c2s
        BY <1>1, <2>1, <3>2 DEF TypeOK, Lose
      <3> QED BY <2>1, <3>1, <3>2 DEF Lose
    <2>2. CASE GiveUp(n)
      BY <2>2 DEF TypeOK, GiveUp, ServerEnds
    <2>3. CASE Abandon(n)
      BY <2>3 DEF TypeOK, Abandon
    <2>4. CASE Cut(n)
      BY <2>4 DEF TypeOK, Cut
    <2>5. CASE Heal(n)
      BY <2>5 DEF TypeOK, Heal
    <2> QED BY <2>1, <2>2, <2>3, <2>4, <2>5
  <1> QED BY <1>3 DEF TypeOK

LEMMA AgentTypes ==
    ASSUME TypeOK, NEW a \in Agents, Connect(a) \/ HostCrash(a) \/ AffinityExpires(a)
    PROVE  TypeOK'
  <1> USE DEF clientVars, serverVars, fixedVars, netVars
  <1>1. CASE Connect(a)
    <2>1. Requests \in Seq(ClientMessages) /\ <<>> \in Seq(ServerMessages)
      BY DEF Requests, ClientMessages
    <2> QED BY <1>1, <2>1 DEF Connect, TypeOK, ChannelStates
  <1>2. CASE HostCrash(a)
    <2>1. \A q \in Seq(ClientMessages), d \in BOOLEAN : Closing(q, d) \in Seq(ClientMessages)
      BY Sending DEF Closing, ClientMessages
    <2>2. \A n \in Slots : (client[n] /\ agent[n] = a) \in BOOLEAN /\ (client[n] /\ agent[n] # a) \in BOOLEAN
      BY DEF TypeOK
    <2>3. c2s' \in [Slots -> Seq(ClientMessages)]
      BY <1>2, <2>1, <2>2 DEF HostCrash, TypeOK
    <2>4. client' \in [Slots -> BOOLEAN]
      BY <1>2, <2>2 DEF HostCrash
    <2> QED BY <1>2, <2>3, <2>4 DEF HostCrash, TypeOK
  <1>3. CASE AffinityExpires(a)
    BY <1>3 DEF AffinityExpires, TypeOK
  <1> QED BY <1>1, <1>2, <1>3

LEMMA PodTypes ==
    ASSUME TypeOK, NEW p \in Pods, PodCrash(p) \/ PodStart(p)
    PROVE  TypeOK'
  <1> USE DEF clientVars, serverVars, fixedVars, netVars
  <1>1. CASE PodCrash(p)
    <2>1. \A q \in Seq(ServerMessages), d \in BOOLEAN : Closing(q, d) \in Seq(ServerMessages)
      BY Sending DEF Closing, ServerMessages
    <2>2. \A n \in Slots : /\ (server[n] /\ pod[n] = p) \in BOOLEAN
                           /\ (server[n] /\ pod[n] # p) \in BOOLEAN
                           /\ (listening[n] /\ pod[n] # p) \in BOOLEAN
      BY DEF TypeOK
    <2>3. s2c' \in [Slots -> Seq(ServerMessages)]
      BY <1>1, <2>1, <2>2 DEF PodCrash, TypeOK
    <2>4. server' \in [Slots -> BOOLEAN] /\ listening' \in [Slots -> BOOLEAN]
      BY <1>1, <2>2 DEF PodCrash
    <2> QED BY <1>1, <2>3, <2>4 DEF PodCrash, TypeOK
  <1>2. CASE PodStart(p)
    BY <1>2 DEF PodStart, TypeOK
  <1> QED BY <1>1, <1>2

LEMMA TypeNext == TypeOK /\ [Next]_vars => TypeOK'
  <1> SUFFICES ASSUME TypeOK, [Next]_vars PROVE TypeOK'
    OBVIOUS
  <1>1. CASE UNCHANGED vars
    BY <1>1 DEF TypeOK, vars, clientVars, serverVars, fixedVars, netVars
  <1> QED BY <1>1, ClientTypes, ServerTypes, NetworkTypes, AgentTypes, PodTypes DEF Next

-----------------------------------------------------------------------------
(* The steps of one session.                                               *)

Others(n) ==
    \A m \in Slots \ {n} :
        /\ client'[m] = client[m] /\ confirms'[m] = confirms[m] /\ channel'[m] = channel[m]
        /\ server'[m] = server[m] /\ listening'[m] = listening[m] /\ link'[m] = link[m]
        /\ c2s'[m] = c2s[m] /\ s2c'[m] = s2c[m]

LEMMA SlotStep ==
    ASSUME IInv, TypeOK', NEW n \in Slots, Others(n),
           UNCHANGED <<affinity, agent, pod>>,
           \/ lastLogin' = lastLogin /\ (LoggedIn(n)' => LoggedIn(n))
           \/ Pending(n) /\ client'[n] = client[n]
                /\ "shell" \in Messages(c2s[n])
                /\ lastLogin' = [lastLogin EXCEPT ![agent[n]] = pod[n]],
           client'[n] => client[n], server'[n] => server[n],
           \/ cur' = cur
           \/ client[n] /\ ~client'[n] /\ cur' = [cur EXCEPT ![agent[n]] = NoSlot],
           SessionInv(n)', Pending(n)' => Pending(n),
           server'[n] /\ "shell" \in Messages(c2s'[n])
               => client[n] \/ "shell" \in Messages(c2s[n])
    PROVE  IInv'
  <1>1. TypeOK /\ RouteInv /\ \A m \in Slots : SessionInv(m)
    BY DEF IInv
  <1>2. ASSUME NEW m \in Slots PROVE SessionInv(m)'
    <2>1. CASE m = n
      BY <2>1
    <2>2. CASE m # n
      BY <1>1, <2>2 DEF Others, SessionInv, LoggedIn, Fresh
    <2> QED BY <2>1, <2>2
  <1>3. ASSUME NEW m \in Slots
        PROVE  /\ client'[m] => client[m]
               /\ server'[m] => server[m]
               /\ Pending(m)' => Pending(m)
               /\ server'[m] /\ "shell" \in Messages(c2s'[m])
                    => client[m] \/ "shell" \in Messages(c2s[m])
               /\ m # n => (LoggedIn(m)' <=> LoggedIn(m))
    BY DEF Others, Pending, LoggedIn
  <1>4. RouteInv'
    <2>1. \A m \in Slots : client'[m] \/ server'[m] => agent'[m] \in Agents /\ pod'[m] \in Pods
      BY <1>1, <1>3 DEF RouteInv
    <2>2. ASSUME NEW m \in Slots, client'[m] PROVE cur'[agent'[m]] = m
      <3>1. client[m] /\ cur[agent[m]] = m /\ agent[m] \in Agents
        BY <1>1, <1>3, <2>2 DEF RouteInv
      <3>2. CASE cur' = cur
        BY <3>1, <3>2
      <3>3. CASE client[n] /\ ~client'[n] /\ cur' = [cur EXCEPT ![agent[n]] = NoSlot]
        <4>1. m # n /\ cur[agent[n]] = n
          BY <1>1, <2>2, <3>3 DEF RouteInv
        <4>2. agent[m] # agent[n]
          BY <3>1, <4>1
        <4> QED BY <1>1, <3>1, <3>3, <4>2 DEF TypeOK
      <3> QED BY <3>2, <3>3
    <2>3. \A m \in Slots : Pending(m)' => affinity'[agent'[m]] = pod'[m]
      BY <1>1, <1>3 DEF RouteInv
    <2>4. ASSUME NEW m \in Slots, NEW k \in Slots, client'[k], server'[m], m # k,
                 agent'[m] = agent'[k], "shell" \in Messages(c2s'[m])
          PROVE  pod'[m] = pod'[k]
      <3>1. client[k] /\ server[m] /\ agent[m] = agent[k] /\ cur[agent[k]] = k
        BY <1>1, <1>3, <2>4 DEF RouteInv
      <3>2. ~client[m]
        BY <1>1, <2>4, <3>1 DEF RouteInv
      <3>3. "shell" \in Messages(c2s[m])
        BY <1>3, <2>4, <3>2
      <3> QED BY <1>1, <2>4, <3>1, <3>3 DEF RouteInv
    <2>5. ASSUME NEW m \in Slots, LoggedIn(m)' PROVE lastLogin'[agent'[m]] = pod'[m]
      <3>1. CASE lastLogin' = lastLogin /\ (LoggedIn(n)' => LoggedIn(n))
        BY <1>1, <1>3, <2>5, <3>1 DEF RouteInv
      <3>2. CASE /\ Pending(n) /\ client'[n] = client[n] /\ "shell" \in Messages(c2s[n])
                 /\ lastLogin' = [lastLogin EXCEPT ![agent[n]] = pod[n]]
        <4>1. client[m] /\ agent[m] \in Agents /\ server[n] /\ agent[n] \in Agents
          BY <1>1, <1>3, <2>5, <3>2 DEF RouteInv, LoggedIn, Pending
        <4>2. CASE agent[m] = agent[n]
          <5>1. pod[m] = pod[n]
            BY <1>1, <3>2, <4>1, <4>2 DEF RouteInv
          <5> QED BY <1>1, <3>2, <4>1, <4>2, <5>1 DEF TypeOK
        <4>3. CASE agent[m] # agent[n]
          <5>1. LoggedIn(m)
            BY <1>3, <2>5, <4>3
          <5> QED BY <1>1, <3>2, <4>1, <4>3, <5>1 DEF RouteInv, TypeOK
        <4> QED BY <4>2, <4>3
      <3> QED BY <3>1, <3>2
    <2> QED BY <2>1, <2>2, <2>3, <2>4, <2>5 DEF RouteInv
  <1> QED BY <1>2, <1>4 DEF IInv

(* What ssh does with a message.                                           *)
LEMMA ClientStepInv ==
    ASSUME IInv, TypeOK', NEW n \in Slots, ClientStep(n)
    PROVE  IInv'
  <1> USE DEF ClientUnchanged, clientVars, serverVars, fixedVars, netVars
  <1>1. TypeOK /\ SessionInv(n)
    BY DEF IInv
  <1>2. /\ client[n] /\ link[n] # "cut" /\ s2c[n] \in Seq(ServerMessages) /\ s2c[n] # <<>>
        /\ c2s[n] \in Seq(ClientMessages)
        /\ s2c' = [s2c EXCEPT ![n] = Tail(s2c[n])]
        /\ UNCHANGED <<up, affinity, faults, server, listening, noMore, lastLogin, agent, pod, link>>
    BY <1>1 DEF ClientStep, ForwardConfirmed, ForwardRefused, ChannelConfirmed, ShellStarted,
                AnswerProbe, ServerClosed, ClientReads, TypeOK
  <1> DEFINE h == Head(s2c[n])
             q == Tail(s2c[n])
  <1>3. /\ h \in Messages(s2c[n]) /\ Messages(q) \subseteq Messages(s2c[n])
        /\ \A m \in Messages(s2c[n]) : m # h => m \in Messages(q)
        /\ Preceded(s2c[n], "confirmation", Answers) => h # "confirmation"
        /\ Preceded(s2c[n], "confirmation", Answers) /\ h \notin Answers
             => Preceded(q, "confirmation", Answers)
    BY <1>2, Reading
  <1>4. s2c'[n] = q
    BY <1>1, <1>2 DEF TypeOK
  <1> HIDE DEF h, q
  <1>5. h \notin Answers /\ Messages(s2c[n]) \cap Answers # {} => Messages(q) \cap Answers # {}
    BY <1>3
  <1>6. ASSUME c2s' = c2s, cur' = cur, client' = client, channel' = channel,
               confirms' = [confirms EXCEPT ![n] = FALSE], h = "success"
        PROVE  IInv'
    <2>1. Others(n) /\ ~confirms'[n]
      BY <1>1, <1>2, <1>6 DEF Others, TypeOK
    <2>2. LoggedIn(n)' => LoggedIn(n)
      BY <1>2, <1>3, <1>4, <1>6 DEF LoggedIn
    <2>3. SessionInv(n)'
      BY <1>1, <1>2, <1>3, <1>4, <1>6, <2>1, <2>2 DEF SessionInv, Fresh
    <2>4. Pending(n)' => Pending(n)
      BY <1>2, <1>3, <1>4, <1>6 DEF Pending
    <2> QED BY <1>2, <1>6, <2>1, <2>2, <2>3, <2>4, SlotStep
  <1>7. ASSUME ClientExits(n), channel' = channel,
               confirms' = [confirms EXCEPT ![n] = FALSE] \/ confirms' = confirms
        PROVE  IInv'
    <2>1. /\ Others(n) /\ ~client'[n] /\ cur' = [cur EXCEPT ![agent[n]] = NoSlot]
          /\ c2s'[n] = Append(c2s[n], "eof")
      BY <1>1, <1>2, <1>7 DEF Others, ClientExits, ClientSends, TypeOK
    <2>2. /\ Messages(c2s'[n]) = Messages(c2s[n]) \union {"eof"}
          /\ AtFront(c2s[n], "forward") => AtFront(c2s'[n], "forward")
      BY <1>2, <2>1, Sending DEF ClientMessages
    <2>3. ~LoggedIn(n)'
      BY <2>1 DEF LoggedIn
    <2>4. SessionInv(n)'
      BY <1>1, <1>2, <1>3, <1>4, <1>7, <2>1, <2>2, <2>3 DEF SessionInv, Fresh
    <2>5. Pending(n)' => Pending(n)
      BY <1>2, <2>1, <2>2 DEF Pending
    <2> QED BY <1>2, <2>1, <2>2, <2>3, <2>4, <2>5, SlotStep
  <1>8. CASE ForwardConfirmed(n)
    BY <1>6, <1>8 DEF ForwardConfirmed, ClientReads, h
  <1>9. CASE ForwardRefused(n)
    BY <1>7, <1>9 DEF ForwardRefused
  <1>10. CASE ServerClosed(n)
    BY <1>7, <1>10 DEF ServerClosed
  <1>11. CASE ChannelConfirmed(n)
    <2>1. /\ h = "confirmation" /\ Others(n) /\ channel'[n] = "open" /\ cur' = cur
          /\ client' = client /\ confirms' = confirms /\ c2s'[n] = Append(c2s[n], "shell")
      BY <1>1, <1>2, <1>11 DEF ChannelConfirmed, ClientReads, ClientSends, Others, TypeOK, h
    <2>2. /\ Messages(c2s'[n]) = Messages(c2s[n]) \union {"shell"}
          /\ AtFront(c2s[n], "forward") => AtFront(c2s'[n], "forward")
      BY <1>2, <2>1, Sending DEF ClientMessages
    <2>3. server[n] => ~confirms[n] /\ listening[n]
      BY <1>1, <1>2, <1>3, <2>1 DEF SessionInv, Fresh
    <2>4. LoggedIn(n)' => LoggedIn(n)
      BY <1>2, <1>3, <1>4, <2>1 DEF LoggedIn
    <2>5. SessionInv(n)'
      BY <1>1, <1>2, <1>3, <1>4, <2>1, <2>2, <2>3 DEF SessionInv, Fresh
    <2>6. Pending(n)' => Pending(n)
      BY <1>2, <1>3, <2>1 DEF Pending
    <2> QED BY <1>2, <2>1, <2>4, <2>5, <2>6, SlotStep
  <1>12. CASE ShellStarted(n)
    <2>1. /\ h = "started" /\ Others(n) /\ channel'[n] = "running" /\ cur' = cur
          /\ client' = client /\ confirms' = confirms /\ c2s' = c2s
      BY <1>1, <1>2, <1>12 DEF ShellStarted, ClientReads, Others, TypeOK, h
    <2>2. LoggedIn(n)' => LoggedIn(n)
      BY <1>2, <1>3, <2>1 DEF LoggedIn
    <2>3. h \notin Answers
      BY <2>1 DEF Answers
    <2>4. SessionInv(n)'
      BY <1>1, <1>2, <1>3, <1>4, <1>5, <2>1, <2>2, <2>3 DEF SessionInv, Fresh
    <2>5. Pending(n)' => Pending(n)
      BY <1>2, <1>3, <1>4, <2>1 DEF Pending
    <2> QED BY <1>2, <2>1, <2>2, <2>4, <2>5, SlotStep
  <1>13. CASE AnswerProbe(n)
    <2>1. /\ h = "keepalive" /\ Others(n) /\ channel' = channel /\ cur' = cur
          /\ client' = client /\ confirms' = confirms /\ c2s'[n] = Append(c2s[n], "reply")
      BY <1>1, <1>2, <1>13 DEF AnswerProbe, ClientReads, ClientSends, Others, TypeOK, h
    <2>2. /\ Messages(c2s'[n]) = Messages(c2s[n]) \union {"reply"}
          /\ Preceded(c2s[n], "open", {"forward"}) => Preceded(c2s'[n], "open", {"forward"})
          /\ AtFront(c2s[n], "forward") => AtFront(c2s'[n], "forward")
      BY <1>2, <2>1, Sending DEF ClientMessages
    <2>3. LoggedIn(n)' => LoggedIn(n)
      BY <1>2, <1>3, <1>4, <2>1 DEF LoggedIn
    <2>4. h \notin Answers
      BY <2>1 DEF Answers
    <2>5. SessionInv(n)'
      BY <1>1, <1>2, <1>3, <1>4, <1>5, <2>1, <2>2, <2>3, <2>4 DEF SessionInv, Fresh
    <2>6. Pending(n)' => Pending(n)
      BY <1>2, <1>3, <1>4, <2>1, <2>2 DEF Pending
    <2> QED BY <1>2, <2>1, <2>2, <2>3, <2>5, <2>6, SlotStep
  <1> QED BY <1>8, <1>9, <1>10, <1>11, <1>12, <1>13 DEF ClientStep

(* ssh that leaves on its own says no more than that it does.              *)
LEMMA ServerAliveCheckInv ==
    ASSUME IInv, TypeOK', NEW n \in Slots, ServerAliveCheck(n)
    PROVE  IInv'
  <1> USE DEF clientVars, serverVars, fixedVars, netVars
  <1>1. TypeOK /\ SessionInv(n) /\ c2s[n] \in Seq(ClientMessages)
    BY DEF IInv, TypeOK
  <1>2. /\ client[n] /\ Others(n) /\ ~client'[n] /\ cur' = [cur EXCEPT ![agent[n]] = NoSlot]
        /\ c2s'[n] = Append(c2s[n], "eof")
        /\ UNCHANGED <<affinity, confirms, channel, server, listening, lastLogin, agent, pod, link, s2c>>
    BY <1>1 DEF ServerAliveCheck, ClientExits, ClientSends, Others, TypeOK
  <1>3. /\ Messages(c2s'[n]) = Messages(c2s[n]) \union {"eof"}
        /\ AtFront(c2s[n], "forward") => AtFront(c2s'[n], "forward")
    BY <1>1, <1>2, Sending DEF ClientMessages
  <1>4. ~LoggedIn(n)'
    BY <1>2 DEF LoggedIn
  <1>5. SessionInv(n)'
    BY <1>1, <1>2, <1>3, <1>4 DEF SessionInv, Fresh
  <1>6. Pending(n)' => Pending(n)
    BY <1>2, <1>3 DEF Pending
  <1> QED BY <1>2, <1>3, <1>4, <1>5, <1>6, SlotStep

(* What sshd does with a message.                                          *)
LEMMA ServerStepInv ==
    ASSUME IInv, TypeOK', NEW n \in Slots, ServerStep(n)
    PROVE  IInv'
  <1> USE DEF ServerUnchanged, clientVars, serverVars, fixedVars, netVars
  <1>1. TypeOK /\ RouteInv /\ SessionInv(n)
    BY DEF IInv
  <1>2. /\ server[n] /\ link[n] # "cut" /\ c2s[n] \in Seq(ClientMessages) /\ c2s[n] # <<>>
        /\ s2c[n] \in Seq(ServerMessages)
        /\ c2s' = [c2s EXCEPT ![n] = Tail(c2s[n])]
        /\ UNCHANGED <<up, affinity, cur, faults, client, confirms, channel, agent, pod, link>>
    BY <1>1 DEF ServerStep, SetUpForward, OpenSession, DisallowSessions, RunForcedCommand,
                ProbeAnswered, ClientClosed, ServerReads, TypeOK
  <1> DEFINE h == Head(c2s[n])
             q == Tail(c2s[n])
  <1>3. /\ h \in Messages(c2s[n]) /\ Messages(q) \subseteq Messages(c2s[n])
        /\ Preceded(c2s[n], "open", {"forward"}) => h # "open"
        /\ Preceded(c2s[n], "open", {"forward"}) /\ h \notin {"forward"}
             => Preceded(q, "open", {"forward"})
        /\ AtFront(c2s[n], "forward") => "forward" \notin Messages(q)
    BY <1>2, Reading
  <1>4. c2s'[n] = q
    BY <1>1, <1>2 DEF TypeOK
  <1> HIDE DEF h, q
  <1>5. ASSUME NEW x \in ServerMessages, s2c' = [s2c EXCEPT ![n] = Append(s2c[n], x)]
        PROVE  /\ s2c'[n] = Append(s2c[n], x)
               /\ Messages(s2c'[n]) = Messages(s2c[n]) \union {x}
               /\ Preceded(s2c[n], "confirmation", Answers)
                    /\ (x = "confirmation" => Messages(s2c[n]) \cap Answers # {})
                    => Preceded(s2c'[n], "confirmation", Answers)
    <2>1. s2c'[n] = Append(s2c[n], x)
      BY <1>1, <1>5 DEF TypeOK
    <2> QED BY <1>2, <2>1, Sending
  <1>6. ASSUME ServerExits(n), UNCHANGED lastLogin
        PROVE  IInv'
    <2>1. Others(n) /\ ~server'[n]
      BY <1>1, <1>2, <1>6 DEF ServerExits, ServerEnds, ServerSends, Others, TypeOK
    <2>2. SessionInv(n)' /\ ~Pending(n)' /\ ~LoggedIn(n)'
      BY <2>1 DEF SessionInv, Pending, LoggedIn
    <2> QED BY <1>2, <1>6, <2>1, <2>2, SlotStep
  <1>7. CASE SetUpForward(n)
    <2> DEFINE x == IF AddressTaken(n) THEN "failure" ELSE "success"
    <2>1. /\ h = "forward" /\ Others(n) /\ server' = server /\ lastLogin' = lastLogin
          /\ listening'[n] = ~AddressTaken(n)
          /\ s2c' = [s2c EXCEPT ![n] = Append(s2c[n], x)]
      BY <1>1, <1>2, <1>7 DEF SetUpForward, ServerReads, ServerSends, Others, TypeOK, h
    <2>2. x \in ServerMessages /\ x \in Answers /\ x # "confirmation" /\ x # "started"
          /\ (x = "success" => listening'[n])
      BY <2>1 DEF ServerMessages, Answers
    <2> HIDE DEF x
    <2>3. /\ Messages(s2c'[n]) = Messages(s2c[n]) \union {x}
          /\ Preceded(s2c[n], "confirmation", Answers)
               => Preceded(s2c'[n], "confirmation", Answers)
      BY <1>5, <2>1, <2>2
    <2>4. Messages(s2c'[n]) \cap Answers # {}
      BY <2>2, <2>3
    <2>5. "forward" \notin Messages(q) /\ Fresh(n)
      BY <1>1, <1>2, <1>3, <2>1 DEF SessionInv
    <2>6. ~LoggedIn(n)' /\ "shell" \notin Messages(q)
      BY <1>2, <1>3, <2>2, <2>3, <2>5 DEF LoggedIn, Fresh
    <2>7. AtFront(q, "forward")
      BY <2>5 DEF AtFront, Messages
    <2>8. SessionInv(n)'
      BY <1>1, <1>2, <1>3, <1>4, <2>1, <2>2, <2>3, <2>4, <2>5, <2>6, <2>7
         DEF SessionInv, Fresh
    <2>9. Pending(n)' => Pending(n)
      BY <1>2, <1>3, <1>4, <2>1, <2>2, <2>3 DEF Pending
    <2> QED BY <1>2, <1>3, <1>4, <2>1, <2>6, <2>8, <2>9, SlotStep
  (* No forward request is left once anything has been read. *)
  <1>8. AtFront(q, "forward") /\ "forward" \notin Messages(q)
    <2>1. "forward" \notin Messages(q)
      BY <1>1, <1>2, <1>3 DEF SessionInv
    <2> QED BY <2>1 DEF AtFront, Messages
  <1>9. CASE OpenSession(n)
    <2>1. h = "open" /\ lastLogin' = lastLogin
      BY <1>9 DEF OpenSession, ServerReads, h
    <2>2. CASE noMore[n]
      BY <1>6, <1>9, <2>1, <2>2 DEF OpenSession
    <2>3. CASE ~noMore[n]
      <3>1. /\ Others(n) /\ server' = server /\ listening' = listening
            /\ s2c' = [s2c EXCEPT ![n] = Append(s2c[n], "confirmation")]
        BY <1>1, <1>2, <1>9, <2>3 DEF OpenSession, ServerSends, Others, TypeOK
      <3>2. /\ Messages(s2c'[n]) = Messages(s2c[n]) \union {"confirmation"}
            /\ Preceded(s2c[n], "confirmation", Answers) /\ Messages(s2c[n]) \cap Answers # {}
                 => Preceded(s2c'[n], "confirmation", Answers)
        BY <1>5, <3>1 DEF ServerMessages
      <3>3. client[n] /\ confirms[n] => Messages(s2c[n]) \cap Answers # {}
        BY <1>1, <1>2, <1>3, <2>1 DEF SessionInv
      <3>4. LoggedIn(n)' => LoggedIn(n)
        BY <1>2, <3>1, <3>2 DEF LoggedIn
      <3>5. SessionInv(n)'
        BY <1>1, <1>2, <1>3, <1>4, <1>8, <3>1, <3>2, <3>3, <3>4 DEF SessionInv
      <3>6. Pending(n)' => Pending(n)
        BY <1>2, <1>3, <1>4, <2>1, <3>1, <3>2 DEF Pending
      <3> QED BY <1>2, <1>3, <1>4, <2>1, <3>1, <3>4, <3>5, <3>6, SlotStep
    <2> QED BY <2>2, <2>3
  <1>10. ASSUME UNCHANGED <<server, listening, lastLogin, s2c>>, h # "forward" PROVE IInv'
    <2>1. Others(n)
      BY <1>1, <1>2, <1>10 DEF Others, TypeOK
    <2>2. LoggedIn(n)' => LoggedIn(n)
      BY <1>2, <1>10 DEF LoggedIn
    <2>3. SessionInv(n)'
      BY <1>1, <1>2, <1>3, <1>4, <1>8, <1>10, <2>2 DEF SessionInv
    <2>4. Pending(n)' => Pending(n)
      BY <1>2, <1>3, <1>4, <1>10 DEF Pending
    <2> QED BY <1>2, <1>3, <1>4, <1>10, <2>1, <2>2, <2>3, <2>4, SlotStep
  <1>11. CASE DisallowSessions(n)
    BY <1>10, <1>11 DEF DisallowSessions, ServerReads, h
  <1>12. CASE ProbeAnswered(n)
    BY <1>10, <1>12 DEF ProbeAnswered, ServerReads, h
  <1>13. CASE ClientClosed(n)
    BY <1>6, <1>13 DEF ClientClosed
  <1>14. CASE RunForcedCommand(n)
    <2>1. /\ h = "shell" /\ Others(n) /\ UNCHANGED <<server, listening>>
          /\ lastLogin' = [lastLogin EXCEPT ![agent[n]] = pod[n]]
          /\ s2c' = [s2c EXCEPT ![n] = Append(s2c[n], "started")]
      BY <1>1, <1>2, <1>14 DEF RunForcedCommand, ServerReads, ServerSends, Others, TypeOK, h
    <2>2. /\ Messages(s2c'[n]) = Messages(s2c[n]) \union {"started"}
          /\ Preceded(s2c[n], "confirmation", Answers)
               => Preceded(s2c'[n], "confirmation", Answers)
      BY <1>5, <2>1 DEF ServerMessages
    <2>3. listening[n] /\ Pending(n)
      BY <1>1, <1>2, <1>3, <2>1 DEF SessionInv, Pending
    <2>4. SessionInv(n)'
      BY <1>1, <1>2, <1>3, <1>4, <1>8, <2>1, <2>2, <2>3 DEF SessionInv
    <2>5. Pending(n)' => Pending(n)
      BY <2>3
    <2>6. "shell" \in Messages(c2s[n])
      BY <1>3, <2>1
    <2> QED BY <1>2, <2>1, <2>3, <2>4, <2>5, <2>6, SlotStep
  <1> QED BY <1>7, <1>9, <1>11, <1>12, <1>13, <1>14 DEF ServerStep

(* sshd asks an ssh that is silent.                                        *)
LEMMA ProbeInv ==
    ASSUME IInv, TypeOK', NEW n \in Slots, ProbeClient(n)
    PROVE  IInv'
  <1> USE DEF ServerUnchanged, clientVars, serverVars, fixedVars, netVars
  <1>1. TypeOK /\ SessionInv(n) /\ s2c[n] \in Seq(ServerMessages)
    BY DEF IInv, TypeOK
  <1>2. /\ Others(n) /\ s2c'[n] = Append(s2c[n], "keepalive")
        /\ UNCHANGED <<affinity, cur, client, confirms, channel, server, listening, lastLogin,
                       agent, pod, link, c2s>>
    BY <1>1 DEF ProbeClient, ServerSends, Others, TypeOK
  <1>3. /\ Messages(s2c'[n]) = Messages(s2c[n]) \union {"keepalive"}
        /\ Preceded(s2c[n], "confirmation", Answers)
             => Preceded(s2c'[n], "confirmation", Answers)
    BY <1>1, <1>2, Sending DEF ServerMessages
  <1>4. LoggedIn(n)' => LoggedIn(n)
    BY <1>2, <1>3 DEF LoggedIn
  <1>5. SessionInv(n)'
    BY <1>1, <1>2, <1>3, <1>4 DEF SessionInv, Fresh
  <1>6. Pending(n)' => Pending(n)
    BY <1>2, <1>3 DEF Pending
  <1> QED BY <1>2, <1>4, <1>5, <1>6, SlotStep

(* The network delivers late, not at all, or the beginning only.           *)
LEMMA NetworkInv ==
    ASSUME IInv, TypeOK', NEW n \in Slots,
           GiveUp(n) \/ Lose(n) \/ Abandon(n) \/ Cut(n) \/ Heal(n)
    PROVE  IInv'
  <1> USE DEF clientVars, serverVars, fixedVars, netVars
  <1>1. /\ TypeOK /\ SessionInv(n)
        /\ c2s[n] \in Seq(ClientMessages) /\ s2c[n] \in Seq(ServerMessages)
    BY DEF IInv, TypeOK
  <1>2. CASE GiveUp(n)
    <2>1. /\ Others(n) /\ ~server'[n] /\ client' = client
          /\ UNCHANGED <<affinity, cur, lastLogin, agent, pod>>
      BY <1>1, <1>2 DEF GiveUp, ServerEnds, Others, TypeOK
    <2>2. SessionInv(n)' /\ ~Pending(n)' /\ ~LoggedIn(n)'
      BY <2>1 DEF SessionInv, Pending, LoggedIn
    <2> QED BY <2>1, <2>2, SlotStep
  <1>3. ASSUME UNCHANGED <<affinity, cur, client, confirms, channel, server, listening, lastLogin,
                           agent, pod, c2s, s2c>>,
               Others(n), link'[n] = "gone" => ~client[n]
        PROVE  IInv'
    <2>1. SessionInv(n)'
      BY <1>1, <1>3 DEF SessionInv, Fresh, LoggedIn
    <2>2. (Pending(n)' => Pending(n)) /\ (LoggedIn(n)' => LoggedIn(n))
      BY <1>3 DEF Pending, LoggedIn
    <2> QED BY <1>3, <2>1, <2>2, SlotStep
  <1>4. CASE Abandon(n)
    BY <1>1, <1>3, <1>4 DEF Abandon, Others, TypeOK
  <1>5. CASE Cut(n)
    BY <1>1, <1>3, <1>5 DEF Cut, Others, TypeOK
  <1>6. CASE Heal(n)
    BY <1>1, <1>3, <1>6 DEF Heal, Others, TypeOK
  <1>7. CASE Lose(n)
    <2>1. /\ Others(n) /\ link[n] = "gone"
          /\ UNCHANGED <<affinity, cur, client, confirms, channel, server, listening, lastLogin,
                         agent, pod, link>>
      BY <1>1, <1>7 DEF Lose, Others, TypeOK
    <2>2. server[n] => ~client[n]
      BY <1>1, <2>1 DEF SessionInv
    <2>3. /\ Messages(c2s'[n]) \subseteq Messages(c2s[n])
          /\ Messages(s2c'[n]) \subseteq Messages(s2c[n])
          /\ AtFront(c2s[n], "forward") => AtFront(c2s'[n], "forward")
      <3>1. CASE c2s[n] # <<>> /\ c2s' = [c2s EXCEPT ![n] = SubSeq(c2s[n], 1, Len(c2s[n]) - 1)]
                 /\ UNCHANGED s2c
        BY <1>1, <3>1, Losing DEF TypeOK
      <3>2. CASE s2c[n] # <<>> /\ s2c' = [s2c EXCEPT ![n] = SubSeq(s2c[n], 1, Len(s2c[n]) - 1)]
                 /\ UNCHANGED c2s
        BY <1>1, <3>2, Losing DEF TypeOK
      <3> QED BY <1>7, <3>1, <3>2 DEF Lose
    <2>4. (Pending(n)' => Pending(n)) /\ (LoggedIn(n)' => LoggedIn(n))
      BY <2>1, <2>3 DEF Pending, LoggedIn
    <2>5. SessionInv(n)'
      BY <1>1, <2>1, <2>2, <2>3, <2>4 DEF SessionInv, Fresh
    <2> QED BY <2>1, <2>3, <2>4, <2>5, SlotStep
  <1> QED BY <1>2, <1>4, <1>5, <1>6, <1>7
-----------------------------------------------------------------------------
(* The steps of a host, a Pod and the Service.                             *)

(* A new session begins where the sessions that may still log in are.      *)
LEMMA ConnectInv ==
    ASSUME IInv, TypeOK', NEW a \in Agents, Connect(a)
    PROVE  IInv'
  <1>1. TypeOK /\ RouteInv /\ \A m \in Slots : SessionInv(m)
    BY DEF IInv
  <1>2. PICK n \in Slots, p \in Pods :
         /\ ~client[n] /\ ~server[n] /\ RouteTo(a, p)
         /\ affinity' = [affinity EXCEPT ![a] = p]
         /\ cur' = [cur EXCEPT ![a] = n]
         /\ agent' = [agent EXCEPT ![n] = a]
         /\ pod' = [pod EXCEPT ![n] = p]
         /\ client' = [client EXCEPT ![n] = TRUE]
         /\ confirms' = [confirms EXCEPT ![n] = TRUE]
         /\ channel' = [channel EXCEPT ![n] = "opening"]
         /\ server' = [server EXCEPT ![n] = TRUE]
         /\ link' = [link EXCEPT ![n] = "up"]
         /\ c2s' = [c2s EXCEPT ![n] = Requests]
         /\ s2c' = [s2c EXCEPT ![n] = <<>>]
    BY DEF Connect
  <1>3. cur[a] = NoSlot /\ UNCHANGED <<listening, lastLogin>>
    BY DEF Connect
  <1>4. /\ affinity'[a] = p /\ cur'[a] = n /\ agent'[n] = a /\ pod'[n] = p
        /\ client'[n] /\ confirms'[n] /\ channel'[n] = "opening" /\ server'[n]
        /\ link'[n] = "up" /\ c2s'[n] = Requests /\ s2c'[n] = <<>>
    BY <1>1, <1>2 DEF TypeOK
  <1>5. /\ Others(n)
        /\ \A b \in Agents \ {a} : affinity'[b] = affinity[b] /\ cur'[b] = cur[b]
        /\ \A m \in Slots \ {n} : agent'[m] = agent[m] /\ pod'[m] = pod[m]
    BY <1>1, <1>2, <1>3 DEF TypeOK, Others
  <1>6. /\ Messages(Requests) = {"forward", "open", "noMoreSessions"} /\ Messages(<<>>) = {}
        /\ AtFront(Requests, "forward") /\ Preceded(Requests, "open", {"forward"})
        /\ Preceded(<<>>, "confirmation", Answers)
    BY DEF Messages, Requests, AtFront, Preceded
  <1>7. ~LoggedIn(n)' /\ Fresh(n)'
    BY <1>4, <1>6 DEF LoggedIn, Fresh
  <1>8. ASSUME NEW m \in Slots PROVE SessionInv(m)'
    <2>1. CASE m = n
      BY <1>4, <1>6, <1>7, <2>1 DEF SessionInv
    <2>2. CASE m # n
      BY <1>1, <1>3, <1>5, <2>2 DEF Others, SessionInv, LoggedIn, Fresh
    <2> QED BY <2>1, <2>2
  (* No other session of the agent has its ssh, and none that may still log *)
  (* in is elsewhere.                                                       *)
  <1>9. ASSUME NEW m \in Slots, client[m] PROVE m # n /\ agent[m] # a
    BY <1>1, <1>2, <1>3, <1>9, NoneAssumption DEF RouteInv
  <1>10. ASSUME NEW m \in Slots, Pending(m), agent[m] = a PROVE pod[m] = p
    <2>1. affinity[a] = pod[m] /\ pod[m] \in Pods
      BY <1>1, <1>10 DEF RouteInv, Pending
    <2> QED BY <1>2, <2>1, NoneAssumption DEF RouteTo
  <1>11. RouteInv'
    <2>1. \A m \in Slots : client'[m] \/ server'[m] => agent'[m] \in Agents /\ pod'[m] \in Pods
      BY <1>1, <1>4, <1>5 DEF RouteInv, Others
    <2>2. \A m \in Slots : client'[m] => cur'[agent'[m]] = m
      BY <1>1, <1>4, <1>5, <1>9 DEF RouteInv, Others
    <2>3. ASSUME NEW m \in Slots, Pending(m)' PROVE affinity'[agent'[m]] = pod'[m]
      <3>1. CASE m = n
        BY <1>4, <3>1
      <3>2. CASE m # n
        <4>1. Pending(m)
          BY <1>5, <2>3, <3>2 DEF Others, Pending
        <4>2. affinity[agent[m]] = pod[m] /\ agent[m] \in Agents
          BY <1>1, <4>1 DEF RouteInv, Pending
        <4> QED BY <1>4, <1>5, <1>10, <3>2, <4>1, <4>2
      <3> QED BY <3>1, <3>2
    <2>4. ASSUME NEW m \in Slots, NEW k \in Slots, client'[k], server'[m], m # k,
                 agent'[m] = agent'[k], "shell" \in Messages(c2s'[m])
          PROVE  pod'[m] = pod'[k]
      <3>1. m # n /\ server[m] /\ "shell" \in Messages(c2s[m])
        BY <1>4, <1>5, <1>6, <2>4 DEF Others
      <3>2. CASE k = n
        <4>1. Pending(m) /\ agent[m] = a
          BY <1>4, <1>5, <2>4, <3>1, <3>2 DEF Pending
        <4> QED BY <1>4, <1>5, <1>10, <3>1, <3>2, <4>1
      <3>3. CASE k # n
        BY <1>1, <1>5, <2>4, <3>1, <3>3 DEF Others, RouteInv
      <3> QED BY <3>2, <3>3
    <2>5. ASSUME NEW m \in Slots, LoggedIn(m)' PROVE lastLogin'[agent'[m]] = pod'[m]
      <3>1. m # n
        BY <1>7, <2>5
      <3>2. LoggedIn(m)
        BY <1>5, <2>5, <3>1 DEF Others, LoggedIn
      <3> QED BY <1>1, <1>3, <1>5, <3>1, <3>2 DEF RouteInv
    <2> QED BY <2>1, <2>2, <2>3, <2>4, <2>5 DEF RouteInv
  <1> QED BY <1>8, <1>11 DEF IInv

(* The ssh of the host goes with it, and its messages stay as they were.   *)
LEMMA HostCrashInv ==
    ASSUME IInv, TypeOK', NEW a \in Agents, HostCrash(a)
    PROVE  IInv'
  <1> USE DEF clientVars, serverVars, fixedVars, netVars
  <1>1. TypeOK /\ RouteInv /\ \A m \in Slots : SessionInv(m)
    BY DEF IInv
  <1>2. /\ UNCHANGED <<affinity, confirms, channel, server, listening, lastLogin, agent, pod, s2c>>
        /\ \A m \in Slots : client'[m] <=> client[m] /\ agent[m] # a
        /\ \A m \in Slots : link'[m] = IF agent[m] = a THEN "gone" ELSE link[m]
        /\ \A b \in Agents \ {a} : cur'[b] = cur[b]
    BY <1>1 DEF HostCrash, TypeOK
  <1>3. ASSUME NEW m \in Slots
        PROVE  /\ \A x \in ClientMessages \ {"eof"} : x \in Messages(c2s'[m]) => x \in Messages(c2s[m])
               /\ AtFront(c2s[m], "forward") => AtFront(c2s'[m], "forward")
               /\ client'[m] => c2s'[m] = c2s[m]
    <2>1. c2s[m] \in Seq(ClientMessages) /\ "eof" \in ClientMessages
      BY <1>1 DEF TypeOK, ClientMessages
    <2>2. c2s'[m] = Closing(c2s[m], client[m] /\ agent[m] = a)
      BY DEF HostCrash
    <2>3. CASE client[m] /\ agent[m] = a
      <3>1. c2s'[m] = Append(c2s[m], "eof")
        BY <2>2, <2>3 DEF Closing
      <3> QED BY <1>2, <2>1, <2>3, <3>1, Sending
    <2>4. CASE ~(client[m] /\ agent[m] = a)
      BY <2>2, <2>4 DEF Closing
    <2> QED BY <2>3, <2>4
  <1>4. ASSUME NEW m \in Slots
        PROVE  /\ Pending(m)' => Pending(m)
               /\ LoggedIn(m)' => LoggedIn(m)
    BY <1>2, <1>3 DEF Pending, LoggedIn, ClientMessages
  <1>5. ASSUME NEW m \in Slots PROVE SessionInv(m)'
    BY <1>1, <1>2, <1>3, <1>4 DEF SessionInv, Fresh, ClientMessages
  <1>6. RouteInv'
    <2>1. \A m \in Slots : client'[m] => cur'[agent'[m]] = m
      BY <1>1, <1>2 DEF RouteInv
    <2>2. \A m \in Slots : "shell" \in Messages(c2s'[m]) => "shell" \in Messages(c2s[m])
      BY <1>3 DEF ClientMessages
    <2> QED BY <1>1, <1>2, <1>4, <2>1, <2>2 DEF RouteInv
  <1> QED BY <1>5, <1>6 DEF IInv

(* The sshds of the Pod go with it, and so does the affinity to it.        *)
LEMMA PodCrashInv ==
    ASSUME IInv, TypeOK', NEW p \in Pods, PodCrash(p)
    PROVE  IInv'
  <1> USE DEF clientVars, serverVars, fixedVars, netVars
  <1>1. TypeOK /\ RouteInv /\ \A m \in Slots : SessionInv(m)
    BY DEF IInv
  <1>2. /\ UNCHANGED <<cur, client, confirms, channel, lastLogin, agent, pod, c2s>>
        /\ \A m \in Slots : server'[m] <=> server[m] /\ pod[m] # p
        /\ \A m \in Slots : listening'[m] <=> listening[m] /\ pod[m] # p
        /\ \A m \in Slots : pod[m] # p => link'[m] = link[m]
        /\ \A b \in Agents : affinity[b] # p => affinity'[b] = affinity[b]
    BY <1>1 DEF PodCrash, TypeOK
  <1>3. ASSUME NEW m \in Slots, server'[m] PROVE s2c'[m] = s2c[m]
    BY <1>2, <1>3 DEF PodCrash, Closing
  <1>4. ASSUME NEW m \in Slots
        PROVE  /\ Pending(m)' => Pending(m)
               /\ LoggedIn(m)' => LoggedIn(m)
    BY <1>2, <1>3 DEF Pending, LoggedIn
  <1>5. ASSUME NEW m \in Slots PROVE SessionInv(m)'
    BY <1>1, <1>2, <1>3, <1>4 DEF SessionInv, Fresh
  <1>6. RouteInv'
    <2>1. ASSUME NEW m \in Slots, Pending(m)' PROVE affinity'[agent'[m]] = pod'[m]
      <3>1. Pending(m) /\ pod[m] # p
        BY <1>2, <1>4, <2>1 DEF Pending
      <3>2. affinity[agent[m]] = pod[m] /\ agent[m] \in Agents
        BY <1>1, <3>1 DEF RouteInv, Pending
      <3> QED BY <1>2, <3>1, <3>2
    <2> QED BY <1>1, <1>2, <1>4, <2>1 DEF RouteInv
  <1> QED BY <1>5, <1>6 DEF IInv

(* Affinity outlasts every message that is under way.                      *)
LEMMA AffinityExpiresInv ==
    ASSUME IInv, TypeOK', NEW a \in Agents, AffinityExpires(a)
    PROVE  IInv'
  <1> USE DEF clientVars, serverVars, fixedVars, netVars
  <1>1. TypeOK /\ RouteInv /\ \A m \in Slots : SessionInv(m)
    BY DEF IInv
  <1>2. /\ UNCHANGED <<cur, client, confirms, channel, server, listening, lastLogin, agent, pod,
                       link, c2s, s2c>>
        /\ \A b \in Agents \ {a} : affinity'[b] = affinity[b]
        /\ \A m \in Slots : agent[m] = a => ~UnderWay(m)
    BY <1>1 DEF AffinityExpires, TypeOK
  <1>3. \A m \in Slots : (Pending(m)' <=> Pending(m)) /\ (LoggedIn(m)' <=> LoggedIn(m))
    BY <1>2 DEF Pending, LoggedIn
  <1>4. ASSUME NEW m \in Slots, Pending(m) PROVE agent[m] \in Agents \ {a}
    <2>1. Messages(<<>>) = {}
      BY DEF Messages
    <2>2. UnderWay(m)
      BY <1>4, <2>1 DEF Pending, UnderWay
    <2> QED BY <1>1, <1>2, <1>4, <2>2 DEF RouteInv, Pending
  <1>5. RouteInv'
    BY <1>1, <1>2, <1>3, <1>4 DEF RouteInv
  <1>6. ASSUME NEW m \in Slots PROVE SessionInv(m)'
    BY <1>1, <1>2, <1>3 DEF SessionInv, Fresh
  <1> QED BY <1>5, <1>6 DEF IInv

LEMMA InvInit == Init => IInv
  <1> SUFFICES ASSUME Init PROVE IInv
    OBVIOUS
  <1>1. \A n \in Slots : ~client[n] /\ ~server[n]
    BY DEF Init
  <1> QED BY <1>1, TypeInit DEF IInv, RouteInv, SessionInv, Pending, LoggedIn

LEMMA InvNext == IInv /\ [Next]_vars => IInv'
  <1> SUFFICES ASSUME IInv, [Next]_vars PROVE IInv'
    OBVIOUS
  <1>1. TypeOK'
    BY TypeNext DEF IInv
  <1>2. ASSUME UNCHANGED <<affinity, cur, clientVars, serverVars, fixedVars, netVars>>
        PROVE  IInv'
    <2>1. \A m \in Slots : (Pending(m)' <=> Pending(m)) /\ (LoggedIn(m)' <=> LoggedIn(m))
      BY <1>2 DEF Pending, LoggedIn, clientVars, serverVars, netVars
    <2>2. RouteInv'
      BY <1>2, <2>1 DEF IInv, RouteInv, clientVars, serverVars, fixedVars, netVars
    <2>3. \A m \in Slots : SessionInv(m)'
      BY <1>2, <2>1 DEF IInv, SessionInv, Fresh, clientVars, serverVars, netVars
    <2> QED BY <1>1, <2>2, <2>3 DEF IInv
  <1>3. CASE UNCHANGED vars
    BY <1>2, <1>3 DEF vars
  <1>4. ASSUME NEW p \in Pods, PodStart(p) PROVE IInv'
    BY <1>2, <1>4 DEF PodStart
  <1> QED BY <1>1, <1>3, <1>4, ConnectInv, HostCrashInv, AffinityExpiresInv, PodCrashInv,
             ClientStepInv, ServerAliveCheckInv, ServerStepInv, ProbeInv, NetworkInv
          DEF Next

LEMMA Invariance == Spec => []IInv
  BY InvInit, InvNext, PTL DEF Spec
-----------------------------------------------------------------------------
(* The results.                                                            *)

(* The two ends and the messages between them stay well formed.            *)
THEOREM TypeCorrect == Spec => []TypeOK
  BY TypeInit, TypeNext, PTL DEF Spec

(* The route of a server that is being served leads to the Pod where its   *)
(* listener is, whatever was lost, cut, crashed and begun again: no        *)
(* execution of the forced command of an earlier session comes late on     *)
(* another Pod (serverloop.c, server_input_channel_req; sessionAffinity).  *)
THEOREM RouteCorrect == Spec => []RouteLeadsToListener
  <1>1. IInv => RouteLeadsToListener
    BY DEF IInv, RouteInv, SessionInv, RouteLeadsToListener, Served, LoggedIn
  <1> QED BY <1>1, Invariance, PTL

(* The forced command runs only in a session that listens, because ssh     *)
(* reads the answers in the order of its requests (ssh.c,                  *)
(* ssh_confirm_remote_forward).                                            *)
THEOREM LoginCorrect == Spec => LoginOnlyWhereListening
  <1>1. ASSUME IInv, NEW n \in Slots, RunForcedCommand(n) PROVE listening[n]
    <2>1. /\ SessionInv(n) /\ server[n] /\ c2s[n] \in Seq(ClientMessages)
          /\ c2s[n] # <<>> /\ Head(c2s[n]) = "shell"
      BY <1>1 DEF IInv, TypeOK, RunForcedCommand, ServerReads
    <2>2. Head(c2s[n]) \in Messages(c2s[n])
      BY <2>1, Reading
    <2> QED BY <2>1, <2>2 DEF SessionInv
  <1>2. IInv /\ [Next]_vars => [\A n \in Slots : RunForcedCommand(n) => listening[n]]_vars
    BY <1>1
  <1> QED BY <1>2, Invariance, PTL DEF Spec, LoginOnlyWhereListening
=============================================================================
