--------------------------- MODULE RemoteForward ---------------------------
(***************************************************************************)
(* The reverse forwards of the IoT servers.  The agent of a server runs    *)
(* ssh -R [VIP]:1883:[::1]:1883 in an endless loop (start.sh); the gateway *)
(* Service hands each connection to a Pod, with ClientIP affinity; the     *)
(* sshd of that Pod listens on the server's virtual address for the        *)
(* session and runs the forced command, whose execution is the login that  *)
(* K8sClient turns into routes.                                            *)
(*                                                                         *)
(* A session is a slot: an ssh process, an sshd process and a TCP          *)
(* connection between them, which keeps the order of messages but may be   *)
(* cut, healed or abandoned.  A slot is used again when both processes     *)
(* have gone.  Time is abstracted: a timeout may fire whenever the wait it *)
(* bounds can last long enough.                                            *)
(***************************************************************************)
EXTENDS Naturals, Sequences

CONSTANTS
    Agents,          \* the IoT servers, each with a virtual address of its own
    Pods,            \* the gateway Pods
    Slots,           \* the sessions there may be at one time
    NoPod, NoSlot, NoAgent,
    MaxFaults        \* bound on Pod and host crashes, cuts and idle timeouts

ASSUME NoneAssumption ==
    NoPod \notin Pods /\ NoSlot \notin Slots /\ NoAgent \notin Agents

VARIABLES
    up,          \* up[p]: the Pod runs
    affinity,    \* affinity[a]: the Pod kube-proxy keeps for the agent's host
    cur,         \* cur[a]: the slot of the ssh process the loop waits for
    lastLogin,   \* lastLogin[a]: the Pod of the agent's latest login
    faults,      \* the faults so far
    agent, pod,  \* agent[n], pod[n]: the two ends of session n
    client,      \* client[n]: is the ssh process alive?
    confirms,    \* confirms[n]: it awaits the answer to its forward request
    channel,     \* channel[n]: its session channel
    server,      \* server[n]: is the sshd process alive?
    listening,   \* listening[n]: it holds the listener of the virtual address
    noMore,      \* noMore[n]: no_more_sessions
    link,        \* link[n]: the TCP connection, "up", "cut" or "gone"
    c2s, s2c     \* c2s[n], s2c[n]: the messages on their way

clientVars == <<client, confirms, channel>>
serverVars == <<server, listening, noMore, lastLogin>>
fixedVars == <<agent, pod>>
netVars == <<link, c2s, s2c>>
vars == <<up, affinity, cur, faults, clientVars, serverVars, fixedVars, netVars>>

ClientMessages == {"forward", "open", "noMoreSessions", "shell", "reply", "eof"}
ServerMessages == {"success", "failure", "confirmation", "started", "keepalive", "eof"}
ChannelStates == {"closed", "opening", "open", "running"}

TypeOK ==
    /\ up \in [Pods -> BOOLEAN]
    /\ affinity \in [Agents -> Pods \union {NoPod}]
    /\ cur \in [Agents -> Slots \union {NoSlot}]
    /\ lastLogin \in [Agents -> Pods \union {NoPod}]
    /\ faults \in Nat
    /\ agent \in [Slots -> Agents \union {NoAgent}]
    /\ pod \in [Slots -> Pods \union {NoPod}]
    /\ client \in [Slots -> BOOLEAN]
    /\ confirms \in [Slots -> BOOLEAN]
    /\ channel \in [Slots -> ChannelStates]
    /\ server \in [Slots -> BOOLEAN]
    /\ listening \in [Slots -> BOOLEAN]
    /\ noMore \in [Slots -> BOOLEAN]
    /\ link \in [Slots -> {"up", "cut", "gone"}]
    /\ c2s \in [Slots -> Seq(ClientMessages)]
    /\ s2c \in [Slots -> Seq(ServerMessages)]

Init ==
    /\ up = [p \in Pods |-> TRUE]
    /\ affinity = [a \in Agents |-> NoPod]
    /\ cur = [a \in Agents |-> NoSlot]
    /\ lastLogin = [a \in Agents |-> NoPod]
    /\ faults = 0
    /\ agent = [n \in Slots |-> NoAgent]
    /\ pod = [n \in Slots |-> NoPod]
    /\ client = [n \in Slots |-> FALSE]
    /\ confirms = [n \in Slots |-> FALSE]
    /\ channel = [n \in Slots |-> "closed"]
    /\ server = [n \in Slots |-> FALSE]
    /\ listening = [n \in Slots |-> FALSE]
    /\ noMore = [n \in Slots |-> FALSE]
    /\ link = [n \in Slots |-> "gone"]
    /\ c2s = [n \in Slots |-> <<>>]
    /\ s2c = [n \in Slots |-> <<>>]
-----------------------------------------------------------------------------
ClientSends(n, m) == c2s' = [c2s EXCEPT ![n] = Append(c2s[n], m)]

ServerSends(n, m) == s2c' = [s2c EXCEPT ![n] = Append(s2c[n], m)]

(* The end of a process: its sockets are closed, and the other end reads   *)
(* the end of the stream after what was sent before.                       *)
ClientExits(n) ==
    /\ client' = [client EXCEPT ![n] = FALSE]
    /\ cur' = [cur EXCEPT ![agent[n]] = NoSlot]
    /\ ClientSends(n, "eof")

(* Variant: the forced command, which outlives its session, has inherited  *)
(* the socket of the listener.                                             *)
ServerEndsVariant(n) ==
    /\ server' = [server EXCEPT ![n] = FALSE]
    /\ UNCHANGED listening

ServerEnds(n) ==
    /\ server' = [server EXCEPT ![n] = FALSE]
    /\ listening' = [listening EXCEPT ![n] = FALSE]

ServerExits(n) == ServerEnds(n) /\ ServerSends(n, "eof")

(* What has arrived is read though the connection is gone.                 *)
ClientReads(n, m) ==
    /\ client[n] /\ link[n] # "cut"
    /\ s2c[n] # <<>> /\ Head(s2c[n]) = m
    /\ s2c' = [s2c EXCEPT ![n] = Tail(s2c[n])]

ServerReads(n, m) ==
    /\ server[n] /\ link[n] # "cut"
    /\ c2s[n] # <<>> /\ Head(c2s[n]) = m
    /\ c2s' = [c2s EXCEPT ![n] = Tail(c2s[n])]

-----------------------------------------------------------------------------
(* The agent.                                                              *)

(* Variant: the Service without sessionAffinity. *)
RouteToVariant(a, p) == up[p]

RouteTo(a, p) == up[p] /\ affinity[a] \in {p, NoPod}

(* The requests ssh_session2 sends before it reads any answer.             *)
Requests == <<"forward", "open", "noMoreSessions">>

(* One turn of the loop of start.sh that gets as far as authentication: a  *)
(* turn that does not leaves nothing behind.                               *)
Connect(a) ==
    /\ cur[a] = NoSlot
    /\ \E n \in Slots, p \in Pods :
         /\ ~client[n] /\ ~server[n]
         /\ RouteTo(a, p)
         /\ affinity' = [affinity EXCEPT ![a] = p]
         /\ cur' = [cur EXCEPT ![a] = n]
         /\ agent' = [agent EXCEPT ![n] = a]
         /\ pod' = [pod EXCEPT ![n] = p]
         /\ client' = [client EXCEPT ![n] = TRUE]
         /\ confirms' = [confirms EXCEPT ![n] = TRUE]
         /\ channel' = [channel EXCEPT ![n] = "opening"]
         /\ server' = [server EXCEPT ![n] = TRUE]
         /\ noMore' = [noMore EXCEPT ![n] = FALSE]
         /\ link' = [link EXCEPT ![n] = "up"]
         /\ c2s' = [c2s EXCEPT ![n] = Requests]
         /\ s2c' = [s2c EXCEPT ![n] = <<>>]
    /\ UNCHANGED <<up, faults, listening, lastLogin>>

ClientUnchanged == UNCHANGED <<up, affinity, faults, serverVars, fixedVars, link>>

(* The answer to the forward request: the callback has ssh die of a        *)
(* failure, exitonforwardfailure being set.                                *)
ForwardConfirmed(n) ==
    /\ ClientReads(n, "success")
    /\ confirms' = [confirms EXCEPT ![n] = FALSE]
    /\ UNCHANGED <<cur, client, channel, c2s>>
    /\ ClientUnchanged

(* Variant: exitonforwardfailure no. *)
ForwardRefusedVariant(n) ==
    /\ ClientReads(n, "failure")
    /\ confirms[n]
    /\ confirms' = [confirms EXCEPT ![n] = FALSE]
    /\ UNCHANGED <<cur, client, channel, c2s>>
    /\ ClientUnchanged

ForwardRefused(n) ==
    /\ ClientReads(n, "failure")
    /\ confirms[n]
    /\ confirms' = [confirms EXCEPT ![n] = FALSE]
    /\ ClientExits(n)
    /\ UNCHANGED channel
    /\ ClientUnchanged

(* ssh asks for the shell only when the channel has been confirmed.        *)
ChannelConfirmed(n) ==
    /\ ClientReads(n, "confirmation")
    /\ channel' = [channel EXCEPT ![n] = "open"]
    /\ ClientSends(n, "shell")
    /\ UNCHANGED <<cur, client, confirms>>
    /\ ClientUnchanged

ShellStarted(n) ==
    /\ ClientReads(n, "started")
    /\ channel' = [channel EXCEPT ![n] = "running"]
    /\ UNCHANGED <<cur, client, confirms, c2s>>
    /\ ClientUnchanged

AnswerProbe(n) ==
    /\ ClientReads(n, "keepalive")
    /\ ClientSends(n, "reply")
    /\ UNCHANGED <<cur, client, confirms, channel>>
    /\ ClientUnchanged

ServerClosed(n) ==
    /\ ClientReads(n, "eof")
    /\ ClientExits(n)
    /\ UNCHANGED <<confirms, channel>>
    /\ ClientUnchanged

(* serveralivecountmax is 0: the first check after serveraliveinterval     *)
(* without input ends ssh, whether the server is there or not.             *)
Unanswered(n) == link[n] # "up"

Idle(n) == link[n] = "up" /\ c2s[n] = <<>> /\ s2c[n] = <<>>

(* Variant: the check sends its request before it counts. *)
ServerAliveCheckVariant(n) ==
    /\ client[n]
    /\ \/ Unanswered(n) /\ UNCHANGED faults
       \/ Idle(n) /\ faults < MaxFaults /\ faults' = faults + 1
    /\ ClientSends(n, "keepalive")
    /\ UNCHANGED <<up, affinity, cur, clientVars, serverVars, fixedVars, link, s2c>>

ServerAliveCheck(n) ==
    /\ client[n]
    /\ \/ Unanswered(n) /\ UNCHANGED faults
       \/ Idle(n) /\ faults < MaxFaults /\ faults' = faults + 1
    /\ ClientExits(n)
    /\ UNCHANGED <<up, affinity, confirms, channel, serverVars, fixedVars, link, s2c>>

-----------------------------------------------------------------------------
(* sshd.                                                                   *)

ServerUnchanged == UNCHANGED <<up, affinity, cur, faults, clientVars, fixedVars, link>>

(* bind finds the address taken by another sshd of the same Pod.           *)
AddressTaken(n) ==
    \E m \in Slots \ {n} :
        listening[m] /\ pod[m] = pod[n] /\ agent[m] = agent[n]

SetUpForward(n) ==
    /\ ServerReads(n, "forward")
    /\ listening' = [listening EXCEPT ![n] = ~AddressTaken(n)]
    /\ ServerSends(n, IF AddressTaken(n) THEN "failure" ELSE "success")
    /\ UNCHANGED <<server, noMore, lastLogin>>
    /\ ServerUnchanged

OpenSession(n) ==
    /\ ServerReads(n, "open")
    /\ IF noMore[n]
       THEN ServerExits(n)
       ELSE ServerSends(n, "confirmation") /\ UNCHANGED <<server, listening>>
    /\ UNCHANGED <<noMore, lastLogin>>
    /\ ServerUnchanged

DisallowSessions(n) ==
    /\ ServerReads(n, "noMoreSessions")
    /\ noMore' = [noMore EXCEPT ![n] = TRUE]
    /\ UNCHANGED <<server, listening, lastLogin, s2c>>
    /\ ServerUnchanged

(* The shell request runs the forced command, and that is the login.       *)
RunForcedCommand(n) ==
    /\ ServerReads(n, "shell")
    /\ lastLogin' = [lastLogin EXCEPT ![agent[n]] = pod[n]]
    /\ ServerSends(n, "started")
    /\ UNCHANGED <<server, listening, noMore>>
    /\ ServerUnchanged

ProbeAnswered(n) ==
    /\ ServerReads(n, "reply")
    /\ UNCHANGED <<serverVars, s2c>>
    /\ ServerUnchanged

ClientClosed(n) ==
    /\ ServerReads(n, "eof")
    /\ ServerExits(n)
    /\ UNCHANGED <<noMore, lastLogin>>
    /\ ServerUnchanged

Messages(q) == {q[i] : i \in DOMAIN q}

(* Nothing was read for clientaliveinterval.  clientalivecountmax is 0, so *)
(* sshd never counts the probes it has sent; one at a time is kept here.   *)
Silent(n) == link[n] # "up" \/ c2s[n] = <<>>

(* Variant: only a client with which data is exchanged is probed. *)
ProbeClientVariant(n) ==
    /\ server[n] /\ link[n] = "up" /\ c2s[n] = <<>>
    /\ "keepalive" \notin Messages(s2c[n])
    /\ ServerSends(n, "keepalive")
    /\ UNCHANGED <<serverVars, c2s>>
    /\ ServerUnchanged

ProbeClient(n) ==
    /\ server[n] /\ Silent(n)
    /\ "keepalive" \notin Messages(s2c[n])
    /\ ServerSends(n, "keepalive")
    /\ UNCHANGED <<serverVars, c2s>>
    /\ ServerUnchanged

-----------------------------------------------------------------------------
(* The network, the Pods and the hosts.                                    *)

(* The kernel gives up what is not acknowledged, and sshd reads an error.  *)
GiveUp(n) ==
    /\ server[n] /\ link[n] # "up" /\ s2c[n] # <<>>
    /\ ServerEnds(n)
    /\ link' = [link EXCEPT ![n] = "gone"]
    /\ UNCHANGED <<up, affinity, cur, faults, clientVars, noMore, lastLogin, fixedVars, c2s, s2c>>

(* The latest message of an end that has gone is lost with the connection. *)
Lose(n) ==
    /\ link[n] = "gone"
    /\ \/ /\ server[n] /\ c2s[n] # <<>>
          /\ c2s' = [c2s EXCEPT ![n] = SubSeq(c2s[n], 1, Len(c2s[n]) - 1)]
          /\ UNCHANGED s2c
       \/ /\ client[n] /\ s2c[n] # <<>>
          /\ s2c' = [s2c EXCEPT ![n] = SubSeq(s2c[n], 1, Len(s2c[n]) - 1)]
          /\ UNCHANGED c2s
    /\ UNCHANGED <<up, affinity, cur, faults, clientVars, serverVars, fixedVars, link>>

(* So does the kernel of the agent's host with what an ssh that has gone   *)
(* left to be sent.                                                        *)
Abandon(n) ==
    /\ ~client[n] /\ link[n] = "cut"
    /\ link' = [link EXCEPT ![n] = "gone"]
    /\ UNCHANGED <<up, affinity, cur, faults, clientVars, serverVars, fixedVars, c2s, s2c>>

Cut(n) ==
    /\ faults < MaxFaults
    /\ link[n] = "up" /\ (client[n] \/ server[n])
    /\ link' = [link EXCEPT ![n] = "cut"]
    /\ faults' = faults + 1
    /\ UNCHANGED <<up, affinity, cur, clientVars, serverVars, fixedVars, c2s, s2c>>

Heal(n) ==
    /\ link[n] = "cut"
    /\ link' = [link EXCEPT ![n] = "up"]
    /\ UNCHANGED <<up, affinity, cur, faults, clientVars, serverVars, fixedVars, c2s, s2c>>

(* Processes that are killed leave the end of their streams behind; in a   *)
(* crash it is lost.                                                       *)
Closing(q, dies) == IF dies THEN Append(q, "eof") ELSE q

HostCrash(a) ==
    /\ faults < MaxFaults
    /\ faults' = faults + 1
    /\ cur[a] # NoSlot
    /\ cur' = [cur EXCEPT ![a] = NoSlot]
    /\ client' = [n \in Slots |-> client[n] /\ agent[n] # a]
    /\ link' = [n \in Slots |-> IF agent[n] = a THEN "gone" ELSE link[n]]
    /\ c2s' = [n \in Slots |-> Closing(c2s[n], client[n] /\ agent[n] = a)]
    /\ UNCHANGED <<up, affinity, confirms, channel, serverVars, fixedVars, s2c>>

PodCrash(p) ==
    /\ faults < MaxFaults
    /\ faults' = faults + 1
    /\ up[p]
    /\ up' = [up EXCEPT ![p] = FALSE]
    /\ affinity' = [a \in Agents |-> IF affinity[a] = p THEN NoPod ELSE affinity[a]]
    /\ server' = [n \in Slots |-> server[n] /\ pod[n] # p]
    /\ listening' = [n \in Slots |-> listening[n] /\ pod[n] # p]
    /\ link' = [n \in Slots |-> IF pod[n] = p THEN "gone" ELSE link[n]]
    /\ s2c' = [n \in Slots |-> Closing(s2c[n], server[n] /\ pod[n] = p)]
    /\ UNCHANGED <<cur, clientVars, noMore, lastLogin, fixedVars, c2s>>

(* The ReplicaSet starts another Pod in its place.                         *)
PodStart(p) ==
    /\ ~up[p]
    /\ up' = [up EXCEPT ![p] = TRUE]
    /\ UNCHANGED <<affinity, cur, faults, clientVars, serverVars, fixedVars, netVars>>

(* ClientIP affinity lasts three hours from the latest connection: longer  *)
(* than a message stays unread, or unacknowledged before the kernel gives  *)
(* its connection up.                                                      *)
UnderWay(n) == (server[n] /\ c2s[n] # <<>>) \/ (client[n] /\ s2c[n] # <<>>)

AffinityExpires(a) ==
    /\ affinity[a] # NoPod
    /\ \A n \in Slots : agent[n] = a => ~UnderWay(n)
    /\ affinity' = [affinity EXCEPT ![a] = NoPod]
    /\ UNCHANGED <<up, cur, faults, clientVars, serverVars, fixedVars, netVars>>

-----------------------------------------------------------------------------
ClientStep(n) ==
    \/ ForwardConfirmed(n) \/ ForwardRefused(n) \/ ChannelConfirmed(n)
    \/ ShellStarted(n) \/ AnswerProbe(n) \/ ServerClosed(n)

ServerStep(n) ==
    \/ SetUpForward(n) \/ OpenSession(n) \/ DisallowSessions(n)
    \/ RunForcedCommand(n) \/ ProbeAnswered(n) \/ ClientClosed(n)

Next ==
    \/ \E a \in Agents : Connect(a) \/ HostCrash(a) \/ AffinityExpires(a)
    \/ \E p \in Pods : PodCrash(p) \/ PodStart(p)
    \/ \E n \in Slots :
         \/ ClientStep(n) \/ ServerAliveCheck(n)
         \/ ServerStep(n) \/ ProbeClient(n)
         \/ GiveUp(n) \/ Lose(n) \/ Abandon(n) \/ Cut(n) \/ Heal(n)

Spec == Init /\ [][Next]_vars

Fairness ==
    /\ \A a \in Agents : WF_vars(Connect(a))
    /\ \A p \in Pods : WF_vars(PodStart(p))
    /\ \A n \in Slots :
         /\ WF_vars(ClientStep(n))
         /\ WF_vars(ServerStep(n))
         /\ WF_vars(client[n] /\ Unanswered(n) /\ ServerAliveCheck(n))
         /\ WF_vars(link[n] # "up" /\ ProbeClient(n))
         /\ WF_vars(GiveUp(n))

-----------------------------------------------------------------------------
Served(n) == client[n] /\ server[n] /\ channel[n] = "running"

(* The forced command runs only in a session that holds its listener: the  *)
(* answers come in the order of the requests, and ssh dies of a refused    *)
(* forward (ssh.c, ssh_confirm_remote_forward) before it reads that its    *)
(* channel is open and asks for the shell.  No route is ever made for a    *)
(* server that cannot be reached.                                          *)
LoginOnlyWhereListening == [][\A n \in Slots : RunForcedCommand(n) => listening[n]]_vars

(* The latest login of a server that is being served took place on the Pod *)
(* that serves it, where its listener is: no login of an earlier session,  *)
(* executed late (serverloop.c, server_input_channel_req), leads the route *)
(* to another Pod.  Affinity is what keeps the two on one Pod.             *)
RouteLeadsToListener ==
    \A n \in Slots :
        Served(n) => listening[n] /\ lastLogin[agent[n]] = pod[n]

(* The listener of a session whose ssh has gone does not stay: its sshd    *)
(* learns of it from the end of the stream, or from the kernel, which has  *)
(* something to give up because sshd probes a silent client (serverloop.c, *)
(* client_alive_check); the count of 0 alone would never end the session.  *)
StaleListenerReleased ==
    \A n \in Slots : (listening[n] /\ ~client[n]) ~> ~listening[n]
=============================================================================
