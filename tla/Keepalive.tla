----------------------------- MODULE Keepalive -----------------------------
(***************************************************************************)
(* How an sshd and an ssh notice that the other end has gone: the client   *)
(* alive probes of serverloop.c and the server alive probes of             *)
(* clientloop.c, over a link that delivers within MaxDelay until it is     *)
(* cut.  Time passes in ticks, but both programs see whole seconds         *)
(* (monotime); a process that is due runs within Jitter.  How the end of   *)
(* the stream of a process that has left arrives is in RemoteForward.      *)
(***************************************************************************)
EXTENDS Integers, Sequences

CONSTANTS
    TicksPerSecond,
    ClientAliveInterval, ClientAliveCounts,   \* sshd_config, and for the counts
    ServerAliveInterval, ServerAliveCounts,   \* ssh_config: any of these values
    MaxDelay, Jitter,    \* in ticks
    MaxTime,             \* bound on the clock, in ticks
    MaxEvents            \* bound on data sent and on local events

ASSUME IntervalAssumption ==
    /\ TicksPerSecond \in Nat \ {0}
    /\ ClientAliveInterval \in Nat \ {0} /\ ServerAliveInterval \in Nat \ {0}
    /\ ClientAliveCounts \subseteq Nat /\ ServerAliveCounts \subseteq Nat
    /\ {MaxDelay, Jitter, MaxTime, MaxEvents} \subseteq Nat

VARIABLES
    clientAliveCountMax, serverAliveCountMax,   \* as configured
    now,                   \* the clock
    link,                  \* "up" or "cut"
    toServer, toClient,    \* messages on their way, with the time of sending
    events,                \* data sent and local events so far
    sshd,                  \* sshd runs
    lastClientTime,        \* last_client_time
    wake,                  \* when its ppoll times out
    clientMissed,          \* keep_alive_timeouts of sshd
    clientHeard,           \* when something was last read from the client
    ssh,                   \* ssh runs
    serverAliveTime,       \* server_alive_time
    serverMissed,          \* keep_alive_timeouts of ssh
    serverHeard            \* when something was last read from the server

serverVars == <<sshd, lastClientTime, wake, clientMissed, clientHeard>>
clientVars == <<ssh, serverAliveTime, serverMissed, serverHeard>>
options == <<clientAliveCountMax, serverAliveCountMax>>
vars == <<options, now, link, toServer, toClient, events, serverVars, clientVars>>

Seconds(t) == t \div TicksPerSecond
Ticks(s) == s * TicksPerSecond

Init ==
    /\ clientAliveCountMax \in ClientAliveCounts
    /\ serverAliveCountMax \in ServerAliveCounts
    /\ now = 0 /\ link = "up"
    /\ toServer = <<>> /\ toClient = <<>>
    /\ events = 0
    /\ sshd = TRUE
    /\ lastClientTime = 0 /\ wake = Ticks(ClientAliveInterval)
    /\ clientMissed = 0 /\ clientHeard = 0
    /\ ssh = TRUE
    /\ serverAliveTime = ServerAliveInterval
    /\ serverMissed = 0 /\ serverHeard = 0

Sent(q, kind) ==
    IF link = "up" THEN Append(q, [kind |-> kind, at |-> now]) ELSE q

Replies(m, q) == IF m.kind = "probe" THEN Sent(q, "reply") ELSE q

-----------------------------------------------------------------------------
(* wait_until_can_do_something of sshd: ppoll is entered anew after every  *)
(* return, with the whole interval for its timeout.                        *)
SleepAgain == wake' = now + Ticks(ClientAliveInterval)

ServerReads ==
    /\ sshd /\ toServer # <<>>
    /\ toServer' = Tail(toServer)
    /\ toClient' = Replies(Head(toServer), toClient)
    /\ lastClientTime' = Seconds(now)
    /\ clientMissed' = 0
    /\ clientHeard' = now
    /\ SleepAgain
    /\ UNCHANGED <<options, now, link, events, sshd, clientVars>>

(* Another descriptor is ready: a listener, a child, an application.       *)
ServerWakes ==
    /\ sshd /\ events < MaxEvents
    /\ events' = events + 1
    /\ SleepAgain
    /\ UNCHANGED <<options, now, link, toServer, toClient, sshd, lastClientTime, clientMissed, clientHeard, clientVars>>

(* Variant: the deadline of ppoll is added to that of the last probe.      *)
ProbeDueVariant == Seconds(now) > lastClientTime + 2 * ClientAliveInterval

ProbeDue == Seconds(now) > lastClientTime + ClientAliveInterval

(* Variant: no limit is tested. *)
ClientAliveCheckVariant ==
    /\ clientMissed' = clientMissed + 1
    /\ toClient' = Sent(toClient, "probe")
    /\ UNCHANGED sshd

ClientAliveCheck ==
    /\ clientMissed' = IF clientAliveCountMax > 0 THEN clientMissed + 1 ELSE 0
    /\ sshd' = ~(clientMissed' > clientAliveCountMax)
    /\ toClient' = IF sshd' THEN Sent(toClient, "probe") ELSE toClient

ServerTimesOut ==
    /\ sshd /\ now >= wake
    /\ IF ProbeDue
       THEN ClientAliveCheck /\ lastClientTime' = Seconds(now)
       ELSE UNCHANGED <<sshd, clientMissed, toClient, lastClientTime>>
    /\ SleepAgain
    /\ UNCHANGED <<options, now, link, toServer, events, clientHeard, clientVars>>

ServerSends ==
    /\ sshd /\ link = "up" /\ events < MaxEvents
    /\ events' = events + 1
    /\ toClient' = Sent(toClient, "data")
    /\ UNCHANGED <<options, now, link, toServer, serverVars, clientVars>>

-----------------------------------------------------------------------------
(* client_wait_until_can_do_something and client_process_net_input of ssh. *)

(* Variant: input postpones the next check and leaves the count alone.     *)
ClientReadsVariant ==
    /\ ssh /\ toClient # <<>>
    /\ toClient' = Tail(toClient)
    /\ toServer' = Replies(Head(toClient), toServer)
    /\ serverAliveTime' = Seconds(now) + ServerAliveInterval
    /\ serverHeard' = now
    /\ UNCHANGED <<options, now, link, events, ssh, serverMissed, serverVars>>

ClientReads ==
    /\ ssh /\ toClient # <<>>
    /\ toClient' = Tail(toClient)
    /\ toServer' = Replies(Head(toClient), toServer)
    /\ serverAliveTime' = Seconds(now) + ServerAliveInterval
    /\ serverMissed' = 0
    /\ serverHeard' = now
    /\ UNCHANGED <<options, now, link, events, ssh, serverVars>>

(* Variant: a check that is due is put off by the traffic of the forwards. *)
ServerAliveCheckVariant ==
    /\ ssh /\ Seconds(now) >= serverAliveTime
    /\ serverAliveTime' = Seconds(now) + ServerAliveInterval
    /\ UNCHANGED <<options, now, link, toServer, toClient, events, ssh, serverMissed, serverHeard, serverVars>>

(* The check does not depend on the reason poll returned for, so that an   *)
(* event on another descriptor changes nothing.                            *)
ServerAliveCheck ==
    /\ ssh /\ Seconds(now) >= serverAliveTime
    /\ serverMissed' = serverMissed + 1
    /\ IF serverMissed' > serverAliveCountMax
       THEN ssh' = FALSE /\ UNCHANGED <<toServer, serverAliveTime>>
       ELSE /\ toServer' = Sent(toServer, "probe")
            /\ serverAliveTime' = Seconds(now) + ServerAliveInterval
            /\ UNCHANGED ssh
    /\ UNCHANGED <<options, now, link, toClient, events, serverHeard, serverVars>>

ClientSends ==
    /\ ssh /\ link = "up" /\ events < MaxEvents
    /\ events' = events + 1
    /\ toServer' = Sent(toServer, "data")
    /\ UNCHANGED <<options, now, link, toClient, serverVars, clientVars>>

-----------------------------------------------------------------------------
Cut ==
    /\ link = "up" /\ link' = "cut"
    /\ toServer' = <<>> /\ toClient' = <<>>
    /\ UNCHANGED <<options, now, events, serverVars, clientVars>>

(* Time does not pass what must happen first.                              *)
Overdue(q) == q # <<>> /\ now >= Head(q).at + MaxDelay

Tick ==
    /\ now < MaxTime
    /\ ~(sshd /\ Overdue(toServer)) /\ ~(ssh /\ Overdue(toClient))
    /\ sshd => now < wake + Jitter
    /\ ssh => now < Ticks(serverAliveTime) + Jitter
    /\ now' = now + 1
    /\ UNCHANGED <<options, link, toServer, toClient, events, serverVars, clientVars>>

Next ==
    \/ ServerReads \/ ServerWakes \/ ServerTimesOut \/ ServerSends
    \/ ClientReads \/ ServerAliveCheck \/ ClientSends
    \/ Cut \/ Tick

Spec == Init /\ [][Next]_vars
-----------------------------------------------------------------------------
TypeOK ==
    /\ clientAliveCountMax \in ClientAliveCounts /\ serverAliveCountMax \in ServerAliveCounts
    /\ now \in 0..MaxTime /\ link \in {"up", "cut"} /\ events \in 0..MaxEvents
    /\ {sshd, ssh} \subseteq BOOLEAN
    /\ clientMissed \in 0..(clientAliveCountMax + 1)
    /\ serverMissed \in 0..(serverAliveCountMax + 1)
    /\ lastClientTime <= Seconds(now)
    /\ clientHeard \in 0..now /\ serverHeard \in 0..now

(* No end leaves another that is alive and reached within MaxDelay         *)
(* (serverloop.c, client_alive_check; clientloop.c, server_alive_check),   *)
(* whatever is sent and whenever the processes run.  All but an ssh with a *)
(* count of 0, the deployed one (endpoints/ssh_config/ssh_config:20): it   *)
(* takes an idle server for dead, but not before it has heard nothing of   *)
(* it for the interval less what the clock rounds off.                     *)
NoFalseTimeout ==
    [][link = "up" /\ ssh /\ sshd =>
          /\ sshd'
          /\ ~ssh' => /\ serverAliveCountMax = 0
                      /\ now - serverHeard > Ticks(ServerAliveInterval) - TicksPerSecond]_vars

(* A server that has gone is left after the probes and one more interval,  *)
(* though the forwards keep poll from timing out (clientloop.c:581).       *)
SilentServerLeft ==
    ssh => now - serverHeard <=
        (serverAliveCountMax + 1) * (Ticks(ServerAliveInterval) + Jitter)

(* A client that has gone is left too, if more slowly: a probe that was    *)
(* not yet due waits for another timeout, and every event on another       *)
(* descriptor starts the timeout anew (serverloop.c:262).                  *)
SilentClientLeft ==
    sshd /\ clientAliveCountMax > 0 => now - clientHeard <=
        (2 * (clientAliveCountMax + 1) + events) * (Ticks(ClientAliveInterval) + Jitter)
=============================================================================
