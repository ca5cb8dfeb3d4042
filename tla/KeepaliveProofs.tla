-------------------------- MODULE KeepaliveProofs --------------------------
(***************************************************************************)
(* Proofs about Keepalive, for any intervals, counts and delays.           *)
(***************************************************************************)
EXTENDS Keepalive, TLAPS

(* The longest time from one look at the clock to the next.                *)
ServerRound == Ticks(ServerAliveInterval) + Jitter
ClientRound == Ticks(ClientAliveInterval) + Jitter

-----------------------------------------------------------------------------
(* Seconds and ticks.                                                      *)

LEMMA TickFacts ==
    /\ \A a, b \in Int : Ticks(a + b) = Ticks(a) + Ticks(b)
    /\ \A a \in Int : Ticks(a) \in Int
    /\ \A a \in Nat : Ticks(a) \in Nat
    /\ \A a \in Nat \ {0} : Ticks(a) >= TicksPerSecond
    /\ Ticks(0) = 0 /\ Ticks(1) = TicksPerSecond
  BY IntervalAssumption, SMTT(30) DEF Ticks

LEMMA SecondFacts ==
    ASSUME NEW t \in Nat
    PROVE  /\ Seconds(t) \in Nat
           /\ Ticks(Seconds(t)) <= t
           /\ t < Ticks(Seconds(t)) + TicksPerSecond
  BY IntervalAssumption, SMTT(30) DEF Ticks, Seconds

LEMMA SecondsReached ==
    ASSUME NEW t \in Nat, NEW k \in Int, Ticks(k) <= t
    PROVE  k <= Seconds(t)
<1> Seconds(t) \in Nat /\ t < Ticks(Seconds(t)) + TicksPerSecond
  BY SecondFacts
<1> SUFFICES ASSUME k >= Seconds(t) + 1 PROVE FALSE
  OBVIOUS
<1>1. k * TicksPerSecond >= (Seconds(t) + 1) * TicksPerSecond
  BY IntervalAssumption, SMTT(30)
<1> QED
  BY <1>1, IntervalAssumption, SMTT(30) DEF Ticks

LEMMA TicksOrdered == \A a, b \in Int : a <= b => Ticks(a) <= Ticks(b)
<1> SUFFICES ASSUME NEW a \in Int, NEW b \in Int, a <= b
             PROVE  a * TicksPerSecond <= b * TicksPerSecond
  BY DEF Ticks
<1> QED
  BY IntervalAssumption, SMTT(30)

LEMMA Times ==
    /\ \A a, k \in Nat : a * k \in Nat /\ (a + 1) * k = a * k + k
    /\ \A a, b, k \in Nat : a <= b => a * k <= b * k
  BY SMTT(30)

-----------------------------------------------------------------------------
(* Types.                                                                  *)

TypeInv ==
    /\ TypeOK
    /\ clientAliveCountMax \in Nat /\ serverAliveCountMax \in Nat
    /\ sshd \in BOOLEAN /\ ssh \in BOOLEAN
    /\ lastClientTime \in Nat /\ wake \in Nat /\ serverAliveTime \in Nat
    /\ sshd => clientMissed <= clientAliveCountMax
    /\ ssh => serverMissed <= serverAliveCountMax

(* Neither process reads its configuration again.                          *)
LEMMA OptionsFixed == [Next]_vars => UNCHANGED options
  BY DEF Next, vars, ServerReads, ServerWakes, ServerTimesOut, ServerSends, ClientReads,
         ServerAliveCheck, ClientSends, Cut, Tick

LEMMA TypeStart == Init => TypeInv
<1> SUFFICES ASSUME Init PROVE TypeInv
  OBVIOUS
<1>1. Seconds(0) \in Nat
  BY SecondFacts
<1>2. Ticks(ClientAliveInterval) \in Nat
  BY TickFacts, IntervalAssumption
<1> QED
  BY <1>1, <1>2, IntervalAssumption DEF Init, TypeInv, TypeOK

LEMMA TypeStep == TypeInv /\ [Next]_vars => TypeInv'
<1> SUFFICES ASSUME TypeInv, [Next]_vars PROVE TypeInv'
  OBVIOUS
<1> USE IntervalAssumption DEF TypeInv, TypeOK
<1> UNCHANGED <<clientAliveCountMax, serverAliveCountMax>>
  BY OptionsFixed DEF options
<1>1. Seconds(now) \in Nat
  BY SecondFacts
<1>2. Ticks(ClientAliveInterval) \in Nat
  BY TickFacts
<1>3. CASE ServerReads
  BY <1>1, <1>2, <1>3 DEF ServerReads, SleepAgain, clientVars
<1>4. CASE ServerWakes
  BY <1>2, <1>4 DEF ServerWakes, SleepAgain, clientVars
<1>5. CASE ServerTimesOut
  <2>1. CASE ProbeDue
    <3>1. clientMissed' \in 0..(clientAliveCountMax + 1)
      BY <1>5, <2>1 DEF ServerTimesOut, ClientAliveCheck
    <3>2. sshd' \in BOOLEAN /\ (sshd' => clientMissed' <= clientAliveCountMax)
      <4>1. sshd' = ~(clientMissed' > clientAliveCountMax)
        BY <1>5, <2>1 DEF ServerTimesOut, ClientAliveCheck
      <4>2. CASE clientMissed' > clientAliveCountMax
        BY <4>1, <4>2, Zenon
      <4>3. CASE ~(clientMissed' > clientAliveCountMax)
        <5>1. clientMissed' <= clientAliveCountMax
          BY <4>3, <3>1
        <5> QED BY <4>1, <4>3, <5>1, Zenon
      <4> QED BY <4>2, <4>3
    <3> QED
      BY <1>1, <1>2, <1>5, <2>1, <3>1, <3>2 DEF ServerTimesOut, SleepAgain, clientVars
  <2>2. CASE ~ProbeDue
    BY <1>2, <1>5, <2>2 DEF ServerTimesOut, SleepAgain, clientVars
  <2> QED BY <2>1, <2>2
<1>6. CASE ServerSends
  BY <1>6 DEF ServerSends, clientVars, serverVars
<1>7. CASE ClientReads
  BY <1>1, <1>7 DEF ClientReads, serverVars
<1>8. CASE ServerAliveCheck
  <2>1. CASE serverMissed + 1 > serverAliveCountMax
    <3>1. /\ ssh /\ ~ssh' /\ serverMissed' = serverMissed + 1
          /\ UNCHANGED <<now, link, events, serverHeard, serverAliveTime, serverVars>>
      BY <1>8, <2>1 DEF ServerAliveCheck
    <3>2. ssh' \in BOOLEAN
      BY <1>8, <2>1 DEF ServerAliveCheck
    <3>3. serverMissed' \in 0..(serverAliveCountMax + 1)
      BY <3>1
    <3> QED
      BY <3>1, <3>2, <3>3 DEF serverVars
  <2>2. CASE ~(serverMissed + 1 > serverAliveCountMax)
    BY <1>1, <1>8, <2>2 DEF ServerAliveCheck, serverVars
  <2> QED BY <2>1, <2>2
<1>9. CASE ClientSends
  BY <1>9 DEF ClientSends, clientVars, serverVars
<1>10. CASE Cut
  BY <1>10 DEF Cut, clientVars, serverVars
<1>11. CASE Tick
  <2> now \in Nat
    OBVIOUS
  <2> Ticks(Seconds(now)) <= now
    BY SecondFacts
  <2> Ticks(Seconds(now)) \in Nat
    BY TickFacts, <1>1
  <2>1. now + 1 \in Nat /\ Ticks(Seconds(now)) <= now + 1
    OBVIOUS
  <2>2. Seconds(now) <= Seconds(now + 1)
    BY <1>1, <2>1, SecondsReached
  <2>3. Seconds(now + 1) \in Nat
    BY <2>1, SecondFacts
  <2> QED
    BY <1>1, <1>11, <2>2, <2>3 DEF Tick, clientVars, serverVars
<1>12. CASE UNCHANGED vars
  BY <1>12 DEF vars, clientVars, serverVars
<1> QED
  BY <1>3, <1>4, <1>5, <1>6, <1>7, <1>8, <1>9, <1>10, <1>11, <1>12 DEF Next

(* The counts of unanswered probes stay in their range, and no end thinks  *)
(* it has heard of the other in the future (serverloop.c, clientloop.c).   *)
THEOREM TypeCorrect == Spec => []TypeOK
<1>1. TypeInv => TypeOK
  BY DEF TypeInv
<1> QED
  BY <1>1, TypeStart, TypeStep, PTL DEF Spec

-----------------------------------------------------------------------------
(* ssh leaves a silent server.                                             *)

(* The next check, and how far the checks so far have got.                 *)
ServerWatched ==
    ssh => /\ now <= Ticks(serverAliveTime) + Jitter
           /\ Ticks(serverAliveTime) <=
                serverHeard + serverMissed * ServerRound + Ticks(ServerAliveInterval)

LEMMA ServerWatchedStart == Init => ServerWatched
<1> SUFFICES ASSUME Init PROVE ServerWatched
  OBVIOUS
<1>1. Ticks(ServerAliveInterval) \in Nat
  BY TickFacts, IntervalAssumption
<1>2. 0 * ServerRound = 0
  BY <1>1, IntervalAssumption DEF ServerRound
<1> QED
  BY <1>1, <1>2, IntervalAssumption DEF Init, ServerWatched

LEMMA ServerWatchedStep == TypeInv /\ ServerWatched /\ [Next]_vars => ServerWatched'
<1> SUFFICES ASSUME TypeInv, ServerWatched, [Next]_vars PROVE ServerWatched'
  OBVIOUS
<1> USE IntervalAssumption DEF TypeInv, TypeOK
<1> DEFINE A == Ticks(ServerAliveInterval)
           B == serverMissed * ServerRound
<1>1. A \in Nat /\ A >= TicksPerSecond
  BY TickFacts
<1>2. ServerRound = A + Jitter /\ ServerRound \in Nat
  BY <1>1 DEF ServerRound
<1>3. B \in Nat /\ 0 * ServerRound = 0 /\ (serverMissed + 1) * ServerRound = B + ServerRound
  BY <1>2, Times
<1> Seconds(now) \in Nat
  BY SecondFacts
<1>4. Seconds(now) \in Nat /\ Ticks(Seconds(now)) \in Nat
  BY TickFacts
<1>5. Ticks(Seconds(now)) <= now /\ now < Ticks(Seconds(now)) + TicksPerSecond
  BY SecondFacts
<1>6. Ticks(Seconds(now) + ServerAliveInterval) = Ticks(Seconds(now)) + A
  BY TickFacts, <1>4
<1>7. Ticks(serverAliveTime) \in Nat
  BY TickFacts
<1> HIDE DEF A, B
<1>8. ssh => /\ now <= Ticks(serverAliveTime) + Jitter
             /\ Ticks(serverAliveTime) <= serverHeard + B + A
  BY DEF ServerWatched, A, B
<1>9. CASE ClientReads
  <2>1. /\ now' = now /\ serverHeard' = now /\ serverMissed' = 0
        /\ serverAliveTime' = Seconds(now) + ServerAliveInterval
    BY <1>9 DEF ClientReads
  <2>2. now <= Ticks(Seconds(now)) + A + Jitter /\ Ticks(Seconds(now)) + A <= now + A
    BY <1>1, <1>4, <1>5
  <2> QED
    BY <2>1, <2>2, <1>1, <1>3, <1>6 DEF ServerWatched, A
<1>10. CASE ServerAliveCheck
  <2>1. /\ now' = now /\ serverHeard' = serverHeard /\ serverMissed' = serverMissed + 1
        /\ ssh' => serverAliveTime' = Seconds(now) + ServerAliveInterval
        /\ ssh
    BY <1>10 DEF ServerAliveCheck
  <2>2. now <= Ticks(Seconds(now)) + A + Jitter
    BY <1>1, <1>4, <1>5
  <2>3. Ticks(Seconds(now)) + A <= serverHeard + B + ServerRound + A
    BY <1>1, <1>2, <1>3, <1>4, <1>5, <1>7, <1>8, <2>1
  <2> SUFFICES ASSUME ssh' PROVE ServerWatched'
    BY DEF ServerWatched
  <2>4. serverAliveTime' = Seconds(now) + ServerAliveInterval
    BY <2>1
  <2>5. Ticks(serverAliveTime') = Ticks(Seconds(now)) + A
    BY <2>4, <1>6
  <2>6. serverMissed' * ServerRound = B + ServerRound
    BY <2>1, <1>3
  <2>7. now' <= Ticks(serverAliveTime') + Jitter
    BY <2>1, <2>2, <2>5
  <2>8. Ticks(serverAliveTime') <= serverHeard' + serverMissed' * ServerRound + A
    BY <2>1, <2>3, <2>5, <2>6, <1>1, <1>2, <1>3, <1>4
  <2> QED
    BY <2>7, <2>8 DEF ServerWatched, A
<1>11. CASE Tick
  BY <1>7, <1>11 DEF Tick, clientVars, ServerWatched
<1>12. CASE UNCHANGED <<now, clientVars>>
  BY <1>12 DEF clientVars, ServerWatched
<1> QED
  BY <1>9, <1>10, <1>11, <1>12
     DEF Next, ServerReads, ServerWakes, ServerTimesOut, ServerSends, ClientSends, Cut, vars

(* An ssh that hears nothing ends within a bound, for any count and        *)
(* interval and whatever traffic wakes it (clientloop.c:581).              *)
THEOREM SilentServerIsLeft == Spec => []SilentServerLeft
<1>1. TypeInv /\ ServerWatched => SilentServerLeft
  <2> SUFFICES ASSUME TypeInv, ServerWatched, ssh
               PROVE  now - serverHeard <= (serverAliveCountMax + 1) * ServerRound
    BY DEF SilentServerLeft, ServerRound
  <2> USE IntervalAssumption DEF TypeInv, TypeOK
  <2> Ticks(ServerAliveInterval) \in Nat
    BY TickFacts
  <2>1. ServerRound \in Nat /\ ServerRound = Ticks(ServerAliveInterval) + Jitter
    BY DEF ServerRound
  <2>2. /\ serverMissed * ServerRound \in Nat
        /\ (serverMissed + 1) * ServerRound = serverMissed * ServerRound + ServerRound
        /\ (serverMissed + 1) * ServerRound <= (serverAliveCountMax + 1) * ServerRound
    BY <2>1, Times
  <2>3. Ticks(serverAliveTime) \in Nat /\ Ticks(ServerAliveInterval) \in Nat
    BY TickFacts
  <2>4. (serverAliveCountMax + 1) * ServerRound \in Nat
    BY <2>1, Times
  <2>5. now <= serverHeard + serverMissed * ServerRound + ServerRound
    BY <2>1, <2>2, <2>3 DEF ServerWatched
  <2> HIDE DEF TypeInv, TypeOK
  <2>6. now \in Nat /\ serverHeard \in Nat
    BY DEF TypeInv, TypeOK
  <2> QED
    BY <2>1, <2>2, <2>4, <2>5, <2>6
<1> QED
  BY <1>1, TypeStart, TypeStep, ServerWatchedStart, ServerWatchedStep, PTL DEF Spec
-----------------------------------------------------------------------------
(* sshd leaves a silent client.                                            *)

(* The timeouts since the client was heard: two for each probe, one for    *)
(* each event, and one more when the next timeout cannot but be due.       *)
Rounds == 2 * clientMissed + events

(* At time t, when ppoll times out at w, the client was heard at h, the    *)
(* last probe is of l, and there were n rounds.                            *)
Watched(t, w, h, l, n) ==
    LET A == Ticks(ClientAliveInterval)
    IN  /\ t <= w + Jitter /\ w <= t + A /\ w >= l + A
        /\ \/ w <= h + n * ClientRound + A
           \/ w <= h + (n + 1) * ClientRound + A /\ w >= l + 2 * A

ClientWatched ==
    sshd /\ clientAliveCountMax > 0 =>
        Watched(now, wake, clientHeard, Ticks(lastClientTime), Rounds)

LEMMA ClientWatchedStart == Init => ClientWatched
<1> SUFFICES ASSUME Init PROVE ClientWatched
  OBVIOUS
<1>1. Ticks(ClientAliveInterval) \in Nat /\ Ticks(0) = 0
  BY TickFacts, IntervalAssumption
<1>2. ClientRound \in Nat
  BY <1>1, IntervalAssumption DEF ClientRound
<1>3. 0 * ClientRound = 0 /\ Rounds = 0
  BY <1>2 DEF Init, Rounds
<1> QED
  BY <1>1, <1>2, <1>3, IntervalAssumption DEF Init, ClientWatched, Watched

LEMMA ClientWatchedStep == TypeInv /\ ClientWatched /\ [Next]_vars => ClientWatched'
<1> SUFFICES ASSUME TypeInv, ClientWatched, [Next]_vars,
                    sshd', clientAliveCountMax > 0
             PROVE  ClientWatched'
  BY OptionsFixed DEF ClientWatched, options
<1> DEFINE A == Ticks(ClientAliveInterval)
           L == Ticks(lastClientTime)
           K == ClientRound
           R == Rounds
           B == R * K
<1>1. /\ now \in Nat /\ wake \in Nat /\ clientHeard \in Nat /\ clientHeard <= now
      /\ events \in Nat /\ clientMissed \in Nat /\ lastClientTime \in Nat
      /\ lastClientTime <= Seconds(now) /\ Jitter \in Nat
  BY IntervalAssumption DEF TypeInv, TypeOK
<1>2. A \in Nat /\ L \in Nat
  BY <1>1, TickFacts, IntervalAssumption
<1>3. K = A + Jitter /\ K \in Nat
  BY <1>1, <1>2 DEF ClientRound
<1>4. R \in Nat /\ R = 2 * clientMissed + events
  BY <1>1 DEF Rounds
<1>5. /\ B \in Nat /\ (R + 1) * K = B + K
      /\ (R + 2) * K = B + 2 * K /\ (R + 3) * K = B + 3 * K
      /\ events * K \in Nat
  <2>1. B \in Nat /\ (R + 1) * K = B + K
    BY <1>3, <1>4, Times
  <2>2. (R + 1 + 1) * K = (R + 1) * K + K /\ (R + 2 + 1) * K = (R + 2) * K + K
    BY <1>3, <1>4, Times
  <2>3. R + 1 + 1 = R + 2 /\ R + 2 + 1 = R + 3
    BY <1>4
  <2>4. events * K \in Nat
    BY <1>1, <1>3, Times
  <2> QED
    BY <2>1, <2>2, <2>3, <2>4, <1>3
<1>6. Seconds(now) \in Nat /\ Ticks(Seconds(now)) <= now
  BY <1>1, SecondFacts
<1>7. Ticks(Seconds(now)) \in Nat
  BY <1>6, TickFacts
<1>8. sshd
  BY DEF Next, vars, ServerReads, ServerWakes, ServerTimesOut, ServerSends, ClientReads,
         ServerAliveCheck, ClientSends, Cut, Tick, serverVars
<1>9. Watched(now, wake, clientHeard, L, R)
  BY <1>8 DEF ClientWatched
<1>10. /\ now <= wake + Jitter /\ wake <= now + A /\ wake >= L + A
       /\ \/ wake <= clientHeard + B + A
          \/ wake <= clientHeard + B + K + A /\ wake >= L + 2 * A
  <2>1. (R + 1) * K = B + K
    BY <1>5
  <2> QED
    BY <1>9, <2>1, <1>1, <1>2, <1>3, <1>5 DEF Watched
<1>11. R' = 2 * clientMissed' + events'
  BY DEF Rounds
<1>12. ASSUME Watched(now', wake', clientHeard', Ticks(lastClientTime'), R') PROVE ClientWatched'
  BY <1>12 DEF ClientWatched
<1> HIDE DEF A, L, K, R, B
<1>13. CASE ServerReads
  <2>1. /\ now' = now /\ wake' = now + A /\ clientHeard' = now
        /\ lastClientTime' = Seconds(now) /\ clientMissed' = 0 /\ events' = events
    BY <1>13 DEF ServerReads, SleepAgain, A
  <2>2. R' = events
    BY <2>1, <1>1, <1>11
  <2>3. Watched(now, now + A, now, Ticks(Seconds(now)), events)
    BY <1>1, <1>2, <1>3, <1>5, <1>6, <1>7 DEF Watched, A, K
  <2> QED
    BY <2>1, <2>2, <2>3, <1>12
<1>14. CASE ServerWakes
  <2>1. /\ now' = now /\ wake' = now + A /\ clientHeard' = clientHeard
        /\ lastClientTime' = lastClientTime /\ clientMissed' = clientMissed
        /\ events' = events + 1
    BY <1>14 DEF ServerWakes, SleepAgain, A
  <2>2. R' = R + 1 /\ R + 1 + 1 = R + 2
    BY <2>1, <1>1, <1>4, <1>11
  <2>3. Watched(now, now + A, clientHeard, L, R + 1)
    <3>1. (R + 1) * K = B + K /\ (R + 1 + 1) * K = B + 2 * K
      BY <1>5, <2>2
    <3> QED
      BY <3>1, <1>1, <1>2, <1>3, <1>5, <1>10 DEF Watched, A, K
  <2>4. Ticks(lastClientTime') = L
    BY <2>1 DEF L
  <2> QED
    BY <2>1, <2>2, <2>3, <2>4, <1>12
<1>15. CASE ServerTimesOut
  <2>1. /\ now' = now /\ wake' = now + A /\ clientHeard' = clientHeard
        /\ events' = events /\ now >= wake
    BY <1>15 DEF ServerTimesOut, SleepAgain, A
  <2>2. CASE ProbeDue
    <3>1. lastClientTime' = Seconds(now) /\ clientMissed' = clientMissed + 1
      BY <1>15, <2>2 DEF ServerTimesOut, ClientAliveCheck
    <3>2. R' = R + 2
      BY <2>1, <3>1, <1>1, <1>4, <1>11
    <3>3. Watched(now, now + A, clientHeard, Ticks(Seconds(now)), R + 2)
      BY <1>1, <1>2, <1>3, <1>5, <1>6, <1>7, <1>10 DEF Watched, A, K
    <3> QED
      BY <2>1, <3>1, <3>2, <3>3, <1>12
  <2>3. CASE ~ProbeDue
    <3>1. lastClientTime' = lastClientTime /\ clientMissed' = clientMissed
      BY <1>15, <2>3 DEF ServerTimesOut
    <3>2. R' = R /\ Ticks(lastClientTime') = L
      BY <2>1, <3>1, <1>4, <1>11 DEF L
    <3>3. Seconds(now) <= lastClientTime + ClientAliveInterval
      BY <2>3, <1>1, <1>6, IntervalAssumption DEF ProbeDue
    <3>4. ~(now >= L + 2 * A)
      <4> SUFFICES ASSUME now >= L + 2 * A PROVE FALSE
        OBVIOUS
      <4> DEFINE k == lastClientTime + ClientAliveInterval + ClientAliveInterval
      <4>1. k \in Nat /\ Ticks(k) = L + A + A
        BY <1>1, TickFacts, IntervalAssumption DEF L, A
      <4>2. k <= Seconds(now)
        BY <4>1, <1>1, <1>2, SecondsReached
      <4> QED
        BY <4>2, <3>3, <1>1, <1>6, IntervalAssumption
    <3>5. Watched(now, now + A, clientHeard, L, R)
      <4>1. (R + 1) * K = B + K
        BY <1>5
      <4> QED
        BY <4>1, <2>1, <3>4, <1>1, <1>2, <1>3, <1>5, <1>10 DEF Watched, A, K, B
    <3> QED
      BY <2>1, <3>2, <3>5, <1>12
  <2> QED BY <2>2, <2>3
<1>16. CASE Tick
  <2>1. /\ now' = now + 1 /\ wake' = wake /\ clientHeard' = clientHeard
        /\ lastClientTime' = lastClientTime /\ clientMissed' = clientMissed
        /\ events' = events /\ now < wake + Jitter
    BY <1>8, <1>16 DEF Tick, serverVars
  <2>2. R' = R /\ Ticks(lastClientTime') = L
    BY <2>1, <1>4, <1>11 DEF L
  <2>3. Watched(now + 1, wake, clientHeard, L, R)
    BY <2>1, <1>1, <1>2, <1>9 DEF Watched, A
  <2> QED
    BY <2>1, <2>2, <2>3, <1>12
<1>17. CASE ServerSends \/ ClientSends
  <2>1. /\ now' = now /\ wake' = wake /\ clientHeard' = clientHeard
        /\ lastClientTime' = lastClientTime /\ clientMissed' = clientMissed
        /\ events' = events + 1
    BY <1>17 DEF ServerSends, ClientSends, serverVars
  <2>2. R' = R + 1 /\ Ticks(lastClientTime') = L /\ R + 1 + 1 = R + 2
    BY <2>1, <1>1, <1>4, <1>11 DEF L
  <2>3. Watched(now, wake, clientHeard, L, R + 1)
    <3>1. (R + 1) * K = B + K /\ (R + 1 + 1) * K = B + 2 * K
      BY <1>5, <2>2
    <3> QED
      BY <3>1, <1>1, <1>2, <1>3, <1>5, <1>10 DEF Watched, A, K
  <2> QED
    BY <2>1, <2>2, <2>3, <1>12
<1>18. CASE UNCHANGED <<now, events, serverVars>>
  <2>1. /\ now' = now /\ wake' = wake /\ clientHeard' = clientHeard
        /\ lastClientTime' = lastClientTime /\ clientMissed' = clientMissed
        /\ events' = events
    BY <1>18 DEF serverVars
  <2>2. R' = R /\ Ticks(lastClientTime') = L
    BY <2>1, <1>4, <1>11 DEF L
  <2> QED
    BY <2>1, <2>2, <1>9, <1>12
<1> QED
  BY <1>13, <1>14, <1>15, <1>16, <1>17, <1>18 DEF Next, ClientReads, ServerAliveCheck, Cut, vars

(* An sshd that hears nothing ends within a bound, for any count but 0     *)
(* and any interval, which the events on its other descriptors can only    *)
(* stretch by one round each (serverloop.c:262).                           *)
THEOREM SilentClientIsLeft == Spec => []SilentClientLeft
<1>1. TypeInv /\ ClientWatched => SilentClientLeft
  <2> SUFFICES ASSUME TypeInv, ClientWatched, sshd, clientAliveCountMax > 0
               PROVE  now - clientHeard <=
                        (2 * (clientAliveCountMax + 1) + events) * ClientRound
    BY DEF SilentClientLeft, ClientRound
  <2>1. /\ now \in Nat /\ wake \in Nat /\ clientHeard \in Nat
        /\ events \in Nat /\ clientMissed \in Nat /\ Jitter \in Nat
        /\ clientMissed <= clientAliveCountMax /\ clientAliveCountMax \in Nat
    BY IntervalAssumption DEF TypeInv, TypeOK
  <2>2. Ticks(ClientAliveInterval) \in Nat
    BY TickFacts, IntervalAssumption
  <2>3. ClientRound \in Nat /\ ClientRound = Ticks(ClientAliveInterval) + Jitter
    BY <2>1, <2>2 DEF ClientRound
  <2>4. Rounds \in Nat /\ Rounds + 2 <= 2 * (clientAliveCountMax + 1) + events
    BY <2>1 DEF Rounds
  <2>5. /\ Rounds * ClientRound \in Nat
        /\ (Rounds + 1) * ClientRound = Rounds * ClientRound + ClientRound
        /\ (Rounds + 1 + 1) * ClientRound = (Rounds + 1) * ClientRound + ClientRound
    BY <2>3, <2>4, Times
  <2>6. Rounds + 1 + 1 <= 2 * (clientAliveCountMax + 1) + events
    BY <2>4
  <2>7. (Rounds + 1 + 1) * ClientRound
          <= (2 * (clientAliveCountMax + 1) + events) * ClientRound
    BY <2>1, <2>3, <2>4, <2>6, Times
  <2>8. (2 * (clientAliveCountMax + 1) + events) * ClientRound \in Nat
    BY <2>1, <2>3, Times
  <2>9. now <= clientHeard + Rounds * ClientRound + ClientRound + ClientRound
    <3>1. Watched(now, wake, clientHeard, Ticks(lastClientTime), Rounds)
      BY DEF ClientWatched
    <3> QED
      BY <3>1, <2>1, <2>2, <2>3, <2>5 DEF Watched
  <2> QED
    BY <2>1, <2>3, <2>5, <2>7, <2>8, <2>9
<1> QED
  BY <1>1, TypeStart, TypeStep, ClientWatchedStart, ClientWatchedStep, PTL DEF Spec

-----------------------------------------------------------------------------
(* Messages on their way.                                                  *)

Messages == [kind : {"data", "probe", "reply"}, at : Nat]

(* What is in q was sent before t, in order, and is not late.              *)
Timely(q, t) ==
    /\ q \in Seq(Messages)
    /\ \A i, j \in DOMAIN q : i <= j => q[i].at <= q[j].at
    /\ \A i \in DOMAIN q : q[i].at <= t /\ t <= q[i].at + MaxDelay

(* Something, or a probe, in q was sent d before x.                        *)
Has(q, d, x) == \E i \in DOMAIN q : q[i].at + d < x
HasProbe(q, d, x) == \E i \in DOMAIN q : q[i].kind = "probe" /\ q[i].at + d < x

LEMMA Elements ==
    ASSUME NEW q \in Seq(Messages), NEW i \in DOMAIN q
    PROVE  q[i] \in Messages /\ q[i].at \in Nat
<1>1. q[i] \in Messages
  OBVIOUS
<1> QED
  BY <1>1 DEF Messages

LEMMA Sending ==
    ASSUME NEW t \in Nat, NEW q, Timely(q, t), NEW e \in Messages, e.at = t
    PROVE  /\ Timely(Append(q, e), t)
           /\ \A d, x \in Int :
                /\ Has(q, d, x) => Has(Append(q, e), d, x)
                /\ HasProbe(q, d, x) => HasProbe(Append(q, e), d, x)
                /\ t + d < x => Has(Append(q, e), d, x)
                /\ t + d < x /\ e.kind = "probe" => HasProbe(Append(q, e), d, x)
<1> DEFINE r == Append(q, e)
<1> USE IntervalAssumption
<1>1. q \in Seq(Messages)
  BY DEF Timely
<1>2. /\ r \in Seq(Messages) /\ DOMAIN r = 1..(Len(q) + 1) /\ DOMAIN q = 1..Len(q)
      /\ Len(q) \in Nat
      /\ r[Len(q) + 1] = e /\ \A i \in DOMAIN q : r[i] = q[i]
  BY <1>1
<1> HIDE DEF r
<1>3. \A i \in DOMAIN q : q[i] \in Messages /\ q[i].at \in Nat
  BY <1>1, Elements
<1>4. \A i \in DOMAIN r : i \in DOMAIN q \/ i = Len(q) + 1
  BY <1>2
<1>5. Timely(r, t)
  <2>1. ASSUME NEW i \in DOMAIN r, NEW j \in DOMAIN r, i <= j PROVE r[i].at <= r[j].at
    <3>1. CASE j \in DOMAIN q
      BY <2>1, <3>1, <1>2, <1>4 DEF Timely
    <3>2. CASE j = Len(q) + 1
      BY <2>1, <3>2, <1>1, <1>2, <1>4 DEF Timely
    <3> QED BY <3>1, <3>2, <1>4
  <2>2. ASSUME NEW i \in DOMAIN r PROVE r[i].at <= t /\ t <= r[i].at + MaxDelay
    BY <1>1, <1>2, <1>4 DEF Timely
  <2> QED
    BY <2>1, <2>2, <1>2 DEF Timely
<1>6. ASSUME NEW d \in Int, NEW x \in Int
      PROVE  /\ Has(q, d, x) => Has(r, d, x)
             /\ HasProbe(q, d, x) => HasProbe(r, d, x)
             /\ t + d < x => Has(r, d, x)
             /\ t + d < x /\ e.kind = "probe" => HasProbe(r, d, x)
  <2>1. DOMAIN q \subseteq DOMAIN r /\ Len(q) + 1 \in DOMAIN r
    BY <1>2
  <2> QED
    BY <2>1, <1>1, <1>2 DEF Has, HasProbe
<1> QED
  BY <1>5, <1>6 DEF r

LEMMA Reading ==
    ASSUME NEW t \in Nat, NEW q, Timely(q, t), q # <<>>
    PROVE  /\ Timely(Tail(q), t)
           /\ Head(q) \in Messages /\ t <= Head(q).at + MaxDelay
           /\ \A d, x \in Int :
                /\ Has(q, d, x) => Head(q).at + d < x \/ Has(Tail(q), d, x)
                /\ HasProbe(q, d, x) =>
                     \/ Head(q).kind = "probe" /\ Head(q).at + d < x
                     \/ HasProbe(Tail(q), d, x)
<1> DEFINE r == Tail(q)
<1> USE IntervalAssumption
<1>1. q \in Seq(Messages)
  BY DEF Timely
<1>2. /\ r \in Seq(Messages) /\ Len(q) \in Nat \ {0}
      /\ DOMAIN q = 1..Len(q) /\ DOMAIN r = 1..(Len(q) - 1)
      /\ \A i \in DOMAIN r : r[i] = q[i + 1]
      /\ Head(q) = q[1] /\ q[1] \in Messages
  BY <1>1
<1> HIDE DEF r
<1>3. \A i \in DOMAIN r : i + 1 \in DOMAIN q
  BY <1>2
<1>4. 1 \in DOMAIN q /\ \A i \in DOMAIN q : i = 1 \/ (i - 1 \in DOMAIN r /\ r[i - 1] = q[i])
  <2>1. 1 \in DOMAIN q
    BY <1>2
  <2>2. ASSUME NEW i \in DOMAIN q
        PROVE  i = 1 \/ (i - 1 \in DOMAIN r /\ r[i - 1] = q[i])
    <3> SUFFICES ASSUME i # 1 PROVE i - 1 \in DOMAIN r /\ r[i - 1] = q[i]
      OBVIOUS
    <3>1. i - 1 \in DOMAIN r /\ i - 1 + 1 = i
      BY <1>2
    <3> QED
      BY <3>1, <1>2
  <2> QED
    BY <2>1, <2>2
<1>5. Timely(r, t)
  <2>1. ASSUME NEW i \in DOMAIN r, NEW j \in DOMAIN r, i <= j PROVE r[i].at <= r[j].at
    <3>1. i + 1 <= j + 1
      BY <2>1, <1>2
    <3> QED
      BY <3>1, <1>2, <1>3 DEF Timely
  <2>2. ASSUME NEW i \in DOMAIN r PROVE r[i].at <= t /\ t <= r[i].at + MaxDelay
    BY <1>2, <1>3 DEF Timely
  <2> QED
    BY <2>1, <2>2, <1>2 DEF Timely
<1>6. t <= Head(q).at + MaxDelay
  BY <1>2, <1>4 DEF Timely
<1>7. ASSUME NEW d \in Int, NEW x \in Int
      PROVE  /\ Has(q, d, x) => Head(q).at + d < x \/ Has(r, d, x)
             /\ HasProbe(q, d, x) =>
                  \/ Head(q).kind = "probe" /\ Head(q).at + d < x
                  \/ HasProbe(r, d, x)
  BY <1>2, <1>4 DEF Has, HasProbe
<1> QED
  BY <1>2, <1>5, <1>6, <1>7 DEF r

LEMMA Waiting ==
    ASSUME NEW t \in Nat, NEW q, Timely(q, t), ~(q # <<>> /\ t >= Head(q).at + MaxDelay)
    PROVE  Timely(q, t + 1)
<1> USE IntervalAssumption
<1> q \in Seq(Messages)
  BY DEF Timely
<1>1. q \in Seq(Messages) /\ \A i \in DOMAIN q : q[i] \in Messages /\ q[i].at \in Nat
  BY Elements
<1>2. ASSUME NEW i \in DOMAIN q PROVE q[i].at <= t + 1 /\ t + 1 <= q[i].at + MaxDelay
  <2>1. q # <<>> /\ Head(q) = q[1] /\ 1 \in DOMAIN q /\ 1 <= i
    BY <1>1
  <2>2. q[1].at <= q[i].at /\ t < q[1].at + MaxDelay
    BY <1>1, <2>1 DEF Timely
  <2>3. q[i].at <= t
    BY DEF Timely
  <2> QED
    BY <2>1, <2>2, <2>3, <1>1
<1> QED
  BY <1>1, <1>2 DEF Timely

(* What was sent in time for x will have been read before x.               *)
LEMMA InTime ==
    ASSUME NEW t \in Nat, NEW q, Timely(q, t), NEW x \in Int,
           Has(q, MaxDelay, x) \/ HasProbe(q, 2 * MaxDelay, x)
    PROVE  t < x
<1> USE IntervalAssumption
<1>1. \A i \in DOMAIN q : q[i] \in Messages /\ q[i].at \in Nat /\ t <= q[i].at + MaxDelay
  BY Elements DEF Timely
<1> QED
  BY <1>1 DEF Has, HasProbe

-----------------------------------------------------------------------------
(* No end that can be reached is given up.                                 *)

(* An interval is longer than a probe and its reply take.                  *)
Patient ==
    /\ 2 * MaxDelay + TicksPerSecond <= Ticks(ServerAliveInterval)
    /\ 2 * MaxDelay <= Ticks(ClientAliveInterval)

(* When a check may next be due.                                           *)
ClientDeadline == Ticks(lastClientTime + ClientAliveInterval) + TicksPerSecond
ServerDeadline == Ticks(serverAliveTime)

(* An unanswered probe, or what answers it, is on its way and in time.     *)
ProbeAnswered(missed, deadline, out, in) ==
    missed > 0 =>
        /\ missed = 1
        /\ HasProbe(out, 2 * MaxDelay, deadline) \/ Has(in, MaxDelay, deadline)

Reached ==
    link = "up" /\ ssh /\ sshd =>
        /\ Timely(toServer, now) /\ Timely(toClient, now)
        /\ ProbeAnswered(clientMissed, ClientDeadline, toClient, toServer)
        /\ ProbeAnswered(serverMissed, ServerDeadline, toServer, toClient)

(* Without a probe under way the next check is due an interval after the   *)
(* server was heard.                                                       *)
Rested ==
    ssh /\ serverMissed = 0 => serverAliveTime = Seconds(serverHeard) + ServerAliveInterval

LEMMA ReachedStart == Init => Reached /\ Rested
<1> SUFFICES ASSUME Init PROVE Reached /\ Rested
  OBVIOUS
<1>1. Timely(<<>>, 0)
  BY DEF Timely
<1>2. Reached
  BY <1>1 DEF Init, Reached, ProbeAnswered
<1>3. Seconds(0) = 0
  BY IntervalAssumption, SMTT(30) DEF Seconds
<1> QED
  BY <1>2, <1>3, IntervalAssumption DEF Init, Rested

LEMMA RestedStep == TypeInv /\ Rested /\ [Next]_vars => Rested'
<1> SUFFICES ASSUME TypeInv, Rested, [Next]_vars PROVE Rested'
  OBVIOUS
<1>1. CASE ClientReads
  BY <1>1 DEF ClientReads, Rested
<1>2. CASE ServerAliveCheck
  <2>1. serverMissed' # 0
    BY <1>2, IntervalAssumption DEF ServerAliveCheck, TypeInv, TypeOK
  <2> QED
    BY <2>1 DEF Rested
<1>3. CASE UNCHANGED clientVars
  BY <1>3 DEF clientVars, Rested
<1> QED
  BY <1>1, <1>2, <1>3
     DEF Next, ServerReads, ServerWakes, ServerTimesOut, ServerSends, ClientSends, Cut, Tick, vars

(* The two checks, when the other end is there.                            *)
LEMMA ClientKept ==
    ASSUME TypeInv, Reached, link = "up", ssh, sshd, ServerTimesOut, ProbeDue
    PROVE  clientMissed = 0 /\ sshd' /\ clientMissed' \in {0, 1}
<1> DEFINE X == ClientDeadline
           k == lastClientTime + ClientAliveInterval
<1>1. /\ now \in Nat /\ lastClientTime \in Nat /\ clientMissed \in Nat
      /\ TicksPerSecond \in Nat /\ MaxDelay \in Nat
      /\ clientAliveCountMax \in Nat
  BY IntervalAssumption DEF TypeInv, TypeOK
<1>2. k \in Int /\ k + 1 <= Seconds(now)
  BY <1>1, SecondFacts, IntervalAssumption DEF ProbeDue
<1>3. Ticks(k + 1) <= Ticks(Seconds(now)) /\ Seconds(now) \in Nat
  BY <1>2, <1>1, SecondFacts, TicksOrdered
<1>4. Ticks(k + 1) = X /\ X \in Int
  BY <1>1, <1>2, TickFacts DEF ClientDeadline
<1>5. Ticks(Seconds(now)) <= now /\ Ticks(Seconds(now)) \in Nat
  BY <1>3, <1>1, SecondFacts, TickFacts
<1> HIDE DEF X, k
<1>6. ~(now < X)
  BY <1>3, <1>4, <1>5, <1>1
<1>7. Timely(toClient, now) /\ Timely(toServer, now) /\ ProbeAnswered(clientMissed, X, toClient, toServer)
  BY DEF Reached, X
<1>8. clientMissed = 0
  BY <1>1, <1>4, <1>6, <1>7, InTime DEF ProbeAnswered
<1>9. /\ clientMissed' = IF clientAliveCountMax > 0 THEN clientMissed + 1 ELSE 0
      /\ sshd' = ~(clientMissed' > clientAliveCountMax)
  BY DEF ServerTimesOut, ClientAliveCheck
<1>10. clientMissed' \in {0, 1} /\ ~(clientMissed' > clientAliveCountMax)
  BY <1>1, <1>8, <1>9
<1> QED
  BY <1>8, <1>9, <1>10, Zenon

LEMMA ServerKept ==
    ASSUME TypeInv, Reached, link = "up", ssh, sshd, ServerAliveCheck
    PROVE  serverMissed = 0
<1> DEFINE Y == ServerDeadline
<1>1. /\ now \in Nat /\ serverAliveTime \in Nat /\ serverMissed \in Nat /\ MaxDelay \in Nat
      /\ Seconds(now) >= serverAliveTime
  BY IntervalAssumption DEF TypeInv, TypeOK, ServerAliveCheck
<1>2. Seconds(now) \in Nat /\ Ticks(Seconds(now)) <= now /\ Ticks(Seconds(now)) \in Nat
  BY <1>1, SecondFacts, TickFacts
<1>3. Y <= Ticks(Seconds(now)) /\ Y \in Int
  BY <1>1, <1>2, TicksOrdered, TickFacts DEF ServerDeadline
<1>4. Timely(toServer, now) /\ Timely(toClient, now) /\ ProbeAnswered(serverMissed, Y, toServer, toClient)
  BY DEF Reached
<1> HIDE DEF Y
<1>5. ~(now < Y)
  BY <1>1, <1>2, <1>3
<1> QED
  BY <1>1, <1>3, <1>4, <1>5, InTime DEF ProbeAnswered

LEMMA ReachedStep ==
    ASSUME Patient PROVE TypeInv /\ Reached /\ [Next]_vars => Reached'
<1> SUFFICES ASSUME TypeInv, Reached, [Next]_vars, link' = "up", ssh', sshd' PROVE Reached'
  BY DEF Reached
<1> DEFINE X == ClientDeadline
           Y == ServerDeadline
<1>1. link = "up" /\ ssh /\ sshd
  BY DEF clientVars, serverVars, Next, vars, ServerReads, ServerWakes, ServerTimesOut, ServerSends, ClientReads,
         ServerAliveCheck, ClientSends, Cut, Tick
<1>2. /\ ssh /\ sshd /\ ssh' /\ sshd'
      /\ Timely(toServer, now) /\ Timely(toClient, now)
      /\ ProbeAnswered(clientMissed, X, toClient, toServer)
      /\ ProbeAnswered(serverMissed, Y, toServer, toClient)
  BY <1>1 DEF Reached
<1>3. /\ now \in Nat /\ MaxDelay \in Nat /\ lastClientTime \in Nat /\ serverAliveTime \in Nat
      /\ clientMissed \in Nat /\ serverMissed \in Nat /\ TicksPerSecond \in Nat
      /\ 2 * MaxDelay \in Nat
  BY IntervalAssumption DEF TypeInv, TypeOK
<1>4. X \in Int /\ Y \in Int
  <2>1. lastClientTime + ClientAliveInterval \in Int
    BY <1>3, IntervalAssumption
  <2>2. Ticks(lastClientTime + ClientAliveInterval) \in Int /\ Ticks(serverAliveTime) \in Int
    BY <1>3, <2>1, TickFacts
  <2> QED
    BY <1>3, <2>2 DEF ClientDeadline, ServerDeadline
<1> HIDE DEF X, Y
<1>5. X' = Ticks(lastClientTime' + ClientAliveInterval) + TicksPerSecond /\ Y' = Ticks(serverAliveTime')
  BY DEF X, Y, ClientDeadline, ServerDeadline
<1>6. ASSUME Timely(toServer', now'), Timely(toClient', now'),
             ProbeAnswered(clientMissed', X', toClient', toServer'),
             ProbeAnswered(serverMissed', Y', toServer', toClient')
      PROVE  Reached'
  BY <1>6 DEF Reached, X, Y
<1>7. CASE ServerReads
  <2> DEFINE m == Head(toServer)
             q == Tail(toServer)
  <2>1. /\ now' = now /\ ssh' = ssh /\ sshd' = sshd /\ clientMissed' = 0
        /\ serverMissed' = serverMissed /\ Y' = Y
        /\ toServer' = q /\ toClient' = Replies(m, toClient) /\ toServer # <<>>
    BY <1>7 DEF ServerReads, clientVars, Y, ServerDeadline
  <2>2. /\ Timely(q, now) /\ m \in Messages /\ now <= m.at + MaxDelay
        /\ HasProbe(toServer, 2 * MaxDelay, Y) =>
             (m.kind = "probe" /\ m.at + 2 * MaxDelay < Y) \/ HasProbe(q, 2 * MaxDelay, Y)
    BY <1>2, <1>3, <1>4, <2>1, Reading
  <2>3. m.at \in Nat
    BY <2>2 DEF Messages
  <2>4. /\ Timely(toClient', now)
        /\ Has(toClient, MaxDelay, Y) => Has(toClient', MaxDelay, Y)
        /\ m.kind = "probe" /\ now + MaxDelay < Y => Has(toClient', MaxDelay, Y)
    <3>1. CASE m.kind = "probe"
      <4> DEFINE e == [kind |-> "reply", at |-> now]
      <4>1. toClient' = Append(toClient, e)
        BY <2>1, <3>1, <1>1 DEF Replies, Sent
      <4>2. e \in Messages /\ e.at = now
        BY <1>3 DEF Messages
      <4> HIDE DEF e
      <4>3. /\ Timely(Append(toClient, e), now)
            /\ Has(toClient, MaxDelay, Y) => Has(Append(toClient, e), MaxDelay, Y)
            /\ now + MaxDelay < Y => Has(Append(toClient, e), MaxDelay, Y)
        <5>1. Timely(toClient, now)
          BY <1>2
        <5> QED
          BY <4>2, <5>1, <1>3, <1>4, Sending
      <4> QED
        BY <4>1, <4>3
    <3>2. CASE m.kind # "probe"
      BY <2>1, <3>2, <1>2 DEF Replies
    <3> QED BY <3>1, <3>2
  <2> HIDE DEF m, q
  <2>5. ProbeAnswered(serverMissed, Y, q, toClient')
    <3>1. m.kind = "probe" /\ m.at + 2 * MaxDelay < Y => now + MaxDelay < Y
      BY <2>2, <2>3, <1>3, <1>4
    <3> QED
      BY <3>1, <2>2, <2>4, <1>2 DEF ProbeAnswered
  <2>6. ProbeAnswered(0, X', toClient', q)
    BY DEF ProbeAnswered
  <2> QED
    BY <2>1, <2>2, <2>4, <2>5, <2>6, <1>2, <1>6
<1>8. CASE ServerTimesOut
  <2>1. /\ now' = now /\ ssh' = ssh /\ serverMissed' = serverMissed /\ Y' = Y
        /\ toServer' = toServer
    BY <1>8 DEF ServerTimesOut, clientVars, Y, ServerDeadline
  <2>2. CASE ~ProbeDue
    <3>1. /\ sshd' = sshd /\ clientMissed' = clientMissed /\ toClient' = toClient
          /\ lastClientTime' = lastClientTime
      BY <1>8, <2>2 DEF ServerTimesOut
    <3>2. X' = X
      BY <3>1 DEF X, ClientDeadline
    <3> QED
      BY <2>1, <3>1, <3>2, <1>2, <1>6
  <2>3. CASE ProbeDue
    <3> DEFINE e == [kind |-> "probe", at |-> now]
    <3>1. /\ lastClientTime' = Seconds(now)
          /\ clientMissed' = IF clientAliveCountMax > 0 THEN clientMissed + 1 ELSE 0
          /\ sshd' = ~(clientMissed' > clientAliveCountMax)
          /\ toClient' = IF sshd' THEN Append(toClient, e) ELSE toClient
      BY <1>1, <1>8, <2>3 DEF ServerTimesOut, ClientAliveCheck, Sent
    <3>4. clientMissed' \in {0, 1}
      BY <1>1, <1>8, <2>3, ClientKept
    <3>5. toClient' = Append(toClient, e)
      BY <3>1, <1>2
    <3>6. now + 2 * MaxDelay < X' /\ X' \in Int
      <4>1. Seconds(now) \in Nat
        BY <1>3, SecondFacts
      <4>2. /\ Ticks(Seconds(now)) \in Nat /\ Ticks(ClientAliveInterval) \in Nat
            /\ now < Ticks(Seconds(now)) + TicksPerSecond
            /\ Ticks(Seconds(now) + ClientAliveInterval)
                 = Ticks(Seconds(now)) + Ticks(ClientAliveInterval)
        <5>1. Seconds(now) \in Nat /\ ClientAliveInterval \in Nat
          BY <4>1, IntervalAssumption
        <5>2. Ticks(Seconds(now)) \in Nat /\ Ticks(ClientAliveInterval) \in Nat
          BY <5>1, TickFacts
        <5>3. Ticks(Seconds(now) + ClientAliveInterval)
                = Ticks(Seconds(now)) + Ticks(ClientAliveInterval)
          BY <5>1, TickFacts
        <5> QED
          BY <5>2, <5>3, <1>3, SecondFacts
      <4>3. X' = Ticks(Seconds(now)) + Ticks(ClientAliveInterval) + TicksPerSecond
        BY <4>2, <3>1, <1>5
      <4> QED
        BY <4>2, <4>3, <1>3 DEF Patient
    <3>7. /\ Timely(toClient', now)
          /\ Has(toClient, MaxDelay, Y) => Has(toClient', MaxDelay, Y)
          /\ HasProbe(toClient', 2 * MaxDelay, X')
      <4>1. e \in Messages /\ e.at = now /\ e.kind = "probe"
        BY <1>3 DEF Messages
      <4> HIDE DEF e
      <4>2. /\ Timely(Append(toClient, e), now)
            /\ Has(toClient, MaxDelay, Y) => Has(Append(toClient, e), MaxDelay, Y)
            /\ HasProbe(Append(toClient, e), 2 * MaxDelay, X')
        <5>1. Timely(toClient, now)
          BY <1>2
        <5> QED
          BY <3>6, <4>1, <5>1, <1>3, <1>4, Sending
      <4> QED
        BY <3>5, <4>2
    <3>8. /\ ProbeAnswered(clientMissed', X', toClient', toServer)
          /\ ProbeAnswered(serverMissed, Y, toServer, toClient')
      BY <3>4, <3>7, <1>2 DEF ProbeAnswered
    <3> QED
      BY <2>1, <3>5, <3>7, <3>8, <1>2, <1>6
  <2> QED BY <2>2, <2>3
<1>9. CASE ServerSends
  <2> DEFINE e == [kind |-> "data", at |-> now]
  <2>1. /\ now' = now /\ ssh' = ssh /\ sshd' = sshd /\ clientMissed' = clientMissed
        /\ serverMissed' = serverMissed /\ X' = X /\ Y' = Y /\ toServer' = toServer
        /\ toClient' = Append(toClient, e)
    BY <1>9 DEF ServerSends, Sent, clientVars, serverVars, X, Y, ClientDeadline, ServerDeadline
  <2>2. /\ Timely(toClient', now)
        /\ Has(toClient, MaxDelay, Y) => Has(toClient', MaxDelay, Y)
        /\ HasProbe(toClient, 2 * MaxDelay, X) => HasProbe(toClient', 2 * MaxDelay, X)
    <3>1. e \in Messages /\ e.at = now
      BY <1>3 DEF Messages
    <3> HIDE DEF e
    <3> QED
      BY <2>1, <3>1, <1>2, <1>3, <1>4, Sending
  <2>3. /\ ProbeAnswered(clientMissed, X, toClient', toServer)
        /\ ProbeAnswered(serverMissed, Y, toServer, toClient')
    BY <2>2, <1>2 DEF ProbeAnswered
  <2> QED
    BY <2>1, <2>2, <2>3, <1>2, <1>6
<1>10. CASE ClientReads
  <2> DEFINE m == Head(toClient)
             q == Tail(toClient)
  <2>1. /\ now' = now /\ ssh' = ssh /\ sshd' = sshd /\ serverMissed' = 0
        /\ clientMissed' = clientMissed /\ X' = X
        /\ toClient' = q /\ toServer' = Replies(m, toServer) /\ toClient # <<>>
    BY <1>10 DEF ClientReads, serverVars, X, ClientDeadline
  <2>2. /\ Timely(q, now) /\ m \in Messages /\ now <= m.at + MaxDelay
        /\ HasProbe(toClient, 2 * MaxDelay, X) =>
             (m.kind = "probe" /\ m.at + 2 * MaxDelay < X) \/ HasProbe(q, 2 * MaxDelay, X)
    BY <1>2, <1>3, <1>4, <2>1, Reading
  <2>3. m.at \in Nat
    BY <2>2 DEF Messages
  <2>4. /\ Timely(toServer', now)
        /\ Has(toServer, MaxDelay, X) => Has(toServer', MaxDelay, X)
        /\ m.kind = "probe" /\ now + MaxDelay < X => Has(toServer', MaxDelay, X)
    <3>1. CASE m.kind = "probe"
      <4> DEFINE e == [kind |-> "reply", at |-> now]
      <4>1. toServer' = Append(toServer, e)
        BY <2>1, <3>1, <1>1 DEF Replies, Sent
      <4>2. e \in Messages /\ e.at = now
        BY <1>3 DEF Messages
      <4> HIDE DEF e
      <4>3. /\ Timely(Append(toServer, e), now)
            /\ Has(toServer, MaxDelay, X) => Has(Append(toServer, e), MaxDelay, X)
            /\ now + MaxDelay < X => Has(Append(toServer, e), MaxDelay, X)
        <5>1. Timely(toServer, now)
          BY <1>2
        <5> QED
          BY <4>2, <5>1, <1>3, <1>4, Sending
      <4> QED
        BY <4>1, <4>3
    <3>2. CASE m.kind # "probe"
      BY <2>1, <3>2, <1>2 DEF Replies
    <3> QED BY <3>1, <3>2
  <2> HIDE DEF m, q
  <2>5. ProbeAnswered(clientMissed, X, q, toServer')
    <3>1. m.kind = "probe" /\ m.at + 2 * MaxDelay < X => now + MaxDelay < X
      BY <2>2, <2>3, <1>3, <1>4
    <3> QED
      BY <3>1, <2>2, <2>4, <1>2 DEF ProbeAnswered
  <2>6. ProbeAnswered(0, Y', toServer', q)
    BY DEF ProbeAnswered
  <2> QED
    BY <2>1, <2>2, <2>4, <2>5, <2>6, <1>2, <1>6
<1>11. CASE ServerAliveCheck
  <2> DEFINE e == [kind |-> "probe", at |-> now]
  <2>1. /\ now' = now /\ sshd' = sshd /\ clientMissed' = clientMissed /\ X' = X
        /\ toClient' = toClient /\ serverMissed' = serverMissed + 1
        /\ Seconds(now) >= serverAliveTime
        /\ ~(serverMissed' > serverAliveCountMax) =>
             /\ toServer' = Append(toServer, e) /\ ssh' = ssh
             /\ serverAliveTime' = Seconds(now) + ServerAliveInterval
    BY <1>1, <1>11 DEF ServerAliveCheck, serverVars, Sent, X, ClientDeadline
  <2>2. /\ Seconds(now) \in Nat /\ Ticks(Seconds(now)) <= now
        /\ now < Ticks(Seconds(now)) + TicksPerSecond
    BY <1>3, SecondFacts
  <2>3. /\ Ticks(Seconds(now)) \in Nat /\ Ticks(ServerAliveInterval) \in Nat
        /\ Ticks(Seconds(now) + ServerAliveInterval)
             = Ticks(Seconds(now)) + Ticks(ServerAliveInterval)
    <3>1. Seconds(now) \in Nat /\ ServerAliveInterval \in Nat
      BY <2>2, IntervalAssumption
    <3>2. Ticks(Seconds(now)) \in Nat /\ Ticks(ServerAliveInterval) \in Nat
      BY <3>1, TickFacts
    <3>3. Ticks(Seconds(now) + ServerAliveInterval)
            = Ticks(Seconds(now)) + Ticks(ServerAliveInterval)
      BY <3>1, TickFacts
    <3> QED
      BY <3>2, <3>3
  <2>6. serverMissed' = 1 /\ ~(serverMissed' > serverAliveCountMax)
    <3>1. serverMissed = 0
      BY <1>1, <1>11, ServerKept
    <3>2. ~(serverMissed' > serverAliveCountMax)
      BY <1>2, <1>11 DEF ServerAliveCheck
    <3> QED
      BY <2>1, <3>1, <3>2
  <2>7. now + 2 * MaxDelay < Y' /\ Y' \in Int
    <3>1. Y' = Ticks(Seconds(now)) + Ticks(ServerAliveInterval)
      BY <2>1, <2>3, <2>6, <1>5
    <3> QED
      BY <3>1, <2>2, <2>3, <1>3 DEF Patient
  <2>8. /\ Timely(toServer', now)
        /\ Has(toServer, MaxDelay, X) => Has(toServer', MaxDelay, X)
        /\ HasProbe(toServer', 2 * MaxDelay, Y')
    <3>1. e \in Messages /\ e.at = now /\ e.kind = "probe"
      BY <1>3 DEF Messages
    <3> HIDE DEF e
    <3>2. /\ Timely(Append(toServer, e), now)
          /\ Has(toServer, MaxDelay, X) => Has(Append(toServer, e), MaxDelay, X)
          /\ HasProbe(Append(toServer, e), 2 * MaxDelay, Y')
      <4>1. Timely(toServer, now)
        BY <1>2
      <4>2. /\ Timely(Append(toServer, e), now)
            /\ Has(toServer, MaxDelay, X) => Has(Append(toServer, e), MaxDelay, X)
        BY <3>1, <4>1, <1>3, <1>4, Sending
      <4>3. HasProbe(Append(toServer, e), 2 * MaxDelay, Y')
        <5>1. \A x \in Int :
                now + 2 * MaxDelay < x => HasProbe(Append(toServer, e), 2 * MaxDelay, x)
          <6> DEFINE d == 2 * MaxDelay
          <6>1. d \in Int
            BY <1>3
          <6> HIDE DEF d
          <6>2. \A x \in Int : now + d < x => HasProbe(Append(toServer, e), d, x)
            BY <3>1, <4>1, <6>1, <1>3, Sending
          <6> QED
            BY <6>2 DEF d
        <5> QED
          BY <5>1, <2>7
      <4> QED
        BY <4>2, <4>3
    <3> QED
      BY <2>1, <2>6, <3>2
  <2>9. /\ ProbeAnswered(clientMissed, X, toClient, toServer')
        /\ ProbeAnswered(serverMissed', Y', toServer', toClient)
    BY <2>6, <2>8, <1>2 DEF ProbeAnswered
  <2>10. ssh' = ssh
    BY <2>1, <2>6
  <2> QED
    BY <2>1, <2>8, <2>9, <2>10, <1>2, <1>6
<1>12. CASE ClientSends
  <2> DEFINE e == [kind |-> "data", at |-> now]
  <2>1. /\ now' = now /\ ssh' = ssh /\ sshd' = sshd /\ clientMissed' = clientMissed
        /\ serverMissed' = serverMissed /\ X' = X /\ Y' = Y /\ toClient' = toClient
        /\ toServer' = Append(toServer, e)
    BY <1>12 DEF ClientSends, Sent, clientVars, serverVars, X, Y, ClientDeadline, ServerDeadline
  <2>2. /\ Timely(toServer', now)
        /\ Has(toServer, MaxDelay, X) => Has(toServer', MaxDelay, X)
        /\ HasProbe(toServer, 2 * MaxDelay, Y) => HasProbe(toServer', 2 * MaxDelay, Y)
    <3>1. e \in Messages /\ e.at = now
      BY <1>3 DEF Messages
    <3> HIDE DEF e
    <3> QED
      BY <2>1, <3>1, <1>2, <1>3, <1>4, Sending
  <2>3. /\ ProbeAnswered(clientMissed, X, toClient, toServer')
        /\ ProbeAnswered(serverMissed, Y, toServer', toClient)
    BY <2>2, <1>2 DEF ProbeAnswered
  <2> QED
    BY <2>1, <2>2, <2>3, <1>2, <1>6
<1>13. CASE Tick
  <2>1. /\ now' = now + 1 /\ ssh' = ssh /\ sshd' = sshd /\ clientMissed' = clientMissed
        /\ serverMissed' = serverMissed /\ X' = X /\ Y' = Y
        /\ toClient' = toClient /\ toServer' = toServer
        /\ ~Overdue(toServer) /\ ~Overdue(toClient)
    BY <1>2, <1>13 DEF Tick, clientVars, serverVars, X, Y, ClientDeadline, ServerDeadline
  <2>2. Timely(toServer, now + 1) /\ Timely(toClient, now + 1)
    BY <2>1, <1>2, <1>3, Waiting DEF Overdue
  <2> QED
    BY <2>1, <2>2, <1>2, <1>6
<1>14. CASE UNCHANGED <<now, toServer, toClient, ssh, sshd, clientMissed, serverMissed,
                        lastClientTime, serverAliveTime>>
  <2>1. X' = X /\ Y' = Y
    BY <1>14 DEF X, Y, ClientDeadline, ServerDeadline
  <2> QED
    BY <2>1, <1>2, <1>6, <1>14
<1> QED
  BY <1>1, <1>7, <1>8, <1>9, <1>10, <1>11, <1>12, <1>13, <1>14
     DEF Next, ServerWakes, Cut, vars, serverVars, clientVars

(* While the link is up neither end takes the other for dead, however      *)
(* little is sent and whatever the counts are (serverloop.c,               *)
(* client_alive_check; clientloop.c, server_alive_check), if a probe and   *)
(* its reply fit into an interval.  With a count of 0 ssh leaves a server  *)
(* that answers, but only after it has heard nothing for its interval.     *)
THEOREM NobodyGivenUp ==
    ASSUME Patient PROVE Spec => NoFalseTimeout
<1>1. ASSUME TypeInv, Reached, Rested, Next, link = "up", ssh, sshd
      PROVE  /\ sshd'
             /\ ~ssh' => /\ serverAliveCountMax = 0
                         /\ now - serverHeard > Ticks(ServerAliveInterval) - TicksPerSecond
  <2>1. sshd'
    <3>1. CASE ServerTimesOut
      <4>1. CASE ProbeDue
        BY <1>1, <3>1, <4>1, ClientKept
      <4>2. CASE ~ProbeDue
        BY <1>1, <3>1, <4>2 DEF ServerTimesOut
      <4> QED BY <4>1, <4>2
    <3> QED
      BY <1>1, <3>1 DEF Next, ServerReads, ServerWakes, ServerSends, ClientReads,
                        ServerAliveCheck, ClientSends, Cut, Tick, serverVars
  <2>2. ASSUME ~ssh'
        PROVE  /\ serverAliveCountMax = 0
               /\ now - serverHeard > Ticks(ServerAliveInterval) - TicksPerSecond
    <3>1. ServerAliveCheck
      BY <1>1, <2>2 DEF Next, ServerReads, ServerWakes, ServerTimesOut, ServerSends,
                        ClientReads, ClientSends, Cut, Tick, clientVars
    <3>2. serverMissed = 0
      BY <1>1, <3>1, ServerKept
    <3>3. serverMissed' > serverAliveCountMax /\ serverMissed' = serverMissed + 1
      BY <1>1, <2>2, <3>1 DEF ServerAliveCheck
    <3>4. /\ now \in Nat /\ serverHeard \in Nat /\ serverAliveCountMax \in Nat
          /\ serverAliveTime = Seconds(serverHeard) + ServerAliveInterval
          /\ Seconds(now) >= serverAliveTime /\ ServerAliveInterval \in Nat
          /\ TicksPerSecond \in Nat
      BY <1>1, <3>1, <3>2, IntervalAssumption DEF TypeInv, TypeOK, Rested, ServerAliveCheck
    <3>5. serverAliveCountMax = 0
      BY <3>2, <3>3, <3>4
    <3>6. /\ Seconds(now) \in Nat /\ Ticks(Seconds(now)) <= now
          /\ Seconds(serverHeard) \in Nat
          /\ serverHeard < Ticks(Seconds(serverHeard)) + TicksPerSecond
      BY <3>4, SecondFacts
    <3>7. /\ Ticks(Seconds(serverHeard)) \in Nat /\ Ticks(ServerAliveInterval) \in Nat
          /\ Ticks(Seconds(now)) \in Nat
      BY <3>4, <3>6, TickFacts
    <3>8. Ticks(Seconds(serverHeard)) + Ticks(ServerAliveInterval) <= Ticks(Seconds(now))
      <4>1. Ticks(Seconds(serverHeard) + ServerAliveInterval)
              = Ticks(Seconds(serverHeard)) + Ticks(ServerAliveInterval)
        BY <3>4, <3>6, TickFacts
      <4>2. Ticks(Seconds(serverHeard) + ServerAliveInterval) <= Ticks(Seconds(now))
        BY <3>4, <3>6, TicksOrdered
      <4> QED
        BY <4>1, <4>2
    <3> QED
      BY <3>4, <3>5, <3>6, <3>7, <3>8
  <2> QED
    BY <2>1, <2>2
<1>2. TypeInv /\ Reached /\ Rested /\ [Next]_vars =>
        [link = "up" /\ ssh /\ sshd =>
            /\ sshd'
            /\ ~ssh' => /\ serverAliveCountMax = 0
                        /\ now - serverHeard > Ticks(ServerAliveInterval) - TicksPerSecond]_vars
  BY <1>1
<1>3. TypeInv /\ Reached /\ [Next]_vars => Reached'
  BY ReachedStep
<1> QED
  BY <1>2, <1>3, TypeStart, TypeStep, ReachedStart, RestedStep, PTL DEF Spec, NoFalseTimeout
=============================================================================
