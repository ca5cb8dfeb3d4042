--------------------------- MODULE ChannelProofs ---------------------------
(***************************************************************************)
(* No message is ever on its way to a channel that has been freed, for all *)
(* windows, packet sizes and applications.  How much is sent, and which    *)
(* bytes, is the subject of ChannelRefinements, which builds on this.      *)
(***************************************************************************)
EXTENDS Channel, SequenceTheorems, TLAPS

MessageSet ==
    [kind : {"open", "confirm", "failure", "eof", "close"}]
        \union [kind : {"data"}, bytes : Seq(Nat)] \union [kind : {"adjust"}, n : Nat]

Types == {"none", "opening", "connecting", "open", "zombie", "freed"}

ChannelSet ==
    [type : Types, istate : Stage, ostate : Stage,
     flags : SUBSET {"eofSent", "eofRcvd", "closeSent", "closeRcvd"},
     input : Seq(Nat), output : Seq(Nat),
     lwin : Int, consumed : Nat, rwin : Nat, sends : Seq(MessageSet)]

(* An end that has sent its CLOSE, and one that has received the other's.  *)
Closed(c) == c.type = "freed" \/ "closeSent" \in c.flags

Received(c) == c.type = "freed" \/ "closeRcvd" \in c.flags

(* What an end may send once its channel is open: only the last message of *)
(* one that has closed is CLOSE.                                           *)
Traffic(s, last) ==
    \A i \in 1..Len(s) :
        \/ s[i].kind \in {"data", "adjust", "eof"}
        \/ last /\ i = Len(s) /\ s[i].kind = "close"

(* Flags are for channels that are open, and CLOSE ends both directions.   *)
Regular(c) ==
    /\ c \in ChannelSet
    /\ c.type # "open" => c.flags = {} /\ c.istate = "open"
    /\ "closeSent" \in c.flags => c.istate = "closed" /\ c.ostate = "closed"

Live(c) == Regular(c) /\ c.type = "open" /\ Traffic(c.sends, Closed(c))

(* What a handler may make of a live channel c.                            *)
Allowed(c, d) ==
    /\ Regular(d) /\ Traffic(d.sends, Closed(d))
    /\ Closed(c) => Closed(d) /\ d.sends = c.sends

Turns(c, d) ==
    /\ Allowed(c, d)
    /\ d.type = "open"
    /\ "closeRcvd" \in d.flags <=> "closeRcvd" \in c.flags
(* The turn may end with the channel collected.                            *)
Ends(c, d) ==
    /\ Allowed(c, d)
    /\ d.type \in {"open", "freed"}
    /\ Received(d) <=> Received(c)

-----------------------------------------------------------------------------
(* The inductive invariant: where the two ends are in their handshake, and *)
(* from then on, what each direction may still carry.                      *)
StateTypes ==
    /\ ch \in [Peers -> ChannelSet]
    /\ queue \in [Peers -> Seq(MessageSet)]
    /\ nread \in [Peers -> Nat]
    /\ \A x \in Peers : Regular(ch[x]) /\ ch[x].sends = <<>>

Idle ==
    /\ ch[Opener].type = "none" /\ ch[Acceptor].type = "none"
    /\ queue[Opener] = <<>> /\ queue[Acceptor] = <<>>

Asked ==
    /\ ch[Opener].type = "opening" /\ ch[Acceptor].type = "none"
    /\ queue[Opener] = <<>> /\ queue[Acceptor] = <<Message("open")>>

Connecting ==
    /\ ch[Opener].type = "opening" /\ ch[Acceptor].type = "connecting"
    /\ queue[Opener] = <<>> /\ queue[Acceptor] = <<>>

Confirmed ==
    /\ ch[Opener].type = "opening" /\ ch[Acceptor].type = "open"
    /\ ~ Received(ch[Acceptor])
    /\ \E q \in Seq(MessageSet) :
         queue[Opener] = <<Message("confirm")>> \o q /\ Traffic(q, Closed(ch[Acceptor]))
    /\ queue[Acceptor] = <<>>

Refused ==
    /\ ch[Opener].type = "opening" /\ ch[Acceptor].type = "freed"
    /\ queue[Opener] = <<Message("failure")>> /\ queue[Acceptor] = <<>>

Released ==
    /\ ch[Opener].type = "zombie" /\ ch[Acceptor].type = "freed"
    /\ queue[Opener] = <<>> /\ queue[Acceptor] = <<>>

(* The direction that ends in x: after its CLOSE nothing comes.            *)
Direction(x) ==
    /\ Traffic(queue[x], Closed(ch[Peer(x)]))
    /\ Received(ch[x]) => Closed(ch[Peer(x)]) /\ queue[x] = <<>>

Established ==
    \A x \in Peers : ch[x].type \in {"open", "freed"} /\ Direction(x)

IInv ==
    /\ StateTypes
    /\ Idle \/ Asked \/ Connecting \/ Confirmed \/ Refused \/ Released \/ Established
-----------------------------------------------------------------------------
(* Messages and channels.                                                  *)

(* A message is one of these, and its kind says which.                     *)
LEMMA MessageTypes ==
    /\ \A k \in {"open", "confirm", "failure", "eof", "close"} :
         Message(k) \in MessageSet /\ Message(k).kind = k
    /\ \A b \in Seq(Nat) : Data(b) \in MessageSet /\ Data(b).kind = "data"
    /\ \A n \in Nat : Adjust(n) \in MessageSet /\ Adjust(n).kind = "adjust"
    /\ \A m \in MessageSet : m.kind = "data" => m.bytes \in Seq(Nat)
    /\ \A m \in MessageSet : m.kind = "adjust" => m.n \in Nat
  BY DEF MessageSet, Message, Data, Adjust

LEMMA NewTypes ==
    ASSUME NEW t \in Types
    PROVE  /\ NewChannel(t) \in ChannelSet
           /\ NewChannel(t).type = t /\ NewChannel(t).flags = {}
           /\ NewChannel(t).istate = "open" /\ NewChannel(t).ostate = "open"
           /\ NewChannel(t).sends = <<>>
  BY SizeAssumption DEF NewChannel, ChannelSet, Types, Stage

LEMMA SendEffect ==
    ASSUME NEW c \in ChannelSet, NEW m \in MessageSet
    PROVE  /\ Send(c, m) \in ChannelSet
           /\ \A f \in {"type", "istate", "ostate", "flags", "input", "output", "lwin", "rwin"} :
                Send(c, m)[f] = c[f]
           /\ Send(c, m).sends = Append(c.sends, m)
  <1> DEFINE s == Append(c.sends, m)
  <1>1. s \in Seq(MessageSet)
    BY DEF ChannelSet
  <1> HIDE DEF s
  <1>2. [c EXCEPT !.sends = s] \in ChannelSet
    BY <1>1 DEF ChannelSet
  <1>3. /\ [c EXCEPT !.sends = s].sends = s
        /\ \A f \in {"type", "istate", "ostate", "flags", "input", "output", "lwin", "rwin"} :
             [c EXCEPT !.sends = s][f] = c[f]
    BY DEF ChannelSet
  <1>4. Send(c, m) = [c EXCEPT !.sends = s]
    BY DEF Send, s
  <1> QED BY <1>2, <1>3, <1>4 DEF s

LEMMA FlagEffect ==
    ASSUME NEW c \in ChannelSet, NEW f \in {"eofSent", "eofRcvd", "closeSent", "closeRcvd"}
    PROVE  /\ Flag(c, f) \in ChannelSet
           /\ \A g \in {"type", "istate", "ostate", "input", "output", "sends"} :
                Flag(c, f)[g] = c[g]
           /\ Flag(c, f).flags = c.flags \union {f}
  BY DEF Flag, ChannelSet

(* The next message of a channel that has not closed, and the last one.    *)
LEMMA TrafficGrows ==
    ASSUME NEW s \in Seq(MessageSet), NEW m \in MessageSet, Traffic(s, FALSE)
    PROVE  /\ m.kind \in {"data", "adjust", "eof"} => Traffic(Append(s, m), FALSE)
           /\ m.kind = "close" => Traffic(Append(s, m), TRUE)
  BY DEF Traffic

LEMMA TrafficWeakens ==
    ASSUME NEW s, NEW last \in BOOLEAN, Traffic(s, FALSE)
    PROVE  Traffic(s, last)
  BY DEF Traffic

(* CLOSE is the last message in the queue, too.                            *)
LEMMA TrafficJoins ==
    ASSUME NEW q \in Seq(MessageSet), NEW s \in Seq(MessageSet), NEW last \in BOOLEAN,
           Traffic(q, FALSE), Traffic(s, last)
    PROVE  q \o s \in Seq(MessageSet) /\ Traffic(q \o s, last)
  <1>1. /\ q \o s \in Seq(MessageSet)
        /\ Len(q \o s) = Len(q) + Len(s)
        /\ \A i \in 1..(Len(q) + Len(s)) :
             (q \o s)[i] = IF i <= Len(q) THEN q[i] ELSE s[i - Len(q)]
    BY ConcatProperties
  <1>2. Len(q) \in Nat /\ Len(s) \in Nat
    BY LenProperties
  <1> QED BY <1>1, <1>2 DEF Traffic

LEMMA TrafficShrinks ==
    ASSUME NEW q \in Seq(MessageSet), NEW last \in BOOLEAN, q # <<>>, Traffic(q, last)
    PROVE  /\ Head(q) \in MessageSet
           /\ Tail(q) \in Seq(MessageSet) /\ Traffic(Tail(q), last)
           /\ Head(q).kind \in {"data", "adjust", "eof", "close"}
           /\ Head(q).kind = "close" => Tail(q) = <<>> /\ last
  <1> DEFINE h == Head(q)
             t == Tail(q)
  <1>1. /\ h \in MessageSet /\ t \in Seq(MessageSet)
        /\ Len(t) = Len(q) - 1
        /\ \A i \in 1..Len(t) : t[i] = q[i + 1]
    BY HeadTailProperties
  <1>2. h = q[1]
    OBVIOUS
  <1>3. Len(q) \in Nat \ {0} /\ (Len(t) = 0 => t = <<>>)
    BY <1>1, EmptySeq
  <1> HIDE DEF h, t
  <1>4. Traffic(t, last)
    <2> SUFFICES ASSUME NEW i \in 1..Len(t)
                 PROVE  \/ t[i].kind \in {"data", "adjust", "eof"}
                        \/ last /\ i = Len(t) /\ t[i].kind = "close"
      BY DEF Traffic
    <2>1. i + 1 \in 1..Len(q) /\ (i + 1 = Len(q) => i = Len(t))
      BY <1>1, <1>3
    <2>2. \/ q[i + 1].kind \in {"data", "adjust", "eof"}
          \/ last /\ i + 1 = Len(q) /\ q[i + 1].kind = "close"
      BY <2>1, Zenon DEF Traffic
    <2>3. t[i] = q[i + 1]
      BY <1>1
    <2> QED BY <2>1, <2>2, <2>3, Zenon
  <1>5. \/ h.kind \in {"data", "adjust", "eof"}
        \/ last /\ 1 = Len(q) /\ h.kind = "close"
    <2>1. 1 \in 1..Len(q)
      BY <1>3
    <2> QED BY <2>1, <1>2, Zenon DEF Traffic
  <1>6. Len(q) = 1 => t = <<>>
    BY <1>1, <1>3
  <1> QED BY <1>1, <1>4, <1>5, <1>6, Zenon DEF h, t
-----------------------------------------------------------------------------
(* The functions of nchan.c and channels.c, on a live channel.             *)

LEMMA TurnsCompose ==
    ASSUME NEW c, NEW d, NEW e, Turns(c, d), Turns(d, e)
    PROVE  Turns(c, e)
  BY DEF Turns, Allowed

LEMMA TurnsLive ==
    ASSUME NEW c, NEW d, Turns(c, d)
    PROVE  Live(d)
  BY DEF Turns, Allowed, Live

(* Whatever changes neither the flags nor what is sent.                    *)
LEMMA Silent ==
    ASSUME NEW c, Live(c), NEW d \in ChannelSet,
           d.type = c.type, d.flags = c.flags, d.sends = c.sends,
           Closed(c) => d.istate = c.istate /\ d.ostate = c.ostate
    PROVE  Turns(c, d)
  BY DEF Live, Regular, Turns, Allowed, Closed

(* What one that has not closed sends.                                     *)
LEMMA Sends ==
    ASSUME NEW c, Live(c), ~Closed(c), NEW m \in MessageSet,
           m.kind \in {"data", "adjust", "eof"}
    PROVE  Turns(c, Send(c, m))
  <1>1. Traffic(Append(c.sends, m), FALSE)
    <2>1. c.sends \in Seq(MessageSet)
      BY DEF Live, Regular, ChannelSet
    <2>2. Traffic(c.sends, FALSE)
      BY Zenon DEF Live, Traffic
    <2> QED BY <2>1, <2>2, TrafficGrows, Zenon
  <1>2. /\ Send(c, m) \in ChannelSet
        /\ Send(c, m).type = c.type /\ Send(c, m).flags = c.flags
        /\ Send(c, m).sends = Append(c.sends, m)
    BY SendEffect DEF Live, Regular
  <1> QED BY <1>1, <1>2 DEF Live, Regular, Turns, Allowed, Closed

LEMMA SendEofTurns ==
    ASSUME NEW c, Live(c), ~Closed(c)
    PROVE  Turns(c, SendEof(c))
  <1> DEFINE d == Send(c, Message("eof"))
  <1>1. Turns(c, d)
    BY Sends, MessageTypes
  <1>2. Live(d) /\ d \in ChannelSet
    BY <1>1, TurnsLive DEF Live, Regular
  <1> HIDE DEF d
  <1>3. Turns(d, Flag(d, "eofSent"))
    BY <1>2, FlagEffect DEF Live, Regular, Turns, Allowed, Closed
  <1>4. SendEof(c) = Flag(d, "eofSent")
    BY DEF SendEof, d
  <1> QED BY <1>1, <1>3, <1>4, TurnsCompose

LEMMA LeastOfThree ==
    ASSUME NEW a \in Nat, NEW b \in Nat, NEW c \in Nat
    PROVE  Min({a, b, c}) \in Nat /\ Min({a, b, c}) <= a /\ Min({a, b, c}) <= b
  <1>1. \E m \in {a, b, c} : \A k \in {a, b, c} : m <= k
    <2>1. CASE a <= b /\ a <= c  BY <2>1
    <2>2. CASE b <= a /\ b <= c  BY <2>2
    <2>3. CASE c <= a /\ c <= b  BY <2>3
    <2> QED BY <2>1, <2>2, <2>3
  <1>2. Min({a, b, c}) \in {a, b, c} /\ \A k \in {a, b, c} : Min({a, b, c}) <= k
    BY <1>1, Zenon DEF Min
  <1> QED BY <1>2

(* A part of a sequence of bytes.                                          *)
LEMMA Parts ==
    ASSUME NEW s \in Seq(Nat), NEW n \in 0..Len(s)
    PROVE  SubSeq(s, 1, n) \in Seq(Nat) /\ SubSeq(s, n + 1, Len(s)) \in Seq(Nat)
  <1>1. Len(s) \in Nat /\ \A i \in 1..Len(s) : s[i] \in Nat
    BY LenProperties, ElementOfSeq
  <1>2. \A i \in 1..n : s[i] \in Nat
    BY <1>1
  <1>3. \A i \in (n + 1)..Len(s) : s[i] \in Nat
    BY <1>1
  <1>4. n \in Int /\ n + 1 \in Int /\ Len(s) \in Int
    BY <1>1
  <1>5. SubSeq(s, 1, n) \in Seq(Nat)
    BY <1>2, <1>4, SubSeqProperties
  <1>6. SubSeq(s, n + 1, Len(s)) \in Seq(Nat)
    BY <1>3, <1>4, SubSeqProperties
  <1> QED BY <1>5, <1>6

LEMMA SendInputTurns ==
    ASSUME NEW c, Live(c), ~Closed(c)
    PROVE  Turns(c, SendInput(c))
  <1> DEFINE n == Min({Len(c.input), c.rwin, MaxPacket})
             m == Data(SubSeq(c.input, 1, n))
             d == Send(c, m)
             e == [d EXCEPT !.input = SubSeq(d.input, n + 1, Len(d.input)), !.rwin = d.rwin - n]
  <1>1. /\ c \in ChannelSet /\ c.input \in Seq(Nat) /\ c.rwin \in Nat
        /\ Len(c.input) \in Nat /\ MaxPacket \in Nat
    BY SizeAssumption DEF Live, Regular, ChannelSet
  <1>2. n \in Nat /\ n <= Len(c.input) /\ n <= c.rwin
    BY <1>1, LeastOfThree, Zenon
  <1> HIDE DEF n
  <1>3. m \in MessageSet /\ m.kind = "data"
    <2>1. n \in 0..Len(c.input)
      BY <1>1, <1>2
    <2> QED BY <1>1, <2>1, Parts, MessageTypes
  <1> HIDE DEF m
  <1>4. Turns(c, d)
    BY <1>3, Sends
  <1>5. d \in ChannelSet /\ d.input = c.input /\ d.rwin = c.rwin
    BY <1>1, <1>3, SendEffect
  <1> HIDE DEF d
  <1>6. SubSeq(d.input, n + 1, Len(d.input)) \in Seq(Nat) /\ d.rwin - n \in Nat
    BY <1>1, <1>2, <1>5, Parts
  <1>7. /\ e \in ChannelSet
        /\ e.type = d.type /\ e.flags = d.flags /\ e.sends = d.sends
        /\ e.istate = d.istate /\ e.ostate = d.ostate
    BY <1>5, <1>6 DEF ChannelSet
  <1> HIDE DEF e
  <1>8. Turns(d, e)
    BY <1>4, <1>7, TurnsLive, Silent
  <1>9. Turns(c, c)
    BY <1>1, Silent
  <1>10. SendInput(c) = IF n = 0 THEN c ELSE e
    BY DEF SendInput, n, m, d, e
  <1> QED BY <1>4, <1>8, <1>9, <1>10, TurnsCompose

LEMMA InputEmptyTurns ==
    ASSUME NEW c, Live(c), ~Closed(c)
    PROVE  Turns(c, InputEmpty(c))
  <1> DEFINE d == SendEof(c)
             e == [d EXCEPT !.istate = "closed"]
  <1>1. Turns(c, d)
    BY SendEofTurns
  <1>2. Live(d) /\ d \in ChannelSet
    BY <1>1, TurnsLive DEF Live, Regular
  <1> HIDE DEF d
  <1>3. Turns(d, e)
    BY <1>2 DEF Live, Regular, Turns, Allowed, Closed, ChannelSet, Stage
  <1>4. InputEmpty(c) = e
    BY DEF InputEmpty, Closed, d
  <1> QED BY <1>1, <1>3, <1>4, TurnsCompose

LEMMA OutputPollTurns ==
    ASSUME NEW c, Live(c)
    PROVE  Turns(c, OutputPoll(c))
  <1>1. Turns(c, c)
    BY Silent DEF Live, Regular
  <1>2. ~Closing(c) => ~Closed(c)
    BY DEF Live, Closing, Closed
  <1> QED BY <1>1, <1>2, SendInputTurns, InputEmptyTurns DEF OutputPoll

LEMMA OutputEmptyTurns ==
    ASSUME NEW c, Live(c)
    PROVE  Turns(c, OutputEmpty(c))
  BY DEF OutputEmpty, Live, Regular, Turns, Allowed, Closed, ChannelSet, Stage

LEMMA PreTurns ==
    ASSUME NEW c, Live(c)
    PROVE  Turns(c, Pre(c))
  BY OutputEmptyTurns, Silent DEF Pre, Live, Regular

LEMMA CheckWindowTurns ==
    ASSUME NEW c, Live(c)
    PROVE  Turns(c, CheckWindow(c))
  <1> DEFINE d == Send(c, Adjust(c.consumed))
             v == d.lwin + c.consumed
             e == [d EXCEPT !.lwin = v, !.consumed = 0]
  <1>1. c \in ChannelSet /\ c.consumed \in Nat
    BY DEF Live, Regular, ChannelSet
  <1>2. ~Closing(c) => Turns(c, d)
    BY <1>1, Sends, MessageTypes DEF Live, Closing, Closed
  <1>3. d \in ChannelSet
    BY <1>1, SendEffect, MessageTypes
  <1> HIDE DEF d
  <1>4. /\ e \in ChannelSet
        /\ e.type = d.type /\ e.flags = d.flags /\ e.sends = d.sends
        /\ e.istate = d.istate /\ e.ostate = d.ostate
    <2>1. v \in Int
      BY <1>1, <1>3 DEF ChannelSet
    <2> HIDE DEF v
    <2> QED BY <1>3, <2>1 DEF ChannelSet
  <1> HIDE DEF e
  <1>5. ~Closing(c) => Turns(c, e)
    BY <1>2, <1>4, TurnsLive, Silent, TurnsCompose
  <1>6. (CheckWindow(c) = e /\ ~Closing(c)) \/ CheckWindow(c) = c
    BY DEF CheckWindow, d, e, v
  <1>7. Turns(c, c)
    BY <1>1, Silent
  <1> QED BY <1>5, <1>6, <1>7

LEMMA HandleReadTurns ==
    ASSUME NEW x \in Peers, Live(ch[x]), nread[x] \in Nat, NEW n \in Nat
    PROVE  /\ Turns(ch[x], HandleRead(x, ch[x], n))
           /\ HandleRead(x, ch[x], n).output = ch[x].output
  <1> DEFINE c == ch[x]
             new == [i \in 1..n |-> nread[x] + i]
             d == [c EXCEPT !.input = c.input \o new]
  <1>1. c \in ChannelSet /\ c.input \in Seq(Nat)
    BY DEF Live, Regular, ChannelSet
  <1>2. new \in Seq(Nat)
    <2>1. \A i \in 1..n : nread[x] + i \in Nat
      OBVIOUS
    <2> QED BY <2>1
  <1>3. Ending(x) => Turns(c, ReadFailed(c)) /\ ReadFailed(c).output = c.output
    BY <1>1 DEF Ending, WantsRead, ReadFailed, Live, Regular, Turns, Allowed, Closed,
                ChannelSet, Stage
  <1>4. c.input \o new \in Seq(Nat)
    BY <1>1, <1>2, ConcatProperties
  <1>5. Turns(c, d) /\ d.output = c.output
    <2> DEFINE b == c.input \o new
    <2>1. b \in Seq(Nat)
      BY <1>4
    <2> HIDE DEF b
    <2>2. LET e == [c EXCEPT !.input = b]
          IN  /\ e \in ChannelSet /\ e.type = c.type /\ e.flags = c.flags /\ e.sends = c.sends
              /\ e.istate = c.istate /\ e.ostate = c.ostate /\ e.output = c.output
      BY <1>1, <2>1 DEF ChannelSet
    <2>3. /\ d \in ChannelSet /\ d.type = c.type /\ d.flags = c.flags /\ d.sends = c.sends
          /\ d.istate = c.istate /\ d.ostate = c.ostate /\ d.output = c.output
      BY <2>2, Zenon DEF b
    <2> HIDE DEF d
    <2> QED BY <2>3, Silent
  <1> QED BY <1>3, <1>5 DEF HandleRead

LEMMA HandleWriteTurns ==
    ASSUME NEW x \in Peers, NEW c, Live(c), NEW n \in 0..Len(c.output)
    PROVE  Turns(c, HandleWrite(x, c, n))
  <1> DEFINE left == SubSeq(c.output, n + 1, Len(c.output))
             total == c.consumed + n
             d == [c EXCEPT !.output = left, !.consumed = total]
  <1>1. c \in ChannelSet /\ c.output \in Seq(Nat) /\ c.consumed \in Nat
    BY DEF Live, Regular, ChannelSet
  <1>2. left \in Seq(Nat)
    BY <1>1, Parts
  <1>3. total \in Nat
    BY <1>1, LenProperties
  <1>4. WantsWrite(c) => Turns(c, WriteFailed(c))
    <2> DEFINE w == WriteFailed(c)
    <2>1. <<>> \in Seq(Nat)
      OBVIOUS
    <2>2. /\ w \in ChannelSet /\ w.type = c.type /\ w.flags = c.flags
          /\ w.sends = c.sends
      BY <1>1, <2>1 DEF WriteFailed, ChannelSet, Stage
    <2>3. WantsWrite(c) => ~Closed(c)
      BY DEF WantsWrite, Live, Regular, Closed
    <2> HIDE DEF w
    <2>4. WantsWrite(c) => Turns(c, w)
      BY <2>2, <2>3, Silent
    <2> QED BY <2>4 DEF w
  <1>5. HandleWrite(x, c, n) = IF WantsWrite(c) /\ app[x] = "reset" THEN WriteFailed(c) ELSE d
    BY DEF HandleWrite
  <1> HIDE DEF left, total
  <1>6. /\ d \in ChannelSet /\ d.type = c.type /\ d.flags = c.flags /\ d.sends = c.sends
        /\ d.istate = c.istate /\ d.ostate = c.ostate
    BY <1>1, <1>2, <1>3 DEF ChannelSet
  <1> HIDE DEF d
  <1>7. Turns(c, d)
    BY <1>6, Silent
  <1> QED BY <1>4, <1>5, <1>7

LEMMA RcvdDataTurns ==
    ASSUME NEW c, Live(c), NEW bytes \in Seq(Nat)
    PROVE  Turns(c, RcvdData(c, bytes))
  <1> DEFINE n == Len(bytes)
             window == c.lwin - n
             total == c.consumed + n
             more == c.output \o bytes
             d == [c EXCEPT !.lwin = window, !.consumed = total]
             e == [c EXCEPT !.lwin = window, !.output = more]
  <1>1. /\ c \in ChannelSet /\ c.lwin \in Int /\ c.consumed \in Nat
        /\ c.output \in Seq(Nat) /\ n \in Nat
    BY LenProperties DEF Live, Regular, ChannelSet
  <1>2. window \in Int /\ total \in Nat
    BY <1>1
  <1>3. more \in Seq(Nat)
    BY <1>1, ConcatProperties
  <1>4. RcvdData(c, bytes) = c \/ RcvdData(c, bytes) = d \/ RcvdData(c, bytes) = e
    BY DEF RcvdData, Live
  <1> HIDE DEF window, total, more
  <1>5. /\ d \in ChannelSet /\ d.type = c.type /\ d.flags = c.flags /\ d.sends = c.sends
        /\ d.istate = c.istate /\ d.ostate = c.ostate
    BY <1>1, <1>2 DEF ChannelSet
  <1>6. /\ e \in ChannelSet /\ e.type = c.type /\ e.flags = c.flags /\ e.sends = c.sends
        /\ e.istate = c.istate /\ e.ostate = c.ostate
    BY <1>1, <1>2, <1>3 DEF ChannelSet
  <1> HIDE DEF d, e
  <1> QED BY <1>1, <1>4, <1>5, <1>6, Silent

LEMMA AdjustTurns ==
    ASSUME NEW c, Live(c), NEW n \in Nat
    PROVE  Turns(c, [c EXCEPT !.rwin = @ + n])
  <1> DEFINE window == c.rwin + n
             d == [c EXCEPT !.rwin = window]
  <1>1. c \in ChannelSet /\ window \in Nat
    BY DEF Live, Regular, ChannelSet
  <1> HIDE DEF window
  <1>2. /\ d \in ChannelSet /\ d.type = c.type /\ d.flags = c.flags /\ d.sends = c.sends
        /\ d.istate = c.istate /\ d.ostate = c.ostate
    BY <1>1 DEF ChannelSet
  <1>3. [c EXCEPT !.rwin = @ + n] = d
    BY DEF window
  <1> HIDE DEF d
  <1> QED BY <1>2, <1>3, Silent

LEMMA RcvdEofTurns ==
    ASSUME NEW c, Live(c)
    PROVE  Turns(c, RcvdEof(c))
  <1> DEFINE f == Flag(c, "eofRcvd")
             d == [f EXCEPT !.ostate = IF f.ostate = "open" THEN "drain" ELSE f.ostate]
  <1>1. /\ f \in ChannelSet /\ f.type = c.type /\ f.flags = c.flags \union {"eofRcvd"}
        /\ f.sends = c.sends /\ f.istate = c.istate /\ f.ostate = c.ostate
    BY FlagEffect DEF Live, Regular
  <1> HIDE DEF f
  <1>2. /\ d \in ChannelSet /\ d.type = c.type /\ d.flags = c.flags \union {"eofRcvd"}
        /\ d.sends = c.sends /\ d.istate = c.istate
        /\ c.ostate = "closed" => d.ostate = "closed"
    BY <1>1 DEF ChannelSet, Stage
  <1>3. RcvdEof(c) = IF d.ostate = "drain" /\ d.output = <<>> THEN OutputEmpty(d) ELSE d
    BY DEF RcvdEof, f
  <1> HIDE DEF d
  <1>4. Turns(c, d)
    BY <1>2 DEF Live, Regular, Turns, Allowed, Closed
  <1> QED BY <1>3, <1>4, OutputEmptyTurns, TurnsLive, TurnsCompose

(* After a CLOSE nothing more is read, and nothing more can come.          *)
LEMMA RcvdCloseAllowed ==
    ASSUME NEW c, Live(c)
    PROVE  /\ Allowed(c, RcvdClose(c))
           /\ RcvdClose(c).type = "open" /\ "closeRcvd" \in RcvdClose(c).flags
  <1> DEFINE f == Flag(c, "closeRcvd")
             d == [f EXCEPT !.ostate = IF f.ostate = "open" THEN "drain" ELSE f.ostate]
             e == IF d.istate = "drain" THEN SendEof(d) ELSE d
  <1>1. /\ f \in ChannelSet /\ f.type = c.type /\ f.flags = c.flags \union {"closeRcvd"}
        /\ f.sends = c.sends /\ f.istate = c.istate /\ f.ostate = c.ostate
    BY FlagEffect DEF Live, Regular
  <1> HIDE DEF f
  <1>2. /\ d \in ChannelSet /\ d.type = c.type /\ d.flags = c.flags \union {"closeRcvd"}
        /\ d.sends = c.sends /\ d.istate = c.istate
        /\ c.ostate = "closed" => d.ostate = "closed"
    BY <1>1 DEF ChannelSet, Stage
  <1>3. RcvdClose(c) = [e EXCEPT !.istate = "closed"]
    BY DEF RcvdClose, f
  <1> HIDE DEF d
  <1>4. Live(d) /\ Allowed(c, d) /\ "closeRcvd" \in d.flags
    BY <1>2 DEF Live, Regular, Allowed, Closed
  <1>5. Turns(d, e)
    <2>1. d.istate = "drain" => ~Closed(d)
      BY <1>4 DEF Live, Regular, Closed
    <2>2. Turns(d, d)
      BY <1>4, Silent DEF Live, Regular
    <2> QED BY <1>4, <2>1, <2>2, SendEofTurns
  <1> HIDE DEF e
  <1>6. Live(e) /\ Allowed(c, e) /\ "closeRcvd" \in e.flags
    BY <1>4, <1>5, TurnsLive DEF Turns, Allowed
  <1>7. Turns(e, [e EXCEPT !.istate = "closed"])
    BY <1>6 DEF Live, Regular, Turns, Allowed, Closed, ChannelSet, Stage
  <1> QED BY <1>3, <1>6, <1>7 DEF Turns, Allowed

(* chan_is_dead waits for both.                                            *)
LEMMA CollectEnds ==
    ASSUME NEW c, Live(c)
    PROVE  Ends(c, Collect(c))
  <1> DEFINE s == Send(c, Message("close"))
             d == IF "closeSent" \in c.flags THEN c ELSE SendClose(c)
  <1>1. c \in ChannelSet /\ c.type = "open" /\ c.sends \in Seq(MessageSet)
    BY DEF Live, Regular, ChannelSet
  <1>2. Ends(c, c)
    BY <1>1, Silent DEF Turns, Ends, Received
  <1>3. ~Closed(c) => Traffic(Append(c.sends, Message("close")), TRUE)
    <2>1. ~Closed(c) => Traffic(c.sends, FALSE)
      BY Zenon DEF Live, Traffic
    <2>2. Message("close") \in MessageSet /\ Message("close").kind = "close"
      BY MessageTypes
    <2> QED BY <1>1, <2>1, <2>2, TrafficGrows, Zenon
  <1>4. /\ s \in ChannelSet /\ s.type = c.type /\ s.flags = c.flags
        /\ s.istate = c.istate /\ s.ostate = c.ostate
        /\ s.sends = Append(c.sends, Message("close"))
    BY <1>1, SendEffect, MessageTypes
  <1>5. SendClose(c) = Flag(s, "closeSent")
    BY DEF SendClose
  <1> HIDE DEF s
  <1>6. /\ SendClose(c) \in ChannelSet /\ SendClose(c).type = c.type
        /\ SendClose(c).flags = c.flags \union {"closeSent"}
        /\ SendClose(c).istate = c.istate /\ SendClose(c).ostate = c.ostate
        /\ SendClose(c).sends = Append(c.sends, Message("close"))
    BY <1>4, <1>5, FlagEffect
  <1> DEFINE done == c.istate = "closed" /\ c.ostate = "closed"
  <1>7. done => Turns(c, d) /\ "closeSent" \in d.flags
    <2>1. CASE "closeSent" \in c.flags
      BY <1>1, <2>1, Silent
    <2>2. CASE "closeSent" \notin c.flags
      <3>1. ~Closed(c) /\ d = SendClose(c)
        BY <1>1, <2>2 DEF Closed
      <3>2. Closed(d) /\ Traffic(d.sends, TRUE)
        BY <1>3, <1>6, <3>1 DEF Closed
      <3>3. Traffic(d.sends, Closed(d))
        BY <3>2, Zenon DEF Traffic
      <3> QED BY <1>1, <1>6, <3>1, <3>3 DEF Turns, Allowed, Regular
    <2> QED BY <2>1, <2>2
  <1> HIDE DEF d
  <1>8. Turns(c, d) /\ Dead(d) => Ends(c, Free(d))
    <2> SUFFICES ASSUME Turns(c, d), Dead(d) PROVE Ends(c, Free(d))
      OBVIOUS
    <2>1. d.sends \in Seq(MessageSet) /\ NewChannel("freed") \in ChannelSet
      BY NewTypes DEF Turns, Allowed, Regular, ChannelSet, Types
    <2>2. /\ Free(d) \in ChannelSet /\ Free(d).sends = d.sends
          /\ Free(d).type = "freed" /\ Free(d).flags = {} /\ Free(d).istate = "open"
      BY <2>1, NewTypes DEF Free, ChannelSet, Types
    <2>3. Closed(Free(d)) /\ Closed(d)
      BY <2>2 DEF Dead, Closed
    <2>4. Traffic(Free(d).sends, Closed(Free(d)))
      BY <2>2, <2>3, Zenon DEF Turns, Allowed, Traffic
    <2> QED BY <2>2, <2>3, <2>4 DEF Ends, Allowed, Turns, Regular, Received, Dead
  <1>9. Collect(c) = IF done THEN IF Dead(d) THEN Free(d) ELSE d ELSE c
    BY <1>1 DEF Collect, d
  <1>10. Turns(c, d) => Ends(c, d)
    BY <1>1 DEF Turns, Ends, Received
  <1> QED BY <1>2, <1>7, <1>8, <1>9, <1>10

LEMMA TurnsThenEnds ==
    ASSUME NEW c, NEW d, NEW e, Live(c), Turns(c, d), Ends(d, e)
    PROVE  Ends(c, e)
  BY DEF Turns, Ends, Allowed, Received, Live
-----------------------------------------------------------------------------
(* Steps of the two ends.                                                  *)

LEMMA TwoPeers ==
    /\ Peers = {Opener, Acceptor} /\ Opener # Acceptor
    /\ Peer(Opener) = Acceptor /\ Peer(Acceptor) = Opener
    /\ \A x \in Peers : Peer(x) \in Peers /\ Peer(x) # x /\ Peer(Peer(x)) = x
    /\ \A x \in Peers, z \in Peers : z = x \/ z = Peer(x)
  BY SizeAssumption DEF Peers, Peer

(* What Apply leaves: the channel has sent what it had to send.            *)
LEMMA ApplyEffect ==
    ASSUME StateTypes, NEW x \in Peers, NEW c, Regular(c), NEW rest \in Seq(MessageSet),
           Apply(x, c, rest), nread' \in [Peers -> Nat]
    PROVE  /\ StateTypes'
           /\ ch'[x].type = c.type /\ ch'[x].flags = c.flags
           /\ ch'[Peer(x)] = ch[Peer(x)]
           /\ queue'[x] = rest
           /\ queue'[Peer(x)] = queue[Peer(x)] \o c.sends
  <1> DEFINE y == Peer(x)
             d == [c EXCEPT !.sends = <<>>]
             more == queue[y] \o c.sends
  <1>1. y \in Peers /\ y # x /\ \A z \in Peers : z = x \/ z = y
    BY TwoPeers
  <1>2. c \in ChannelSet /\ c.sends \in Seq(MessageSet) /\ <<>> \in Seq(MessageSet)
    BY DEF Regular, ChannelSet
  <1>3. more \in Seq(MessageSet)
    BY <1>1, <1>2, ConcatProperties DEF StateTypes
  <1>4. /\ d \in ChannelSet /\ d.sends = <<>> /\ d.type = c.type /\ d.flags = c.flags
        /\ d.istate = c.istate /\ d.ostate = c.ostate
    BY <1>2 DEF ChannelSet
  <1>5. Regular(d)
    BY <1>4 DEF Regular
  <1>6. ch' = [ch EXCEPT ![x] = d] /\ queue' = [queue EXCEPT ![x] = rest, ![y] = more]
    BY <1>1 DEF Apply, StateTypes
  <1> HIDE DEF d, more
  <1> HIDE DEF y
  <1>7. /\ ch' \in [Peers -> ChannelSet] /\ ch'[x] = d /\ ch'[y] = ch[y]
    BY <1>1, <1>4, <1>6 DEF StateTypes
  <1>8. /\ queue' \in [Peers -> Seq(MessageSet)] /\ queue'[x] = rest /\ queue'[y] = more
    BY <1>1, <1>3, <1>6 DEF StateTypes
  <1>9. \A z \in Peers : Regular(ch'[z]) /\ ch'[z].sends = <<>>
    BY <1>1, <1>4, <1>5, <1>7, Zenon DEF StateTypes
  <1>10. StateTypes'
    BY <1>7, <1>8, <1>9 DEF StateTypes
  <1> QED BY <1>4, <1>7, <1>8, <1>10 DEF y, more

(* The messages of a turn join the queue, none after CLOSE.                *)
LEMMA QueueGrows ==
    ASSUME NEW c, NEW d, Live(c), c.sends = <<>>, Allowed(c, d),
           NEW q \in Seq(MessageSet), Traffic(q, Closed(c))
    PROVE  /\ q \o d.sends \in Seq(MessageSet)
           /\ Traffic(q \o d.sends, Closed(d))
           /\ Closed(c) => Closed(d) /\ q \o d.sends = q
  <1>1. d.sends \in Seq(MessageSet)
    BY DEF Allowed, Regular, ChannelSet
  <1>2. CASE Closed(c)
    <2>1. Closed(d) /\ d.sends = <<>>
      BY <1>2 DEF Allowed
    <2>2. q \o d.sends = q
      BY <2>1, ConcatEmptySeq
    <2>3. Traffic(q, Closed(d))
      BY <1>2, <2>1, Zenon DEF Traffic
    <2> QED BY <2>1, <2>2, <2>3
  <1>3. CASE ~Closed(c)
    <2>1. Traffic(q, FALSE)
      BY <1>3, Zenon DEF Traffic
    <2>2. CASE Closed(d)
      <3>1. Traffic(d.sends, TRUE)
        BY <2>2, Zenon DEF Allowed, Traffic
      <3>2. q \o d.sends \in Seq(MessageSet) /\ Traffic(q \o d.sends, TRUE)
        BY <1>1, <2>1, <3>1, TrafficJoins
      <3> QED BY <1>3, <2>2, <3>2, Zenon DEF Traffic
    <2>3. CASE ~Closed(d)
      <3>1. Traffic(d.sends, FALSE)
        BY <2>3, Zenon DEF Allowed, Traffic
      <3>2. q \o d.sends \in Seq(MessageSet) /\ Traffic(q \o d.sends, FALSE)
        BY <1>1, <2>1, <3>1, TrafficJoins
      <3> QED BY <1>3, <2>3, <3>2, Zenon DEF Traffic
    <2> QED BY <2>2, <2>3
  <1> QED BY <1>2, <1>3

(* A turn of an established channel: x takes a message or none.            *)
LEMMA EstablishedStep ==
    ASSUME StateTypes, Established, NEW x \in Peers, ch[x].type = "open",
           NEW c, Allowed(ch[x], c), c.type \in {"open", "freed"},
           NEW rest \in Seq(MessageSet), Traffic(rest, Closed(ch[Peer(x)])),
           Received(c) => Closed(ch[Peer(x)]) /\ rest = <<>>,
           Apply(x, c, rest), nread' \in [Peers -> Nat]
    PROVE  IInv'
  <1> DEFINE y == Peer(x)
  <1>1. /\ y \in Peers /\ Peer(y) = x
        /\ \A z \in Peers : z = x \/ z = y
    BY TwoPeers
  <1>2. /\ StateTypes'
        /\ ch'[x].type = c.type /\ ch'[x].flags = c.flags /\ ch'[y] = ch[y]
        /\ queue'[x] = rest /\ queue'[y] = queue[y] \o c.sends
    BY ApplyEffect DEF Allowed
  <1>3. Live(ch[x]) /\ ch[x].sends = <<>>
    <2>1. Regular(ch[x]) /\ ch[x].sends = <<>>
      BY DEF StateTypes
    <2>2. Traffic(<<>>, Closed(ch[x]))
      BY DEF Traffic
    <2> QED BY <2>1, <2>2 DEF Live
  <1>4. /\ Traffic(queue[y] \o c.sends, Closed(c))
        /\ Closed(ch[x]) => Closed(c) /\ queue[y] \o c.sends = queue[y]
    BY <1>1, <1>3, QueueGrows DEF Established, Direction, StateTypes
  <1> HIDE DEF y
  <1>5. /\ Closed(ch'[x]) <=> Closed(c)
        /\ Received(ch'[x]) <=> Received(c)
    BY <1>2 DEF Closed, Received
  <1>6. Direction(x)'
    <2>1. Traffic(rest, Closed(ch'[y]))
      BY <1>2 DEF y
    <2> QED BY <1>2, <1>5, <2>1 DEF Direction, y
  <1>7. Direction(y)'
    <2>1. Traffic(queue'[y], Closed(ch'[x]))
      BY <1>2, <1>4, <1>5, Zenon DEF Traffic
    <2>2. Received(ch[y]) => Closed(ch[x]) /\ queue[y] = <<>>
      BY <1>1 DEF Established, Direction
    <2> QED BY <1>1, <1>2, <1>4, <1>5, <2>1, <2>2 DEF Direction
  <1>8. ch'[x].type \in {"open", "freed"} /\ ch'[y].type \in {"open", "freed"}
    BY <1>1, <1>2 DEF Established
  <1>9. Established'
    BY <1>1, <1>6, <1>7, <1>8, Zenon DEF Established
  <1> QED BY <1>2, <1>9 DEF IInv

(* The Acceptor may send before its confirmation has arrived.              *)
LEMMA ConfirmedStep ==
    ASSUME StateTypes, Confirmed, NEW c, Ends(ch[Acceptor], c),
           Apply(Acceptor, c, queue[Acceptor]), nread' \in [Peers -> Nat]
    PROVE  IInv'
  <1>1. Peer(Acceptor) = Opener /\ Acceptor \in Peers /\ Opener \in Peers
    BY TwoPeers
  <1>2. /\ StateTypes'
        /\ ch'[Acceptor].type = c.type /\ ch'[Acceptor].flags = c.flags
        /\ ch'[Opener] = ch[Opener] /\ queue'[Acceptor] = queue[Acceptor]
        /\ queue'[Opener] = queue[Opener] \o c.sends
    <2>1. Regular(c) /\ queue[Acceptor] \in Seq(MessageSet)
      BY <1>1 DEF Ends, Allowed, StateTypes
    <2> QED BY <1>1, <2>1, ApplyEffect
  <1>3. PICK q \in Seq(MessageSet) :
          queue[Opener] = <<Message("confirm")>> \o q /\ Traffic(q, Closed(ch[Acceptor]))
    BY DEF Confirmed
  <1>4. Live(ch[Acceptor]) /\ ch[Acceptor].sends = <<>>
    <2>1. Regular(ch[Acceptor]) /\ ch[Acceptor].sends = <<>>
      BY <1>1 DEF StateTypes
    <2>2. Traffic(<<>>, Closed(ch[Acceptor]))
      BY DEF Traffic
    <2> QED BY <2>1, <2>2 DEF Live, Confirmed
  <1>5. q \o c.sends \in Seq(MessageSet) /\ Traffic(q \o c.sends, Closed(c))
    BY <1>3, <1>4, QueueGrows DEF Ends
  <1>6. queue'[Opener] = <<Message("confirm")>> \o (q \o c.sends)
    <2>1. <<Message("confirm")>> \in Seq(MessageSet) /\ c.sends \in Seq(MessageSet)
      BY MessageTypes DEF Ends, Allowed, Regular, ChannelSet
    <2> DEFINE m == <<Message("confirm")>>
    <2>2. m \in Seq(MessageSet) /\ c.sends \in Seq(MessageSet)
      BY <2>1
    <2> HIDE DEF m
    <2>3. \A a, b, d \in Seq(MessageSet) : (a \o b) \o d = a \o (b \o d)
      BY ConcatAssociative
    <2>4. (m \o q) \o c.sends = m \o (q \o c.sends)
      BY <2>2, <2>3, Zenon
    <2> QED BY <1>2, <1>3, <2>4, Zenon DEF m
  <1>7. ~ Received(c) /\ c.type = "open"
    BY DEF Confirmed, Ends, Received
  <1>8. ~ Received(ch'[Acceptor]) /\ (Closed(ch'[Acceptor]) <=> Closed(c))
    BY <1>2, <1>7 DEF Received, Closed
  <1>9. Traffic(q \o c.sends, Closed(ch'[Acceptor]))
    BY <1>5, <1>8, Zenon DEF Traffic
  <1>10. Confirmed'
    BY <1>2, <1>5, <1>6, <1>7, <1>8, <1>9 DEF Confirmed
  <1> QED BY <1>2, <1>10 DEF IInv

(* A turn that takes no message, at whichever end.                         *)
LEMMA OpenStep ==
    ASSUME IInv, NEW x \in Peers, ch[x].type = "open", NEW c, Ends(ch[x], c),
           Apply(x, c, queue[x]), nread' \in [Peers -> Nat]
    PROVE  IInv'
  <1>1. CASE Established
    <2>1. /\ Traffic(queue[x], Closed(ch[Peer(x)])) /\ queue[x] \in Seq(MessageSet)
          /\ Received(c) => Closed(ch[Peer(x)]) /\ queue[x] = <<>>
      BY <1>1 DEF Established, Direction, Ends, IInv, StateTypes
    <2> QED BY <1>1, <2>1, EstablishedStep DEF Ends, IInv
  <1>2. CASE ~Established
    <2>1. Confirmed /\ x = Acceptor
      BY <1>2, TwoPeers DEF IInv, Idle, Asked, Connecting, Confirmed, Refused, Released
    <2> QED BY <2>1, ConfirmedStep DEF IInv
  <1> QED BY <1>1, <1>2

(* Who is waiting for the message that comes next.                         *)
LEMMA NextMessage ==
    ASSUME IInv, NEW x \in Peers, queue[x] # <<>>
    PROVE  /\ Tail(queue[x]) \in Seq(MessageSet)
           /\ \/ /\ Asked /\ x = Acceptor /\ Head(queue[x]).kind = "open"
                 /\ Tail(queue[x]) = <<>>
              \/ /\ Confirmed /\ x = Opener /\ Head(queue[x]).kind = "confirm"
                 /\ Traffic(Tail(queue[x]), Closed(ch[Acceptor]))
              \/ /\ Refused /\ x = Opener /\ Head(queue[x]).kind = "failure"
                 /\ Tail(queue[x]) = <<>>
              \/ /\ Established /\ ch[x].type = "open" /\ ~ Received(ch[x])
                 /\ Head(queue[x]) \in MessageSet
                 /\ Head(queue[x]).kind \in {"data", "adjust", "eof", "close"}
                 /\ Traffic(Tail(queue[x]), Closed(ch[Peer(x)]))
                 /\ Head(queue[x]).kind = "close" =>
                      Tail(queue[x]) = <<>> /\ Closed(ch[Peer(x)])
  <1>1. queue[x] \in Seq(MessageSet)
    BY DEF IInv, StateTypes
  <1>2. Tail(queue[x]) \in Seq(MessageSet)
    BY <1>1, HeadTailProperties
  <1>3. \A m : Head(<<m>>) = m /\ Tail(<<m>>) = <<>>
    OBVIOUS
  <1>4. CASE Asked
    <2>1. x = Acceptor /\ queue[x] = <<Message("open")>>
      BY <1>4, TwoPeers DEF Asked
    <2>2. Message("open").kind = "open"
      BY MessageTypes
    <2> QED BY <1>2, <1>3, <1>4, <2>1, <2>2, Zenon
  <1>5. CASE Refused
    <2>1. x = Opener /\ queue[x] = <<Message("failure")>>
      BY <1>5, TwoPeers DEF Refused
    <2>2. Message("failure").kind = "failure"
      BY MessageTypes
    <2> QED BY <1>2, <1>3, <1>5, <2>1, <2>2, Zenon
  <1>6. CASE Confirmed
    <2>1. x = Opener
      BY <1>6, TwoPeers DEF Confirmed
    <2>2. PICK q \in Seq(MessageSet) :
            queue[Opener] = <<Message("confirm")>> \o q /\ Traffic(q, Closed(ch[Acceptor]))
      BY <1>6 DEF Confirmed
    <2>3. Message("confirm") \in MessageSet /\ Message("confirm").kind = "confirm"
      BY MessageTypes
    <2>4. \A m \in MessageSet : Head(<<m>> \o q) = m /\ Tail(<<m>> \o q) = q
      <3> SUFFICES ASSUME NEW m \in MessageSet PROVE Head(<<m>> \o q) = m /\ Tail(<<m>> \o q) = q
        OBVIOUS
      <3> DEFINE s == <<m>> \o q
      <3>1. /\ s \in Seq(MessageSet) /\ Len(s) = 1 + Len(q) /\ Len(q) \in Nat
            /\ \A i \in 1..Len(s) : s[i] = IF i <= 1 THEN m ELSE q[i - 1]
        BY ConcatProperties
      <3> HIDE DEF s
      <3>2. s # <<>>
        BY <3>1
      <3>3. Tail(s) \in Seq(MessageSet) /\ Len(Tail(s)) = Len(q)
        BY <3>1, <3>2, HeadTailProperties
      <3>4. \A i \in 1..Len(Tail(s)) : Tail(s)[i] = q[i]
        BY <3>1, <3>2, <3>3, HeadTailProperties
      <3>5. Tail(s) = q
        BY <3>3, <3>4, SeqEqual
      <3>6. Head(s) = m
        BY <3>1, <3>2
      <3> QED BY <3>5, <3>6 DEF s
    <2> QED BY <1>2, <1>6, <2>1, <2>2, <2>3, <2>4, Zenon
  <1>7. CASE Established
    <2>1. /\ ch[x].type \in {"open", "freed"} /\ ~ Received(ch[x])
          /\ Traffic(queue[x], Closed(ch[Peer(x)]))
      BY <1>7 DEF Established, Direction
    <2>2. ch[x].type = "open"
      BY <2>1 DEF Received
    <2> DEFINE last == Closed(ch[Peer(x)])
    <2>3. /\ Head(queue[x]) \in MessageSet
          /\ Traffic(Tail(queue[x]), last)
          /\ Head(queue[x]).kind \in {"data", "adjust", "eof", "close"}
          /\ Head(queue[x]).kind = "close" => Tail(queue[x]) = <<>> /\ last
      <3>1. last \in BOOLEAN
        BY DEF Closed
      <3> QED BY <1>1, <2>1, <3>1, TrafficShrinks, Zenon
    <2> QED BY <1>2, <1>7, <2>1, <2>2, <2>3, Zenon
  <1>8. CASE Idle \/ Connecting \/ Released
    BY <1>8, TwoPeers DEF Idle, Connecting, Released
  <1> QED BY <1>4, <1>5, <1>6, <1>7, <1>8 DEF IInv
-----------------------------------------------------------------------------
(* The initial states, and one lemma per action.                           *)

LEMMA InitInv == Init => IInv
  <1> SUFFICES ASSUME Init PROVE IInv
    OBVIOUS
  <1>1. /\ NewChannel("none") \in ChannelSet
        /\ NewChannel("none").type = "none" /\ NewChannel("none").flags = {}
        /\ NewChannel("none").istate = "open" /\ NewChannel("none").sends = <<>>
    BY NewTypes DEF Types
  <1>2. \A x \in Peers : ch[x] = NewChannel("none") /\ queue[x] = <<>>
    BY DEF Init
  <1>3. StateTypes
    BY <1>1, <1>2 DEF Init, StateTypes, Regular
  <1>4. Idle
    BY <1>1, <1>2, TwoPeers DEF Idle
  <1> QED BY <1>3, <1>4 DEF IInv

(* What does not touch the channels.                                       *)
LEMMA Unchanged ==
    ASSUME IInv, UNCHANGED <<ch, queue, nread>>
    PROVE  IInv'
  BY DEF IInv, StateTypes, Idle, Asked, Connecting, Confirmed, Refused, Released,
         Established, Direction

(* A channel that is open has nothing to send yet.                         *)
LEMMA OpenLive ==
    ASSUME IInv, NEW x \in Peers, ch[x].type = "open"
    PROVE  Live(ch[x])
  <1>1. Regular(ch[x]) /\ ch[x].sends = <<>>
    BY DEF IInv, StateTypes
  <1>2. Traffic(<<>>, Closed(ch[x]))
    BY DEF Traffic
  <1> QED BY <1>1, <1>2 DEF Live

LEMMA DispatchQueue ==
    ASSUME IInv, NEW x \in Peers, NEW kind, NEW c, Dispatch(x, kind, c)
    PROVE  /\ queue[x] # <<>> /\ Head(queue[x]).kind = kind
           /\ Apply(x, c, Tail(queue[x]))
           /\ nread' = nread /\ nread' \in [Peers -> Nat]
  BY DEF Dispatch, IInv, StateTypes

LEMMA InputOpenStep ==
    ASSUME IInv, NEW x \in Peers, InputOpen(x)
    PROVE  IInv'
  <1> DEFINE c == [NewChannel("connecting") EXCEPT !.rwin = Window]
             d == Send(NewChannel("freed"), Message("failure"))
  <1>1. PICK e \in {c, d} : Dispatch(x, "open", e)
    BY DEF InputOpen
  <1>2. /\ Asked /\ x = Acceptor /\ Tail(queue[x]) = <<>>
        /\ Apply(x, e, <<>>) /\ nread' \in [Peers -> Nat]
    BY <1>1, DispatchQueue, NextMessage
  <1>3. /\ c \in ChannelSet /\ c.type = "connecting" /\ c.flags = {}
        /\ c.istate = "open" /\ c.sends = <<>>
    BY NewTypes, SizeAssumption DEF ChannelSet, Types
  <1>4. /\ d \in ChannelSet /\ d.type = "freed" /\ d.flags = {}
        /\ d.istate = "open" /\ d.sends = <<Message("failure")>>
    <2>1. /\ NewChannel("freed") \in ChannelSet /\ Message("failure") \in MessageSet
          /\ NewChannel("freed").type = "freed" /\ NewChannel("freed").flags = {}
          /\ NewChannel("freed").istate = "open" /\ NewChannel("freed").sends = <<>>
      BY NewTypes, MessageTypes DEF Types
    <2>2. Append(<<>>, Message("failure")) = <<Message("failure")>>
      OBVIOUS
    <2> QED BY <2>1, <2>2, SendEffect
  <1> HIDE DEF c, d
  <1>5. Regular(e) /\ <<>> \in Seq(MessageSet)
    BY <1>3, <1>4 DEF Regular
  <1>6. /\ StateTypes' /\ ch'[Acceptor].type = e.type
        /\ ch'[Opener] = ch[Opener] /\ queue'[Acceptor] = <<>>
        /\ queue'[Opener] = queue[Opener] \o e.sends
    BY <1>2, <1>5, ApplyEffect, TwoPeers DEF IInv
  <1>7. queue'[Opener] = e.sends
    <2>1. e.sends \in Seq(MessageSet)
      BY <1>5 DEF Regular, ChannelSet
    <2> QED BY <1>2, <1>6, <2>1, ConcatEmptySeq DEF Asked
  <1>8. CASE e = c
    BY <1>2, <1>3, <1>6, <1>7, <1>8 DEF IInv, Asked, Connecting
  <1>9. CASE e = d
    BY <1>2, <1>4, <1>6, <1>7, <1>9 DEF IInv, Asked, Refused
  <1> QED BY <1>8, <1>9

LEMMA ConfirmationStep ==
    ASSUME IInv, NEW x \in Peers, InputOpenConfirmation(x)
    PROVE  IInv'
  <1> DEFINE c == [ch[x] EXCEPT !.type = "open", !.rwin = Window]
  <1>1. /\ Confirmed /\ x = Opener /\ Apply(x, c, Tail(queue[x]))
        /\ Tail(queue[x]) \in Seq(MessageSet)
        /\ Traffic(Tail(queue[x]), Closed(ch[Acceptor]))
        /\ nread' \in [Peers -> Nat]
    BY DispatchQueue, NextMessage DEF InputOpenConfirmation
  <1>2. Regular(ch[x]) /\ ch[x] \in ChannelSet /\ ch[x].flags = {} /\ ch[x].sends = <<>>
    BY DEF IInv, StateTypes, Regular, InputOpenConfirmation
  <1>3. /\ c \in ChannelSet /\ c.type = "open" /\ c.flags = {} /\ c.sends = <<>>
    BY <1>2, SizeAssumption DEF ChannelSet, Types
  <1> HIDE DEF c
  <1>4. /\ StateTypes' /\ ch'[Opener].type = "open" /\ ch'[Opener].flags = {}
        /\ ch'[Acceptor] = ch[Acceptor] /\ queue'[Opener] = Tail(queue[x])
        /\ queue'[Acceptor] = <<>> \o <<>>
    <2>1. Regular(c) /\ StateTypes
      BY <1>3 DEF Regular, IInv
    <2>2. /\ StateTypes' /\ ch'[x].type = c.type /\ ch'[x].flags = c.flags
          /\ ch'[Peer(x)] = ch[Peer(x)] /\ queue'[x] = Tail(queue[x])
          /\ queue'[Peer(x)] = queue[Peer(x)] \o c.sends
      BY <1>1, <2>1, ApplyEffect
    <2>3. Peer(x) = Acceptor /\ queue[Acceptor] = <<>>
      BY <1>1, TwoPeers DEF Confirmed
    <2> QED BY <1>1, <1>3, <2>2, <2>3, Zenon
  <1>5. queue'[Acceptor] = <<>>
    BY <1>4
  <1>6. Direction(Opener)'
    BY <1>1, <1>4, TwoPeers DEF Direction, Received
  <1>7. Direction(Acceptor)'
    BY <1>1, <1>4, <1>5, TwoPeers DEF Direction, Traffic, Confirmed
  <1>8. Established'
    BY <1>1, <1>4, <1>6, <1>7, TwoPeers, Zenon DEF Established, Confirmed
  <1> QED BY <1>4, <1>8 DEF IInv

LEMMA FailureStep ==
    ASSUME IInv, NEW x \in Peers, InputOpenFailure(x)
    PROVE  IInv'
  <1> DEFINE c == [ch[x] EXCEPT !.type = "zombie"]
  <1>1. /\ Refused /\ x = Opener /\ Apply(x, c, Tail(queue[x]))
        /\ nread' \in [Peers -> Nat]
        /\ Tail(queue[x]) = <<>> /\ Tail(queue[x]) \in Seq(MessageSet)
    BY DispatchQueue, NextMessage DEF InputOpenFailure
  <1>2. Regular(ch[x]) /\ ch[x] \in ChannelSet /\ ch[x].flags = {} /\ ch[x].sends = <<>>
    BY DEF IInv, StateTypes, Regular, InputOpenFailure
  <1>3. /\ c \in ChannelSet /\ c.type = "zombie" /\ c.flags = {} /\ c.sends = <<>>
        /\ c.istate = ch[x].istate
    BY <1>2 DEF ChannelSet, Types
  <1>4. Regular(c)
    BY <1>2, <1>3 DEF Regular, InputOpenFailure
  <1> HIDE DEF c
  <1>5. /\ StateTypes' /\ ch'[Opener].type = "zombie"
        /\ ch'[Acceptor] = ch[Acceptor] /\ queue'[Opener] = <<>>
        /\ queue'[Acceptor] = <<>> \o <<>>
    <2>1. /\ StateTypes' /\ ch'[x].type = c.type
          /\ ch'[Peer(x)] = ch[Peer(x)] /\ queue'[x] = Tail(queue[x])
          /\ queue'[Peer(x)] = queue[Peer(x)] \o c.sends
      BY <1>1, <1>4, ApplyEffect DEF IInv
    <2>2. Peer(x) = Acceptor /\ queue[Acceptor] = <<>>
      BY <1>1, TwoPeers DEF Refused
    <2> QED BY <1>1, <1>3, <2>1, <2>2, Zenon
  <1>6. <<>> \o <<>> = <<>>
    OBVIOUS
  <1> QED BY <1>1, <1>5, <1>6 DEF IInv, Released, Refused

(* Data, a window adjustment or EOF for an open channel.                   *)
LEMMA ReceiveStep ==
    ASSUME IInv, NEW x \in Peers, NEW kind \in {"data", "adjust", "eof"}, NEW c,
           Dispatch(x, kind, c), Turns(ch[x], c)
    PROVE  IInv'
  <1>1. /\ Established /\ ch[x].type = "open" /\ ~ Received(ch[x])
        /\ Tail(queue[x]) \in Seq(MessageSet)
        /\ Traffic(Tail(queue[x]), Closed(ch[Peer(x)]))
        /\ Apply(x, c, Tail(queue[x])) /\ nread' \in [Peers -> Nat]
    BY DispatchQueue, NextMessage
  <1>2. Allowed(ch[x], c) /\ c.type = "open" /\ ~ Received(c)
    BY <1>1 DEF Turns, Received
  <1> QED BY <1>1, <1>2, EstablishedStep DEF IInv

LEMMA CloseStep ==
    ASSUME IInv, NEW x \in Peers, InputOclose(x)
    PROVE  IInv'
  <1> DEFINE c == RcvdClose(ch[x])
  <1>1. /\ Established /\ ch[x].type = "open"
        /\ Tail(queue[x]) = <<>> /\ Tail(queue[x]) \in Seq(MessageSet)
        /\ Closed(ch[Peer(x)])
        /\ Traffic(Tail(queue[x]), Closed(ch[Peer(x)]))
        /\ Apply(x, c, Tail(queue[x])) /\ nread' \in [Peers -> Nat]
    BY DispatchQueue, NextMessage DEF InputOclose
  <1>2. Allowed(ch[x], c) /\ c.type = "open"
    BY <1>1, OpenLive, RcvdCloseAllowed
  <1> HIDE DEF c
  <1> QED BY <1>1, <1>2, EstablishedStep DEF IInv

(* What dispatches a message to a channel that is known, finds it open.    *)
LEMMA InputStep ==
    ASSUME IInv, NEW x \in Peers, Input(x)
    PROVE  IInv'
  <1>1. CASE InputOpen(x)
    BY <1>1, InputOpenStep
  <1>2. CASE InputOpenConfirmation(x)
    BY <1>2, ConfirmationStep
  <1>3. CASE InputOpenFailure(x)
    BY <1>3, FailureStep
  <1>4. CASE InputData(x)
    <2>1. Dispatch(x, "data", RcvdData(ch[x], Head(queue[x]).bytes))
      BY <1>4 DEF InputData
    <2>2. /\ ch[x].type = "open" /\ Head(queue[x]) \in MessageSet
          /\ Head(queue[x]).kind = "data"
      BY <2>1, DispatchQueue, NextMessage
    <2>3. Turns(ch[x], RcvdData(ch[x], Head(queue[x]).bytes))
      BY <2>2, OpenLive, RcvdDataTurns, MessageTypes
    <2> QED BY <2>1, <2>3, ReceiveStep
  <1>5. CASE InputWindowAdjust(x)
    <2> DEFINE n == Head(queue[x]).n
               c == IF Known(ch[x]) THEN [ch[x] EXCEPT !.rwin = @ + n] ELSE ch[x]
    <2>1. Dispatch(x, "adjust", c)
      BY <1>5 DEF InputWindowAdjust
    <2>2. /\ ch[x].type = "open" /\ Head(queue[x]) \in MessageSet
          /\ Head(queue[x]).kind = "adjust"
      BY <2>1, DispatchQueue, NextMessage
    <2>3. n \in Nat /\ Known(ch[x])
      BY <2>2, MessageTypes DEF Known
    <2>4. Turns(ch[x], [ch[x] EXCEPT !.rwin = @ + n])
      BY <2>2, <2>3, OpenLive, AdjustTurns
    <2>5. Turns(ch[x], c)
      BY <2>3, <2>4
    <2> QED BY <2>1, <2>5, ReceiveStep
  <1>6. CASE InputIeof(x)
    <2>1. Dispatch(x, "eof", RcvdEof(ch[x]))
      BY <1>6 DEF InputIeof
    <2>2. ch[x].type = "open"
      BY <2>1, DispatchQueue, NextMessage
    <2> QED BY <2>1, <2>2, OpenLive, RcvdEofTurns, ReceiveStep
  <1>7. CASE InputOclose(x)
    BY <1>7, CloseStep
  <1> QED BY <1>1, <1>2, <1>3, <1>4, <1>5, <1>6, <1>7 DEF Input

(* Where nothing is sent and nothing changes.                              *)
LEMMA SameStep ==
    ASSUME IInv, NEW x \in Peers, Apply(x, ch[x], queue[x]), nread' = nread
    PROVE  IInv'
  <1>1. Peer(x) \in Peers /\ Peer(x) # x
    BY TwoPeers
  <1>2. ch[x] \in ChannelSet /\ ch[x].sends = <<>> /\ queue[Peer(x)] \in Seq(MessageSet)
    BY <1>1 DEF IInv, StateTypes
  <1>3. [ch[x] EXCEPT !.sends = <<>>] = ch[x]
    BY <1>2 DEF ChannelSet
  <1>4. queue[Peer(x)] \o ch[x].sends = queue[Peer(x)]
    BY <1>2, ConcatEmptySeq
  <1>5. ch' = [ch EXCEPT ![x] = ch[x]]
    BY <1>3 DEF Apply
  <1>6. queue' = [queue EXCEPT ![x] = queue[x], ![Peer(x)] = queue[Peer(x)]]
    BY <1>1, <1>4 DEF Apply, IInv, StateTypes
  <1>7. ch' = ch /\ queue' = queue
    BY <1>1, <1>5, <1>6 DEF IInv, StateTypes
  <1> QED BY <1>7, Unchanged

LEMMA PrepareStep ==
    ASSUME IInv, NEW x \in Peers, Prepare(x)
    PROVE  IInv'
  <1>1. PICK c \in {OutputPoll(ch[x]), ch[x]} : Apply(x, Collect(Pre(c)), queue[x])
    BY DEF Prepare
  <1>2. nread' = nread /\ nread' \in [Peers -> Nat] /\ Regular(ch[x])
    BY DEF Prepare, IInv, StateTypes
  <1>3. CASE ch[x].type = "open"
    <2>1. Live(ch[x]) /\ Turns(ch[x], ch[x])
      BY <1>2, <1>3, OpenLive, Silent DEF Regular
    <2>2. Turns(ch[x], c)
      BY <2>1, OutputPollTurns
    <2>3. Turns(ch[x], Pre(c)) /\ Live(Pre(c))
      BY <2>2, TurnsLive, PreTurns, TurnsCompose
    <2>4. Ends(ch[x], Collect(Pre(c)))
      BY <2>1, <2>3, CollectEnds, TurnsThenEnds
    <2> QED BY <1>1, <1>2, <1>3, <2>4, OpenStep
  <1>4. CASE ch[x].type = "zombie"
    <2> DEFINE f == Free(ch[x])
    <2>1. Collect(Pre(c)) = f
      BY <1>1, <1>4 DEF Collect, Pre, OutputPoll
    <2>2. Released /\ x = Opener
      BY <1>4, TwoPeers DEF IInv, Idle, Asked, Connecting, Confirmed, Refused, Released, Established
    <2>3. NewChannel("freed") \in ChannelSet /\ ch[x].sends = <<>> /\ <<>> \in Seq(MessageSet)
      BY NewTypes DEF IInv, StateTypes, Types
    <2>4. /\ f \in ChannelSet /\ f.sends = <<>>
          /\ f.type = "freed" /\ f.flags = {} /\ f.istate = "open"
      BY <2>3, NewTypes DEF Free, ChannelSet, Types
    <2> HIDE DEF f
    <2>5. Regular(f) /\ queue[x] \in Seq(MessageSet) /\ StateTypes
      BY <2>4 DEF Regular, IInv, StateTypes
    <2>6. /\ StateTypes' /\ ch'[x].type = "freed" /\ ch'[Peer(x)] = ch[Peer(x)]
          /\ queue'[x] = queue[x] /\ queue'[Peer(x)] = queue[Peer(x)] \o <<>>
      <3>1. Apply(x, f, queue[x])
        BY <1>1, <2>1
      <3>2. /\ StateTypes' /\ ch'[x].type = f.type /\ ch'[Peer(x)] = ch[Peer(x)]
            /\ queue'[x] = queue[x] /\ queue'[Peer(x)] = queue[Peer(x)] \o f.sends
        BY <1>2, <2>5, <3>1, ApplyEffect
      <3> QED BY <2>4, <3>2, Zenon
    <2>7. /\ Peer(x) = Acceptor
          /\ queue[Opener] = <<>> /\ queue[Acceptor] = <<>> /\ <<>> \o <<>> = <<>>
      BY <2>2, TwoPeers DEF Released
    <2>8. /\ ch'[Opener].type = "freed" /\ ch'[Acceptor].type = "freed"
          /\ queue'[Opener] = <<>> /\ queue'[Acceptor] = <<>>
      BY <2>2, <2>6, <2>7 DEF Released
    <2>9. Established'
      BY <2>8, TwoPeers DEF Established, Direction, Traffic, Closed
    <2> QED BY <2>6, <2>9 DEF IInv
  <1>5. CASE ch[x].type \notin {"open", "zombie"}
    <2>1. Collect(Pre(c)) = ch[x]
      BY <1>1, <1>2, <1>5 DEF Collect, Pre, OutputPoll, Regular
    <2> QED BY <1>1, <1>2, <2>1, SameStep
  <1> QED BY <1>3, <1>4, <1>5

LEMMA AcceptStep ==
    ASSUME IInv, NEW x \in Peers, AcceptConnection(x)
    PROVE  IInv'
  <1> DEFINE c == Send(NewChannel("opening"), Message("open"))
  <1>1. /\ x = Opener /\ Idle /\ Apply(x, c, queue[x])
        /\ nread' \in [Peers -> Nat] /\ queue[x] \in Seq(MessageSet)
    BY TwoPeers DEF AcceptConnection, IInv, StateTypes, Idle, Asked, Connecting, Confirmed,
                    Refused, Released, Established
  <1>2. /\ c \in ChannelSet /\ c.type = "opening" /\ c.flags = {}
        /\ c.istate = "open" /\ c.sends = <<Message("open")>>
    <2>1. /\ NewChannel("opening") \in ChannelSet /\ Message("open") \in MessageSet
          /\ NewChannel("opening").type = "opening" /\ NewChannel("opening").flags = {}
          /\ NewChannel("opening").istate = "open" /\ NewChannel("opening").sends = <<>>
      BY NewTypes, MessageTypes DEF Types
    <2>2. Append(<<>>, Message("open")) = <<Message("open")>>
      OBVIOUS
    <2> QED BY <2>1, <2>2, SendEffect
  <1> HIDE DEF c
  <1>3. Regular(c) /\ StateTypes /\ c.sends \in Seq(MessageSet)
    BY <1>2 DEF Regular, IInv, ChannelSet
  <1>4. /\ StateTypes' /\ ch'[x].type = "opening" /\ ch'[Peer(x)] = ch[Peer(x)]
        /\ queue'[x] = queue[x] /\ queue'[Peer(x)] = queue[Peer(x)] \o c.sends
    BY <1>1, <1>2, <1>3, ApplyEffect
  <1>5. Peer(x) = Acceptor /\ queue[Acceptor] = <<>> /\ <<>> \o c.sends = c.sends
    BY <1>1, <1>3, TwoPeers, ConcatEmptySeq DEF Idle
  <1> QED BY <1>1, <1>2, <1>4, <1>5 DEF IInv, Asked, Idle

LEMMA ConnectingStep ==
    ASSUME IInv, NEW x \in Peers, PostConnecting(x)
    PROVE  IInv'
  <1> DEFINE made == Connected(ch[x])
             refused == NotConnected(ch[x])
             freed == Free(refused)
  <1>1. /\ Connecting /\ x = Acceptor /\ Peer(x) = Opener
        /\ nread' = nread /\ nread' \in [Peers -> Nat]
        /\ Regular(ch[x]) /\ ch[x] \in ChannelSet /\ ch[x].sends = <<>>
        /\ ch[x].flags = {} /\ ch[x].istate = "open" /\ ch[x].type = "connecting"
        /\ queue[x] = <<>> /\ queue[x] \in Seq(MessageSet) /\ queue[Opener] = <<>>
    BY TwoPeers DEF PostConnecting, IInv, StateTypes, Regular, Idle, Asked, Connecting,
                    Confirmed, Refused, Released, Established
  <1>2. PICK c \in {made, refused, ch[x]} : Apply(x, Collect(c), queue[x])
    BY DEF PostConnecting
  <1>3. \A m : Append(<<>>, m) = <<m>>
    OBVIOUS
  <1>4. /\ made \in ChannelSet /\ made.type = "open" /\ made.flags = {}
        /\ made.istate = "open" /\ made.sends = <<Message("confirm")>>
    <2> DEFINE d == [ch[x] EXCEPT !.type = "open"]
    <2>1. /\ d \in ChannelSet /\ d.type = "open" /\ d.flags = {}
          /\ d.istate = "open" /\ d.sends = <<>>
      BY <1>1 DEF ChannelSet, Types
    <2>2. made = Send(d, Message("confirm"))
      BY DEF Connected
    <2> HIDE DEF d
    <2>3. Message("confirm") \in MessageSet
      BY MessageTypes
    <2> QED BY <1>3, <2>1, <2>2, <2>3, SendEffect
  <1>5. /\ refused \in ChannelSet /\ refused.type = "zombie"
        /\ refused.sends = <<Message("failure")>>
    <2> DEFINE d == [ch[x] EXCEPT !.type = "zombie"]
    <2>1. d \in ChannelSet /\ d.type = "zombie" /\ d.sends = <<>>
      BY <1>1 DEF ChannelSet, Types
    <2>2. refused = Send(d, Message("failure"))
      BY DEF NotConnected
    <2> HIDE DEF d
    <2>3. Message("failure") \in MessageSet
      BY MessageTypes
    <2> QED BY <1>3, <2>1, <2>2, <2>3, SendEffect
  <1> HIDE DEF made, refused
  <1>6. /\ freed \in ChannelSet /\ freed.type = "freed" /\ freed.flags = {}
        /\ freed.istate = "open" /\ freed.sends = <<Message("failure")>>
    <2>1. NewChannel("freed") \in ChannelSet /\ refused.sends \in Seq(MessageSet)
      BY <1>5, NewTypes DEF ChannelSet, Types
    <2>2. /\ freed \in ChannelSet /\ freed.type = "freed" /\ freed.flags = {}
          /\ freed.istate = "open" /\ freed.sends = refused.sends
      BY <2>1, NewTypes DEF Free, ChannelSet, Types
    <2> QED BY <1>5, <2>2, Zenon
  <1>7. Collect(made) = made /\ Collect(refused) = freed /\ Collect(ch[x]) = ch[x]
    BY <1>1, <1>4, <1>5 DEF Collect
  <1> HIDE DEF freed
  <1>8. ASSUME NEW d \in {made, freed}, Apply(x, d, queue[x])
        PROVE  /\ StateTypes' /\ ch'[Acceptor].type = d.type /\ ch'[Acceptor].flags = d.flags
               /\ ch'[Opener] = ch[Opener] /\ queue'[Acceptor] = <<>>
               /\ queue'[Opener] = d.sends
    <2>1. Regular(d) /\ StateTypes /\ d.sends \in Seq(MessageSet)
      BY <1>4, <1>6 DEF Regular, IInv, ChannelSet
    <2>2. /\ StateTypes' /\ ch'[x].type = d.type /\ ch'[x].flags = d.flags
          /\ ch'[Peer(x)] = ch[Peer(x)] /\ queue'[x] = queue[x]
          /\ queue'[Peer(x)] = queue[Peer(x)] \o d.sends
      BY <1>1, <1>8, <2>1, ApplyEffect
    <2>3. <<>> \o d.sends = d.sends
      BY <2>1, ConcatEmptySeq
    <2> QED BY <1>1, <2>2, <2>3, Zenon
  <1>9. CASE c = made
    <2>1. /\ StateTypes' /\ ch'[Acceptor].type = "open" /\ ch'[Acceptor].flags = {}
          /\ ch'[Opener] = ch[Opener] /\ queue'[Acceptor] = <<>>
          /\ queue'[Opener] = <<Message("confirm")>>
      BY <1>2, <1>4, <1>7, <1>8, <1>9
    <2>2. /\ <<>> \in Seq(MessageSet) /\ Traffic(<<>>, Closed(ch'[Acceptor]))
          /\ \A m : <<m>> \o <<>> = <<m>>
      BY DEF Traffic
    <2>3. Confirmed'
      BY <1>1, <2>1, <2>2 DEF Connecting, Confirmed, Received
    <2> QED BY <2>1, <2>3 DEF IInv
  <1>10. CASE c = refused
    <2>1. /\ StateTypes' /\ ch'[Acceptor].type = "freed"
          /\ ch'[Opener] = ch[Opener] /\ queue'[Acceptor] = <<>>
          /\ queue'[Opener] = <<Message("failure")>>
      BY <1>2, <1>6, <1>7, <1>8, <1>10
    <2> QED BY <1>1, <2>1 DEF IInv, Connecting, Refused
  <1>11. CASE c = ch[x]
    BY <1>1, <1>2, <1>7, <1>11, SameStep
  <1> QED BY <1>9, <1>10, <1>11

LEMMA OpenChannelStep ==
    ASSUME IInv, NEW x \in Peers, PostOpen(x)
    PROVE  IInv'
  <1> DEFINE read(n) == HandleRead(x, ch[x], n)
  <1>1. PICK r \in CanRead(x), w \in CanWrite(x) :
          /\ nread' = [nread EXCEPT ![x] = @ + r]
          /\ Apply(x, Collect(CheckWindow(HandleWrite(x, read(r), w))), queue[x])
    BY DEF PostOpen
  <1>2. ch[x].type = "open" /\ Live(ch[x]) /\ ch[x] \in ChannelSet /\ nread[x] \in Nat
    BY OpenLive DEF PostOpen, IInv, StateTypes
  <1>3. r \in Nat /\ w \in 0..Len(ch[x].output)
    <2>1. Len(ch[x].output) \in Nat
      BY <1>2, LenProperties DEF ChannelSet
    <2> QED BY <2>1 DEF CanRead, CanWrite
  <1>4. nread' \in [Peers -> Nat]
    BY <1>1, <1>2, <1>3 DEF IInv, StateTypes
  <1>5. Turns(ch[x], read(r)) /\ read(r).output = ch[x].output /\ Live(read(r))
    BY <1>2, <1>3, HandleReadTurns, TurnsLive
  <1> DEFINE written == HandleWrite(x, read(r), w)
  <1> HIDE DEF read
  <1>6. Turns(read(r), written)
    BY <1>3, <1>5, HandleWriteTurns
  <1>7. Turns(ch[x], CheckWindow(written)) /\ Live(CheckWindow(written))
    BY <1>5, <1>6, TurnsLive, CheckWindowTurns, TurnsCompose
  <1>8. Ends(ch[x], Collect(CheckWindow(written)))
    BY <1>2, <1>7, CollectEnds, TurnsThenEnds
  <1> QED BY <1>1, <1>2, <1>4, <1>8, OpenStep

LEMMA NextInv == IInv /\ [Next]_vars => IInv'
  <1> SUFFICES ASSUME IInv, [Next]_vars PROVE IInv'
    OBVIOUS
  <1>1. ASSUME NEW x \in Peers, Input(x) PROVE IInv'
    BY <1>1, InputStep
  <1>2. ASSUME NEW x \in Peers, Prepare(x) PROVE IInv'
    BY <1>2, PrepareStep
  <1>3. ASSUME NEW x \in Peers, Post(x) PROVE IInv'
    <2>1. CASE PostIdle(x)
      BY <2>1, Unchanged DEF PostIdle
    <2> QED BY <1>3, <2>1, AcceptStep, ConnectingStep, OpenChannelStep DEF Post
  <1>4. ASSUME NEW x \in Peers, Finish(x) \/ Reset(x) PROVE IInv'
    BY <1>4, Unchanged DEF Finish, Reset
  <1>5. CASE UNCHANGED vars
    BY <1>5, Unchanged DEF vars
  <1> QED BY <1>1, <1>2, <1>3, <1>4, <1>5 DEF Next

(* Between the two ends, the handshake and each direction of traffic keep  *)
(* to the invariant.                                                       *)
THEOREM TrafficCorrect == Spec => []IInv
  BY InitInv, NextInv, PTL DEF Spec

(* No message looks up a channel that its receiver has freed, or that      *)
(* could not be opened and waits to be: sshd would disconnect the session  *)
(* and every other connection in it (channel_lookup,                       *)
(* channel_from_packet_id).                                                *)
THEOREM FreedUndisturbed == Spec => []NoMessageForFreed
  <1>1. IInv => NoMessageForFreed
    <2> SUFFICES ASSUME IInv, NEW x \in Peers, ch[x].type \in {"none", "zombie", "freed"},
                        NEW i \in DOMAIN queue[x]
                 PROVE  queue[x][i].kind \in {"open", "adjust"}
      BY DEF NoMessageForFreed
    <2>1. queue[x] # <<>>
      OBVIOUS
    <2>2. Asked /\ x = Acceptor
      BY <2>1, NextMessage, TwoPeers DEF Asked, Confirmed, Refused
    <2>3. queue[x] = <<Message("open")>> /\ Message("open").kind = "open"
      BY <2>2, MessageTypes DEF Asked
    <2> QED BY <2>3
  <1> QED BY <1>1, TrafficCorrect, PTL
=============================================================================
