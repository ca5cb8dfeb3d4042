------------------------- MODULE ChannelRefinements -------------------------
(***************************************************************************)
(* What a forwarded connection promises, for all windows, packet sizes and *)
(* applications: each direction of Channel implements FlowControl and      *)
(* Stream, and the windows of both ends stay within their bounds.          *)
(***************************************************************************)
EXTENDS ChannelProofs, NaturalsInduction, WellFoundedInduction

(* Sums. *)
Partial(w, n, g) ==
    g = [i \in 0..n |-> IF i = 0 THEN 0 ELSE g[i - 1] + w[i]]

LEMMA Smallest ==
    ASSUME NEW S \in SUBSET Nat, S # {}
    PROVE  \E n \in S : \A m \in S : n <= m
  <1> DEFINE R == OpToRel(<, Nat)
  <1>1. IsWellFoundedOn(R, Nat)
    BY NatLessThanWellFounded
  <1>2. \E n \in S : \A m \in S : ~ (<<m, n>> \in R)
    <2> HIDE DEF R
    <2> QED BY <1>1, WFMin
  <1>3. \A m, n \in Nat : m < n => <<m, n>> \in R
    BY DEF OpToRel
  <1>4. \E n \in S : \A m \in S : ~ (m < n)
    <2> HIDE DEF R
    <2> QED BY <1>2, <1>3, Zenon
  <1> QED BY <1>4

(* There is a table of the sums of the first 0, 1, ... n numbers of w.     *)
LEMMA SumsExist ==
    ASSUME NEW w \in Seq(Nat)
    PROVE  \A n \in 0..Len(w) : \E g : Partial(w, n, g)
  <1> DEFINE Without == {n \in 0..Len(w) : ~ \E g : Partial(w, n, g)}
  <1> SUFFICES ASSUME Without # {} PROVE FALSE
    OBVIOUS
  <1>1. Len(w) \in Nat
    OBVIOUS
  <1>2. PICK n \in Without : \A m \in Without : n <= m
    <2>1. Without \in SUBSET Nat
      BY <1>1
    <2> QED BY <2>1, Smallest
  <1>3. n \in 0..Len(w) /\ ~ \E g : Partial(w, n, g)
    OBVIOUS
  <1>4. CASE n = 0
    <2>1. Partial(w, 0, [i \in 0..0 |-> 0])
      BY DEF Partial
    <2> QED BY <1>3, <1>4, <2>1
  <1>5. CASE n # 0
    <2>1. n - 1 \in 0..Len(w) /\ ~ (n <= n - 1)
      BY <1>1, <1>3, <1>5
    <2>2. PICK g : Partial(w, n - 1, g)
      BY <1>2, <2>1
    <2> DEFINE h == [i \in 0..n |-> IF i = n THEN g[n - 1] + w[n] ELSE g[i]]
    <2>3. \A i \in 0..(n - 1) : g[i] = IF i = 0 THEN 0 ELSE g[i - 1] + w[i]
      BY <2>2 DEF Partial
    <2>4. \A i \in 0..n : h[i] = IF i = 0 THEN 0 ELSE h[i - 1] + w[i]
      <3> SUFFICES ASSUME NEW i \in 0..n PROVE h[i] = IF i = 0 THEN 0 ELSE h[i - 1] + w[i]
        OBVIOUS
      <3>1. CASE i = n
        BY <1>3, <1>5, <3>1
      <3>2. CASE i # n
        <4>1. i \in 0..(n - 1) /\ (i # 0 => i - 1 \in 0..n /\ i - 1 # n)
          BY <1>3, <3>2
        <4> QED BY <2>3, <3>2, <4>1
      <3> QED BY <3>1, <3>2
    <2>5. h = [i \in 0..n |-> h[i]]
      OBVIOUS
    <2> HIDE DEF h
    <2>6. h = [i \in 0..n |-> IF i = 0 THEN 0 ELSE h[i - 1] + w[i]]
      BY <2>4, <2>5
    <2> QED BY <1>3, <2>6 DEF Partial
  <1> QED BY <1>4, <1>5

(* Total is the last entry of such a table.                                *)
LEMMA TotalTable ==
    ASSUME NEW w \in Seq(Nat)
    PROVE  \E g : /\ \A i \in 0..Len(w) : g[i] = IF i = 0 THEN 0 ELSE g[i - 1] + w[i]
                  /\ \A i \in 0..Len(w) : g[i] \in Nat
                  /\ Total(w) = g[Len(w)]
  <1> DEFINE g == CHOOSE f : Partial(w, Len(w), f)
  <1>1. Total(w) = g[Len(w)]
    BY DEF Total, Partial
  <1>2. Len(w) \in Nat /\ Len(w) \in 0..Len(w) /\ \A i \in 1..Len(w) : w[i] \in Nat
    OBVIOUS
  <1>3. Partial(w, Len(w), g)
    BY <1>2, SumsExist
  <1> HIDE DEF g
  <1>4. \A i \in 0..Len(w) : g[i] = IF i = 0 THEN 0 ELSE g[i - 1] + w[i]
    BY <1>3 DEF Partial
  <1>5. \A i \in 0..Len(w) : g[i] \in Nat
    <2> DEFINE Bad == {i \in 0..Len(w) : g[i] \notin Nat}
    <2> SUFFICES ASSUME Bad # {} PROVE FALSE
      OBVIOUS
    <2>1. PICK n \in Bad : \A m \in Bad : n <= m
      <3>1. Bad \in SUBSET Nat
        BY <1>2
      <3> QED BY <3>1, Smallest
    <2>2. n \in 0..Len(w) /\ g[n] \notin Nat
      OBVIOUS
    <2>3. n # 0
      BY <1>4, <2>2
    <2>4. n - 1 \in 0..Len(w) /\ ~ (n <= n - 1) /\ n \in 1..Len(w)
      BY <1>2, <2>2, <2>3
    <2>5. g[n - 1] \in Nat
      BY <2>1, <2>4
    <2>6. g[n] = g[n - 1] + w[n] /\ w[n] \in Nat
      BY <1>2, <1>4, <2>2, <2>3, <2>4
    <2> QED BY <2>2, <2>5, <2>6
  <1> QED BY <1>1, <1>4, <1>5

LEMMA TotalSmall ==
    /\ \A w \in Seq(Nat) : Total(w) \in Nat
    /\ Total(<<>>) = 0
    /\ \A n \in Nat : Total(<<n>>) = n
  <1>1. ASSUME NEW w \in Seq(Nat) PROVE Total(w) \in Nat
    <2>1. Len(w) \in 0..Len(w)
      OBVIOUS
    <2> QED BY <2>1, TotalTable
  <1>2. Total(<<>>) = 0
    <2> DEFINE w == <<>>
    <2>1. w \in Seq(Nat) /\ Len(w) = 0 /\ 0 \in 0..0
      OBVIOUS
    <2> HIDE DEF w
    <2>2. Total(w) = 0
      BY <2>1, TotalTable
    <2> QED BY <2>2 DEF w
  <1>3. ASSUME NEW n \in Nat PROVE Total(<<n>>) = n
    <2> DEFINE w == <<n>>
    <2>1. w \in Seq(Nat) /\ Len(w) = 1 /\ w[1] = n /\ 0 \in 0..1 /\ 1 \in 0..1
      OBVIOUS
    <2> HIDE DEF w
    <2>2. PICK g : /\ \A i \in 0..Len(w) : g[i] = IF i = 0 THEN 0 ELSE g[i - 1] + w[i]
                   /\ Total(w) = g[Len(w)]
      BY <2>1, TotalTable
    <2>3. g[0] = 0 /\ g[1] = g[0] + w[1]
      BY <2>1, <2>2
    <2>4. Total(w) = n
      BY <2>1, <2>2, <2>3
    <2> QED BY <2>4 DEF w
  <1> QED BY <1>1, <1>2, <1>3

(* The sum of w is that of its parts u and v.                              *)
LEMMA TotalJoins ==
    ASSUME NEW u \in Seq(Nat), NEW v \in Seq(Nat), NEW w \in Seq(Nat),
           Len(w) = Len(u) + Len(v),
           \A i \in 1..Len(u) : w[i] = u[i],
           \A i \in 1..Len(v) : w[Len(u) + i] = v[i]
    PROVE  Total(w) = Total(u) + Total(v)
  <1>1. PICK f : /\ \A i \in 0..Len(u) : f[i] = IF i = 0 THEN 0 ELSE f[i - 1] + u[i]
                 /\ \A i \in 0..Len(u) : f[i] \in Nat
                 /\ Total(u) = f[Len(u)]
    BY TotalTable
  <1>2. PICK g : /\ \A i \in 0..Len(v) : g[i] = IF i = 0 THEN 0 ELSE g[i - 1] + v[i]
                 /\ \A i \in 0..Len(v) : g[i] \in Nat
                 /\ Total(v) = g[Len(v)]
    BY TotalTable
  <1>3. PICK h : /\ \A i \in 0..Len(w) : h[i] = IF i = 0 THEN 0 ELSE h[i - 1] + w[i]
                 /\ Total(w) = h[Len(w)]
    BY TotalTable
  <1>4. Len(u) \in Nat /\ Len(v) \in Nat /\ \A i \in 1..Len(v) : v[i] \in Nat
    OBVIOUS
  <1> DEFINE Sum(i) == IF i <= Len(u) THEN f[i] ELSE f[Len(u)] + g[i - Len(u)]
             Bad == {i \in 0..Len(w) : h[i] # Sum(i)}
  <1>5. Bad = {}
    <2> SUFFICES ASSUME Bad # {} PROVE FALSE
      OBVIOUS
    <2>1. PICK n \in Bad : \A m \in Bad : n <= m
      <3>1. Bad \in SUBSET Nat
        BY <1>4
      <3> QED BY <3>1, Smallest
    <2>2. n \in 0..(Len(u) + Len(v)) /\ h[n] # Sum(n)
      OBVIOUS
    <2>3. n # 0
      <3>1. 0 \in 0..Len(w) /\ 0 \in 0..Len(u) /\ 0 <= Len(u)
        BY <1>4
      <3>2. h[0] = 0 /\ f[0] = 0
        BY <1>1, <1>3, <3>1
      <3> QED BY <2>2, <3>1, <3>2
    <2>4. n - 1 \in 0..Len(w) /\ ~ (n <= n - 1)
      BY <1>4, <2>2, <2>3
    <2>5. h[n - 1] = Sum(n - 1) /\ h[n] = h[n - 1] + w[n]
      BY <1>3, <2>1, <2>2, <2>3, <2>4
    <2>6. CASE n <= Len(u)
      <3>1. n \in 1..Len(u) /\ n \in 0..Len(u) /\ n - 1 <= Len(u)
        BY <1>4, <2>2, <2>3, <2>6
      <3>2. f[n] = f[n - 1] + u[n] /\ w[n] = u[n]
        BY <1>1, <2>3, <3>1
      <3> QED BY <2>2, <2>5, <2>6, <3>1, <3>2
    <2>7. CASE ~ (n <= Len(u))
      <3> DEFINE k == n - Len(u)
      <3>1. k \in 1..Len(v) /\ k \in 0..Len(v) /\ k - 1 \in 0..Len(v) /\ k # 0
            /\ n = Len(u) + k /\ Len(u) \in 0..Len(u) /\ 0 \in 0..Len(v)
        BY <1>4, <2>2, <2>7
      <3>2. /\ g[k] = g[k - 1] + v[k] /\ w[n] = v[k]
            /\ g[k - 1] \in Nat /\ v[k] \in Nat /\ f[Len(u)] \in Nat /\ g[0] = 0
        BY <1>1, <1>2, <1>4, <3>1
      <3>3. Sum(n) = f[Len(u)] + g[k]
        BY <2>7
      <3>4. Sum(n - 1) = f[Len(u)] + g[k - 1]
        <4>1. CASE k = 1
          <5>1. n - 1 = Len(u) /\ n - 1 <= Len(u) /\ k - 1 = 0
            BY <1>4, <2>2, <3>1, <4>1
          <5>2. Sum(n - 1) = f[Len(u)] /\ g[k - 1] = 0 /\ f[Len(u)] \in Nat
            BY <3>2, <5>1
          <5> HIDE DEF k, Sum, Bad
          <5> QED BY <5>2
        <4>2. CASE k # 1
          <5>1. ~ (n - 1 <= Len(u)) /\ n - 1 - Len(u) = k - 1
            BY <1>4, <2>2, <3>1, <4>2
          <5> QED BY <5>1
        <4> QED BY <4>1, <4>2
      <3> HIDE DEF k, Sum, Bad
      <3> QED BY <2>2, <2>5, <3>2, <3>3, <3>4, SMTT(30)
    <2> QED BY <2>6, <2>7
  <1>6. Len(w) \in 0..Len(w) /\ 0 \in 0..Len(v) /\ Len(u) \in 0..Len(u) /\ Len(v) \in 0..Len(v)
    BY <1>4
  <1>7. Total(w) = Sum(Len(w))
    BY <1>3, <1>5, <1>6
  <1>8. CASE Len(v) = 0
    BY <1>1, <1>2, <1>4, <1>6, <1>7, <1>8
  <1>9. CASE Len(v) # 0
    <2>1. ~ (Len(w) <= Len(u)) /\ Len(w) - Len(u) = Len(v)
      BY <1>4, <1>9
    <2> QED BY <1>1, <1>2, <1>7, <2>1
  <1> QED BY <1>8, <1>9

(* What a message carries.                                                 *)
LEMMA Carries ==
    /\ \A m \in MessageSet : DataIn(m) \in Nat /\ WindowIn(m) \in Nat
    /\ \A m \in MessageSet : m.kind = "data" => DataIn(m) = Len(m.bytes) /\ WindowIn(m) = 0
    /\ \A m \in MessageSet : m.kind = "adjust" => DataIn(m) = 0 /\ WindowIn(m) = m.n
    /\ \A m \in MessageSet :
         m.kind \in {"eof", "close", "failure"} => DataIn(m) = 0 /\ WindowIn(m) = 0
    /\ \A m \in MessageSet :
         m.kind \in {"open", "confirm"} => DataIn(m) = 0 /\ WindowIn(m) = Window
  <1>1. \A m \in MessageSet :
          m.kind \in {"open", "confirm", "failure", "eof", "close", "data", "adjust"}
    BY DEF MessageSet
  <1>2. Window \in Nat
    BY SizeAssumption
  <1> QED BY <1>1, <1>2, MessageTypes, LenProperties DEF DataIn, WindowIn

(* The sums over a queue, by its parts.                                    *)
LEMMA SumsOfParts ==
    ASSUME NEW q \in Seq(MessageSet), NEW s \in Seq(MessageSet)
    PROVE  /\ DataOf(q \o s) = DataOf(q) + DataOf(s)
           /\ WindowOf(q \o s) = WindowOf(q) + WindowOf(s)
           /\ DataOf(q) \in Nat /\ WindowOf(q) \in Nat
  <1> DEFINE r == q \o s
             data(t) == [i \in DOMAIN t |-> DataIn(t[i])]
             window(t) == [i \in DOMAIN t |-> WindowIn(t[i])]
  <1>1. /\ r \in Seq(MessageSet) /\ Len(r) = Len(q) + Len(s)
        /\ \A i \in 1..Len(r) : r[i] = IF i <= Len(q) THEN q[i] ELSE s[i - Len(q)]
    BY ConcatProperties
  <1>2. Len(q) \in Nat /\ Len(s) \in Nat
    OBVIOUS
  <1> HIDE DEF r
  <1>3. ASSUME NEW t \in Seq(MessageSet)
        PROVE  /\ data(t) \in Seq(Nat) /\ window(t) \in Seq(Nat)
               /\ Len(data(t)) = Len(t) /\ Len(window(t)) = Len(t)
               /\ \A i \in 1..Len(t) : data(t)[i] = DataIn(t[i]) /\ window(t)[i] = WindowIn(t[i])
    <2>1. DOMAIN t = 1..Len(t) /\ Len(t) \in Nat /\ \A i \in 1..Len(t) : t[i] \in MessageSet
      OBVIOUS
    <2>2. \A i \in 1..Len(t) : DataIn(t[i]) \in Nat /\ WindowIn(t[i]) \in Nat
      BY <2>1, Carries
    <2> QED BY <2>1, <2>2
  <1>4. /\ \A i \in 1..Len(q) : r[i] = q[i] /\ i \in 1..Len(r)
        /\ \A i \in 1..Len(s) : r[Len(q) + i] = s[i] /\ Len(q) + i \in 1..Len(r)
    BY <1>1, <1>2
  <1>5. DataOf(r) = DataOf(q) + DataOf(s)
    <2> DEFINE u == data(q)
               v == data(s)
               w == data(r)
    <2>1. /\ w \in Seq(Nat) /\ u \in Seq(Nat) /\ v \in Seq(Nat)
          /\ Len(w) = Len(u) + Len(v)
          /\ Len(u) = Len(q) /\ Len(v) = Len(s)
      BY <1>1, <1>3
    <2>2. /\ \A i \in 1..Len(q) : w[i] = u[i]
          /\ \A i \in 1..Len(s) : w[Len(q) + i] = v[i]
      BY <1>1, <1>3, <1>4
    <2>3. DataOf(q) = Total(u) /\ DataOf(s) = Total(v) /\ DataOf(r) = Total(w)
      BY DEF DataOf
    <2> HIDE DEF u, v, w
    <2>4. /\ \A i \in 1..Len(u) : w[i] = u[i]
          /\ \A i \in 1..Len(v) : w[Len(u) + i] = v[i]
      BY <2>1, <2>2
    <2>5. Total(w) = Total(u) + Total(v)
      BY <2>1, <2>4, TotalJoins
    <2> QED BY <2>3, <2>5
  <1>6. WindowOf(r) = WindowOf(q) + WindowOf(s)
    <2> DEFINE u == window(q)
               v == window(s)
               w == window(r)
    <2>1. /\ w \in Seq(Nat) /\ u \in Seq(Nat) /\ v \in Seq(Nat)
          /\ Len(w) = Len(u) + Len(v)
          /\ Len(u) = Len(q) /\ Len(v) = Len(s)
      BY <1>1, <1>3
    <2>2. /\ \A i \in 1..Len(q) : w[i] = u[i]
          /\ \A i \in 1..Len(s) : w[Len(q) + i] = v[i]
      BY <1>1, <1>3, <1>4
    <2>3. WindowOf(q) = Total(u) /\ WindowOf(s) = Total(v) /\ WindowOf(r) = Total(w)
      BY DEF WindowOf
    <2> HIDE DEF u, v, w
    <2>4. /\ \A i \in 1..Len(u) : w[i] = u[i]
          /\ \A i \in 1..Len(v) : w[Len(u) + i] = v[i]
      BY <2>1, <2>2
    <2>5. Total(w) = Total(u) + Total(v)
      BY <2>1, <2>4, TotalJoins
    <2> QED BY <2>3, <2>5
  <1>7. DataOf(q) \in Nat /\ WindowOf(q) \in Nat
    BY <1>3, TotalSmall DEF DataOf, WindowOf
  <1> QED BY <1>5, <1>6, <1>7 DEF r

LEMMA SumsOfOne ==
    /\ DataOf(<<>>) = 0 /\ WindowOf(<<>>) = 0
    /\ \A m \in MessageSet : DataOf(<<m>>) = DataIn(m) /\ WindowOf(<<m>>) = WindowIn(m)
  <1>1. /\ DOMAIN <<>> = 1..0 /\ \A f \in [1..0 -> Nat] : f = <<>>
    OBVIOUS
  <1>2. /\ [i \in DOMAIN <<>> |-> DataIn(<<>>[i])] = <<>>
        /\ [i \in DOMAIN <<>> |-> WindowIn(<<>>[i])] = <<>>
    BY <1>1
  <1>3. ASSUME NEW m \in MessageSet
        PROVE  DataOf(<<m>>) = DataIn(m) /\ WindowOf(<<m>>) = WindowIn(m)
    <2>1. DOMAIN <<m>> = 1..1 /\ <<m>>[1] = m
      OBVIOUS
    <2>2. /\ [i \in DOMAIN <<m>> |-> DataIn(<<m>>[i])] = [i \in 1..1 |-> DataIn(m)]
          /\ [i \in DOMAIN <<m>> |-> WindowIn(<<m>>[i])] = [i \in 1..1 |-> WindowIn(m)]
      BY <2>1
    <2>3. \A n \in Nat : [i \in 1..1 |-> n] = <<n>>
      OBVIOUS
    <2> QED BY <2>2, <2>3, Carries, TotalSmall DEF DataOf, WindowOf
  <1> QED BY <1>2, <1>3, TotalSmall DEF DataOf, WindowOf

(* The head of a queue leaves the sums of the rest.                        *)
LEMMA SumsOfTail ==
    ASSUME NEW q \in Seq(MessageSet), q # <<>>
    PROVE  /\ Head(q) \in MessageSet /\ Tail(q) \in Seq(MessageSet)
           /\ DataOf(q) = DataIn(Head(q)) + DataOf(Tail(q))
           /\ WindowOf(q) = WindowIn(Head(q)) + WindowOf(Tail(q))
  <1> DEFINE h == <<Head(q)>>
             t == Tail(q)
  <1>1. Head(q) \in MessageSet /\ t \in Seq(MessageSet) /\ h \in Seq(MessageSet)
    OBVIOUS
  <1>2. q = h \o t
    OBVIOUS
  <1>3. DataOf(h) = DataIn(Head(q)) /\ WindowOf(h) = WindowIn(Head(q))
    BY <1>1, SumsOfOne
  <1> HIDE DEF h, t
  <1>4. DataOf(h \o t) = DataOf(h) + DataOf(t) /\ WindowOf(h \o t) = WindowOf(h) + WindowOf(t)
    BY <1>1, SumsOfParts
  <1>5. DataOf(q) = DataOf(h) + DataOf(t) /\ WindowOf(q) = WindowOf(h) + WindowOf(t)
    BY <1>2, <1>4
  <1> QED BY <1>1, <1>3, <1>5 DEF t

(* What is added to a queue, message by message.                           *)
LEMMA SumsOfAppend ==
    ASSUME NEW q \in Seq(MessageSet), NEW m \in MessageSet
    PROVE  /\ DataOf(Append(q, m)) = DataOf(q) + DataIn(m)
           /\ WindowOf(Append(q, m)) = WindowOf(q) + WindowIn(m)
  <1>1. Append(q, m) = q \o <<m>> /\ <<m>> \in Seq(MessageSet)
    OBVIOUS
  <1> QED BY <1>1, SumsOfParts, SumsOfOne
-----------------------------------------------------------------------------
(* What each function of nchan.c and channels.c leaves of a channel.       *)

(* The receiving half of a channel, the sending half, and what it sends.   *)
SameIn(c, d) == d.lwin = c.lwin /\ d.consumed = c.consumed /\ d.output = c.output

SameOut(c, d) == d.rwin = c.rwin /\ d.input = c.input

LEMMA SendKeeps ==
    ASSUME NEW c \in ChannelSet, NEW m \in MessageSet
    PROVE  LET d == Send(c, m)
           IN  /\ d \in ChannelSet /\ SameIn(c, d) /\ SameOut(c, d)
               /\ d.type = c.type /\ d.istate = c.istate /\ d.ostate = c.ostate
               /\ d.flags = c.flags /\ d.sends = Append(c.sends, m)
  <1> DEFINE s == Append(c.sends, m)
  <1>1. s \in Seq(MessageSet)
    BY DEF ChannelSet
  <1> HIDE DEF s
  <1>2. LET d == [c EXCEPT !.sends = s]
        IN  /\ d \in ChannelSet /\ SameIn(c, d) /\ SameOut(c, d)
            /\ d.type = c.type /\ d.istate = c.istate /\ d.ostate = c.ostate
            /\ d.flags = c.flags /\ d.sends = s
    BY <1>1 DEF ChannelSet, SameIn, SameOut
  <1>3. Send(c, m) = [c EXCEPT !.sends = s]
    BY DEF Send, s
  <1> QED BY <1>2, <1>3 DEF s

LEMMA FlagKeeps ==
    ASSUME NEW c \in ChannelSet, NEW f \in {"eofSent", "eofRcvd", "closeSent", "closeRcvd"}
    PROVE  LET d == Flag(c, f)
           IN  /\ d \in ChannelSet /\ SameIn(c, d) /\ SameOut(c, d)
               /\ d.type = c.type /\ d.istate = c.istate /\ d.ostate = c.ostate
               /\ d.flags = c.flags \union {f} /\ d.sends = c.sends
  BY DEF Flag, ChannelSet, SameIn, SameOut

LEMMA SendEofKeeps ==
    ASSUME NEW c \in ChannelSet
    PROVE  LET d == SendEof(c)
           IN  /\ d \in ChannelSet /\ SameIn(c, d) /\ SameOut(c, d)
               /\ d.type = c.type /\ d.istate = c.istate /\ d.ostate = c.ostate
               /\ d.sends = Append(c.sends, Message("eof"))
  <1> DEFINE s == Send(c, Message("eof"))
  <1>1. /\ s \in ChannelSet /\ SameIn(c, s) /\ SameOut(c, s)
        /\ s.type = c.type /\ s.istate = c.istate /\ s.ostate = c.ostate
        /\ s.sends = Append(c.sends, Message("eof"))
    BY SendKeeps, MessageTypes
  <1> HIDE DEF s
  <1>2. SendEof(c) = Flag(s, "eofSent")
    BY DEF SendEof, s
  <1> QED BY <1>1, <1>2, FlagKeeps DEF SameIn, SameOut

(* channel_output_poll sends a part of the input, the end of it, or        *)
(* nothing.                                                                *)
Nothing(c, d) == SameOut(c, d) /\ d.istate = c.istate /\ d.sends = c.sends

SendsData(c, d, n) ==
    /\ ~Closed(c) /\ c.istate # "closed"
    /\ n \in 1..Len(c.input) /\ n <= c.rwin /\ n <= MaxPacket
    /\ d.rwin = c.rwin - n /\ d.input = SubSeq(c.input, n + 1, Len(c.input))
    /\ d.istate = c.istate
    /\ d.sends = Append(c.sends, Data(SubSeq(c.input, 1, n)))

SendsEof(c, d) ==
    /\ ~Closed(c) /\ SameOut(c, d)
    /\ c.istate = "drain" /\ c.input = <<>> /\ d.istate = "closed"
    /\ d.sends = Append(c.sends, Message("eof"))

LEMMA LeastIsLeast ==
    ASSUME NEW a \in Nat, NEW b \in Nat, NEW c \in Nat
    PROVE  Min({a, b, c}) <= c
  <1>1. \E m \in {a, b, c} : \A k \in {a, b, c} : m <= k
    <2>1. CASE a <= b /\ a <= c  BY <2>1
    <2>2. CASE b <= a /\ b <= c  BY <2>2
    <2>3. CASE c <= a /\ c <= b  BY <2>3
    <2> QED BY <2>1, <2>2, <2>3
  <1>2. Min({a, b, c}) \in {a, b, c} /\ \A k \in {a, b, c} : Min({a, b, c}) <= k
    BY <1>1, Zenon DEF Min
  <1> QED BY <1>2

LEMMA SendInputKeeps ==
    ASSUME NEW c, Live(c), ~Closed(c), c.istate # "closed", NEW d, d = SendInput(c)
    PROVE  /\ d \in ChannelSet /\ SameIn(c, d) /\ d.type = c.type /\ d.ostate = c.ostate
           /\ Nothing(c, d) \/ \E n \in Nat : SendsData(c, d, n)
  <1> DEFINE n == Min({Len(c.input), c.rwin, MaxPacket})
             m == Data(SubSeq(c.input, 1, n))
             s == Send(c, m)
             left == SubSeq(s.input, n + 1, Len(s.input))
             win == s.rwin - n
             e == [s EXCEPT !.input = left, !.rwin = win]
  <1>1. /\ c \in ChannelSet /\ c.input \in Seq(Nat) /\ c.rwin \in Nat
        /\ Len(c.input) \in Nat /\ MaxPacket \in Nat
    BY SizeAssumption DEF Live, Regular, ChannelSet
  <1>2. n \in Nat /\ n <= Len(c.input) /\ n <= c.rwin /\ n <= MaxPacket
    BY <1>1, LeastOfThree, LeastIsLeast, Zenon
  <1>3. d = IF n = 0 THEN c ELSE e
    BY DEF SendInput
  <1> HIDE DEF n
  <1>4. m \in MessageSet
    <2>1. n \in 0..Len(c.input)
      BY <1>1, <1>2
    <2> QED BY <1>1, <2>1, Parts, MessageTypes
  <1> HIDE DEF m
  <1>5. /\ s \in ChannelSet /\ SameIn(c, s) /\ SameOut(c, s)
        /\ s.type = c.type /\ s.istate = c.istate /\ s.ostate = c.ostate
        /\ s.sends = Append(c.sends, m)
    BY <1>1, <1>4, SendKeeps
  <1> HIDE DEF s
  <1>6. left \in Seq(Nat) /\ win \in Nat
    <2>1. s.input = c.input /\ s.rwin = c.rwin /\ n \in 0..Len(c.input)
      BY <1>1, <1>2, <1>5 DEF SameOut
    <2> QED BY <1>1, <1>2, <2>1, Parts
  <1>7. left = SubSeq(c.input, n + 1, Len(c.input)) /\ win = c.rwin - n
    BY <1>5 DEF SameOut
  <1> HIDE DEF left, win
  <1>8. /\ e \in ChannelSet /\ e.lwin = s.lwin /\ e.consumed = s.consumed /\ e.output = s.output
        /\ e.type = s.type /\ e.istate = s.istate /\ e.ostate = s.ostate
        /\ e.sends = s.sends /\ e.input = left /\ e.rwin = win
    BY <1>5, <1>6 DEF ChannelSet
  <1> HIDE DEF e
  <1>9. CASE n = 0
    BY <1>1, <1>3, <1>9 DEF Nothing, SameIn, SameOut
  <1>10. CASE n # 0
    <2>1. d = e /\ n \in 1..Len(c.input)
      BY <1>1, <1>2, <1>3, <1>10
    <2>2. SendsData(c, d, n)
      BY <1>2, <1>5, <1>7, <1>8, <2>1 DEF SendsData, m
    <2> QED BY <1>2, <1>5, <1>8, <2>1, <2>2 DEF SameIn
  <1> QED BY <1>9, <1>10

LEMMA PollKeeps ==
    ASSUME NEW c, Live(c), NEW d, d = OutputPoll(c)
    PROVE  /\ d \in ChannelSet /\ SameIn(c, d) /\ d.type = c.type /\ d.ostate = c.ostate
           /\ Nothing(c, d) \/ SendsEof(c, d) \/ \E n \in Nat : SendsData(c, d, n)
  <1>1. c \in ChannelSet
    BY DEF Live, Regular
  <1>2. CASE d = c
    BY <1>1, <1>2 DEF Nothing, SameIn, SameOut
  <1>3. CASE d = SendInput(c) /\ ~Closing(c) /\ c.istate # "closed"
    BY <1>3, SendInputKeeps DEF Closing, Closed, Live
  <1>4. CASE d = InputEmpty(c) /\ ~Closing(c) /\ c.istate = "drain" /\ c.input = <<>>
    <2> DEFINE s == SendEof(c)
    <2>1. /\ s \in ChannelSet /\ SameIn(c, s) /\ SameOut(c, s)
          /\ s.type = c.type /\ s.istate = c.istate /\ s.ostate = c.ostate
          /\ s.sends = Append(c.sends, Message("eof"))
      BY <1>1, SendEofKeeps
    <2>2. d = [s EXCEPT !.istate = "closed"] /\ ~Closed(c)
      BY <1>4 DEF InputEmpty, Closing, Closed, Live
    <2> HIDE DEF s
    <2>3. /\ d \in ChannelSet /\ d.lwin = s.lwin /\ d.consumed = s.consumed
          /\ d.output = s.output /\ d.input = s.input /\ d.rwin = s.rwin
          /\ d.type = s.type /\ d.istate = "closed" /\ d.ostate = s.ostate
          /\ d.sends = s.sends
      BY <2>1, <2>2 DEF ChannelSet, Stage
    <2> QED BY <1>4, <2>1, <2>2, <2>3 DEF SendsEof, SameIn, SameOut
  <1> QED BY <1>2, <1>3, <1>4 DEF OutputPoll

LEMMA PreKeeps ==
    ASSUME NEW c \in ChannelSet, NEW d, d = Pre(c)
    PROVE  /\ d \in ChannelSet /\ SameIn(c, d) /\ Nothing(c, d)
           /\ d.type = c.type
           /\ \/ d.ostate = c.ostate
              \/ c.ostate = "drain" /\ c.output = <<>> /\ d.ostate = "closed"
  BY DEF Pre, OutputEmpty, ChannelSet, Stage, SameIn, SameOut, Nothing

(* Collecting sends a CLOSE, if the channel has ended and has not closed   *)
(* yet, and may free the channel.                                          *)
Ended(c) == c.istate = "closed" /\ c.ostate = "closed"

LEMMA CollectKeeps ==
    ASSUME NEW c, Live(c), NEW d, d = Collect(c)
    PROVE  /\ d \in ChannelSet
           /\ d.sends = c.sends \/ (Ended(c) /\ d.sends = Append(c.sends, Message("close")))
           /\ \/ /\ d.type = "open" /\ SameIn(c, d) /\ SameOut(c, d)
                 /\ d.istate = c.istate /\ d.ostate = c.ostate
              \/ /\ Ended(c) /\ Received(c)
                 /\ d = [NewChannel("freed") EXCEPT !.sends = d.sends]
  <1> DEFINE s == Send(c, Message("close"))
             e == IF "closeSent" \in c.flags THEN c ELSE SendClose(c)
  <1>1. c \in ChannelSet /\ c.type = "open"
    BY DEF Live, Regular
  <1>2. /\ s \in ChannelSet /\ SameIn(c, s) /\ SameOut(c, s)
        /\ s.type = c.type /\ s.istate = c.istate /\ s.ostate = c.ostate
        /\ s.flags = c.flags /\ s.sends = Append(c.sends, Message("close"))
    BY <1>1, SendKeeps, MessageTypes
  <1>3. SendClose(c) = Flag(s, "closeSent")
    BY DEF SendClose
  <1> HIDE DEF s
  <1>4. /\ e \in ChannelSet /\ SameIn(c, e) /\ SameOut(c, e)
        /\ e.type = c.type /\ e.istate = c.istate /\ e.ostate = c.ostate
        /\ "closeRcvd" \in e.flags => "closeRcvd" \in c.flags
        /\ e.sends = c.sends \/ e.sends = Append(c.sends, Message("close"))
    BY <1>1, <1>2, <1>3, FlagKeeps DEF SameIn, SameOut
  <1>5. d = IF Ended(c) THEN IF Dead(e) THEN Free(e) ELSE e ELSE c
    BY <1>1 DEF Collect, Ended
  <1> HIDE DEF e
  <1>6. CASE ~Ended(c)
    BY <1>1, <1>5, <1>6 DEF SameIn, SameOut
  <1>7. CASE Ended(c) /\ ~Dead(e)
    BY <1>1, <1>4, <1>5, <1>7
  <1>8. CASE Ended(c) /\ Dead(e)
    <2>1. d = [NewChannel("freed") EXCEPT !.sends = e.sends]
      BY <1>5, <1>8 DEF Free
    <2>2. NewChannel("freed") \in ChannelSet /\ e.sends \in Seq(MessageSet)
      BY <1>4, NewTypes DEF ChannelSet, Types
    <2>3. d \in ChannelSet /\ d.sends = e.sends
      BY <2>1, <2>2 DEF ChannelSet
    <2> QED BY <1>4, <1>8, <2>1, <2>3 DEF Dead, Received
  <1> QED BY <1>6, <1>7, <1>8

(* The bytes that are read are numbered: those after a, up to b.           *)
Run(a, b) == [i \in 1..(b - a) |-> a + i]

LEMMA RunTypes ==
    ASSUME NEW a \in Nat, NEW b \in Nat, a <= b
    PROVE  /\ Run(a, b) \in Seq(Nat) /\ Len(Run(a, b)) = b - a
           /\ \A i \in 1..(b - a) : Run(a, b)[i] = a + i
  <1>1. b - a \in Nat /\ \A i \in 1..(b - a) : a + i \in Nat
    OBVIOUS
  <1> QED BY <1>1 DEF Run

Reads(x, d, n) ==
    LET c == ch[x]
    IN  /\ d \in ChannelSet /\ SameIn(c, d) /\ d.rwin = c.rwin
        /\ d.type = c.type /\ d.ostate = c.ostate /\ d.sends = c.sends
        /\ \/ d.istate = c.istate /\ d.input = c.input \o Run(nread[x], nread[x] + n)
           \/ n = 0 /\ c.istate = "open" /\ d.istate = "drain" /\ d.input = c.input

LEMMA ReadKeeps ==
    ASSUME NEW x \in Peers, Live(ch[x]), nread[x] \in Nat, NEW n \in Nat
    PROVE  Reads(x, HandleRead(x, ch[x], n), n)
  <1> DEFINE c == ch[x]
             new == [i \in 1..n |-> nread[x] + i]
             more == c.input \o new
             e == [c EXCEPT !.input = more]
             d == HandleRead(x, c, n)
  <1>1. c \in ChannelSet /\ c.input \in Seq(Nat)
    BY DEF Live, Regular, ChannelSet
  <1>2. d = IF Ending(x) /\ n = 0 THEN ReadFailed(c) ELSE e
    BY DEF HandleRead
  <1> HIDE DEF d
  <1>3. new \in Seq(Nat)
    <2>1. \A i \in 1..n : nread[x] + i \in Nat
      OBVIOUS
    <2> QED BY <2>1
  <1>4. more \in Seq(Nat)
    BY <1>1, <1>3, ConcatProperties
  <1> HIDE DEF more
  <1>5. CASE Ending(x) /\ n = 0
    <2>1. d = [c EXCEPT !.istate = "drain"] /\ c.istate = "open"
      BY <1>2, <1>5 DEF Ending, WantsRead, ReadFailed
    <2> HIDE DEF c
    <2>2. /\ d \in ChannelSet /\ SameIn(c, d) /\ d.rwin = c.rwin
          /\ d.type = c.type /\ d.ostate = c.ostate /\ d.sends = c.sends
          /\ d.istate = "drain" /\ d.input = c.input
      BY <1>1, <2>1 DEF ChannelSet, Stage, SameIn
    <2> QED BY <1>5, <2>1, <2>2 DEF Reads, c, d
  <1>6. CASE ~ (Ending(x) /\ n = 0)
    <2>1. d = e
      BY <1>2, <1>6
    <2> HIDE DEF c
    <2>2. /\ d \in ChannelSet /\ SameIn(c, d) /\ d.rwin = c.rwin
          /\ d.type = c.type /\ d.ostate = c.ostate /\ d.sends = c.sends
          /\ d.istate = c.istate /\ d.input = more
      BY <1>1, <1>4, <2>1 DEF ChannelSet, SameIn
    <2>3. nread[x] + n - nread[x] = n
      OBVIOUS
    <2>4. new = Run(nread[x], nread[x] + n)
      BY <2>3 DEF Run
    <2> HIDE DEF new
    <2> QED BY <2>2, <2>4 DEF Reads, c, d, more
  <1> QED BY <1>5, <1>6

LEMMA WriteKeeps ==
    ASSUME NEW x \in Peers, NEW c \in ChannelSet, NEW n \in 0..Len(c.output),
           NEW d, d = HandleWrite(x, c, n)
    PROVE  /\ d \in ChannelSet /\ SameOut(c, d) /\ d.lwin = c.lwin
           /\ d.type = c.type /\ d.istate = c.istate /\ d.sends = c.sends
           /\ \/ /\ d.ostate = c.ostate /\ d.consumed = c.consumed + n
                 /\ d.output = SubSeq(c.output, n + 1, Len(c.output))
              \/ /\ app[x] = "reset" /\ c.ostate # "closed" /\ c.output # <<>>
                 /\ d.ostate = "closed" /\ d.consumed = c.consumed /\ d.output = <<>>
  <1> DEFINE left == SubSeq(c.output, n + 1, Len(c.output))
             total == c.consumed + n
  <1>1. c.output \in Seq(Nat) /\ c.consumed \in Nat /\ <<>> \in Seq(Nat)
    BY DEF ChannelSet
  <1>2. left \in Seq(Nat) /\ total \in Nat
    BY <1>1, Parts, LenProperties
  <1>3. \/ /\ app[x] = "reset" /\ c.ostate # "closed" /\ c.output # <<>>
           /\ d = [c EXCEPT !.ostate = "closed", !.output = <<>>]
        \/ d = [c EXCEPT !.output = left, !.consumed = total]
    BY DEF HandleWrite, WriteFailed, WantsWrite
  <1> HIDE DEF left, total
  <1>4. CASE d = [c EXCEPT !.output = left, !.consumed = total]
    <2>1. /\ d \in ChannelSet /\ SameOut(c, d) /\ d.lwin = c.lwin
          /\ d.type = c.type /\ d.istate = c.istate /\ d.sends = c.sends
          /\ d.ostate = c.ostate /\ d.consumed = total /\ d.output = left
      BY <1>2, <1>4 DEF ChannelSet, SameOut
    <2> QED BY <2>1 DEF total, left
  <1>5. CASE /\ app[x] = "reset" /\ c.ostate # "closed" /\ c.output # <<>>
             /\ d = [c EXCEPT !.ostate = "closed", !.output = <<>>]
    BY <1>1, <1>5 DEF ChannelSet, SameOut, Stage
  <1> QED BY <1>3, <1>4, <1>5

LEMMA CheckKeeps ==
    ASSUME NEW c, Live(c), NEW d, d = CheckWindow(c)
    PROVE  /\ d \in ChannelSet /\ SameOut(c, d) /\ d.output = c.output
           /\ d.type = c.type /\ d.istate = c.istate /\ d.ostate = c.ostate
           /\ \/ d.lwin = c.lwin /\ d.consumed = c.consumed /\ d.sends = c.sends
              \/ /\ ~Closed(c) /\ c.consumed > 0
                 /\ Window - c.lwin > 3 * MaxPacket \/ c.lwin < Window \div 2
                 /\ d.lwin = c.lwin + c.consumed /\ d.consumed = 0
                 /\ d.sends = Append(c.sends, Adjust(c.consumed))
  <1> DEFINE s == Send(c, Adjust(c.consumed))
             v == s.lwin + c.consumed
             due == /\ c.type = "open" /\ ~Closing(c) /\ c.consumed > 0
                    /\ Window - c.lwin > 3 * MaxPacket \/ c.lwin < Window \div 2
  <1>1. c \in ChannelSet /\ c.consumed \in Nat /\ c.lwin \in Int
    BY DEF Live, Regular, ChannelSet
  <1>2. /\ s \in ChannelSet /\ SameIn(c, s) /\ SameOut(c, s)
        /\ s.type = c.type /\ s.istate = c.istate /\ s.ostate = c.ostate
        /\ s.sends = Append(c.sends, Adjust(c.consumed))
    BY <1>1, SendKeeps, MessageTypes
  <1>3. d = IF due THEN [s EXCEPT !.lwin = v, !.consumed = 0] ELSE c
    BY DEF CheckWindow
  <1>4. CASE ~due
    BY <1>1, <1>3, <1>4 DEF SameOut
  <1>5. CASE due
    <2>1. d = [s EXCEPT !.lwin = v, !.consumed = 0]
      BY <1>3, <1>5
    <2>2. ~Closed(c) /\ v = c.lwin + c.consumed
      BY <1>2, <1>5 DEF Closed, Closing, SameIn
    <2>3. s \in ChannelSet /\ v \in Int
      BY <1>1, <1>2, <2>2
    <2> HIDE DEF s, v
    <2> DEFINE e == [s EXCEPT !.lwin = v, !.consumed = 0]
    <2>4. /\ e \in ChannelSet /\ e.rwin = s.rwin /\ e.input = s.input /\ e.output = s.output
          /\ e.type = s.type /\ e.istate = s.istate /\ e.ostate = s.ostate
          /\ e.lwin = v /\ e.consumed = 0 /\ e.sends = s.sends
      BY <2>3 DEF ChannelSet
    <2> HIDE DEF e
    <2>5. d = e
      BY <2>1 DEF e
    <2> QED BY <1>2, <1>5, <2>2, <2>4, <2>5 DEF SameIn, SameOut
  <1> QED BY <1>4, <1>5

LEMMA DataKeeps ==
    ASSUME NEW c, Live(c), NEW bytes \in Seq(Nat), NEW d, d = RcvdData(c, bytes)
    PROVE  /\ d \in ChannelSet /\ Nothing(c, d) /\ d.type = c.type /\ d.ostate = c.ostate
           /\ \/ /\ c.ostate # "open" /\ d.lwin = c.lwin - Len(bytes)
                 /\ d.consumed = c.consumed + Len(bytes) /\ d.output = c.output
              \/ /\ c.ostate = "open" /\ d.lwin = c.lwin - Len(bytes)
                 /\ d.consumed = c.consumed /\ d.output = c.output \o bytes
              \/ Len(bytes) > MaxPacket \/ Len(bytes) > c.lwin
  <1> DEFINE window == c.lwin - Len(bytes)
             total == c.consumed + Len(bytes)
             more == c.output \o bytes
             e == [c EXCEPT !.lwin = window, !.consumed = total]
             f == [c EXCEPT !.lwin = window, !.output = more]
  <1>1. /\ c \in ChannelSet /\ c.lwin \in Int /\ c.consumed \in Nat /\ c.type = "open"
        /\ c.output \in Seq(Nat) /\ Len(bytes) \in Nat
    BY LenProperties DEF Live, Regular, ChannelSet
  <1>2. window \in Int /\ total \in Nat /\ more \in Seq(Nat)
    BY <1>1, ConcatProperties
  <1>3. \/ d = e /\ c.ostate # "open"
        \/ d = f /\ c.ostate = "open"
        \/ d = c /\ (Len(bytes) > MaxPacket \/ Len(bytes) > c.lwin)
    BY <1>1 DEF RcvdData
  <1>4. CASE d = c /\ (Len(bytes) > MaxPacket \/ Len(bytes) > c.lwin)
    BY <1>1, <1>4 DEF Nothing, SameOut
  <1> HIDE DEF window, total, more
  <1>5. /\ e \in ChannelSet /\ Nothing(c, e) /\ e.type = c.type /\ e.ostate = c.ostate
        /\ e.lwin = window /\ e.consumed = total /\ e.output = c.output
    BY <1>1, <1>2 DEF ChannelSet, Nothing, SameOut
  <1>6. /\ f \in ChannelSet /\ Nothing(c, f) /\ f.type = c.type /\ f.ostate = c.ostate
        /\ f.lwin = window /\ f.consumed = c.consumed /\ f.output = more
    BY <1>1, <1>2 DEF ChannelSet, Nothing, SameOut
  <1> HIDE DEF e, f
  <1>7. CASE d = e /\ c.ostate # "open"
    BY <1>5, <1>7 DEF window, total
  <1>8. CASE d = f /\ c.ostate = "open"
    BY <1>6, <1>8 DEF window, more
  <1> QED BY <1>3, <1>4, <1>7, <1>8

LEMMA AdjustKeeps ==
    ASSUME NEW c, Live(c), NEW n \in Nat, NEW d, d = [c EXCEPT !.rwin = @ + n]
    PROVE  /\ d \in ChannelSet /\ SameIn(c, d) /\ d.type = c.type /\ d.sends = c.sends
           /\ d.istate = c.istate /\ d.ostate = c.ostate
           /\ d.input = c.input /\ d.rwin = c.rwin + n
  <1> DEFINE window == c.rwin + n
             e == [c EXCEPT !.rwin = window]
  <1>1. c \in ChannelSet /\ window \in Nat
    BY DEF Live, Regular, ChannelSet
  <1>2. d = e
    OBVIOUS
  <1> HIDE DEF window
  <1>3. /\ e \in ChannelSet /\ SameIn(c, e) /\ e.type = c.type /\ e.sends = c.sends
        /\ e.istate = c.istate /\ e.ostate = c.ostate
        /\ e.input = c.input /\ e.rwin = window
    BY <1>1 DEF ChannelSet, SameIn
  <1> QED BY <1>2, <1>3 DEF window

LEMMA EofKeeps ==
    ASSUME NEW c \in ChannelSet, NEW d, d = RcvdEof(c)
    PROVE  /\ d \in ChannelSet /\ SameIn(c, d) /\ Nothing(c, d) /\ d.type = c.type
           /\ \/ c.ostate = "closed" /\ d.ostate = "closed"
              \/ c.ostate # "closed" /\ d.ostate = "drain"
              \/ c.ostate # "closed" /\ c.output = <<>> /\ d.ostate = "closed"
  <1> DEFINE f == Flag(c, "eofRcvd")
             o == IF f.ostate = "open" THEN "drain" ELSE f.ostate
             e == [f EXCEPT !.ostate = o]
  <1>1. /\ f \in ChannelSet /\ SameIn(c, f) /\ SameOut(c, f)
        /\ f.type = c.type /\ f.istate = c.istate /\ f.ostate = c.ostate /\ f.sends = c.sends
    BY FlagKeeps
  <1>2. o \in Stage /\ (c.ostate = "closed" => o = "closed") /\ (c.ostate # "closed" => o = "drain")
    BY <1>1 DEF ChannelSet, Stage
  <1>3. d = IF e.ostate = "drain" /\ e.output = <<>> THEN [e EXCEPT !.ostate = "closed"] ELSE e
    BY DEF RcvdEof, OutputEmpty
  <1> HIDE DEF f, o
  <1>4. /\ e \in ChannelSet /\ SameIn(f, e) /\ Nothing(f, e) /\ e.type = f.type /\ e.ostate = o
    BY <1>1, <1>2 DEF ChannelSet, SameIn, SameOut, Nothing
  <1> HIDE DEF e
  <1>5. /\ d \in ChannelSet /\ SameIn(e, d) /\ Nothing(e, d) /\ d.type = e.type
        /\ \/ d.ostate = o
           \/ o = "drain" /\ e.output = <<>> /\ d.ostate = "closed"
    <2> DEFINE b == [e EXCEPT !.ostate = "closed"]
    <2>1. /\ b \in ChannelSet /\ SameIn(e, b) /\ Nothing(e, b) /\ b.type = e.type
          /\ b.ostate = "closed"
      BY <1>4 DEF ChannelSet, Stage, SameIn, SameOut, Nothing
    <2>2. SameIn(e, e) /\ Nothing(e, e)
      BY DEF SameIn, SameOut, Nothing
    <2>3. CASE e.ostate = "drain" /\ e.output = <<>>
      <3>1. d = b
        BY <1>3, <2>3
      <3> HIDE DEF b
      <3> QED BY <1>4, <2>1, <2>3, <3>1
    <2>4. CASE ~ (e.ostate = "drain" /\ e.output = <<>>)
      <3>1. d = e
        BY <1>3, <2>4
      <3> QED BY <1>4, <2>2, <3>1
    <2> QED BY <2>3, <2>4
  <1> QED BY <1>1, <1>2, <1>4, <1>5 DEF SameIn, SameOut, Nothing

LEMMA CloseKeeps ==
    ASSUME NEW c \in ChannelSet, NEW d, d = RcvdClose(c)
    PROVE  /\ d \in ChannelSet /\ SameIn(c, d) /\ SameOut(c, d) /\ d.type = c.type
           /\ d.istate = "closed"
           /\ d.sends = c.sends \/ d.sends = Append(c.sends, Message("eof"))
           /\ \/ c.ostate = "closed" /\ d.ostate = "closed"
              \/ c.ostate # "closed" /\ d.ostate = "drain"
  <1> DEFINE f == Flag(c, "closeRcvd")
             o == IF f.ostate = "open" THEN "drain" ELSE f.ostate
             e == [f EXCEPT !.ostate = o]
             s == IF e.istate = "drain" THEN SendEof(e) ELSE e
  <1>1. /\ f \in ChannelSet /\ SameIn(c, f) /\ SameOut(c, f)
        /\ f.type = c.type /\ f.istate = c.istate /\ f.ostate = c.ostate /\ f.sends = c.sends
    BY FlagKeeps
  <1>2. o \in Stage /\ (c.ostate = "closed" => o = "closed") /\ (c.ostate # "closed" => o = "drain")
    BY <1>1 DEF ChannelSet, Stage
  <1>3. d = [s EXCEPT !.istate = "closed"]
    BY DEF RcvdClose
  <1> HIDE DEF f, o
  <1>4. /\ e \in ChannelSet /\ SameIn(f, e) /\ Nothing(f, e) /\ e.type = f.type /\ e.ostate = o
    BY <1>1, <1>2 DEF ChannelSet, SameIn, SameOut, Nothing
  <1> HIDE DEF e
  <1>5. /\ s \in ChannelSet /\ SameIn(e, s) /\ SameOut(e, s) /\ s.type = e.type
        /\ s.ostate = e.ostate
        /\ s.sends = e.sends \/ s.sends = Append(e.sends, Message("eof"))
    BY <1>4, SendEofKeeps DEF SameIn, SameOut
  <1> HIDE DEF s
  <1>6. /\ d \in ChannelSet /\ SameIn(s, d) /\ SameOut(s, d) /\ d.type = s.type
        /\ d.istate = "closed" /\ d.ostate = s.ostate /\ d.sends = s.sends
    BY <1>3, <1>5 DEF ChannelSet, Stage, SameIn, SameOut
  <1> QED BY <1>1, <1>2, <1>4, <1>5, <1>6 DEF SameIn, SameOut, Nothing

(* Applied, the channel has sent what it had to send.                      *)
LEMMA ApplyKeeps ==
    ASSUME StateTypes, NEW x \in Peers, NEW d \in ChannelSet, NEW rest \in Seq(MessageSet),
           Apply(x, d, rest)
    PROVE  /\ SameIn(d, ch'[x]) /\ SameOut(d, ch'[x]) /\ ch'[x].type = d.type
           /\ ch'[x].istate = d.istate /\ ch'[x].ostate = d.ostate
           /\ \A t \in Types : d = [NewChannel(t) EXCEPT !.sends = d.sends] =>
                                  ch'[x] = NewChannel(t)
           /\ ch'[Peer(x)] = ch[Peer(x)]
           /\ queue'[x] = rest /\ queue'[Peer(x)] = queue[Peer(x)] \o d.sends
           /\ d.sends \in Seq(MessageSet)
  <1> DEFINE e == [d EXCEPT !.sends = <<>>]
  <1>1. Peer(x) \in Peers /\ Peer(x) # x
    BY TwoPeers
  <1>2. ch'[x] = e /\ ch'[Peer(x)] = ch[Peer(x)]
        /\ queue'[x] = rest /\ queue'[Peer(x)] = queue[Peer(x)] \o d.sends
    <2> DEFINE y == Peer(x)
               more == queue[y] \o d.sends
    <2>1. ch' = [ch EXCEPT ![x] = e] /\ queue' = [queue EXCEPT ![x] = rest, ![y] = more]
      BY <1>1 DEF Apply, StateTypes
    <2> HIDE DEF e, more
    <2> HIDE DEF y
    <2>2. y \in Peers /\ y # x
      BY <1>1 DEF y
    <2>3. ch'[x] = e /\ ch'[y] = ch[y] /\ queue'[x] = rest /\ queue'[y] = more
      BY <2>1, <2>2 DEF StateTypes
    <2> QED BY <2>3 DEF y, more
  <1>3. /\ SameIn(d, e) /\ SameOut(d, e) /\ e.type = d.type
        /\ e.istate = d.istate /\ e.ostate = d.ostate /\ d.sends \in Seq(MessageSet)
    BY DEF ChannelSet, SameIn, SameOut
  <1>4. ASSUME NEW t \in Types, d = [NewChannel(t) EXCEPT !.sends = d.sends]
        PROVE  e = NewChannel(t)
    <2> DEFINE n == NewChannel(t)
    <2>1. n \in ChannelSet /\ n.sends = <<>>
      BY NewTypes
    <2> HIDE DEF n
    <2>2. d = [n EXCEPT !.sends = d.sends]
      BY <1>4 DEF n
    <2>3. e = [n EXCEPT !.sends = <<>>]
      BY <2>1, <2>2 DEF ChannelSet
    <2>4. [n EXCEPT !.sends = <<>>] = n
      BY <2>1 DEF ChannelSet
    <2> QED BY <2>3, <2>4 DEF n
  <1> QED BY <1>2, <1>3, <1>4
-----------------------------------------------------------------------------
(* How much each end may still send and receive.                           *)

(* Before it is open, and after, a channel has nothing in it.              *)
Fresh(c) ==
    /\ c.type \in {"none", "opening", "zombie", "freed"} => c = NewChannel(c.type)
    /\ c.type = "connecting" => c = [NewChannel("connecting") EXCEPT !.rwin = Window]

Sized(q) == \A i \in 1..Len(q) : q[i].kind = "data" => Len(q[i].bytes) <= MaxPacket

(* The window of the direction that ends in y: as long as neither end is   *)
(* gone, what the sender may send, what is on its way, and what is given   *)
(* back on its way, is what the receiver has given.                        *)
Balance(y) ==
    LET x == Peer(y)
    IN  /\ ch[y].lwin + Len(ch[y].output) + ch[y].consumed <= Window
        /\ DataOf(queue[y]) <= ch[y].lwin
        /\ Len(ch[x].input) <= ch[x].rwin
        /\ ch[x].rwin + WindowOf(queue[x]) <= Window
        /\ Sized(queue[y])
        /\ ToFlow(y) = "open" =>
             ch[x].rwin + DataOf(queue[y]) + WindowOf(queue[x]) = ch[y].lwin

Sourced == \A y \in Peers : nread[y] <= Bytes[y]

WindowInv == Sourced /\ \A y \in Peers : Fresh(ch[y]) /\ Balance(y)

-----------------------------------------------------------------------------
(* The steps of FlowControl, from what happens to the counts of a          *)
(* direction.                                                              *)

FlowStep(y) ==
    /\ y = Acceptor => [FlowAtAcceptor!Next]_(FlowAtAcceptor!vars)
    /\ y = Opener => [FlowAtOpener!Next]_(FlowAtOpener!vars)

(* The counts of the direction that ends in y, while it is open.           *)
Spent(y) == ch[Peer(y)].rwin
Sent(y) == DataOf(queue[y])
Given(y) == WindowOf(queue[Peer(y)])
Left(y) == ch[y].lwin
Output(y) == Len(ch[y].output)
Written(y) == ch[y].consumed
Exit(y) == ch[y].ostate

Open(y) == ToFlow(y) = "open"

Fits(y) == Len(ch[Peer(y)].input) <= Spent(y)

(* An output with n bytes left is to be closed, or stays as it is.         *)
Shuts(from, to, n) ==
    \/ to = from
    \/ from # "closed" /\ (to = "drain" \/ (to = "closed" /\ n = 0))

(* The threshold of channel_check_window.                                  *)
Shrunk(y) == Window - Left(y) > 3 * MaxPacket \/ Left(y) < Window \div 2

LEMMA CountsWhenOpen ==
    ASSUME NEW y \in Peers, Open(y)
    PROVE  /\ Rwin(y) = Spent(y) /\ Flight(y) = Sent(y) /\ Credit(y) = Given(y)
           /\ Lwin(y) = Left(y) /\ Buffered(y) = Output(y) /\ Consumed(y) = Written(y)
           /\ Lost(y) = Window - Left(y) - Output(y) - Written(y) /\ Out(y) = Exit(y)
  BY DEF Open, Rwin, Flight, Credit, Lwin, Buffered, Consumed, Out, Lost, WhenOpen,
         Spent, Sent, Given, Left, Output, Written, Exit

LEMMA CountsWhenNot ==
    ASSUME NEW y \in Peers, ~Open(y)
    PROVE  /\ Rwin(y) = 0 /\ Flight(y) = 0 /\ Credit(y) = 0
           /\ Lwin(y) = Window /\ Buffered(y) = 0 /\ Consumed(y) = 0 /\ Lost(y) = 0
           /\ Out(y) = "open"
  BY SizeAssumption
     DEF Open, Rwin, Flight, Credit, Lwin, Buffered, Consumed, Out, Lost, WhenOpen

(* One of the ends is gone, or was never opened.                           *)
LEMMA StepEnds ==
    ASSUME NEW y \in Peers, ToFlow(y)' = "done"
    PROVE  FlowStep(y)
  <1>1. ~Open(y)'
    BY DEF Open
  <1>2. /\ Rwin(y)' = 0 /\ Flight(y)' = 0 /\ Credit(y)' = 0
        /\ Lwin(y)' = Window /\ Buffered(y)' = 0 /\ Consumed(y)' = 0 /\ Lost(y)' = 0
        /\ Out(y)' = "open"
    BY <1>1, SizeAssumption
       DEF Open, Rwin, Flight, Credit, Lwin, Buffered, Consumed, Out, Lost, WhenOpen
  <1>3. y = Acceptor => [FlowAtAcceptor!Next]_(FlowAtAcceptor!vars)
    BY <1>2 DEF FlowAtAcceptor!Next, FlowAtAcceptor!End
  <1>4. y = Opener => [FlowAtOpener!Next]_(FlowAtOpener!vars)
    BY <1>2 DEF FlowAtOpener!Next, FlowAtOpener!End
  <1> QED BY <1>3, <1>4 DEF FlowStep

(* Nothing of the direction changes.                                       *)
LEMMA StepStutters ==
    ASSUME NEW y \in Peers, ToFlow(y)' = ToFlow(y),
           Open(y) => /\ Spent(y)' = Spent(y) /\ Sent(y)' = Sent(y) /\ Given(y)' = Given(y)
                      /\ Left(y)' = Left(y) /\ Output(y)' = Output(y)
                      /\ Written(y)' = Written(y) /\ Exit(y)' = Exit(y)
    PROVE  FlowStep(y)
  <1>1. /\ Rwin(y)' = Rwin(y) /\ Flight(y)' = Flight(y) /\ Credit(y)' = Credit(y)
        /\ Lwin(y)' = Lwin(y) /\ Buffered(y)' = Buffered(y) /\ Consumed(y)' = Consumed(y)
        /\ Out(y)' = Out(y) /\ Lost(y)' = Lost(y)
    BY DEF Open, Rwin, Flight, Credit, Lwin, Buffered, Consumed, Out, Lost, WhenOpen,
           Spent, Sent, Given, Left, Output, Written, Exit
  <1>2. y = Acceptor => [FlowAtAcceptor!Next]_(FlowAtAcceptor!vars)
    BY <1>1 DEF FlowAtAcceptor!vars
  <1>3. y = Opener => [FlowAtOpener!Next]_(FlowAtOpener!vars)
    BY <1>1 DEF FlowAtOpener!vars
  <1> QED BY <1>2, <1>3 DEF FlowStep

(* The receiver announces its window.                                      *)
LEMMA StepAnnounces ==
    ASSUME NEW y \in Peers, ToFlow(y) = "closed", ToFlow(y)' = "open",
           Spent(y)' = 0, Sent(y)' = 0, Given(y)' = Window,
           Left(y)' = Window, Output(y)' = 0, Written(y)' = 0, Exit(y)' = "open"
    PROVE  FlowStep(y)
  <1>1. ~Open(y) /\ Open(y)'
    BY DEF Open
  <1>2. /\ Rwin(y) = 0 /\ Flight(y) = 0
        /\ Lwin(y) = Window /\ Buffered(y) = 0 /\ Consumed(y) = 0 /\ Lost(y) = 0
        /\ Out(y) = "open"
    BY <1>1, CountsWhenNot
  <1>3. /\ Rwin(y)' = 0 /\ Flight(y)' = 0 /\ Credit(y)' = Window
        /\ Lwin(y)' = Window /\ Buffered(y)' = 0 /\ Consumed(y)' = 0 /\ Lost(y)' = 0
        /\ Out(y)' = "open"
    BY <1>1, SizeAssumption
       DEF Open, Rwin, Flight, Credit, Lwin, Buffered, Consumed, Out, Lost, WhenOpen,
           Spent, Sent, Given, Left, Output, Written, Exit
  <1>4. y = Acceptor => [FlowAtAcceptor!Next]_(FlowAtAcceptor!vars)
    BY <1>2, <1>3 DEF FlowAtAcceptor!Next, FlowAtAcceptor!Announce
  <1>5. y = Opener => [FlowAtOpener!Next]_(FlowAtOpener!vars)
    BY <1>2, <1>3 DEF FlowAtOpener!Next, FlowAtOpener!Announce
  <1> QED BY <1>4, <1>5 DEF FlowStep

(* The sender spends n.                                                    *)
LEMMA StepSends ==
    ASSUME NEW y \in Peers, ToFlow(y) = "open", ToFlow(y)' = "open",
           NEW n \in Nat, n <= MaxPacket, Spent(y) \in Nat, Sent(y) \in Nat, n <= Spent(y),
           Spent(y)' = Spent(y) - n, Sent(y)' = Sent(y) + n, Given(y)' = Given(y),
           Left(y)' = Left(y), Output(y)' = Output(y), Written(y)' = Written(y),
           Exit(y)' = Exit(y)
    PROVE  FlowStep(y)
  <1>1. CASE n = 0
    <2>1. Spent(y)' = Spent(y) /\ Sent(y)' = Sent(y)
      BY <1>1
    <2> QED BY <2>1, StepStutters
  <1>2. CASE n # 0
    <2>1. Open(y) /\ Open(y)' /\ n \in 1..Window
      BY <1>2, SizeAssumption DEF Open
    <2>2. /\ n <= Rwin(y) /\ Rwin(y)' = Rwin(y) - n /\ Flight(y)' = Flight(y) + n
          /\ Credit(y)' = Credit(y) /\ Lwin(y)' = Lwin(y) /\ Buffered(y)' = Buffered(y)
          /\ Consumed(y)' = Consumed(y) /\ Out(y)' = Out(y) /\ Lost(y)' = Lost(y)
      BY <2>1 DEF Open, Rwin, Flight, Credit, Lwin, Buffered, Consumed, Out, Lost, WhenOpen,
                  Spent, Sent, Given, Left, Output, Written, Exit
    <2>3. y = Acceptor => [FlowAtAcceptor!Next]_(FlowAtAcceptor!vars)
      BY <2>1, <2>2 DEF FlowAtAcceptor!Next, FlowAtAcceptor!SendData
    <2>4. y = Opener => [FlowAtOpener!Next]_(FlowAtOpener!vars)
      BY <2>1, <2>2 DEF FlowAtOpener!Next, FlowAtOpener!SendData
    <2> QED BY <2>3, <2>4 DEF FlowStep
  <1> QED BY <1>1, <1>2

(* n bytes arrive, for the application or to be ignored.                   *)
LEMMA StepReceives ==
    ASSUME NEW y \in Peers, ToFlow(y) = "open", ToFlow(y)' = "open",
           NEW n \in Nat, n <= Sent(y), Sent(y) \in Nat, Sent(y) <= Left(y), Left(y) \in Int,
           Left(y) <= Window, Output(y) \in Nat, Written(y) \in Nat,
           Spent(y)' = Spent(y), Sent(y)' = Sent(y) - n, Given(y)' = Given(y),
           Left(y)' = Left(y) - n, Exit(y)' = Exit(y),
           \/ /\ Exit(y) = "open"
              /\ Output(y)' = Output(y) + n /\ Written(y)' = Written(y)
           \/ /\ Exit(y) # "open"
              /\ Output(y)' = Output(y) /\ Written(y)' = Written(y) + n
    PROVE  FlowStep(y)
  <1>1. CASE n = 0
    <2>1. /\ Sent(y)' = Sent(y) /\ Left(y)' = Left(y)
          /\ Output(y)' = Output(y) /\ Written(y)' = Written(y)
      BY <1>1
    <2> QED BY <2>1, StepStutters
  <1>2. CASE n # 0
    <2>1. Open(y) /\ Open(y)' /\ n \in 1..Window
      BY <1>2, SizeAssumption DEF Open
    <2>2. /\ n <= Flight(y) /\ Rwin(y)' = Rwin(y) /\ Flight(y)' = Flight(y) - n
          /\ Credit(y)' = Credit(y) /\ Lwin(y)' = Lwin(y) - n
          /\ Out(y)' = Out(y)
          /\ \/ /\ Out(y) = "open"
                /\ Buffered(y)' = Buffered(y) + n /\ Consumed(y)' = Consumed(y)
             \/ /\ Out(y) # "open"
                /\ Buffered(y)' = Buffered(y) /\ Consumed(y)' = Consumed(y) + n
      BY <2>1 DEF Open, Rwin, Flight, Credit, Lwin, Buffered, Consumed, Out, WhenOpen,
                  Spent, Sent, Given, Left, Output, Written, Exit
    <2>3. Lost(y)' = Lost(y)
      <3>1. /\ Lost(y) = Window - Left(y) - Output(y) - Written(y)
            /\ Lost(y)' = Window - Left(y)' - Output(y)' - Written(y)'
        BY <2>1 DEF Open, Lwin, Buffered, Consumed, Lost, WhenOpen, Left, Output, Written
      <3>2. Window \in Int
        BY SizeAssumption
      <3> QED BY <3>1, <3>2
    <2>4. y = Acceptor => [FlowAtAcceptor!Next]_(FlowAtAcceptor!vars)
      BY <2>1, <2>2, <2>3
         DEF FlowAtAcceptor!Next, FlowAtAcceptor!ReceiveData, FlowAtAcceptor!IgnoreData
    <2>5. y = Opener => [FlowAtOpener!Next]_(FlowAtOpener!vars)
      BY <2>1, <2>2, <2>3
         DEF FlowAtOpener!Next, FlowAtOpener!ReceiveData, FlowAtOpener!IgnoreData
    <2> QED BY <2>4, <2>5 DEF FlowStep
  <1> QED BY <1>1, <1>2

(* The sender is given n.                                                  *)
LEMMA StepCredits ==
    ASSUME NEW y \in Peers, ToFlow(y) = "open", ToFlow(y)' = "open",
           NEW n \in Nat, n <= Window, n <= Given(y), Given(y) \in Nat, Spent(y) \in Nat,
           Spent(y)' = Spent(y) + n, Sent(y)' = Sent(y), Given(y)' = Given(y) - n,
           Left(y)' = Left(y), Output(y)' = Output(y), Written(y)' = Written(y),
           Exit(y)' = Exit(y)
    PROVE  FlowStep(y)
  <1>1. CASE n = 0
    <2>1. Spent(y)' = Spent(y) /\ Given(y)' = Given(y)
      BY <1>1
    <2> QED BY <2>1, StepStutters
  <1>2. CASE n # 0
    <2>1. Open(y) /\ Open(y)' /\ n \in 1..Window
      BY <1>2, SizeAssumption DEF Open
    <2>2. /\ n <= Credit(y) /\ Rwin(y)' = Rwin(y) + n /\ Flight(y)' = Flight(y)
          /\ Credit(y)' = Credit(y) - n /\ Lwin(y)' = Lwin(y) /\ Buffered(y)' = Buffered(y)
          /\ Consumed(y)' = Consumed(y) /\ Out(y)' = Out(y) /\ Lost(y)' = Lost(y)
      BY <2>1 DEF Open, Rwin, Flight, Credit, Lwin, Buffered, Consumed, Out, Lost, WhenOpen,
                  Spent, Sent, Given, Left, Output, Written, Exit
    <2>3. y = Acceptor => [FlowAtAcceptor!Next]_(FlowAtAcceptor!vars)
      BY <2>1, <2>2 DEF FlowAtAcceptor!Next, FlowAtAcceptor!ReceiveCredit
    <2>4. y = Opener => [FlowAtOpener!Next]_(FlowAtOpener!vars)
      BY <2>1, <2>2 DEF FlowAtOpener!Next, FlowAtOpener!ReceiveCredit
    <2> QED BY <2>3, <2>4 DEF FlowStep
  <1> QED BY <1>1, <1>2

(* The output is to be closed, or stays as it is.                          *)
LEMMA StepShuts ==
    ASSUME NEW y \in Peers, ToFlow(y) = "open", ToFlow(y)' = "open",
           Shuts(Exit(y), Exit(y)', Output(y)),
           Spent(y)' = Spent(y), Sent(y)' = Sent(y), Given(y)' = Given(y),
           Left(y)' = Left(y), Output(y)' = Output(y), Written(y)' = Written(y)
    PROVE  FlowStep(y)
  <1>1. CASE Exit(y)' = Exit(y)
    BY <1>1, StepStutters
  <1>2. CASE Exit(y)' # Exit(y)
    <2>1. Open(y) /\ Open(y)'
      BY DEF Open
    <2>2. /\ Rwin(y)' = Rwin(y) /\ Flight(y)' = Flight(y) /\ Credit(y)' = Credit(y)
          /\ Lwin(y)' = Lwin(y) /\ Buffered(y)' = Buffered(y)
          /\ Consumed(y)' = Consumed(y) /\ Lost(y)' = Lost(y)
      BY <2>1 DEF Open, Rwin, Flight, Credit, Lwin, Buffered, Consumed, Lost, WhenOpen,
                  Spent, Sent, Given, Left, Output, Written
    <2>3. Out(y) # "closed" /\ (Out(y)' = "drain" \/ (Out(y)' = "closed" /\ Buffered(y) = 0))
      BY <1>2, <2>1 DEF Open, Out, Buffered, WhenOpen, Output, Exit, Shuts
    <2>4. y = Acceptor => [FlowAtAcceptor!Next]_(FlowAtAcceptor!vars)
      BY <2>1, <2>2, <2>3 DEF Open, FlowAtAcceptor!Next, FlowAtAcceptor!ShutDown
    <2>5. y = Opener => [FlowAtOpener!Next]_(FlowAtOpener!vars)
      BY <2>1, <2>2, <2>3 DEF Open, FlowAtOpener!Next, FlowAtOpener!ShutDown
    <2> QED BY <2>4, <2>5 DEF FlowStep
  <1> QED BY <1>1, <1>2

(* What was written is given back if it is due.                            *)
Gives(y, w, gives) ==
    /\ gives => /\ Written(y) + w > 0
                /\ Shrunk(y)
                /\ Given(y)' = Given(y) + Written(y) + w
                /\ Left(y)' = Left(y) + Written(y) + w /\ Written(y)' = 0
    /\ ~gives => /\ Given(y)' = Given(y) /\ Left(y)' = Left(y)
                 /\ Written(y)' = Written(y) + w

LEMMA GivesBack ==
    ASSUME NEW y \in Peers, ToFlow(y) = "open", ToFlow(y)' = "open",
           NEW w \in 0..Window, NEW k \in 0..Window, NEW gives \in BOOLEAN,
           Output(y) \in Nat, Written(y) \in Nat, Left(y) \in Int, Given(y) \in Nat,
           Output(y)' = Output(y) - w - k, Gives(y, w, gives)
    PROVE  /\ gives => /\ Consumed(y) + w > 0
                       /\ Window - Lwin(y) > 3 * MaxPacket \/ Lwin(y) < Window \div 2
           /\ Credit(y)' = IF gives THEN Credit(y) + Consumed(y) + w ELSE Credit(y)
           /\ Lwin(y)' = IF gives THEN Lwin(y) + Consumed(y) + w ELSE Lwin(y)
           /\ Consumed(y)' = IF gives THEN 0 ELSE Consumed(y) + w
           /\ Lost(y)' = Lost(y) + k
  <1>1. Open(y) /\ Open(y)'
    BY DEF Open
  <1>2. Lost(y)' = Lost(y) + k
    <2>1. /\ Lost(y) = Window - Left(y) - Output(y) - Written(y)
          /\ Lost(y)' = Window - Left(y)' - Output(y)' - Written(y)'
      BY <1>1 DEF Open, Lwin, Buffered, Consumed, Lost, WhenOpen, Left, Output, Written
    <2>2. Window \in Int
      BY SizeAssumption
    <2>3. \/ Left(y)' = Left(y) + Written(y) + w /\ Written(y)' = 0
          \/ Left(y)' = Left(y) /\ Written(y)' = Written(y) + w
      BY DEF Gives
    <2> QED BY <2>1, <2>2, <2>3
  <1> QED BY <1>1, <1>2
          DEF Open, Credit, Lwin, Consumed, WhenOpen, Given, Left, Written, Shrunk, Gives

(* w bytes are written.                                                    *)
LEMMA StepWrites ==
    ASSUME NEW y \in Peers, ToFlow(y) = "open", ToFlow(y)' = "open",
           NEW w \in 0..Window, NEW gives \in BOOLEAN,
           Output(y) \in Nat, Written(y) \in Nat, Left(y) \in Int, Given(y) \in Nat,
           w <= Output(y), Output(y)' = Output(y) - w, Exit(y)' = Exit(y),
           Spent(y)' = Spent(y), Sent(y)' = Sent(y), Gives(y, w, gives)
    PROVE  FlowStep(y)
  <1>1. Open(y) /\ Open(y)'
    BY DEF Open
  <1>2. /\ Rwin(y)' = Rwin(y) /\ Flight(y)' = Flight(y)
        /\ w <= Buffered(y) /\ Buffered(y)' = Buffered(y) - w /\ Out(y)' = Out(y)
    BY <1>1 DEF Open, Rwin, Flight, Buffered, Out, WhenOpen, Spent, Sent, Output, Exit
  <1>3. /\ gives => /\ Consumed(y) + w > 0
                    /\ Window - Lwin(y) > 3 * MaxPacket \/ Lwin(y) < Window \div 2
        /\ Credit(y)' = IF gives THEN Credit(y) + Consumed(y) + w ELSE Credit(y)
        /\ Lwin(y)' = IF gives THEN Lwin(y) + Consumed(y) + w ELSE Lwin(y)
        /\ Consumed(y)' = IF gives THEN 0 ELSE Consumed(y) + w
        /\ Lost(y)' = Lost(y)
    <2> DEFINE k == 0
    <2>1. k \in 0..Window /\ Output(y)' = Output(y) - w - k /\ k = 0
      BY SizeAssumption
    <2> HIDE DEF k
    <2>2. /\ gives => /\ Consumed(y) + w > 0
                      /\ Window - Lwin(y) > 3 * MaxPacket \/ Lwin(y) < Window \div 2
          /\ Credit(y)' = IF gives THEN Credit(y) + Consumed(y) + w ELSE Credit(y)
          /\ Lwin(y)' = IF gives THEN Lwin(y) + Consumed(y) + w ELSE Lwin(y)
          /\ Consumed(y)' = IF gives THEN 0 ELSE Consumed(y) + w
          /\ Lost(y)' = Lost(y) + k
      BY <2>1, GivesBack, Zenon
    <2>3. Lost(y)' = Lost(y)
      <3>1. Lost(y) \in Int
        BY <1>1, SizeAssumption, CountsWhenOpen
      <3> QED BY <2>1, <2>2, <3>1
    <2> QED BY <2>2, <2>3
  <1>4. y = Acceptor => [FlowAtAcceptor!Next]_(FlowAtAcceptor!vars)
    <2>1. y = Acceptor => FlowAtAcceptor!Write(w, gives)
      BY <1>1, <1>2, <1>3
         DEF Open, FlowAtAcceptor!Write, FlowAtAcceptor!GiveBack, FlowAtAcceptor!Due
    <2> QED BY <2>1 DEF FlowAtAcceptor!Next
  <1>5. y = Opener => [FlowAtOpener!Next]_(FlowAtOpener!vars)
    <2>1. y = Opener => FlowAtOpener!Write(w, gives)
      BY <1>1, <1>2, <1>3
         DEF Open, FlowAtOpener!Write, FlowAtOpener!GiveBack, FlowAtOpener!Due
    <2> QED BY <2>1 DEF FlowAtOpener!Next
  <1> QED BY <1>4, <1>5 DEF FlowStep

(* All that is buffered is discarded.                                      *)
LEMMA StepDiscards ==
    ASSUME NEW y \in Peers, ToFlow(y) = "open", ToFlow(y)' = "open", NEW gives \in BOOLEAN,
           Output(y) \in Nat, Written(y) \in Nat, Left(y) \in Int, Given(y) \in Nat,
           Output(y) > 0, Output(y) <= Window, Output(y)' = 0,
           Exit(y) # "closed", Exit(y)' = "closed",
           Spent(y)' = Spent(y), Sent(y)' = Sent(y), Gives(y, 0, gives)
    PROVE  FlowStep(y)
  <1>1. Open(y) /\ Open(y)'
    BY DEF Open
  <1>2. /\ Rwin(y)' = Rwin(y) /\ Flight(y)' = Flight(y)
        /\ Buffered(y) > 0 /\ Buffered(y)' = 0 /\ Buffered(y) = Output(y)
        /\ Out(y) # "closed" /\ Out(y)' = "closed"
    BY <1>1 DEF Open, Rwin, Flight, Buffered, Out, WhenOpen, Spent, Sent, Output, Exit
  <1>3. /\ gives => /\ Consumed(y) + 0 > 0
                    /\ Window - Lwin(y) > 3 * MaxPacket \/ Lwin(y) < Window \div 2
        /\ Credit(y)' = IF gives THEN Credit(y) + Consumed(y) + 0 ELSE Credit(y)
        /\ Lwin(y)' = IF gives THEN Lwin(y) + Consumed(y) + 0 ELSE Lwin(y)
        /\ Consumed(y)' = IF gives THEN 0 ELSE Consumed(y) + 0
        /\ Lost(y)' = Lost(y) + Buffered(y)
    <2> DEFINE k == Output(y)
               w == 0
    <2>1. k \in 0..Window /\ w \in 0..Window /\ Output(y)' = Output(y) - w - k
      BY SizeAssumption
    <2>2. Gives(y, w, gives)
      OBVIOUS
    <2>3. k = Buffered(y)
      BY <1>2
    <2> HIDE DEF k, w
    <2>4. /\ gives => /\ Consumed(y) + w > 0
                      /\ Window - Lwin(y) > 3 * MaxPacket \/ Lwin(y) < Window \div 2
          /\ Credit(y)' = IF gives THEN Credit(y) + Consumed(y) + w ELSE Credit(y)
          /\ Lwin(y)' = IF gives THEN Lwin(y) + Consumed(y) + w ELSE Lwin(y)
          /\ Consumed(y)' = IF gives THEN 0 ELSE Consumed(y) + w
          /\ Lost(y)' = Lost(y) + k
      BY <2>1, <2>2, GivesBack, Zenon
    <2> QED BY <2>3, <2>4, Zenon DEF w
  <1>4. y = Acceptor => [FlowAtAcceptor!Next]_(FlowAtAcceptor!vars)
    <2>1. y = Acceptor => FlowAtAcceptor!Discard(gives)
      BY <1>1, <1>2, <1>3
         DEF Open, FlowAtAcceptor!Discard, FlowAtAcceptor!GiveBack, FlowAtAcceptor!Due
    <2> QED BY <2>1 DEF FlowAtAcceptor!Next
  <1>5. y = Opener => [FlowAtOpener!Next]_(FlowAtOpener!vars)
    <2>1. y = Opener => FlowAtOpener!Discard(gives)
      BY <1>1, <1>2, <1>3
         DEF Open, FlowAtOpener!Discard, FlowAtOpener!GiveBack, FlowAtOpener!Due
    <2> QED BY <2>1 DEF FlowAtOpener!Next
  <1> QED BY <1>4, <1>5 DEF FlowStep
-----------------------------------------------------------------------------
(* What keeps the balance of a direction, with the step of FlowControl it  *)
(* is.                                                                     *)

LEMMA CountTypes ==
    ASSUME StateTypes, NEW y \in Peers
    PROVE  /\ Spent(y) \in Nat /\ Sent(y) \in Nat /\ Given(y) \in Nat
           /\ Left(y) \in Int /\ Output(y) \in Nat /\ Written(y) \in Nat
  <1>1. Peer(y) \in Peers
    BY TwoPeers
  <1>2. ch[y] \in ChannelSet /\ ch[Peer(y)] \in ChannelSet
        /\ queue[y] \in Seq(MessageSet) /\ queue[Peer(y)] \in Seq(MessageSet)
    BY <1>1 DEF StateTypes
  <1>3. Sent(y) \in Nat /\ Given(y) \in Nat
    BY <1>2, SumsOfParts DEF Sent, Given
  <1>4. Spent(y) \in Nat /\ Left(y) \in Int /\ Written(y) \in Nat
    BY <1>2 DEF ChannelSet, Spent, Left, Written
  <1>5. Output(y) \in Nat
    BY <1>2, LenProperties DEF ChannelSet, Output
  <1> QED BY <1>3, <1>4, <1>5

LEMMA BalanceIs ==
    ASSUME NEW y \in Peers
    PROVE  Balance(y) <=>
             /\ Left(y) + Output(y) + Written(y) <= Window
             /\ Sent(y) <= Left(y)
             /\ Fits(y)
             /\ Spent(y) + Given(y) <= Window
             /\ Sized(queue[y])
             /\ Open(y) => Spent(y) + Sent(y) + Given(y) = Left(y)
  BY DEF Balance, Spent, Sent, Given, Left, Output, Written, Open, Fits

LEMMA BalanceIsNext ==
    ASSUME NEW y \in Peers
    PROVE  Balance(y)' <=>
             /\ Left(y)' + Output(y)' + Written(y)' <= Window
             /\ Sent(y)' <= Left(y)'
             /\ Fits(y)'
             /\ Spent(y)' + Given(y)' <= Window
             /\ Sized(queue'[y])
             /\ Open(y)' => Spent(y)' + Sent(y)' + Given(y)' = Left(y)'
  BY DEF Balance, Spent, Sent, Given, Left, Output, Written, Open, Sized, Fits

LEMMA SendsBalance ==
    ASSUME StateTypes, NEW y \in Peers, Balance(y), ToFlow(y)' = ToFlow(y),
           NEW n \in Nat, n <= MaxPacket, n <= Spent(y), n > 0 => Open(y),
           Spent(y)' = Spent(y) - n, Sent(y)' = Sent(y) + n, Given(y)' = Given(y),
           Left(y)' = Left(y), Output(y)' = Output(y), Written(y)' = Written(y),
           Exit(y)' = Exit(y), Fits(y)', Sized(queue'[y])
    PROVE  Balance(y)' /\ FlowStep(y)
  <1>1. /\ Spent(y) \in Nat /\ Sent(y) \in Nat /\ Given(y) \in Nat
        /\ Left(y) \in Int /\ Output(y) \in Nat /\ Written(y) \in Nat
        /\ Window \in Nat
    BY CountTypes, SizeAssumption
  <1>2. Open(y)' <=> Open(y)
    BY DEF Open
  <1>3. n > 0 => Spent(y) + Sent(y) + Given(y) = Left(y)
    BY BalanceIs
  <1>4. Balance(y)'
    BY <1>1, <1>2, <1>3, BalanceIs, BalanceIsNext
  <1>5. CASE Open(y)
    <2>1. ToFlow(y) = "open" /\ ToFlow(y)' = "open"
      BY <1>5 DEF Open
    <2> QED BY <1>1, <1>4, <2>1, StepSends
  <1>6. CASE ~Open(y)
    <2>1. n = 0
      BY <1>6
    <2>2. Spent(y)' = Spent(y) /\ Sent(y)' = Sent(y)
      BY <1>1, <2>1
    <2> QED BY <1>4, <2>2, StepStutters
  <1> QED BY <1>5, <1>6

LEMMA CreditsBalance ==
    ASSUME StateTypes, NEW y \in Peers, Balance(y), ToFlow(y)' = ToFlow(y),
           NEW n \in Nat, n <= Given(y),
           Spent(y)' = Spent(y) + n, Sent(y)' = Sent(y), Given(y)' = Given(y) - n,
           Left(y)' = Left(y), Output(y)' = Output(y), Written(y)' = Written(y),
           Exit(y)' = Exit(y), Fits(y)', Sized(queue'[y])
    PROVE  Balance(y)' /\ FlowStep(y)
  <1>1. /\ Spent(y) \in Nat /\ Sent(y) \in Nat /\ Given(y) \in Nat
        /\ Left(y) \in Int /\ Output(y) \in Nat /\ Written(y) \in Nat
        /\ Window \in Nat
    BY CountTypes, SizeAssumption
  <1>2. Open(y)' <=> Open(y)
    BY DEF Open
  <1>3. Balance(y)'
    BY <1>1, <1>2, BalanceIs, BalanceIsNext
  <1>4. CASE Open(y)
    <2>1. ToFlow(y) = "open" /\ ToFlow(y)' = "open"
      BY <1>4 DEF Open
    <2>2. n <= Window
      BY <1>1, BalanceIs
    <2> QED BY <1>1, <1>3, <2>1, <2>2, StepCredits
  <1>5. CASE ~Open(y)
    BY <1>3, <1>5, StepStutters
  <1> QED BY <1>4, <1>5

LEMMA ReceivesBalance ==
    ASSUME StateTypes, NEW y \in Peers, Balance(y), ToFlow(y)' = ToFlow(y),
           NEW n \in Nat, n <= Sent(y),
           Spent(y)' = Spent(y), Sent(y)' = Sent(y) - n, Given(y)' = Given(y),
           Left(y)' = Left(y) - n,
           \/ /\ Exit(y)' = Exit(y) /\ Exit(y) = "open"
              /\ Output(y)' = Output(y) + n /\ Written(y)' = Written(y)
           \/ /\ Exit(y)' = Exit(y) /\ Exit(y) # "open"
              /\ Output(y)' = Output(y) /\ Written(y)' = Written(y) + n
           \/ /\ n = 0 /\ Shuts(Exit(y), Exit(y)', Output(y))
              /\ Output(y)' = Output(y) /\ Written(y)' = Written(y),
           Fits(y)', Sized(queue'[y])
    PROVE  Balance(y)' /\ FlowStep(y)
  <1>1. /\ Spent(y) \in Nat /\ Sent(y) \in Nat /\ Given(y) \in Nat
        /\ Left(y) \in Int /\ Output(y) \in Nat /\ Written(y) \in Nat
        /\ Window \in Nat
    BY CountTypes, SizeAssumption
  <1>2. Open(y)' <=> Open(y)
    BY DEF Open
  <1>3. Balance(y)'
    <2>1. /\ Left(y) + Output(y) + Written(y) <= Window /\ Sent(y) <= Left(y)
          /\ Spent(y) + Given(y) <= Window
          /\ Open(y) => Spent(y) + Sent(y) + Given(y) = Left(y)
      BY BalanceIs
    <2>2. Left(y)' + Output(y)' + Written(y)' <= Window
      <3>1. \/ Output(y)' = Output(y) + n /\ Written(y)' = Written(y)
            \/ Output(y)' = Output(y) /\ Written(y)' = Written(y) + n
            \/ n = 0 /\ Output(y)' = Output(y) /\ Written(y)' = Written(y)
        OBVIOUS
      <3> QED BY <1>1, <2>1, <3>1
    <2>3. /\ Sent(y)' <= Left(y)' /\ Spent(y)' + Given(y)' <= Window
          /\ Open(y)' => Spent(y)' + Sent(y)' + Given(y)' = Left(y)'
      BY <1>1, <1>2, <2>1
    <2> QED BY <2>2, <2>3, BalanceIsNext
  <1>4. CASE Open(y)
    <2>1. ToFlow(y) = "open" /\ ToFlow(y)' = "open"
      BY <1>4 DEF Open
    <2>2. Sent(y) <= Left(y) /\ Left(y) <= Window
      BY <1>1, BalanceIs
    <2>3. CASE /\ n = 0 /\ Shuts(Exit(y), Exit(y)', Output(y))
               /\ Output(y)' = Output(y) /\ Written(y)' = Written(y)
      <3>1. Sent(y)' = Sent(y) /\ Left(y)' = Left(y)
        BY <1>1, <2>3
      <3> QED BY <1>3, <2>1, <2>3, <3>1, StepShuts
    <2>4. CASE /\ Exit(y)' = Exit(y)
               /\ \/ /\ Exit(y) = "open"
                     /\ Output(y)' = Output(y) + n /\ Written(y)' = Written(y)
                  \/ /\ Exit(y) # "open"
                     /\ Output(y)' = Output(y) /\ Written(y)' = Written(y) + n
      BY <1>1, <1>3, <2>1, <2>2, <2>4, StepReceives
    <2> QED BY <2>3, <2>4
  <1>5. CASE ~Open(y)
    BY <1>3, <1>5, StepStutters
  <1> QED BY <1>4, <1>5

(* Of an output of n bytes that is in stage from, w are written, or all k  *)
(* discarded.                                                              *)
Empties(from, to, n, w, k) ==
    \/ k = 0 /\ to = from
    \/ w = 0 /\ k > 0 /\ k = n /\ from # "closed" /\ to = "closed"

LEMMA WritesBalance ==
    ASSUME StateTypes, NEW y \in Peers, Balance(y), ToFlow(y)' = ToFlow(y),
           NEW w \in Nat, NEW d \in Nat,
           w + d <= Output(y), Output(y)' = Output(y) - w - d,
           \/ Empties(Exit(y), Exit(y)', Output(y), w, d)
           \/ w = 0 /\ d = 0 /\ Shuts(Exit(y), Exit(y)', Output(y)),
           Spent(y)' = Spent(y), Sent(y)' = Sent(y), Given(y)' = Given(y),
           Left(y)' = Left(y), Written(y)' = Written(y) + w,
           Fits(y)', Sized(queue'[y])
    PROVE  Balance(y)' /\ FlowStep(y)
  <1>1. /\ Spent(y) \in Nat /\ Sent(y) \in Nat /\ Given(y) \in Nat
        /\ Left(y) \in Int /\ Output(y) \in Nat /\ Written(y) \in Nat
        /\ Window \in Nat
    BY CountTypes, SizeAssumption
  <1>2. Open(y)' <=> Open(y)
    BY DEF Open
  <1>3. Balance(y)'
    BY <1>1, <1>2, BalanceIs, BalanceIsNext
  <1>4. CASE Open(y)
    <2>1. ToFlow(y) = "open" /\ ToFlow(y)' = "open"
      BY <1>4 DEF Open
    <2>2. Output(y) <= Window
      <3>1. Left(y) + Output(y) + Written(y) <= Window /\ Sent(y) <= Left(y)
        BY BalanceIs
      <3> QED BY <1>1, <3>1
    <2>3. w \in 0..Window /\ d \in 0..Window
      BY <1>1, <2>2
    <2> DEFINE gives == FALSE
    <2>4. gives \in BOOLEAN /\ Gives(y, w, gives)
      BY DEF Gives
    <2> HIDE DEF gives
    <2>5. CASE d = 0 /\ Exit(y)' = Exit(y)
      <3>1. w <= Output(y) /\ Output(y)' = Output(y) - w
        BY <1>1, <2>5
      <3> QED BY <1>1, <1>3, <2>1, <2>3, <2>4, <2>5, <3>1, StepWrites
    <2>6. CASE w = 0 /\ d > 0 /\ d = Output(y) /\ Exit(y) # "closed" /\ Exit(y)' = "closed"
      <3>1. Output(y) > 0 /\ Output(y)' = 0 /\ Gives(y, 0, gives)
        BY <1>1, <2>4, <2>6
      <3> QED BY <1>1, <1>3, <2>1, <2>2, <2>4, <2>6, <3>1, StepDiscards
    <2>7. CASE w = 0 /\ d = 0 /\ Shuts(Exit(y), Exit(y)', Output(y))
      <3>1. Output(y)' = Output(y) /\ Written(y)' = Written(y)
        BY <1>1, <2>7
      <3> QED BY <1>3, <2>1, <2>7, <3>1, StepShuts
    <2> QED BY <2>5, <2>6, <2>7 DEF Empties
  <1>5. CASE ~Open(y)
    BY <1>3, <1>5, StepStutters
  <1> QED BY <1>4, <1>5

LEMMA GivesBalance ==
    ASSUME StateTypes, NEW y \in Peers, Balance(y), ToFlow(y)' = ToFlow(y),
           NEW w \in Nat, NEW d \in Nat, Open(y), Shrunk(y), Written(y) + w > 0,
           w + d <= Output(y), Output(y)' = Output(y) - w - d,
           Empties(Exit(y), Exit(y)', Output(y), w, d),
           Spent(y)' = Spent(y), Sent(y)' = Sent(y), Given(y)' = Given(y) + Written(y) + w,
           Left(y)' = Left(y) + Written(y) + w, Written(y)' = 0,
           Fits(y)', Sized(queue'[y])
    PROVE  Balance(y)' /\ FlowStep(y)
  <1>1. /\ Spent(y) \in Nat /\ Sent(y) \in Nat /\ Given(y) \in Nat
        /\ Left(y) \in Int /\ Output(y) \in Nat /\ Written(y) \in Nat
        /\ Window \in Nat
    BY CountTypes, SizeAssumption
  <1>2. Open(y)'
    BY DEF Open
  <1>3. /\ Spent(y) + Sent(y) + Given(y) = Left(y) /\ Sent(y) <= Left(y)
        /\ Left(y) + Output(y) + Written(y) <= Window
    BY BalanceIs
  <1>4. Balance(y)'
    <2>1. Left(y)' + Output(y)' + Written(y)' <= Window
      BY <1>1, <1>3
    <2>2. /\ Sent(y)' <= Left(y)' /\ Spent(y)' + Given(y)' <= Window
          /\ Spent(y)' + Sent(y)' + Given(y)' = Left(y)'
      BY <1>1, <1>3
    <2> QED BY <2>1, <2>2, BalanceIsNext
  <1>5. ToFlow(y) = "open" /\ ToFlow(y)' = "open"
    BY DEF Open
  <1>6. Output(y) <= Window
    <2>1. Left(y) + Output(y) + Written(y) <= Window /\ Sent(y) <= Left(y)
      BY BalanceIs
    <2> QED BY <1>1, <2>1
  <1>7. w \in 0..Window /\ d \in 0..Window
    BY <1>1, <1>6
  <1> DEFINE gives == TRUE
  <1>8. gives \in BOOLEAN /\ Gives(y, w, gives)
    BY DEF Gives
  <1> HIDE DEF gives
  <1>9. CASE d = 0 /\ Exit(y)' = Exit(y)
    <2>1. w <= Output(y) /\ Output(y)' = Output(y) - w
      BY <1>1, <1>9
    <2> QED BY <1>1, <1>4, <1>5, <1>7, <1>8, <1>9, <2>1, StepWrites
  <1>10. CASE w = 0 /\ d > 0 /\ d = Output(y) /\ Exit(y) # "closed" /\ Exit(y)' = "closed"
    <2>1. Output(y) > 0 /\ Output(y)' = 0 /\ Gives(y, 0, gives)
      BY <1>1, <1>8, <1>10
    <2> QED BY <1>1, <1>4, <1>5, <1>6, <1>8, <1>10, <2>1, StepDiscards
  <1> QED BY <1>9, <1>10 DEF Empties
-----------------------------------------------------------------------------
(* The turns of an open channel.                                           *)

Result == WindowInv' /\ \A y \in Peers : FlowStep(y)

(* As long as an end has not closed, neither is gone.                      *)
LEMMA BothOpen ==
    ASSUME IInv, NEW x \in Peers, ch[x].type = "open", ~Closed(ch[x])
    PROVE  Open(x) /\ Open(Peer(x))
  <1>1. \/ Confirmed /\ x = Acceptor
        \/ Established
    BY TwoPeers DEF IInv, Idle, Asked, Connecting, Confirmed, Refused, Released
  <1>2. CASE Confirmed /\ x = Acceptor
    BY <1>2, TwoPeers DEF Confirmed, Open, ToFlow, Gone, Announced
  <1>3. CASE Established
    <2>1. Peer(x) \in Peers /\ Peer(Peer(x)) = x /\ \A z \in Peers : z = x \/ z = Peer(x)
      BY TwoPeers
    <2>2. ch[Peer(x)].type = "open"
      BY <1>3, <2>1 DEF Established, Direction, Received
    <2> QED BY <2>1, <2>2 DEF Open, ToFlow, Gone, Announced
  <1> QED BY <1>1, <1>2, <1>3

(* What the direction is does not change with the types of the ends.       *)
LEMMA SameFlow ==
    ASSUME NEW x \in Peers, ch'[x].type = ch[x].type, ch'[Peer(x)] = ch[Peer(x)],
           NEW y \in Peers
    PROVE  ToFlow(y)' = ToFlow(y)
  <1>1. \A z \in Peers : ch'[z].type = ch[z].type
    BY TwoPeers
  <1> QED BY <1>1 DEF ToFlow, Gone, Announced

LEMMA GoneIsDone ==
    ASSUME NEW x \in Peers, ch'[x].type \in {"zombie", "freed"}, NEW y \in Peers
    PROVE  ToFlow(y)' = "done" /\ ~Open(y)'
  BY DEF ToFlow, Gone, Open

LEMMA SizedJoins ==
    ASSUME NEW q \in Seq(MessageSet), NEW s \in Seq(MessageSet), Sized(q), Sized(s)
    PROVE  Sized(q \o s)
  <1>1. /\ Len(q \o s) = Len(q) + Len(s)
        /\ \A i \in 1..(Len(q) + Len(s)) :
             (q \o s)[i] = IF i <= Len(q) THEN q[i] ELSE s[i - Len(q)]
    BY ConcatProperties
  <1>2. Len(q) \in Nat /\ Len(s) \in Nat
    BY LenProperties
  <1> QED BY <1>1, <1>2 DEF Sized

LEMMA SizedParts ==
    /\ Sized(<<>>)
    /\ \A m \in MessageSet :
         (m.kind = "data" => Len(m.bytes) <= MaxPacket) => Sized(<<m>>)
    /\ \A q \in Seq(MessageSet) : q # <<>> /\ Sized(q) =>
         Sized(Tail(q)) /\ (Head(q).kind = "data" => Len(Head(q).bytes) <= MaxPacket)
  <1>1. Sized(<<>>)
    BY DEF Sized
  <1>2. ASSUME NEW m \in MessageSet, m.kind = "data" => Len(m.bytes) <= MaxPacket
        PROVE  Sized(<<m>>)
    <2>1. Len(<<m>>) = 1 /\ <<m>>[1] = m
      OBVIOUS
    <2> QED BY <1>2, <2>1 DEF Sized
  <1>3. ASSUME NEW q \in Seq(MessageSet), q # <<>>, Sized(q)
        PROVE  Sized(Tail(q)) /\ (Head(q).kind = "data" => Len(Head(q).bytes) <= MaxPacket)
    <2>1. /\ Len(Tail(q)) = Len(q) - 1 /\ Len(q) \in Nat \ {0}
          /\ \A i \in 1..Len(Tail(q)) : Tail(q)[i] = q[i + 1]
      BY <1>3, HeadTailProperties, EmptySeq
    <2>2. Head(q) = q[1] /\ 1 \in 1..Len(q)
      BY <1>3, <2>1
    <2>3. \A i \in 1..Len(Tail(q)) : i + 1 \in 1..Len(q)
      BY <2>1
    <2> QED BY <1>3, <2>1, <2>2, <2>3, Zenon DEF Sized
  <1> QED BY <1>1, <1>2, <1>3

(* What a turn of x does to the counts of both directions.                 *)
LEMMA TurnCounts ==
    ASSUME StateTypes, NEW x \in Peers, NEW d \in ChannelSet, NEW rest \in Seq(MessageSet),
           Apply(x, d, rest), NEW y, y = Peer(x)
    PROVE  /\ Spent(y)' = d.rwin /\ Sent(y)' = Sent(y) + DataOf(d.sends)
           /\ Given(y)' = WindowOf(rest)
           /\ Left(y)' = Left(y) /\ Output(y)' = Output(y) /\ Written(y)' = Written(y)
           /\ Fits(y)' <=> Len(d.input) <= d.rwin
           /\ Spent(x)' = Spent(x) /\ Sent(x)' = DataOf(rest)
           /\ Given(x)' = Given(x) + WindowOf(d.sends)
           /\ Left(x)' = d.lwin /\ Output(x)' = Len(d.output) /\ Written(x)' = d.consumed
           /\ Exit(y)' = Exit(y) /\ Exit(x)' = d.ostate
           /\ Fits(x)' <=> Fits(x)
           /\ Sized(rest) => Sized(queue'[x])
           /\ Sized(queue[y]) /\ Sized(d.sends) => Sized(queue'[y])
  <1>1. /\ ch'[x].rwin = d.rwin /\ ch'[x].input = d.input /\ ch'[x].lwin = d.lwin
        /\ ch'[x].output = d.output /\ ch'[x].consumed = d.consumed
        /\ ch'[x].ostate = d.ostate
        /\ ch'[y] = ch[y] /\ queue'[x] = rest
        /\ queue'[y] = queue[y] \o d.sends /\ d.sends \in Seq(MessageSet)
    BY ApplyKeeps DEF SameIn, SameOut
  <1>2. /\ y \in Peers /\ Peer(y) = x /\ Peer(x) = y
        /\ queue[y] \in Seq(MessageSet)
    BY TwoPeers DEF StateTypes
  <1>3. /\ DataOf(queue[y] \o d.sends) = DataOf(queue[y]) + DataOf(d.sends)
        /\ WindowOf(queue[y] \o d.sends) = WindowOf(queue[y]) + WindowOf(d.sends)
    BY <1>1, <1>2, SumsOfParts
  <1>4. /\ Spent(y)' = d.rwin /\ Sent(y)' = Sent(y) + DataOf(d.sends)
        /\ Given(y)' = WindowOf(rest)
        /\ Left(y)' = Left(y) /\ Output(y)' = Output(y) /\ Written(y)' = Written(y)
    BY <1>1, <1>2, <1>3 DEF Spent, Sent, Given, Left, Output, Written
  <1>5. /\ Spent(x)' = Spent(x) /\ Sent(x)' = DataOf(rest)
        /\ Given(x)' = Given(x) + WindowOf(d.sends)
        /\ Left(x)' = d.lwin /\ Output(x)' = Len(d.output) /\ Written(x)' = d.consumed
        /\ Exit(y)' = Exit(y) /\ Exit(x)' = d.ostate
    BY <1>1, <1>2, <1>3 DEF Spent, Sent, Given, Left, Output, Written, Exit
  <1>6. (Fits(y)' <=> Len(d.input) <= d.rwin) /\ (Fits(x)' <=> Fits(x))
    BY <1>1, <1>2 DEF Fits, Spent
  <1>7. Sized(queue[y]) /\ Sized(d.sends) => Sized(queue'[y])
    BY <1>1, <1>2, SizedJoins
  <1> QED BY <1>1, <1>4, <1>5, <1>6, <1>7

(* A turn that sends n bytes, writes w and discards k, and gives back      *)
(* nothing, or all that was written.                                       *)
Outward(c, e, n) ==
    /\ n \in Nat /\ n <= MaxPacket /\ n <= c.rwin /\ (n > 0 => ~Closed(c))
    /\ e.rwin = c.rwin - n /\ Len(e.input) <= e.rwin
    /\ DataOf(e.sends) = n /\ Sized(e.sends)

Inward(c, e, w, k) ==
    /\ w \in Nat /\ k \in Nat /\ w + k <= Len(c.output)
    /\ Len(e.output) = Len(c.output) - w - k
    /\ \/ /\ e.lwin = c.lwin /\ e.consumed = c.consumed + w /\ WindowOf(e.sends) = 0
          /\ \/ Empties(c.ostate, e.ostate, Len(c.output), w, k)
             \/ w = 0 /\ k = 0 /\ Shuts(c.ostate, e.ostate, Len(c.output))
       \/ /\ ~Closed(c) /\ c.consumed + w > 0
          /\ Empties(c.ostate, e.ostate, Len(c.output), w, k)
          /\ Window - c.lwin > 3 * MaxPacket \/ c.lwin < Window \div 2
          /\ e.lwin = c.lwin + c.consumed + w /\ e.consumed = 0
          /\ WindowOf(e.sends) = c.consumed + w

(* A channel may be collected in the end.                                  *)
LEMMA CollectCounts ==
    ASSUME NEW c, Live(c), NEW d, d = Collect(c)
    PROVE  /\ d.sends \in Seq(MessageSet)
           /\ DataOf(d.sends) = DataOf(c.sends) /\ WindowOf(d.sends) = WindowOf(c.sends)
           /\ Sized(c.sends) => Sized(d.sends)
  <1>1. /\ d \in ChannelSet /\ c \in ChannelSet
        /\ d.sends = c.sends \/ d.sends = Append(c.sends, Message("close"))
    BY CollectKeeps DEF Live, Regular
  <1>2. c.sends \in Seq(MessageSet) /\ d.sends \in Seq(MessageSet)
    BY <1>1 DEF ChannelSet
  <1>3. Message("close") \in MessageSet /\ Message("close").kind = "close"
    BY MessageTypes
  <1>4. CASE d.sends = c.sends
    BY <1>2, <1>4
  <1>5. CASE d.sends = Append(c.sends, Message("close"))
    <2>1. DataIn(Message("close")) = 0 /\ WindowIn(Message("close")) = 0
      BY <1>3, Carries
    <2>2. /\ DataOf(d.sends) = DataOf(c.sends) + 0 /\ WindowOf(d.sends) = WindowOf(c.sends) + 0
          /\ DataOf(c.sends) \in Nat /\ WindowOf(c.sends) \in Nat
      BY <1>2, <1>3, <1>5, <2>1, SumsOfAppend, SumsOfParts
    <2>3. d.sends = c.sends \o <<Message("close")>> /\ <<Message("close")>> \in Seq(MessageSet)
      BY <1>2, <1>3, <1>5
    <2>4. Sized(c.sends) => Sized(d.sends)
      BY <1>2, <1>3, <2>3, SizedJoins, SizedParts
    <2> QED BY <1>2, <2>2, <2>4
  <1> QED BY <1>1, <1>4, <1>5

LEMMA ResultIs ==
    ASSUME WindowInv, Sourced', NEW x \in Peers, NEW y, y = Peer(x),
           Fresh(ch'[x]), ch'[y] = ch[y],
           Balance(x)' /\ FlowStep(x), Balance(y)' /\ FlowStep(y)
    PROVE  Result
  <1>1. y \in Peers /\ \A z \in Peers : z = x \/ z = y
    BY TwoPeers
  <1>2. Fresh(ch'[y])
    BY <1>1 DEF WindowInv
  <1>3. ASSUME NEW z \in Peers
        PROVE  Fresh(ch'[z]) /\ Balance(z)' /\ FlowStep(z)
    <2>1. CASE z = x  BY <2>1
    <2>2. CASE z = y  BY <1>2, <2>2
    <2> QED BY <1>1, <2>1, <2>2
  <1>4. (\A z \in Peers : Fresh(ch[z]) /\ Balance(z))'
    BY <1>3
  <1> QED BY <1>3, <1>4 DEF Result, WindowInv

(* A turn of an open channel, from the main loop.                          *)
LEMMA OpenTurn ==
    ASSUME IInv, WindowInv, Sourced', NEW x \in Peers, ch[x].type = "open",
           NEW e, Live(e), NEW n, Outward(ch[x], e, n), NEW w, NEW k, Inward(ch[x], e, w, k),
           Apply(x, Collect(e), queue[x])
    PROVE  Result
  <1> DEFINE y == Peer(x)
             d == Collect(e)
  <1>1. /\ StateTypes /\ y \in Peers /\ x = Peer(y)
        /\ queue[x] \in Seq(MessageSet) /\ queue[y] \in Seq(MessageSet)
        /\ e \in ChannelSet /\ ch[x] \in ChannelSet
    BY TwoPeers DEF IInv, StateTypes, Live, Regular
  <1>2. Balance(x) /\ Balance(y)
    BY <1>1 DEF WindowInv
  <1>3. /\ d \in ChannelSet /\ d.sends \in Seq(MessageSet)
        /\ DataOf(d.sends) = DataOf(e.sends) /\ WindowOf(d.sends) = WindowOf(e.sends)
        /\ Sized(d.sends)
        /\ \/ d.type = "open" /\ SameIn(e, d) /\ SameOut(e, d) /\ d.ostate = e.ostate
           \/ d = [NewChannel("freed") EXCEPT !.sends = d.sends]
    BY CollectKeeps, CollectCounts DEF Outward
  <1> HIDE DEF d
  <1>4. /\ Spent(y)' = d.rwin /\ Sent(y)' = Sent(y) + DataOf(d.sends)
        /\ Given(y)' = WindowOf(queue[x])
        /\ Left(y)' = Left(y) /\ Output(y)' = Output(y) /\ Written(y)' = Written(y)
        /\ Fits(y)' <=> Len(d.input) <= d.rwin
        /\ Spent(x)' = Spent(x) /\ Sent(x)' = DataOf(queue[x])
        /\ Given(x)' = Given(x) + WindowOf(d.sends)
        /\ Left(x)' = d.lwin /\ Output(x)' = Len(d.output) /\ Written(x)' = d.consumed
        /\ Exit(y)' = Exit(y) /\ Exit(x)' = d.ostate
        /\ Fits(x)' <=> Fits(x)
        /\ Sized(queue[x]) => Sized(queue'[x])
        /\ Sized(queue[y]) /\ Sized(d.sends) => Sized(queue'[y])
    BY <1>1, <1>3, TurnCounts DEF d
  <1>5. /\ Spent(y) = ch[x].rwin /\ Given(y) = WindowOf(queue[x])
        /\ Sent(x) = DataOf(queue[x]) /\ Left(x) = ch[x].lwin
        /\ Output(x) = Len(ch[x].output) /\ Written(x) = ch[x].consumed
        /\ Exit(x) = ch[x].ostate
        /\ Fits(x) /\ Sized(queue'[x]) /\ Sized(queue'[y])
    BY <1>1, <1>2, <1>3, <1>4, BalanceIs DEF Spent, Given, Sent, Left, Output, Written, Exit
  <1>6. /\ Spent(y) \in Nat /\ Sent(y) \in Nat /\ Given(y) \in Nat
        /\ Left(y) \in Int /\ Output(y) \in Nat /\ Written(y) \in Nat
        /\ Spent(x) \in Nat /\ Sent(x) \in Nat /\ Given(x) \in Nat
        /\ Left(x) \in Int /\ Output(x) \in Nat /\ Written(x) \in Nat
        /\ Window \in Nat
    BY <1>1, CountTypes, SizeAssumption
  <1>7. ~Closed(ch[x]) => Open(x) /\ Open(y)
    BY BothOpen
  <1>8. /\ n \in Nat /\ n <= MaxPacket /\ n <= Spent(y) /\ (n > 0 => Open(y))
        /\ e.rwin = Spent(y) - n /\ Len(e.input) <= e.rwin /\ DataOf(d.sends) = n
    BY <1>3, <1>5, <1>7 DEF Outward
  <1>9. /\ w \in Nat /\ k \in Nat /\ w + k <= Output(x)
        /\ Len(e.output) = Output(x) - w - k
        /\ \/ /\ e.lwin = Left(x) /\ e.consumed = Written(x) + w /\ WindowOf(d.sends) = 0
              /\ \/ Empties(Exit(x), e.ostate, Output(x), w, k)
                 \/ w = 0 /\ k = 0 /\ Shuts(Exit(x), e.ostate, Output(x))
           \/ /\ Open(x) /\ Written(x) + w > 0 /\ Shrunk(x)
              /\ Empties(Exit(x), e.ostate, Output(x), w, k)
              /\ e.lwin = Left(x) + Written(x) + w /\ e.consumed = 0
              /\ WindowOf(d.sends) = Written(x) + w
    BY <1>3, <1>5, <1>7 DEF Inward, Shrunk
  <1>10. ch'[y] = ch[y] /\ ch'[x].type = d.type
    BY <1>1, <1>3, ApplyKeeps DEF d
  <1>11. CASE d.type = "open" /\ SameIn(e, d) /\ SameOut(e, d) /\ d.ostate = e.ostate
    <2>1. ToFlow(x)' = ToFlow(x) /\ ToFlow(y)' = ToFlow(y)
      BY <1>1, <1>10, <1>11, SameFlow
    <2>2. /\ Spent(y)' = Spent(y) - n /\ Sent(y)' = Sent(y) + n /\ Given(y)' = Given(y)
          /\ Fits(y)'
      BY <1>4, <1>5, <1>8, <1>11 DEF SameOut
    <2>3. Balance(y)' /\ FlowStep(y)
      BY <1>1, <1>2, <1>4, <1>5, <1>8, <2>1, <2>2, SendsBalance
    <2>4. Balance(x)' /\ FlowStep(x)
      <3>1. /\ Output(x)' = Output(x) - w - k /\ Spent(x)' = Spent(x) /\ Sent(x)' = Sent(x)
            /\ Fits(x)' /\ Sized(queue'[x]) /\ Exit(x)' = e.ostate
        BY <1>4, <1>5, <1>9, <1>11 DEF SameIn
      <3>2. CASE /\ e.lwin = Left(x) /\ e.consumed = Written(x) + w /\ WindowOf(d.sends) = 0
                 /\ \/ Empties(Exit(x), e.ostate, Output(x), w, k)
                    \/ w = 0 /\ k = 0 /\ Shuts(Exit(x), e.ostate, Output(x))
        <4>1. Left(x)' = Left(x) /\ Written(x)' = Written(x) + w /\ Given(x)' = Given(x)
          BY <1>4, <1>6, <1>11, <3>2 DEF SameIn
        <4>2. \/ Empties(Exit(x), Exit(x)', Output(x), w, k)
              \/ w = 0 /\ k = 0 /\ Shuts(Exit(x), Exit(x)', Output(x))
          BY <3>1, <3>2
        <4> QED BY <1>1, <1>2, <1>9, <2>1, <3>1, <4>1, <4>2, WritesBalance
      <3>3. CASE /\ Open(x) /\ Written(x) + w > 0 /\ Shrunk(x)
                 /\ Empties(Exit(x), e.ostate, Output(x), w, k)
                 /\ e.lwin = Left(x) + Written(x) + w /\ e.consumed = 0
                 /\ WindowOf(d.sends) = Written(x) + w
        <4>1. Left(x)' = Left(x) + Written(x) + w /\ Written(x)' = 0
          BY <1>4, <1>11, <3>3 DEF SameIn
        <4>2. Given(x)' = Given(x) + (Written(x) + w)
          BY <1>4, <3>3
        <4>3. Given(x)' = Given(x) + Written(x) + w
          <5>1. w \in Nat /\ Given(x) \in Nat /\ Written(x) \in Nat
            BY <1>6, <1>9
          <5>2. Given(x) + (Written(x) + w) = Given(x) + Written(x) + w
            BY <5>1
          <5> QED BY <4>2, <5>2
        <4>4. Empties(Exit(x), Exit(x)', Output(x), w, k)
          BY <3>1, <3>3
        <4> QED BY <1>1, <1>2, <1>9, <2>1, <3>1, <3>3, <4>1, <4>3, <4>4, GivesBalance
      <3> QED BY <1>9, <3>2, <3>3
    <2>5. Fresh(ch'[x])
      BY <1>10, <1>11 DEF Fresh
    <2> QED BY <1>10, <2>3, <2>4, <2>5, ResultIs
  <1>12. CASE d = [NewChannel("freed") EXCEPT !.sends = d.sends]
    <2>1. ch'[x] = NewChannel("freed")
      BY <1>1, <1>3, <1>12, ApplyKeeps DEF Types, d
    <2>2. /\ ch'[x].type = "freed" /\ ch'[x].rwin = 0 /\ ch'[x].input = <<>>
          /\ ch'[x].lwin = Window /\ ch'[x].output = <<>> /\ ch'[x].consumed = 0
      BY <2>1 DEF NewChannel
    <2>3. FlowStep(x) /\ FlowStep(y) /\ ~Open(x)' /\ ~Open(y)'
      BY <1>1, <2>2, StepEnds, GoneIsDone
    <2>4. /\ Spent(y)' = 0 /\ Left(x)' = Window /\ Output(x)' = 0 /\ Written(x)' = 0
          /\ Fits(y)'
      BY <1>1, <2>2, TwoPeers DEF Spent, Left, Output, Written, Fits
    <2>5. /\ Left(x) + Output(x) + Written(x) <= Window /\ Sent(x) <= Left(x)
          /\ Spent(x) + Given(x) <= Window
          /\ Open(x) => Spent(x) + Sent(x) + Given(x) = Left(x)
          /\ Left(y) + Output(y) + Written(y) <= Window /\ Sent(y) <= Left(y)
          /\ Spent(y) + Given(y) <= Window
          /\ Open(y) => Spent(y) + Sent(y) + Given(y) = Left(y)
      BY <1>1, <1>2, BalanceIs
    <2>6. Balance(y)'
      <3>1. Sent(y)' = Sent(y) + n /\ Left(y)' = Left(y) /\ Given(y)' = Given(y)
        BY <1>4, <1>5, <1>8
      <3>4. Sent(y)' <= Left(y)'
        <4>1. Sent(y) <= Left(y)
          BY <2>5
        <4>2. CASE n = 0
          BY <1>6, <3>1, <4>1, <4>2
        <4>3. CASE n # 0
          <5>1. Spent(y) + Sent(y) + Given(y) = Left(y) /\ n <= Spent(y) /\ n \in Nat
            BY <1>8, <2>5, <4>3
          <5> QED BY <1>6, <3>1, <5>1
        <4> QED BY <4>2, <4>3
      <3>5. Left(y)' + Output(y)' + Written(y)' <= Window
        BY <1>4, <2>5
      <3>6. Spent(y)' + Given(y)' <= Window
        <4>1. Spent(y)' = 0 /\ Spent(y) + Given(y) <= Window
          BY <2>4, <2>5
        <4> QED BY <1>6, <3>1, <4>1
      <3> QED BY <1>1, <1>5, <2>3, <2>4, <3>4, <3>5, <3>6, BalanceIsNext
    <2>7. Balance(x)'
      <3>1. Left(x)' = Window /\ Output(x)' = 0 /\ Written(x)' = 0 /\ Sent(x)' = Sent(x)
        BY <1>4, <1>5, <2>4
      <3>2. Left(x) + Output(x) + Written(x) <= Window /\ Sent(x) <= Left(x)
        BY <2>5
      <3>3. Left(x)' + Output(x)' + Written(x)' <= Window /\ Sent(x)' <= Left(x)'
        BY <1>6, <3>1, <3>2
      <3>4. Spent(x)' + Given(x)' <= Window
        <4>1. Spent(x)' = Spent(x) /\ Given(x)' = Given(x) + WindowOf(d.sends)
              /\ Spent(x) + Given(x) <= Window
          BY <1>4, <2>5
        <4>2. CASE WindowOf(d.sends) = 0
          BY <1>6, <4>1, <4>2
        <4>3. CASE WindowOf(d.sends) # 0
          <5>1. /\ Open(x) /\ WindowOf(d.sends) = Written(x) + w
                /\ w \in Nat /\ k \in Nat /\ w + k <= Output(x)
            BY <1>9, <4>3
          <5>2. Spent(x) + Sent(x) + Given(x) = Left(x)
            BY <2>5, <5>1
          <5>3. Spent(x) + (Given(x) + (Written(x) + w)) <= Window
            BY <1>6, <3>2, <5>1, <5>2
          <5> QED BY <4>1, <5>1, <5>3
        <4> QED BY <4>2, <4>3
      <3> QED BY <1>4, <1>5, <2>3, <3>3, <3>4, BalanceIsNext
    <2>8. Fresh(ch'[x])
      BY <2>1, <2>2 DEF Fresh
    <2> QED BY <1>10, <2>3, <2>6, <2>7, <2>8, ResultIs
  <1> QED BY <1>3, <1>11, <1>12

(* A sequence is cut in two.                                               *)
LEMMA PartLengths ==
    ASSUME NEW s \in Seq(Nat), NEW n \in 0..Len(s)
    PROVE  /\ Len(SubSeq(s, 1, n)) = n /\ \A i \in 1..n : SubSeq(s, 1, n)[i] = s[i]
           /\ Len(SubSeq(s, n + 1, Len(s))) = Len(s) - n
           /\ \A i \in 1..(Len(s) - n) : SubSeq(s, n + 1, Len(s))[i] = s[n + i]
  <1>1. Len(s) \in Nat /\ \A i \in 1..Len(s) : s[i] \in Nat
    BY LenProperties, ElementOfSeq
  <1>2. SubSeq(s, 1, n) = [i \in 1..n |-> s[i]]
    BY <1>1
  <1>3. SubSeq(s, n + 1, Len(s)) = [i \in 1..(Len(s) - n) |-> s[n + i]]
    BY <1>1
  <1>4. /\ SubSeq(s, 1, n) \in Seq(Nat) /\ SubSeq(s, n + 1, Len(s)) \in Seq(Nat)
        /\ \A t \in Seq(Nat) : DOMAIN t = 1..Len(t) /\ Len(t) \in Nat
    BY Parts
  <1>5. \A a, b \in Nat : 1..a = 1..b => a = b
    <2>1. ASSUME NEW a \in Nat, NEW b \in Nat, 1..a = 1..b PROVE a = b
      <3>1. a # 0 => a \in 1..b
        BY <2>1
      <3>2. b # 0 => b \in 1..a
        BY <2>1
      <3> QED BY <3>1, <3>2
    <2> QED BY <2>1
  <1>6. DOMAIN SubSeq(s, 1, n) = 1..n /\ DOMAIN SubSeq(s, n + 1, Len(s)) = 1..(Len(s) - n)
    BY <1>2, <1>3
  <1>7. n \in Nat /\ Len(s) - n \in Nat
    BY <1>1
  <1>8. Len(SubSeq(s, 1, n)) = n /\ Len(SubSeq(s, n + 1, Len(s))) = Len(s) - n
    BY <1>4, <1>5, <1>6, <1>7
  <1> QED BY <1>2, <1>3, <1>8

(* What a turn sends: data, EOF or nothing.                                *)
LEMMA PreparesOut ==
    ASSUME NEW c, Live(c), c.sends = <<>>, Len(c.input) <= c.rwin,
           NEW p, p = c \/ p = OutputPoll(c), NEW e, e = Pre(p)
    PROVE  Inward(c, e, 0, 0) /\ \E n \in Nat : Outward(c, e, n)
  <1>1. /\ c \in ChannelSet /\ c.input \in Seq(Nat) /\ Len(c.input) \in Nat /\ c.rwin \in Nat
        /\ Len(c.output) \in Nat /\ c.consumed \in Nat /\ MaxPacket \in Nat
    BY LenProperties, SizeAssumption DEF Live, Regular, ChannelSet
  <1>2. /\ p \in ChannelSet /\ SameIn(c, p) /\ p.ostate = c.ostate
        /\ Nothing(c, p) \/ SendsEof(c, p) \/ \E n \in Nat : SendsData(c, p, n)
    BY <1>1, PollKeeps DEF SameIn, SameOut, Nothing
  <1>3. /\ e \in ChannelSet /\ SameIn(p, e) /\ Nothing(p, e)
        /\ \/ e.ostate = p.ostate
           \/ p.ostate = "drain" /\ p.output = <<>> /\ e.ostate = "closed"
    BY <1>2, PreKeeps
  <1>4. e.lwin = c.lwin /\ e.consumed = c.consumed /\ e.output = c.output
    BY <1>2, <1>3 DEF SameIn
  <1>5. e.rwin = p.rwin /\ e.input = p.input /\ e.sends = p.sends
    BY <1>3 DEF Nothing, SameOut
  <1>6. WindowOf(e.sends) = 0 => Inward(c, e, 0, 0)
    <2>1. /\ 0 + 0 <= Len(c.output) /\ Len(e.output) = Len(c.output) - 0 - 0
          /\ e.consumed = c.consumed + 0
      BY <1>1, <1>4
    <2>2. Shuts(c.ostate, e.ostate, Len(c.output))
      BY <1>2, <1>3 DEF Shuts, SameIn
    <2> QED BY <1>4, <2>1, <2>2 DEF Inward
  <1>7. ASSUME p.rwin = c.rwin, p.input = c.input, DataOf(e.sends) = 0, Sized(e.sends)
        PROVE  Outward(c, e, 0)
    <2>1. c.rwin = c.rwin - 0
      BY <1>1
    <2> QED BY <1>1, <1>5, <1>7, <2>1 DEF Outward
  <1>8. CASE Nothing(c, p)
    <2>1. e.sends = <<>> /\ p.rwin = c.rwin /\ p.input = c.input
      BY <1>5, <1>8 DEF Nothing, SameOut
    <2> QED BY <1>6, <1>7, <2>1, SumsOfOne, SizedParts
  <1>9. CASE SendsEof(c, p)
    <2> DEFINE m == Message("eof")
    <2>1. m \in MessageSet /\ m.kind = "eof"
      BY MessageTypes
    <2> HIDE DEF m
    <2>2. e.sends = <<m>> /\ p.rwin = c.rwin /\ p.input = c.input
      <3>1. Append(<<>>, m) = <<m>>
        OBVIOUS
      <3> QED BY <1>5, <1>9, <3>1 DEF SendsEof, SameOut, m
    <2>3. DataOf(<<m>>) = 0 /\ WindowOf(<<m>>) = 0 /\ Sized(<<m>>)
      BY <2>1, SumsOfOne, Carries, SizedParts
    <2> QED BY <1>6, <1>7, <2>2, <2>3
  <1>10. ASSUME NEW n \in Nat, SendsData(c, p, n)
         PROVE  Inward(c, e, 0, 0) /\ Outward(c, e, n)
    <2> DEFINE bytes == SubSeq(c.input, 1, n)
               m == Data(bytes)
    <2>1. /\ n \in 1..Len(c.input) /\ n <= c.rwin /\ n <= MaxPacket /\ ~Closed(c)
          /\ p.rwin = c.rwin - n /\ p.input = SubSeq(c.input, n + 1, Len(c.input))
          /\ p.sends = Append(<<>>, m)
      BY <1>10 DEF SendsData
    <2>2. bytes \in Seq(Nat) /\ Len(bytes) = n /\ Len(p.input) = Len(c.input) - n
      <3>1. n \in 0..Len(c.input) /\ c.input \in Seq(Nat)
        BY <1>1, <2>1
      <3>2. bytes \in Seq(Nat)
        BY <3>1, Parts
      <3>3. Len(bytes) = n /\ Len(SubSeq(c.input, n + 1, Len(c.input))) = Len(c.input) - n
        BY <3>1, PartLengths
      <3> QED BY <2>1, <3>2, <3>3
    <2>3. m \in MessageSet /\ m.kind = "data" /\ m.bytes = bytes
      BY <2>2, MessageTypes DEF Data
    <2> HIDE DEF bytes, m
    <2>4. e.sends = <<m>>
      <3>1. Append(<<>>, m) = <<m>>
        OBVIOUS
      <3> QED BY <1>5, <2>1, <3>1
    <2>5. DataOf(<<m>>) = n /\ WindowOf(<<m>>) = 0 /\ Sized(<<m>>)
      BY <2>1, <2>2, <2>3, SumsOfOne, Carries, SizedParts
    <2>6. Len(p.input) <= p.rwin
      BY <1>1, <2>1, <2>2
    <2> QED BY <1>5, <1>6, <2>1, <2>4, <2>5, <2>6 DEF Outward
  <1> QED BY <1>2, <1>8, <1>9, <1>10, <1>7

LEMMA PrepareOpen ==
    ASSUME IInv, WindowInv, NEW x \in Peers, ch[x].type = "open", Prepare(x)
    PROVE  Result
  <1> DEFINE c == ch[x]
  <1>1. PICK p \in {OutputPoll(c), c} : Apply(x, Collect(Pre(p)), queue[x])
    BY DEF Prepare
  <1>2. Live(c) /\ c.sends = <<>> /\ Peer(x) \in Peers /\ Peer(Peer(x)) = x
    BY OpenLive, TwoPeers DEF IInv, StateTypes
  <1>3. Sourced' /\ Len(c.input) <= c.rwin
    BY <1>2 DEF Prepare, WindowInv, Sourced, Balance
  <1>4. Live(Pre(p))
    <2>1. Turns(c, c)
      BY <1>2, Silent DEF Live, Regular
    <2>2. Turns(c, p)
      BY <1>1, <1>2, <2>1, OutputPollTurns
    <2> QED BY <1>2, <2>2, TurnsLive, PreTurns
  <1> DEFINE e == Pre(p)
  <1>5. Inward(c, e, 0, 0) /\ \E n \in Nat : Outward(c, e, n)
    BY <1>1, <1>2, <1>3, PreparesOut
  <1>6. Live(e) /\ Apply(x, Collect(e), queue[x])
    BY <1>1, <1>4
  <1> HIDE DEF e
  <1>7. PICK n \in Nat : Outward(c, e, n)
    BY <1>5
  <1> QED BY <1>3, <1>5, <1>6, <1>7, OpenTurn

(* What is read fits the window and what the application writes.           *)
LEMMA ReadFits ==
    ASSUME StateTypes, Sourced, NEW x \in Peers, Len(ch[x].input) <= ch[x].rwin,
           NEW r \in CanRead(x)
    PROVE  r \in Nat /\ Len(ch[x].input) + r <= ch[x].rwin /\ nread[x] + r <= Bytes[x]
  <1>1. /\ Len(ch[x].input) \in Nat /\ ch[x].rwin \in Nat /\ nread[x] \in Nat
        /\ nread[x] <= Bytes[x] /\ Bytes[x] \in Nat
    BY SizeAssumption, LenProperties DEF StateTypes, ChannelSet, Sourced, Peers
  <1>2. CASE r = 0
    BY <1>1, <1>2
  <1>3. CASE r # 0
    <2>1. r \in 0..(ch[x].rwin - Len(ch[x].input)) /\ nread[x] + r <= Bytes[x]
      BY <1>3 DEF CanRead
    <2> QED BY <1>1, <2>1
  <1> QED BY <1>2, <1>3

(* What a turn writes, discards, and gives back.                           *)
LEMMA WritesIn ==
    ASSUME NEW x \in Peers, NEW c \in ChannelSet, NEW a \in ChannelSet, a.output = c.output,
           a.ostate = c.ostate, SameIn(c, a), NEW w \in 0..Len(a.output), app[x] = "reset" => w = 0,
           NEW b, b = HandleWrite(x, a, w),
           Live(b), ~Closed(b) => ~Closed(c), a.sends = <<>>, NEW e, e = CheckWindow(b)
    PROVE  /\ \E v, k \in Nat : Inward(c, e, v, k)
           /\ DataOf(e.sends) = 0 /\ Sized(e.sends) /\ SameOut(a, e)
  <1>1. /\ Len(c.output) \in Nat /\ c.consumed \in Nat /\ c.lwin \in Int
        /\ c.output \in Seq(Nat)
    BY LenProperties DEF ChannelSet
  <1>3. /\ b \in ChannelSet /\ SameOut(a, b) /\ b.lwin = c.lwin /\ b.sends = <<>>
        /\ \/ /\ b.consumed = c.consumed + w /\ b.ostate = c.ostate
              /\ b.output = SubSeq(c.output, w + 1, Len(c.output))
           \/ /\ c.ostate # "closed" /\ c.output # <<>> /\ b.ostate = "closed"
              /\ b.consumed = c.consumed /\ b.output = <<>>
    <2>1. a.lwin = c.lwin /\ a.consumed = c.consumed
      BY DEF SameIn
    <2>2. /\ b \in ChannelSet /\ SameOut(a, b) /\ b.lwin = a.lwin
          /\ b.type = a.type /\ b.istate = a.istate /\ b.sends = a.sends
          /\ \/ /\ b.ostate = a.ostate /\ b.consumed = a.consumed + w
                /\ b.output = SubSeq(a.output, w + 1, Len(a.output))
             \/ /\ app[x] = "reset" /\ a.ostate # "closed" /\ a.output # <<>>
                /\ b.ostate = "closed" /\ b.consumed = a.consumed /\ b.output = <<>>
      BY WriteKeeps
    <2> QED BY <2>1, <2>2
  <1>4. PICK v \in Nat, k \in Nat : /\ v + k <= Len(c.output) /\ b.consumed = c.consumed + v
                                    /\ Len(b.output) = Len(c.output) - v - k
                                    /\ Empties(c.ostate, b.ostate, Len(c.output), v, k)
    <2>1. CASE /\ b.consumed = c.consumed + w /\ b.ostate = c.ostate
               /\ b.output = SubSeq(c.output, w + 1, Len(c.output))
      <3>1. w \in 0..Len(c.output)
        OBVIOUS
      <3>2. Len(b.output) = Len(c.output) - w
        BY <1>1, <2>1, <3>1, PartLengths
      <3>3. w \in Nat /\ 0 \in Nat /\ w + 0 <= Len(c.output)
            /\ Len(b.output) = Len(c.output) - w - 0
        BY <1>1, <3>1, <3>2
      <3>4. Empties(c.ostate, b.ostate, Len(c.output), w, 0)
        BY <2>1 DEF Empties
      <3> QED BY <2>1, <3>3, <3>4
    <2>2. CASE /\ c.ostate # "closed" /\ c.output # <<>> /\ b.ostate = "closed"
               /\ b.consumed = c.consumed /\ b.output = <<>>
      <3> DEFINE n == Len(c.output)
      <3>1. /\ n \in Nat /\ 0 \in Nat /\ 0 + n <= Len(c.output)
            /\ b.consumed = c.consumed + 0 /\ Len(b.output) = Len(c.output) - 0 - n
        BY <1>1, <2>2
      <3>2. n > 0
        BY <1>1, <2>2, EmptySeq
      <3>3. Empties(c.ostate, b.ostate, Len(c.output), 0, n)
        BY <2>2, <3>2 DEF Empties
      <3> HIDE DEF n
      <3> QED BY <3>1, <3>3
    <2> QED BY <1>3, <2>1, <2>2
  <1>5. /\ SameOut(b, e) /\ e.output = b.output /\ e.ostate = b.ostate
        /\ \/ e.lwin = b.lwin /\ e.consumed = b.consumed /\ e.sends = b.sends
           \/ /\ ~Closed(b) /\ b.consumed > 0
              /\ Window - b.lwin > 3 * MaxPacket \/ b.lwin < Window \div 2
              /\ e.lwin = b.lwin + b.consumed /\ e.consumed = 0
              /\ e.sends = Append(b.sends, Adjust(b.consumed))
    BY CheckKeeps
  <1>6. SameOut(a, e)
    BY <1>3, <1>5 DEF SameOut
  <1>7. CASE e.lwin = b.lwin /\ e.consumed = b.consumed /\ e.sends = b.sends
    <2>1. DataOf(e.sends) = 0 /\ WindowOf(e.sends) = 0 /\ Sized(e.sends)
      BY <1>3, <1>7, SumsOfOne, SizedParts
    <2>2. Inward(c, e, v, k)
      BY <1>3, <1>4, <1>5, <1>7, <2>1 DEF Inward
    <2> QED BY <1>6, <2>1, <2>2
  <1>8. CASE /\ ~Closed(b) /\ b.consumed > 0
             /\ Window - b.lwin > 3 * MaxPacket \/ b.lwin < Window \div 2
             /\ e.lwin = b.lwin + b.consumed /\ e.consumed = 0
             /\ e.sends = Append(b.sends, Adjust(b.consumed))
    <2> DEFINE m == Adjust(b.consumed)
    <2>1. m \in MessageSet /\ m.kind = "adjust" /\ m.n = b.consumed
      BY <1>3, MessageTypes DEF ChannelSet, Adjust
    <2>2. e.sends = Append(<<>>, m)
      BY <1>3, <1>8
    <2> HIDE DEF m
    <2>3. e.sends = <<m>>
      BY <2>2
    <2>4. DataOf(e.sends) = 0 /\ WindowOf(e.sends) = b.consumed /\ Sized(e.sends)
      BY <2>1, <2>3, SumsOfOne, Carries, SizedParts
    <2>5. c.lwin + b.consumed = c.lwin + c.consumed + v
      <3>1. /\ b.consumed = c.consumed + v /\ v \in Nat /\ c.lwin \in Int
            /\ c.consumed \in Nat
        BY <1>1, <1>4
      <3>2. c.lwin + (c.consumed + v) = c.lwin + c.consumed + v
        BY <3>1
      <3> QED BY <3>1, <3>2
    <2>6. /\ ~Closed(c) /\ c.consumed + v > 0
          /\ Window - c.lwin > 3 * MaxPacket \/ c.lwin < Window \div 2
          /\ e.lwin = c.lwin + c.consumed + v /\ e.consumed = 0
          /\ WindowOf(e.sends) = c.consumed + v
      BY <1>3, <1>4, <1>8, <2>4, <2>5
    <2>7. Inward(c, e, v, k)
      BY <1>4, <1>5, <2>6 DEF Inward
    <2> QED BY <1>6, <2>4, <2>7
  <1> QED BY <1>5, <1>7, <1>8

(* A turn that reads r bytes and writes w.                                 *)
Posts(x, r, w) ==
    /\ nread' = [nread EXCEPT ![x] = @ + r]
    /\ delivered' = [delivered EXCEPT ![x] = @ \o SubSeq(ch[x].output, 1, w)]
    /\ Apply(x, Collect(CheckWindow(HandleWrite(x, HandleRead(x, ch[x], r), w))), queue[x])
    /\ Len(ch[x].input) + r <= ch[x].rwin /\ nread[x] + r <= Bytes[x]
    /\ r > 0 => ch[x].istate = "open"
    /\ w > 0 => ch[x].ostate # "closed"
    /\ app[x] = "reset" => w = 0

LEMMA PostParts ==
    ASSUME IInv, WindowInv, NEW x \in Peers, PostOpen(x)
    PROVE  /\ ch[x].type = "open" /\ Live(ch[x]) /\ ch[x].sends = <<>>
           /\ \E r \in Nat, w \in 0..Len(ch[x].output) : Posts(x, r, w)
  <1>1. PICK r \in CanRead(x), w \in CanWrite(x) :
          /\ nread' = [nread EXCEPT ![x] = @ + r]
          /\ delivered' = [delivered EXCEPT ![x] = @ \o SubSeq(ch[x].output, 1, w)]
          /\ Apply(x, Collect(CheckWindow(HandleWrite(x, HandleRead(x, ch[x], r), w))), queue[x])
    BY DEF PostOpen
  <1>2. /\ ch[x].type = "open" /\ Live(ch[x]) /\ ch[x] \in ChannelSet
        /\ StateTypes /\ ch[x].sends = <<>> /\ Sourced
        /\ Peer(x) \in Peers /\ Peer(Peer(x)) = x
    BY OpenLive, TwoPeers DEF PostOpen, IInv, StateTypes, WindowInv
  <1>3. Len(ch[x].input) <= ch[x].rwin
    BY <1>2 DEF WindowInv, Balance
  <1>4. r \in Nat /\ Len(ch[x].input) + r <= ch[x].rwin /\ nread[x] + r <= Bytes[x]
    BY <1>2, <1>3, ReadFits
  <1>5. r > 0 => ch[x].istate = "open"
    BY <1>4 DEF CanRead, WantsRead
  <1>6. /\ w \in 0..Len(ch[x].output)
        /\ w > 0 => ch[x].ostate # "closed"
        /\ app[x] = "reset" => w = 0
    <2>1. Len(ch[x].output) \in Nat
      BY <1>2, LenProperties DEF ChannelSet
    <2> QED BY <2>1 DEF CanWrite, WantsWrite
  <1> QED BY <1>1, <1>2, <1>4, <1>5, <1>6 DEF Posts

LEMMA PostTurn ==
    ASSUME IInv, WindowInv, NEW x \in Peers, ch[x].type = "open", Live(ch[x]),
           ch[x].sends = <<>>, NEW r \in Nat, NEW w \in 0..Len(ch[x].output), Posts(x, r, w)
    PROVE  Result
  <1> DEFINE c == ch[x]
             a == HandleRead(x, ch[x], r)
             new == Run(nread[x], nread[x] + r)
  <1>1. /\ nread' = [nread EXCEPT ![x] = @ + r]
        /\ Apply(x, Collect(CheckWindow(HandleWrite(x, a, w))), queue[x])
        /\ Len(c.input) + r <= c.rwin /\ nread[x] + r <= Bytes[x]
        /\ app[x] = "reset" => w = 0
    BY DEF Posts
  <1>2. /\ c \in ChannelSet /\ nread[x] \in Nat /\ StateTypes /\ Sourced
        /\ Peer(x) \in Peers /\ Peer(Peer(x)) = x
    BY TwoPeers DEF IInv, StateTypes, WindowInv
  <1>3. c.input \in Seq(Nat) /\ c.rwin \in Nat
    BY <1>2 DEF ChannelSet
  <1>5. Sourced'
    <2>1. ASSUME NEW z \in Peers PROVE nread'[z] <= Bytes[z]
      <3>1. nread'[z] = IF z = x THEN nread[x] + r ELSE nread[z]
        BY <1>1, <1>2 DEF StateTypes
      <3> QED BY <1>1, <1>2, <3>1 DEF Sourced
    <2> QED BY <2>1 DEF Sourced
  <1> HIDE DEF new
  <1>6. /\ a \in ChannelSet /\ SameIn(c, a) /\ a.rwin = c.rwin /\ a.sends = <<>>
        /\ a.input = c.input \/ a.input = c.input \o new
    <2>1. Reads(x, a, r)
      BY <1>2, ReadKeeps
    <2> HIDE DEF a
    <2> QED BY <2>1 DEF Reads, new
  <1>7. Len(a.input) <= a.rwin
    <2>1. new \in Seq(Nat) /\ Len(new) = r
      <3> DEFINE k == nread[x] + r
      <3>1. k \in Nat /\ nread[x] <= k /\ k - nread[x] = r
        BY <1>2
      <3> HIDE DEF k
      <3>2. Run(nread[x], k) \in Seq(Nat) /\ Len(Run(nread[x], k)) = r
        BY <1>2, <3>1, RunTypes
      <3> QED BY <3>2 DEF new, k
    <2>2. Len(c.input \o new) = Len(c.input) + r
      BY <1>3, <2>1, ConcatProperties
    <2>3. Len(c.input) \in Nat
      BY <1>3, LenProperties
    <2> HIDE DEF a
    <2> QED BY <1>1, <1>3, <1>6, <2>2, <2>3
  <1>8. Turns(c, a) /\ a.output = c.output /\ a.ostate = c.ostate /\ Live(a)
    <2>1. Reads(x, a, r)
      BY <1>2, ReadKeeps
    <2>2. a.ostate = c.ostate
      BY <2>1, Zenon DEF Reads
    <2> QED BY <1>2, <2>2, HandleReadTurns, TurnsLive
  <1> DEFINE b == HandleWrite(x, a, w)
             e == CheckWindow(b)
  <1>9. w \in 0..Len(a.output)
    BY <1>8
  <1>10. Turns(a, b) /\ Live(b) /\ Live(e)
    BY <1>8, <1>9, HandleWriteTurns, CheckWindowTurns, TurnsLive
  <1>11. ~Closed(b) => ~Closed(c)
    BY <1>8, <1>10 DEF Turns, Allowed
  <1> HIDE DEF a
  <1>12. /\ \E v, k \in Nat : Inward(c, e, v, k)
         /\ DataOf(e.sends) = 0 /\ Sized(e.sends) /\ SameOut(a, e)
    BY <1>1, <1>2, <1>6, <1>8, <1>9, <1>10, <1>11, WritesIn
  <1>13. Apply(x, Collect(e), queue[x]) /\ Live(e)
    BY <1>1, <1>10 DEF a
  <1> HIDE DEF b, e
  <1>14. Outward(c, e, 0)
    <2>1. c.rwin - 0 = c.rwin /\ 0 <= c.rwin /\ 0 <= MaxPacket
      BY <1>3, SizeAssumption
    <2> QED BY <1>6, <1>7, <1>12, <2>1 DEF SameOut, Outward
  <1>15. PICK v \in Nat, k \in Nat : Inward(c, e, v, k)
    BY <1>12
  <1> QED BY <1>2, <1>5, <1>13, <1>14, <1>15, OpenTurn

(* A message h is taken from the queue.                                    *)
Takes(c, d, h) ==
    /\ d \in ChannelSet
    /\ d.rwin = c.rwin + WindowIn(h) /\ d.input = c.input
    /\ d.lwin = c.lwin - DataIn(h)
    /\ \/ /\ d.ostate = c.ostate /\ c.ostate = "open"
          /\ Len(d.output) = Len(c.output) + DataIn(h) /\ d.consumed = c.consumed
       \/ /\ d.ostate = c.ostate /\ c.ostate # "open"
          /\ Len(d.output) = Len(c.output) /\ d.consumed = c.consumed + DataIn(h)
       \/ /\ DataIn(h) = 0 /\ Shuts(c.ostate, d.ostate, Len(c.output))
          /\ Len(d.output) = Len(c.output) /\ d.consumed = c.consumed
    /\ DataOf(d.sends) = 0 /\ WindowOf(d.sends) = 0 /\ Sized(d.sends)

LEMMA TakeTurn ==
    ASSUME StateTypes, WindowInv, Sourced', NEW x \in Peers, queue[x] # <<>>,
           NEW d, Takes(ch[x], d, Head(queue[x])), Apply(x, d, Tail(queue[x])),
           Fresh(ch'[x]), \A y \in Peers : ToFlow(y)' = ToFlow(y)
    PROVE  Result
  <1> DEFINE y == Peer(x)
             h == Head(queue[x])
             rest == Tail(queue[x])
  <1>1. /\ y \in Peers /\ x = Peer(y)
        /\ queue[x] \in Seq(MessageSet) /\ d \in ChannelSet
    BY TwoPeers DEF StateTypes, Takes
  <1>2. Balance(x) /\ Balance(y)
    BY <1>1 DEF WindowInv
  <1>3. /\ h \in MessageSet /\ rest \in Seq(MessageSet)
        /\ DataOf(queue[x]) = DataIn(h) + DataOf(rest)
        /\ WindowOf(queue[x]) = WindowIn(h) + WindowOf(rest)
    BY <1>1, SumsOfTail
  <1>4. DataIn(h) \in Nat /\ WindowIn(h) \in Nat /\ DataOf(rest) \in Nat /\ WindowOf(rest) \in Nat
    BY <1>3, Carries, SumsOfParts
  <1>5. Sized(rest) /\ Sized(queue[y]) /\ Fits(x) /\ Fits(y)
    BY <1>1, <1>2, SizedParts, BalanceIs
  <1> HIDE DEF h, rest
  <1>6. /\ Spent(y)' = d.rwin /\ Sent(y)' = Sent(y) + DataOf(d.sends)
        /\ Given(y)' = WindowOf(rest)
        /\ Left(y)' = Left(y) /\ Output(y)' = Output(y) /\ Written(y)' = Written(y)
        /\ Fits(y)' <=> Len(d.input) <= d.rwin
        /\ Spent(x)' = Spent(x) /\ Sent(x)' = DataOf(rest)
        /\ Given(x)' = Given(x) + WindowOf(d.sends)
        /\ Left(x)' = d.lwin /\ Output(x)' = Len(d.output) /\ Written(x)' = d.consumed
        /\ Exit(y)' = Exit(y) /\ Exit(x)' = d.ostate
        /\ Fits(x)' <=> Fits(x)
        /\ Sized(rest) => Sized(queue'[x])
        /\ Sized(queue[y]) /\ Sized(d.sends) => Sized(queue'[y])
    BY <1>1, <1>3, TurnCounts DEF rest
  <1>7. /\ Spent(y) = ch[x].rwin /\ Given(y) = WindowOf(queue[x])
        /\ Sent(x) = DataOf(queue[x]) /\ Left(x) = ch[x].lwin
        /\ Output(x) = Len(ch[x].output) /\ Written(x) = ch[x].consumed
        /\ Exit(x) = ch[x].ostate
    BY <1>1 DEF Spent, Given, Sent, Left, Output, Written, Exit
  <1>8. /\ d.rwin = ch[x].rwin + WindowIn(h) /\ d.input = ch[x].input
        /\ d.lwin = ch[x].lwin - DataIn(h)
        /\ \/ /\ d.ostate = ch[x].ostate /\ ch[x].ostate = "open"
              /\ Len(d.output) = Len(ch[x].output) + DataIn(h) /\ d.consumed = ch[x].consumed
           \/ /\ d.ostate = ch[x].ostate /\ ch[x].ostate # "open"
              /\ Len(d.output) = Len(ch[x].output) /\ d.consumed = ch[x].consumed + DataIn(h)
           \/ /\ DataIn(h) = 0 /\ Shuts(ch[x].ostate, d.ostate, Len(ch[x].output))
              /\ Len(d.output) = Len(ch[x].output) /\ d.consumed = ch[x].consumed
        /\ DataOf(d.sends) = 0 /\ WindowOf(d.sends) = 0 /\ Sized(d.sends)
    BY DEF Takes, h
  <1>9. ch'[y] = ch[y]
    BY <1>1, <1>3, ApplyKeeps DEF rest
  <1>10. ToFlow(x)' = ToFlow(x) /\ ToFlow(y)' = ToFlow(y)
    BY <1>1
  <1>11. /\ Spent(x) \in Nat /\ Sent(x) \in Nat /\ Given(x) \in Nat
         /\ Spent(y) \in Nat /\ Sent(y) \in Nat /\ Given(y) \in Nat
    BY <1>1, CountTypes
  <1>12. Balance(x)' /\ FlowStep(x)
    <2> DEFINE n == DataIn(h)
    <2>1. n \in Nat /\ n <= Sent(x) /\ Sent(x)' = Sent(x) - n
      BY <1>3, <1>4, <1>6, <1>7
    <2>2. Spent(x)' = Spent(x) /\ Given(x)' = Given(x) /\ Fits(x)' /\ Sized(queue'[x])
      <3>1. Given(x)' = Given(x) + 0
        BY <1>6, <1>8
      <3> QED BY <1>5, <1>6, <1>11, <3>1
    <2>3. /\ Left(x)' = Left(x) - n
          /\ \/ /\ Exit(x)' = Exit(x) /\ Exit(x) = "open"
                /\ Output(x)' = Output(x) + n /\ Written(x)' = Written(x)
             \/ /\ Exit(x)' = Exit(x) /\ Exit(x) # "open"
                /\ Output(x)' = Output(x) /\ Written(x)' = Written(x) + n
             \/ /\ n = 0 /\ Shuts(Exit(x), Exit(x)', Output(x))
                /\ Output(x)' = Output(x) /\ Written(x)' = Written(x)
      BY <1>6, <1>7, <1>8
    <2> HIDE DEF n
    <2> QED BY <1>2, <1>10, <2>1, <2>2, <2>3, ReceivesBalance
  <1>13. Balance(y)' /\ FlowStep(y)
    <2> DEFINE n == WindowIn(h)
    <2>1. n \in Nat /\ n <= Given(y) /\ Given(y)' = Given(y) - n
      BY <1>3, <1>4, <1>6, <1>7
    <2>2. Spent(y)' = Spent(y) + n
      BY <1>6, <1>7, <1>8
    <2>3. Sent(y)' = Sent(y)
      <3>1. Sent(y)' = Sent(y) + 0
        BY <1>6, <1>8
      <3> QED BY <1>11, <3>1
    <2>4. Fits(y)'
      <3>1. Len(ch[x].input) <= ch[x].rwin /\ Len(ch[x].input) \in Nat /\ ch[x].rwin \in Nat
        BY <1>1, <1>5, LenProperties DEF Fits, Spent, StateTypes, ChannelSet
      <3>2. Len(d.input) <= d.rwin
        <4>1. Len(d.input) = Len(ch[x].input) /\ d.rwin = ch[x].rwin + WindowIn(h)
          BY <1>8
        <4> QED BY <1>4, <3>1, <4>1
      <3> QED BY <1>6, <3>2
    <2>5. Left(y)' = Left(y) /\ Output(y)' = Output(y) /\ Written(y)' = Written(y)
          /\ Exit(y)' = Exit(y) /\ Sized(queue'[y])
      BY <1>5, <1>6, <1>8
    <2> HIDE DEF n
    <2> QED BY <1>1, <1>2, <1>10, <2>1, <2>2, <2>3, <2>4, <2>5, CreditsBalance
  <1> QED BY <1>9, <1>12, <1>13, ResultIs

LEMMA OpenTakes ==
    ASSUME StateTypes, WindowInv, Sourced', NEW x \in Peers, ch[x].type = "open",
           queue[x] # <<>>, NEW d, Takes(ch[x], d, Head(queue[x])), d.type = "open",
           Apply(x, d, Tail(queue[x]))
    PROVE  Result
  <1>1. d \in ChannelSet /\ Tail(queue[x]) \in Seq(MessageSet)
    BY SumsOfTail DEF Takes, StateTypes
  <1>2. ch'[Peer(x)] = ch[Peer(x)] /\ ch'[x].type = "open"
    BY <1>1, ApplyKeeps
  <1>3. Fresh(ch'[x])
    BY <1>2 DEF Fresh
  <1>4. \A y \in Peers : ToFlow(y)' = ToFlow(y)
    BY <1>2, SameFlow
  <1> QED BY <1>3, <1>4, TakeTurn

(* The messages that come for an open channel.                             *)
Handles(x, kind, d) ==
    LET c == ch[x]
        h == Head(queue[x])
    IN  /\ Dispatch(x, kind, d) /\ kind \in {"data", "adjust", "eof", "close"}
        /\ kind = "data" => d = RcvdData(c, h.bytes)
        /\ kind = "adjust" => d = IF Known(c) THEN [c EXCEPT !.rwin = @ + h.n] ELSE c
        /\ kind = "eof" => d = RcvdEof(c)
        /\ kind = "close" => d = RcvdClose(c)

LEMMA Handled ==
    ASSUME NEW x \in Peers,
           InputData(x) \/ InputWindowAdjust(x) \/ InputIeof(x) \/ InputOclose(x)
    PROVE  \E kind, d : Handles(x, kind, d)
  <1>1. InputData(x) => Handles(x, "data", RcvdData(ch[x], Head(queue[x]).bytes))
    BY DEF InputData, Handles
  <1>2. InputWindowAdjust(x) =>
          Handles(x, "adjust",
            IF Known(ch[x]) THEN [ch[x] EXCEPT !.rwin = @ + Head(queue[x]).n] ELSE ch[x])
    BY DEF InputWindowAdjust, Handles
  <1>3. InputIeof(x) => Handles(x, "eof", RcvdEof(ch[x]))
    BY DEF InputIeof, Handles
  <1>4. InputOclose(x) => Handles(x, "close", RcvdClose(ch[x]))
    BY DEF InputOclose, Handles
  <1> QED BY <1>1, <1>2, <1>3, <1>4, Zenon

LEMMA MessageTurn ==
    ASSUME IInv, WindowInv, NEW x \in Peers, NEW kind, NEW d, Handles(x, kind, d)
    PROVE  Result
  <1> DEFINE c == ch[x]
             h == Head(queue[x])
  <1>1. /\ Dispatch(x, kind, d) /\ kind \in {"data", "adjust", "eof", "close"}
        /\ kind = "data" => d = RcvdData(c, h.bytes)
        /\ kind = "adjust" => d = IF Known(c) THEN [c EXCEPT !.rwin = @ + h.n] ELSE c
        /\ kind = "eof" => d = RcvdEof(c)
        /\ kind = "close" => d = RcvdClose(c)
    BY DEF Handles
  <1>2. /\ queue[x] # <<>> /\ h.kind = kind /\ Apply(x, d, Tail(queue[x]))
        /\ nread' = nread
    BY <1>1, DispatchQueue
  <1>3. c.type = "open" /\ h \in MessageSet
    BY <1>1, <1>2, NextMessage
  <1>4. /\ Live(c) /\ c \in ChannelSet /\ c.sends = <<>> /\ StateTypes /\ Sourced'
        /\ c.rwin \in Nat /\ c.lwin \in Int /\ c.consumed \in Nat
        /\ c.output \in Seq(Nat) /\ Len(c.output) \in Nat
    BY <1>2, <1>3, OpenLive, LenProperties
       DEF IInv, StateTypes, ChannelSet, WindowInv, Sourced
  <1>5. DataOf(<<>>) = 0 /\ WindowOf(<<>>) = 0 /\ Sized(<<>>)
    BY SumsOfOne, SizedParts
  <1> HIDE DEF c, h
  <1>6. CASE kind = "data"
    <2>1. h.bytes \in Seq(Nat) /\ DataIn(h) = Len(h.bytes) /\ WindowIn(h) = 0
      BY <1>2, <1>3, <1>6, MessageTypes, Carries
    <2>2. Len(h.bytes) <= MaxPacket /\ Len(h.bytes) <= c.lwin /\ Len(h.bytes) \in Nat
      <3>1. queue[x] \in Seq(MessageSet) /\ Sized(queue[x]) /\ DataOf(queue[x]) <= c.lwin
        BY <1>4 DEF WindowInv, Balance, StateTypes, c
      <3>2. Len(h.bytes) <= MaxPacket
        BY <1>2, <1>6, <3>1, SizedParts DEF h
      <3>3. /\ Tail(queue[x]) \in Seq(MessageSet)
            /\ DataOf(queue[x]) = Len(h.bytes) + DataOf(Tail(queue[x]))
        BY <1>2, <2>1, <3>1, SumsOfTail DEF h
      <3>4. DataOf(Tail(queue[x])) \in Nat /\ Len(h.bytes) \in Nat
        BY <2>1, <3>3, SumsOfParts, LenProperties
      <3> QED BY <1>4, <3>1, <3>2, <3>3, <3>4
    <2>3. /\ d \in ChannelSet /\ Nothing(c, d) /\ d.type = c.type /\ d.ostate = c.ostate
          /\ \/ /\ c.ostate # "open" /\ d.lwin = c.lwin - Len(h.bytes)
                /\ d.consumed = c.consumed + Len(h.bytes) /\ d.output = c.output
             \/ /\ c.ostate = "open" /\ d.lwin = c.lwin - Len(h.bytes)
                /\ d.consumed = c.consumed /\ d.output = c.output \o h.bytes
             \/ Len(h.bytes) > MaxPacket \/ Len(h.bytes) > c.lwin
      BY <1>1, <1>4, <1>6, <2>1, DataKeeps
    <2>4. ~ (Len(h.bytes) > MaxPacket) /\ ~ (Len(h.bytes) > c.lwin)
      BY <1>4, <2>2, SizeAssumption
    <2>5. Len(c.output \o h.bytes) = Len(c.output) + Len(h.bytes)
      BY <1>4, <2>1, ConcatProperties
    <2>6. c.rwin = c.rwin + 0
      BY <1>4
    <2>7. Takes(c, d, h) /\ d.type = c.type
      <3>1. /\ d \in ChannelSet /\ d.rwin = c.rwin + WindowIn(h) /\ d.input = c.input
            /\ d.ostate = c.ostate /\ d.type = c.type
            /\ DataOf(d.sends) = 0 /\ WindowOf(d.sends) = 0 /\ Sized(d.sends)
        BY <1>4, <1>5, <2>1, <2>3, <2>6 DEF Nothing, SameOut
      <3>2. /\ d.lwin = c.lwin - DataIn(h)
            /\ \/ /\ c.ostate = "open"
                  /\ Len(d.output) = Len(c.output) + DataIn(h) /\ d.consumed = c.consumed
               \/ /\ c.ostate # "open"
                  /\ Len(d.output) = Len(c.output) /\ d.consumed = c.consumed + DataIn(h)
        BY <2>1, <2>3, <2>4, <2>5
      <3> QED BY <3>1, <3>2 DEF Takes
    <2> QED BY <1>2, <1>3, <1>4, <2>7, OpenTakes DEF c, h
  <1>7. CASE kind = "adjust"
    <2>1. h.n \in Nat /\ DataIn(h) = 0 /\ WindowIn(h) = h.n
      BY <1>2, <1>3, <1>7, MessageTypes, Carries
    <2>2. d = [c EXCEPT !.rwin = @ + h.n]
      BY <1>1, <1>3, <1>7 DEF Known, c
    <2>3. /\ d \in ChannelSet /\ SameIn(c, d) /\ d.type = c.type /\ d.sends = c.sends
          /\ d.input = c.input /\ d.rwin = c.rwin + h.n /\ d.ostate = c.ostate
      BY <1>4, <2>1, <2>2, AdjustKeeps
    <2>4. c.lwin = c.lwin - 0 /\ Shuts(c.ostate, d.ostate, Len(c.output))
      BY <1>4, <2>3 DEF Shuts
    <2>5. Takes(c, d, h) /\ d.type = c.type
      BY <1>4, <1>5, <2>1, <2>3, <2>4 DEF Takes, SameIn
    <2> QED BY <1>2, <1>3, <1>4, <2>5, OpenTakes DEF c, h
  <1>8. CASE kind \in {"eof", "close"}
    <2>1. DataIn(h) = 0 /\ WindowIn(h) = 0
      BY <1>2, <1>3, <1>8, Carries
    <2>2. /\ d \in ChannelSet /\ SameIn(c, d) /\ SameOut(c, d) /\ d.type = c.type
          /\ d.sends = c.sends \/ d.sends = Append(c.sends, Message("eof"))
          /\ Shuts(c.ostate, d.ostate, Len(c.output))
      <3>1. CASE kind = "eof"
        <4>1. /\ d \in ChannelSet /\ SameIn(c, d) /\ Nothing(c, d) /\ d.type = c.type
              /\ \/ c.ostate = "closed" /\ d.ostate = "closed"
                 \/ c.ostate # "closed" /\ d.ostate = "drain"
                 \/ c.ostate # "closed" /\ c.output = <<>> /\ d.ostate = "closed"
          BY <1>1, <1>4, <3>1, EofKeeps
        <4>2. Shuts(c.ostate, d.ostate, Len(c.output))
          BY <4>1 DEF Shuts
        <4> QED BY <4>1, <4>2 DEF Nothing
      <3>2. CASE kind = "close"
        <4>1. /\ d \in ChannelSet /\ SameIn(c, d) /\ SameOut(c, d) /\ d.type = c.type
              /\ d.sends = c.sends \/ d.sends = Append(c.sends, Message("eof"))
              /\ \/ c.ostate = "closed" /\ d.ostate = "closed"
                 \/ c.ostate # "closed" /\ d.ostate = "drain"
          BY <1>1, <1>4, <3>2, CloseKeeps
        <4> QED BY <4>1 DEF Shuts
      <3> QED BY <1>8, <3>1, <3>2
    <2>3. DataOf(d.sends) = 0 /\ WindowOf(d.sends) = 0 /\ Sized(d.sends)
      <3> DEFINE m == Message("eof")
      <3>1. m \in MessageSet /\ m.kind = "eof"
        BY MessageTypes
      <3> HIDE DEF m
      <3>2. DataOf(<<m>>) = 0 /\ WindowOf(<<m>>) = 0 /\ Sized(<<m>>) /\ Append(<<>>, m) = <<m>>
        BY <3>1, SumsOfOne, Carries, SizedParts
      <3>3. d.sends = <<>> \/ d.sends = <<m>>
        BY <1>4, <2>2, <3>2 DEF m
      <3> QED BY <1>5, <3>2, <3>3
    <2>4. c.lwin = c.lwin - 0 /\ c.rwin = c.rwin + 0
      BY <1>4
    <2>5. Takes(c, d, h) /\ d.type = c.type
      BY <2>1, <2>2, <2>3, <2>4 DEF Takes, SameIn, SameOut
    <2> QED BY <1>2, <1>3, <1>4, <2>5, OpenTakes DEF c, h
  <1> QED BY <1>1, <1>6, <1>7, <1>8
-----------------------------------------------------------------------------
(* The handshake.                                                          *)

(* An end that is new, or is opening its channel, has counted nothing yet. *)
LEMMA FreshCounts ==
    ASSUME WindowInv, NEW x \in Peers
    PROVE  /\ ch[x].type \in {"none", "opening", "connecting"} =>
                /\ ch[x].lwin = Window /\ ch[x].consumed = 0
                /\ ch[x].output = <<>> /\ ch[x].input = <<>> /\ ch[x].ostate = "open"
           /\ ch[x].type \in {"none", "opening"} => ch[x].rwin = 0
           /\ ch[x].type = "connecting" => ch[x].rwin = Window
           /\ ch[x].type \in {"none", "opening"} => ch[x] = NewChannel(ch[x].type)
           /\ ch[x].type = "connecting" => ch[x] = [NewChannel("connecting") EXCEPT !.rwin = Window]
  <1>1. Fresh(ch[x])
    BY DEF WindowInv
  <1> DEFINE n == NewChannel("connecting")
  <1>2. /\ n \in ChannelSet /\ Window \in Nat /\ n.lwin = Window /\ n.consumed = 0
        /\ n.output = <<>> /\ n.input = <<>> /\ n.ostate = "open"
    BY NewTypes, SizeAssumption DEF Types, NewChannel
  <1> HIDE DEF n
  <1>3. LET c == [n EXCEPT !.rwin = Window]
        IN  /\ c.lwin = Window /\ c.consumed = 0 /\ c.output = <<>> /\ c.input = <<>>
            /\ c.rwin = Window /\ c.ostate = "open"
    BY <1>2 DEF ChannelSet
  <1>4. ch[x].type = "connecting" => ch[x] = [n EXCEPT !.rwin = Window]
    BY <1>1 DEF Fresh, n
  <1>5. ch[x].type \in {"none", "opening"} => ch[x] = NewChannel(ch[x].type)
    BY <1>1 DEF Fresh
  <1>6. \A t : LET c == NewChannel(t)
               IN  /\ c.lwin = Window /\ c.consumed = 0 /\ c.output = <<>> /\ c.input = <<>>
                   /\ c.rwin = 0 /\ c.ostate = "open"
    BY DEF NewChannel
  <1>7. ch[x].type = "connecting" => /\ ch[x].lwin = Window /\ ch[x].consumed = 0
                                     /\ ch[x].output = <<>> /\ ch[x].input = <<>>
                                     /\ ch[x].rwin = Window /\ ch[x].ostate = "open"
    BY <1>3, <1>4
  <1>8. ch[x].type \in {"none", "opening"} =>
          /\ ch[x].lwin = Window /\ ch[x].consumed = 0
          /\ ch[x].output = <<>> /\ ch[x].input = <<>> /\ ch[x].rwin = 0
          /\ ch[x].ostate = "open"
    BY <1>5, <1>6, Zenon
  <1> QED BY <1>4, <1>5, <1>7, <1>8 DEF n

(* An end is refused or freed.                                             *)
LEMMA EndTurn ==
    ASSUME StateTypes, WindowInv, Sourced', NEW x \in Peers, NEW d \in ChannelSet,
           NEW t \in {"zombie", "freed"}, d = [NewChannel(t) EXCEPT !.sends = d.sends],
           d.sends = <<>> \/ d.sends = <<Message("failure")>>,
           NEW rest, rest = queue[x] \/ (queue[x] # <<>> /\ rest = Tail(queue[x])),
           Apply(x, d, rest)
    PROVE  Result
  <1> DEFINE y == Peer(x)
             m == Message("failure")
  <1>1. /\ y \in Peers /\ x = Peer(y) /\ queue[x] \in Seq(MessageSet)
        /\ Balance(x) /\ Balance(y)
    BY TwoPeers DEF StateTypes, WindowInv
  <1>2. /\ rest \in Seq(MessageSet) /\ Sized(rest) /\ Sized(queue[y])
        /\ DataOf(rest) \in Nat /\ WindowOf(rest) \in Nat
        /\ DataOf(rest) <= DataOf(queue[x]) /\ WindowOf(rest) <= WindowOf(queue[x])
    <2>1. /\ DataOf(queue[x]) \in Nat /\ WindowOf(queue[x]) \in Nat
          /\ Sized(queue[x]) /\ Sized(queue[y])
      BY <1>1, SumsOfParts, BalanceIs
    <2>2. CASE rest = queue[x]
      BY <1>1, <2>1, <2>2
    <2>3. CASE queue[x] # <<>> /\ rest = Tail(queue[x])
      <3>1. /\ Head(queue[x]) \in MessageSet /\ rest \in Seq(MessageSet)
            /\ DataOf(queue[x]) = DataIn(Head(queue[x])) + DataOf(rest)
            /\ WindowOf(queue[x]) = WindowIn(Head(queue[x])) + WindowOf(rest)
        BY <1>1, <2>3, SumsOfTail
      <3>2. /\ DataIn(Head(queue[x])) \in Nat /\ WindowIn(Head(queue[x])) \in Nat
            /\ DataOf(rest) \in Nat /\ WindowOf(rest) \in Nat
        BY <3>1, Carries, SumsOfParts
      <3>3. Sized(rest)
        BY <1>1, <2>1, <2>3, SizedParts
      <3> QED BY <2>1, <3>1, <3>2, <3>3
    <2> QED BY <2>2, <2>3
  <1>3. DataOf(d.sends) = 0 /\ WindowOf(d.sends) = 0 /\ Sized(d.sends)
    <2>1. m \in MessageSet /\ m.kind = "failure"
      BY MessageTypes
    <2> HIDE DEF m
    <2>2. DataOf(<<m>>) = 0 /\ WindowOf(<<m>>) = 0 /\ Sized(<<m>>)
      BY <2>1, SumsOfOne, Carries, SizedParts
    <2> QED BY <2>2, SumsOfOne, SizedParts DEF m
  <1>4. /\ Sent(y)' = Sent(y) + DataOf(d.sends) /\ Given(y)' = WindowOf(rest)
        /\ Left(y)' = Left(y) /\ Output(y)' = Output(y) /\ Written(y)' = Written(y)
        /\ Spent(x)' = Spent(x) /\ Sent(x)' = DataOf(rest)
        /\ Given(x)' = Given(x) + WindowOf(d.sends)
    BY <1>1, <1>2, TurnCounts
  <1>5. Fits(x)' /\ Sized(queue'[x]) /\ Sized(queue'[y])
    <2>1. /\ Fits(x)' <=> Fits(x)
          /\ Sized(rest) => Sized(queue'[x])
          /\ Sized(queue[y]) /\ Sized(d.sends) => Sized(queue'[y])
      BY <1>1, <1>2, TurnCounts
    <2>2. Fits(x)
      BY <1>1, BalanceIs
    <2>3. Fits(x)'
      BY <2>1, <2>2
    <2> QED BY <1>2, <1>3, <2>1, <2>3
  <1>6. ch'[y] = ch[y] /\ ch'[x] = NewChannel(t)
    <2>1. t \in Types /\ y = Peer(x)
      BY DEF Types
    <2>2. ch'[Peer(x)] = ch[Peer(x)] /\ ch'[x] = NewChannel(t)
      BY <1>2, <2>1, ApplyKeeps
    <2> QED BY <2>1, <2>2
  <1>7. /\ ch'[x].type = t /\ ch'[x].rwin = 0 /\ ch'[x].input = <<>>
        /\ ch'[x].lwin = Window /\ ch'[x].output = <<>> /\ ch'[x].consumed = 0
    BY <1>6 DEF NewChannel
  <1>8. FlowStep(x) /\ FlowStep(y) /\ ~Open(x)' /\ ~Open(y)'
    BY <1>1, <1>7, StepEnds, GoneIsDone
  <1>9. /\ Spent(y)' = 0 /\ Left(x)' = Window /\ Output(x)' = 0 /\ Written(x)' = 0
        /\ Fits(y)'
    BY <1>1, <1>7, TwoPeers DEF Spent, Left, Output, Written, Fits
  <1>10. /\ Spent(y) \in Nat /\ Sent(y) \in Nat /\ Given(y) \in Nat
         /\ Left(y) \in Int /\ Output(y) \in Nat /\ Written(y) \in Nat
         /\ Spent(x) \in Nat /\ Sent(x) \in Nat /\ Given(x) \in Nat
         /\ Left(x) \in Int /\ Output(x) \in Nat /\ Written(x) \in Nat
         /\ Window \in Nat
    BY <1>1, CountTypes, SizeAssumption
  <1>11. /\ Left(x) + Output(x) + Written(x) <= Window /\ Sent(x) <= Left(x)
         /\ Spent(x) + Given(x) <= Window
         /\ Left(y) + Output(y) + Written(y) <= Window /\ Sent(y) <= Left(y)
         /\ Spent(y) + Given(y) <= Window
    BY <1>1, BalanceIs
  <1>12. Given(y) = WindowOf(queue[x]) /\ Sent(x) = DataOf(queue[x])
    BY <1>1 DEF Given, Sent
  <1>13. Sent(y)' = Sent(y) /\ Given(x)' = Given(x)
    <2>1. Sent(y)' = Sent(y) + 0 /\ Given(x)' = Given(x) + 0
      BY <1>3, <1>4
    <2> QED BY <1>10, <2>1
  <1>14. Balance(y)'
    <2>1. Spent(y)' + Given(y)' <= Window
      <3>1. Spent(y)' = 0 /\ Given(y)' \in Nat /\ Given(y)' <= Given(y)
        <4>1. Given(y)' = WindowOf(rest)
          BY <1>4
        <4> QED BY <1>2, <1>9, <1>12, <4>1
      <3> QED BY <1>10, <1>11, <3>1, SMTT(30)
    <2> QED BY <1>1, <1>4, <1>5, <1>8, <1>9, <1>11, <1>13, <2>1, BalanceIsNext
  <1>15. Balance(x)'
    <2>1. Left(x)' + Output(x)' + Written(x)' <= Window
      BY <1>9, <1>10
    <2>2. Sent(x)' <= Left(x)'
      <3>1. Sent(x)' \in Nat /\ Sent(x)' <= Sent(x)
        <4>1. Sent(x)' = DataOf(rest)
          BY <1>4
        <4> QED BY <1>2, <1>12, <4>1
      <3> QED BY <1>9, <1>10, <1>11, <3>1, SMTT(30)
    <2>3. Spent(x)' + Given(x)' <= Window
      BY <1>4, <1>11, <1>13
    <2> QED BY <1>5, <1>8, <2>1, <2>2, <2>3, BalanceIsNext
  <1>16. Fresh(ch'[x])
    BY <1>6, <1>7 DEF Fresh
  <1> QED BY <1>6, <1>8, <1>14, <1>15, <1>16, ResultIs

(* An end opens its direction, with all of its window.                     *)
LEMMA AnnounceTurn ==
    ASSUME StateTypes, WindowInv, Sourced', NEW x \in Peers, NEW y, y = Peer(x),
           queue[x] = <<>>, queue[y] = <<>>, ch[y].rwin = 0, ch[y].input = <<>>,
           NEW d \in ChannelSet, Apply(x, d, queue[x]), Fresh(ch'[x]),
           d.rwin = ch[x].rwin, d.input = <<>>, d.output = <<>>,
           d.lwin = Window, d.consumed = 0, d.ostate = "open",
           NEW m \in MessageSet, m.kind \in {"open", "confirm"}, d.sends = <<m>>,
           ToFlow(x) = "closed", ToFlow(x)' = "open", ToFlow(y)' = ToFlow(y)
    PROVE  Result
  <1>1. y \in Peers /\ x = Peer(y) /\ queue[x] \in Seq(MessageSet) /\ Balance(y)
    BY TwoPeers DEF StateTypes, WindowInv
  <1>2. /\ DataOf(d.sends) = 0 /\ WindowOf(d.sends) = Window /\ Sized(d.sends)
        /\ DataOf(queue[x]) = 0 /\ WindowOf(queue[x]) = 0
        /\ Sized(queue[x]) /\ Sized(queue[y])
    BY SumsOfOne, Carries, SizedParts
  <1>3. /\ Spent(y)' = d.rwin /\ Sent(y)' = Sent(y) + DataOf(d.sends)
        /\ Given(y)' = WindowOf(queue[x])
        /\ Left(y)' = Left(y) /\ Output(y)' = Output(y) /\ Written(y)' = Written(y)
        /\ Spent(x)' = Spent(x) /\ Sent(x)' = DataOf(queue[x])
        /\ Given(x)' = Given(x) + WindowOf(d.sends)
        /\ Left(x)' = d.lwin /\ Output(x)' = Len(d.output) /\ Written(x)' = d.consumed
        /\ Exit(y)' = Exit(y) /\ Exit(x)' = d.ostate
    BY <1>1, TurnCounts
  <1>4. Fits(x)' /\ Fits(y)' /\ Sized(queue'[x]) /\ Sized(queue'[y])
    <2>1. /\ Fits(y)' <=> Len(d.input) <= d.rwin
          /\ Fits(x)' <=> Fits(x)
          /\ Sized(queue[x]) => Sized(queue'[x])
          /\ Sized(queue[y]) /\ Sized(d.sends) => Sized(queue'[y])
      BY <1>1, TurnCounts
    <2>2. Len(d.input) <= d.rwin /\ Fits(x)
      BY DEF ChannelSet, Fits, Spent
    <2> QED BY <1>2, <2>1, <2>2
  <1>5. ch'[y] = ch[y]
    BY <1>1, ApplyKeeps
  <1>6. /\ Spent(x) = 0 /\ Given(x) = 0 /\ Spent(y) = d.rwin /\ Given(y) = 0
        /\ Sent(y) = 0 /\ Window \in Nat
    BY <1>1, SumsOfOne, SizeAssumption DEF Spent, Given, Sent
  <1>7. Balance(x)' /\ FlowStep(x)
    <2>1. /\ Spent(x)' = 0 /\ Sent(x)' = 0 /\ Given(x)' = Window
          /\ Left(x)' = Window /\ Output(x)' = 0 /\ Written(x)' = 0 /\ Exit(x)' = "open"
      BY <1>2, <1>3, <1>6
    <2>2. Balance(x)'
      BY <1>4, <1>6, <2>1, BalanceIsNext
    <2> QED BY <2>1, <2>2, StepAnnounces
  <1>8. Balance(y)' /\ FlowStep(y)
    <2>1. /\ 0 \in Nat /\ 0 <= MaxPacket /\ 0 <= Spent(y)
          /\ Spent(y)' = Spent(y) - 0 /\ Sent(y)' = Sent(y) + 0 /\ Given(y)' = Given(y)
      BY <1>2, <1>3, <1>6, SizeAssumption DEF ChannelSet
    <2> DEFINE n == 0
    <2>2. /\ n \in Nat /\ n <= MaxPacket /\ n <= Spent(y) /\ ~ (n > 0)
          /\ Spent(y)' = Spent(y) - n /\ Sent(y)' = Sent(y) + n
      BY <2>1
    <2> HIDE DEF n
    <2> QED BY <1>1, <1>3, <1>4, <2>1, <2>2, SendsBalance
  <1> QED BY <1>5, <1>7, <1>8, ResultIs
-----------------------------------------------------------------------------
(* The steps, each by the turn it is.                                      *)

LEMMA NothingMoves ==
    ASSUME WindowInv, ch' = ch, queue' = queue, nread' = nread
    PROVE  Result
  <1>1. WindowInv'
    BY DEF WindowInv, Sourced, Fresh, Balance, ToFlow, Gone, Announced
  <1>2. ASSUME NEW y \in Peers PROVE FlowStep(y)
    <2>1. ToFlow(y)' = ToFlow(y)
      BY DEF ToFlow, Gone, Announced
    <2>2. /\ Spent(y)' = Spent(y) /\ Sent(y)' = Sent(y) /\ Given(y)' = Given(y)
          /\ Left(y)' = Left(y) /\ Output(y)' = Output(y) /\ Written(y)' = Written(y)
          /\ Exit(y)' = Exit(y)
      BY DEF Spent, Sent, Given, Left, Output, Written, Exit
    <2> QED BY <2>1, <2>2, StepStutters
  <1> QED BY <1>1, <1>2 DEF Result

(* Where nothing is sent and nothing changes.                              *)
LEMMA SameStays ==
    ASSUME StateTypes, NEW x \in Peers, Apply(x, ch[x], queue[x])
    PROVE  ch' = ch /\ queue' = queue
  <1>1. Peer(x) \in Peers /\ Peer(x) # x
    BY TwoPeers
  <1>2. ch[x] \in ChannelSet /\ ch[x].sends = <<>> /\ queue[Peer(x)] \in Seq(MessageSet)
    BY <1>1 DEF StateTypes
  <1>3. [ch[x] EXCEPT !.sends = <<>>] = ch[x]
    BY <1>2 DEF ChannelSet
  <1>4. queue[Peer(x)] \o ch[x].sends = queue[Peer(x)]
    BY <1>2, ConcatEmptySeq
  <1>5. ch' = [ch EXCEPT ![x] = ch[x]]
    BY <1>3 DEF Apply
  <1>6. queue' = [queue EXCEPT ![x] = queue[x], ![Peer(x)] = queue[Peer(x)]]
    BY <1>1, <1>4 DEF Apply, StateTypes
  <1> QED BY <1>1, <1>5, <1>6 DEF StateTypes

LEMMA AcceptTurn ==
    ASSUME IInv, WindowInv, NEW x \in Peers, AcceptConnection(x)
    PROVE  Result
  <1> DEFINE n == NewChannel("opening")
             m == Message("open")
             d == Send(n, m)
  <1>1. /\ x = Opener /\ Peer(x) = Acceptor /\ Idle /\ Apply(x, d, queue[x])
        /\ StateTypes /\ nread' = nread
    BY TwoPeers DEF AcceptConnection, IInv, Idle, Asked, Connecting, Confirmed,
                    Refused, Released, Established
  <1>2. /\ ch[Opener].type = "none" /\ ch[Acceptor].type = "none"
        /\ queue[Opener] = <<>> /\ queue[Acceptor] = <<>>
    BY <1>1 DEF Idle
  <1>3. Sourced' /\ Acceptor \in Peers /\ Opener \in Peers
    BY <1>1, TwoPeers DEF WindowInv, Sourced
  <1>4. ch[Acceptor].rwin = 0 /\ ch[Acceptor].input = <<>> /\ ch[Opener].rwin = 0
    BY <1>2, <1>3, FreshCounts
  <1>5. /\ n \in ChannelSet /\ n.sends = <<>> /\ n.rwin = 0 /\ n.input = <<>>
        /\ n.output = <<>> /\ n.lwin = Window /\ n.consumed = 0 /\ n.ostate = "open"
    BY NewTypes DEF Types, NewChannel
  <1>6. m \in MessageSet /\ m.kind \in {"open", "confirm"}
    BY MessageTypes
  <1> HIDE DEF n, m
  <1>7. /\ d \in ChannelSet /\ SameIn(n, d) /\ SameOut(n, d) /\ d.sends = <<m>>
        /\ d.ostate = n.ostate
    <2>1. Append(<<>>, m) = <<m>>
      OBVIOUS
    <2> QED BY <1>5, <1>6, <2>1, SendKeeps
  <1>8. d = [n EXCEPT !.sends = d.sends]
    BY <1>5, <1>7 DEF Send
  <1> HIDE DEF d
  <1>9. ch'[x] = NewChannel("opening") /\ ch'[Peer(x)] = ch[Peer(x)]
    <2>1. "opening" \in Types /\ d = [NewChannel("opening") EXCEPT !.sends = d.sends]
          /\ queue[x] \in Seq(MessageSet)
      BY <1>1, <1>8 DEF Types, n, StateTypes
    <2> QED BY <1>1, <1>7, <2>1, ApplyKeeps
  <1>10. ch'[Opener].type = "opening" /\ ch'[Acceptor].type = "none"
    BY <1>1, <1>2, <1>9, NewTypes DEF Types
  <1>11. Fresh(ch'[x])
    BY <1>1, <1>9, <1>10 DEF Fresh
  <1>12. /\ ToFlow(x) = "closed" /\ ToFlow(x)' = "open"
         /\ ToFlow(Acceptor)' = ToFlow(Acceptor)
    BY <1>1, <1>2, <1>10, TwoPeers DEF ToFlow, Gone, Announced
  <1>13. /\ d.rwin = ch[x].rwin /\ d.input = <<>> /\ d.output = <<>>
         /\ d.lwin = Window /\ d.consumed = 0 /\ d.ostate = "open"
    BY <1>1, <1>4, <1>5, <1>7 DEF SameIn, SameOut
  <1> QED BY <1>1, <1>2, <1>3, <1>4, <1>6, <1>7, <1>11, <1>12, <1>13, AnnounceTurn

LEMMA InputOpenTurn ==
    ASSUME IInv, WindowInv, NEW x \in Peers, InputOpen(x)
    PROVE  Result
  <1> DEFINE n == NewChannel("connecting")
             c == [n EXCEPT !.rwin = Window]
             f == NewChannel("freed")
             m == Message("failure")
             d == Send(f, m)
  <1>1. PICK e \in {c, d} : Dispatch(x, "open", e)
    BY DEF InputOpen
  <1>2. /\ Asked /\ x = Acceptor /\ Peer(x) = Opener /\ queue[x] # <<>>
        /\ Apply(x, e, Tail(queue[x])) /\ Sourced' /\ StateTypes
        /\ queue[x] = <<Message("open")>>
    BY <1>1, DispatchQueue, NextMessage, TwoPeers DEF Asked, WindowInv, Sourced, IInv
  <1>3. CASE e = c
    <2>1. /\ n \in ChannelSet /\ n.sends = <<>> /\ n.rwin = 0 /\ n.input = <<>>
          /\ n.output = <<>> /\ n.lwin = Window /\ n.consumed = 0 /\ n.type = "connecting"
          /\ n.ostate = "open" /\ Window \in Nat
      BY NewTypes, SizeAssumption DEF Types, NewChannel
    <2> HIDE DEF n
    <2>2. /\ c \in ChannelSet /\ c.sends = <<>> /\ c.rwin = Window /\ c.input = <<>>
          /\ c.output = <<>> /\ c.lwin = Window /\ c.consumed = 0 /\ c.type = "connecting"
          /\ c.ostate = "open" /\ [c EXCEPT !.sends = <<>>] = c
      BY <2>1 DEF ChannelSet
    <2> HIDE DEF c
    <2>3. ch'[x] = c /\ ch'[Peer(x)] = ch[Peer(x)]
      <3>1. ch' = [ch EXCEPT ![x] = c]
        BY <1>2, <1>3, <2>2 DEF Apply
      <3> QED BY <3>1, TwoPeers DEF StateTypes, IInv
    <2>4. Fresh(ch'[x])
      BY <2>2, <2>3 DEF Fresh, c, n
    <2>5. ch[x].type = "none" /\ ch[x].rwin = 0 /\ ch[x].input = <<>>
          /\ ch[x].output = <<>> /\ ch[x].lwin = Window /\ ch[x].consumed = 0
          /\ ch[x].ostate = "open"
      <3>1. ch[x].type = "none"
        BY <1>2 DEF Asked
      <3> QED BY <3>1, FreshCounts
    <2>6. \A y \in Peers : ToFlow(y)' = ToFlow(y)
      <3>1. /\ ch'[Acceptor].type = "connecting" /\ ch[Acceptor].type = "none"
            /\ ch'[Opener].type = ch[Opener].type
        BY <1>2, <2>2, <2>3, <2>5
      <3> QED BY <1>2, <3>1, TwoPeers DEF ToFlow, Gone, Announced
    <2>7. Takes(ch[x], c, Head(queue[x]))
      <3> DEFINE h == Head(queue[x])
      <3>1. h = Message("open")
        BY <1>2
      <3>2. h \in MessageSet /\ h.kind = "open"
        BY <3>1, MessageTypes
      <3> HIDE DEF h
      <3>3. DataIn(h) = 0 /\ WindowIn(h) = Window
        BY <3>2, Carries
      <3>4. DataOf(<<>>) = 0 /\ WindowOf(<<>>) = 0 /\ Sized(<<>>)
        BY SumsOfOne, SizedParts
      <3>5. Window = 0 + Window /\ Window = Window - 0 /\ Len(<<>>) = Len(<<>>) + 0
        BY <2>1
      <3>6. Takes(ch[x], c, h)
        BY <2>2, <2>5, <3>3, <3>4, <3>5 DEF Takes
      <3> QED BY <3>6 DEF h
    <2> QED BY <1>2, <1>3, <2>4, <2>6, <2>7, TakeTurn
  <1>4. CASE e = d
    <2>1. f \in ChannelSet /\ f.sends = <<>> /\ m \in MessageSet
      BY NewTypes, MessageTypes DEF Types
    <2> HIDE DEF f, m
    <2>2. d \in ChannelSet /\ d.sends = <<m>>
      <3>1. Append(<<>>, m) = <<m>>
        OBVIOUS
      <3> QED BY <2>1, <3>1, SendKeeps
    <2>3. d = [f EXCEPT !.sends = d.sends]
      BY <2>1, <2>2 DEF Send
    <2> HIDE DEF d
    <2>4. d = [NewChannel("freed") EXCEPT !.sends = d.sends] /\ d.sends = <<Message("failure")>>
      BY <2>2, <2>3 DEF f, m
    <2> DEFINE t == "freed"
               rest == Tail(queue[x])
    <2>5. t \in {"zombie", "freed"} /\ d = [NewChannel(t) EXCEPT !.sends = d.sends]
          /\ queue[x] # <<>> /\ rest = Tail(queue[x]) /\ Apply(x, d, rest)
      BY <1>2, <1>4, <2>4
    <2> HIDE DEF t, rest
    <2> QED BY <1>2, <2>2, <2>4, <2>5, EndTurn
  <1> QED BY <1>3, <1>4

LEMMA ConfirmationTurn ==
    ASSUME IInv, WindowInv, NEW x \in Peers, InputOpenConfirmation(x)
    PROVE  Result
  <1> DEFINE c == ch[x]
             d == [c EXCEPT !.type = "open", !.rwin = Window]
             h == Head(queue[x])
  <1>1. /\ Confirmed /\ x = Opener /\ Peer(x) = Acceptor /\ queue[x] # <<>>
        /\ h.kind = "confirm" /\ Apply(x, d, Tail(queue[x])) /\ Sourced' /\ StateTypes
        /\ queue[x] \in Seq(MessageSet)
    BY DispatchQueue, NextMessage, TwoPeers
       DEF InputOpenConfirmation, WindowInv, Sourced, IInv, StateTypes
  <1>2. /\ c \in ChannelSet /\ c.sends = <<>> /\ c.type = "opening"
        /\ ch[Acceptor].type = "open" /\ Window \in Nat
    BY <1>1, SizeAssumption DEF StateTypes, Confirmed
  <1>3. /\ c.lwin = Window /\ c.consumed = 0 /\ c.output = <<>> /\ c.rwin = 0
        /\ c.ostate = "open"
    BY <1>2, FreshCounts
  <1>4. h \in MessageSet /\ Tail(queue[x]) \in Seq(MessageSet)
    BY <1>1, SumsOfTail
  <1> HIDE DEF c, h
  <1>5. /\ d \in ChannelSet /\ d.sends = <<>> /\ d.type = "open" /\ d.rwin = Window
        /\ SameIn(c, d) /\ d.input = c.input /\ d.ostate = c.ostate
    BY <1>2 DEF ChannelSet, Types, SameIn
  <1> HIDE DEF d
  <1>6. ch'[x].type = "open" /\ ch'[Acceptor] = ch[Acceptor]
    BY <1>1, <1>4, <1>5, ApplyKeeps
  <1>7. Fresh(ch'[x])
    BY <1>6 DEF Fresh
  <1>8. \A y \in Peers : ToFlow(y)' = ToFlow(y)
    BY <1>1, <1>2, <1>6, TwoPeers DEF ToFlow, Gone, Announced, c
  <1>9. Takes(c, d, h)
    <2>1. DataIn(h) = 0 /\ WindowIn(h) = Window
      BY <1>1, <1>4, Carries
    <2>2. DataOf(<<>>) = 0 /\ WindowOf(<<>>) = 0 /\ Sized(<<>>)
      BY SumsOfOne, SizedParts
    <2>3. Window = 0 + Window /\ Window = Window - 0 /\ Len(<<>>) = Len(<<>>) + 0
      BY <1>2
    <2> QED BY <1>3, <1>5, <2>1, <2>2, <2>3 DEF Takes, SameIn
  <1> QED BY <1>1, <1>7, <1>8, <1>9, TakeTurn DEF c, h

LEMMA FailureTurn ==
    ASSUME IInv, WindowInv, NEW x \in Peers, InputOpenFailure(x)
    PROVE  Result
  <1> DEFINE d == [ch[x] EXCEPT !.type = "zombie"]
             t == "zombie"
             rest == Tail(queue[x])
  <1>1. /\ ch[x].type = "opening" /\ queue[x] # <<>> /\ Apply(x, d, rest)
        /\ Sourced' /\ StateTypes
    BY DispatchQueue DEF InputOpenFailure, WindowInv, Sourced, IInv
  <1>2. ch[x] \in ChannelSet /\ ch[x].sends = <<>> /\ ch[x] = NewChannel("opening")
    BY <1>1, FreshCounts DEF StateTypes
  <1>3. d \in ChannelSet /\ d.sends = <<>>
    BY <1>2 DEF ChannelSet, Types
  <1>4. d = NewChannel("zombie")
    <2> DEFINE n == NewChannel("opening")
               m == NewChannel("zombie")
    <2>1. /\ n \in ChannelSet /\ m \in ChannelSet /\ m.type = "zombie"
          /\ m.istate = n.istate /\ m.ostate = n.ostate /\ m.flags = n.flags
          /\ m.input = n.input /\ m.output = n.output /\ m.lwin = n.lwin
          /\ m.consumed = n.consumed /\ m.rwin = n.rwin /\ m.sends = n.sends
      <3>1. n \in ChannelSet /\ m \in ChannelSet
        BY NewTypes DEF Types
      <3> QED BY <3>1 DEF NewChannel
    <2> HIDE DEF n, m
    <2>2. [n EXCEPT !.type = "zombie"] = m
      BY <2>1 DEF ChannelSet
    <2> QED BY <1>2, <2>2 DEF n, m
  <1> HIDE DEF d
  <1>5. d = [NewChannel("zombie") EXCEPT !.sends = d.sends]
    <2>1. [d EXCEPT !.sends = d.sends] = d
      BY <1>3 DEF ChannelSet
    <2> QED BY <1>4, <2>1
  <1>6. t \in {"zombie", "freed"} /\ d = [NewChannel(t) EXCEPT !.sends = d.sends]
        /\ rest = Tail(queue[x])
    BY <1>5
  <1> HIDE DEF t, rest
  <1> QED BY <1>1, <1>3, <1>6, EndTurn

LEMMA ConnectingTurn ==
    ASSUME IInv, WindowInv, NEW x \in Peers, PostConnecting(x)
    PROVE  Result
  <1> DEFINE o == [ch[x] EXCEPT !.type = "open"]
             made == Connected(ch[x])
             z == [ch[x] EXCEPT !.type = "zombie"]
             refused == NotConnected(ch[x])
             freed == Free(refused)
  <1>1. /\ Connecting /\ x = Acceptor /\ Peer(x) = Opener /\ StateTypes /\ Sourced'
        /\ ch[x] \in ChannelSet /\ ch[x].sends = <<>> /\ ch[x].istate = "open"
        /\ nread' = nread /\ queue[x] \in Seq(MessageSet)
    BY TwoPeers DEF PostConnecting, IInv, StateTypes, Regular, Idle, Asked, Connecting,
                    Confirmed, Refused, Released, Established, WindowInv, Sourced
  <1>2. PICK c \in {made, refused, ch[x]} : Apply(x, Collect(c), queue[x])
    BY DEF PostConnecting
  <1>3. \A m : Append(<<>>, m) = <<m>>
    OBVIOUS
  <1>4. /\ ch[Acceptor].type = "connecting" /\ ch[Opener].type = "opening"
        /\ queue[Opener] = <<>> /\ queue[Acceptor] = <<>>
        /\ Opener \in Peers /\ Acceptor \in Peers
    BY <1>1, TwoPeers DEF Connecting
  <1>5. /\ ch[x].lwin = Window /\ ch[x].consumed = 0 /\ ch[x].output = <<>>
        /\ ch[x].input = <<>> /\ ch[Opener].rwin = 0 /\ ch[Opener].input = <<>>
        /\ ch[x].ostate = "open"
    BY <1>1, <1>4, FreshCounts
  <1>6. CASE c = made
    <2>1. /\ o \in ChannelSet /\ o.type = "open" /\ o.sends = <<>> /\ o.istate = "open"
          /\ SameIn(ch[x], o) /\ SameOut(ch[x], o) /\ o.ostate = ch[x].ostate
      BY <1>1 DEF ChannelSet, Types, SameIn, SameOut
    <2>2. made = Send(o, Message("confirm"))
      BY DEF Connected
    <2> DEFINE m == Message("confirm")
    <2>3. m \in MessageSet /\ m.kind \in {"open", "confirm"}
      BY MessageTypes
    <2> HIDE DEF o, made
    <2>4. /\ made \in ChannelSet /\ SameIn(o, made) /\ SameOut(o, made)
          /\ made.type = "open" /\ made.istate = "open" /\ made.sends = <<m>>
          /\ made.ostate = o.ostate
      BY <1>3, <2>1, <2>2, <2>3, SendKeeps
    <2>5. Collect(made) = made
      BY <2>4 DEF Collect
    <2>6. ch'[x].type = "open" /\ ch'[Opener] = ch[Opener]
      BY <1>1, <1>2, <1>6, <2>4, <2>5, ApplyKeeps
    <2>7. Fresh(ch'[x])
      BY <2>6 DEF Fresh
    <2>8. /\ ToFlow(x) = "closed" /\ ToFlow(x)' = "open"
          /\ ToFlow(Opener)' = ToFlow(Opener)
      BY <1>1, <1>4, <2>6, TwoPeers DEF ToFlow, Gone, Announced
    <2>9. /\ made.rwin = ch[x].rwin /\ made.input = <<>> /\ made.output = <<>>
          /\ made.lwin = Window /\ made.consumed = 0 /\ made.ostate = "open"
      BY <1>5, <2>1, <2>4 DEF SameIn, SameOut
    <2> HIDE DEF m
    <2>10. Apply(x, made, queue[x])
      BY <1>2, <1>6, <2>5
    <2> QED BY <1>1, <1>4, <1>5, <2>3, <2>4, <2>7, <2>8, <2>9, <2>10, AnnounceTurn
  <1>7. CASE c = refused
    <2>1. z \in ChannelSet /\ z.type = "zombie" /\ z.sends = <<>>
      BY <1>1 DEF ChannelSet, Types
    <2>2. refused = Send(z, Message("failure"))
      BY DEF NotConnected
    <2>3. Message("failure") \in MessageSet
      BY MessageTypes
    <2> HIDE DEF z, refused
    <2>4. refused.type = "zombie" /\ refused.sends = <<Message("failure")>>
          /\ refused \in ChannelSet
      BY <1>3, <2>1, <2>2, <2>3, SendKeeps
    <2>5. Collect(refused) = freed
      BY <2>4 DEF Collect
    <2> DEFINE n == NewChannel("freed")
    <2>6. n \in ChannelSet
      BY NewTypes DEF Types
    <2> HIDE DEF n
    <2>7. freed = [n EXCEPT !.sends = refused.sends]
      BY DEF Free, n
    <2> HIDE DEF freed
    <2>8. /\ freed \in ChannelSet /\ freed.sends = refused.sends
          /\ freed = [n EXCEPT !.sends = freed.sends]
      BY <2>4, <2>6, <2>7 DEF ChannelSet
    <2> DEFINE t == "freed"
               rest == queue[x]
    <2>9. t \in {"zombie", "freed"} /\ freed = [NewChannel(t) EXCEPT !.sends = freed.sends]
          /\ rest = queue[x] /\ Apply(x, freed, rest)
      BY <1>2, <1>7, <2>5, <2>8 DEF n
    <2> HIDE DEF t, rest
    <2>10. freed.sends = <<Message("failure")>>
      BY <2>4, <2>8
    <2> QED BY <1>1, <2>8, <2>9, <2>10, EndTurn
  <1>8. CASE c = ch[x]
    <2>1. Collect(c) = ch[x]
      BY <1>1, <1>4, <1>8 DEF Collect
    <2> QED BY <1>1, <1>2, <2>1, SameStays, NothingMoves
  <1> QED BY <1>6, <1>7, <1>8

LEMMA PrepareTurn ==
    ASSUME IInv, WindowInv, NEW x \in Peers, Prepare(x)
    PROVE  Result
  <1>1. PICK c \in {OutputPoll(ch[x]), ch[x]} : Apply(x, Collect(Pre(c)), queue[x])
    BY DEF Prepare
  <1>2. /\ nread' = nread /\ Regular(ch[x]) /\ Sourced' /\ StateTypes
        /\ ch[x] \in ChannelSet /\ ch[x].sends = <<>>
    BY DEF Prepare, IInv, StateTypes, WindowInv, Sourced
  <1>3. CASE ch[x].type = "open"
    BY <1>3, PrepareOpen
  <1>4. CASE ch[x].type = "zombie"
    <2> DEFINE f == Free(ch[x])
               n == NewChannel("freed")
    <2>1. Collect(Pre(c)) = f
      BY <1>1, <1>4 DEF Collect, Pre, OutputPoll
    <2>2. n \in ChannelSet /\ n.sends = <<>>
      BY NewTypes DEF Types
    <2> HIDE DEF n
    <2>3. f = [n EXCEPT !.sends = <<>>]
      BY <1>2 DEF Free, n
    <2>4. f \in ChannelSet /\ f.sends = <<>> /\ f = [n EXCEPT !.sends = f.sends]
      <3>1. LET g == [n EXCEPT !.sends = <<>>]
            IN  g \in ChannelSet /\ g.sends = <<>> /\ g = [n EXCEPT !.sends = g.sends]
        BY <2>2 DEF ChannelSet
      <3> HIDE DEF f
      <3> QED BY <2>3, <3>1
    <2> HIDE DEF f
    <2> DEFINE t == "freed"
               rest == queue[x]
    <2>5. t \in {"zombie", "freed"} /\ f = [NewChannel(t) EXCEPT !.sends = f.sends]
          /\ rest = queue[x] /\ Apply(x, f, rest)
      BY <1>1, <2>1, <2>4 DEF n
    <2> HIDE DEF t, rest
    <2> QED BY <1>2, <2>4, <2>5, EndTurn
  <1>5. CASE ch[x].type \notin {"open", "zombie"}
    <2>1. Collect(Pre(c)) = ch[x]
      BY <1>1, <1>2, <1>5 DEF Collect, Pre, OutputPoll, Regular
    <2> QED BY <1>1, <1>2, <2>1, SameStays, NothingMoves
  <1> QED BY <1>3, <1>4, <1>5

LEMMA PostOpenTurn ==
    ASSUME IInv, WindowInv, NEW x \in Peers, PostOpen(x)
    PROVE  Result
  <1>1. /\ ch[x].type = "open" /\ Live(ch[x]) /\ ch[x].sends = <<>>
        /\ \E r \in Nat, w \in 0..Len(ch[x].output) : Posts(x, r, w)
    BY PostParts
  <1> QED BY <1>1, PostTurn

(* Every step keeps the accounting, and is a step of FlowControl in each   *)
(* direction.                                                              *)
LEMMA NextTurn ==
    ASSUME IInv, WindowInv, [Next]_vars
    PROVE  Result
  <1>1. ASSUME NEW x \in Peers, Input(x) PROVE Result
    <2>1. CASE InputData(x) \/ InputWindowAdjust(x) \/ InputIeof(x) \/ InputOclose(x)
      BY <2>1, Handled, MessageTurn
    <2> QED BY <1>1, <2>1, InputOpenTurn, ConfirmationTurn, FailureTurn DEF Input
  <1>2. ASSUME NEW x \in Peers, Post(x) PROVE Result
    <2>1. CASE PostIdle(x)
      BY <2>1, NothingMoves DEF PostIdle
    <2> QED BY <1>2, <2>1, AcceptTurn, ConnectingTurn, PostOpenTurn DEF Post
  <1>3. ASSUME NEW x \in Peers, Finish(x) \/ Reset(x) PROVE Result
    BY <1>3, NothingMoves DEF Finish, Reset
  <1>4. CASE UNCHANGED vars
    BY <1>4, NothingMoves DEF vars
  <1> QED BY <1>1, <1>2, <1>3, <1>4, PrepareTurn DEF Next
-----------------------------------------------------------------------------
LEMMA InitWindow ==
    ASSUME Init
    PROVE  WindowInv /\ FlowAtAcceptor!Init /\ FlowAtOpener!Init
  <1>1. \A y \in Peers : /\ ch[y] = NewChannel("none") /\ queue[y] = <<>> /\ nread[y] = 0
                         /\ Peer(y) \in Peers
    BY TwoPeers DEF Init
  <1>2. /\ NewChannel("none").type = "none" /\ NewChannel("none").rwin = 0
        /\ NewChannel("none").input = <<>> /\ NewChannel("none").output = <<>>
        /\ NewChannel("none").lwin = Window /\ NewChannel("none").consumed = 0
        /\ Window \in Nat
    BY SizeAssumption DEF NewChannel
  <1>3. DataOf(<<>>) = 0 /\ WindowOf(<<>>) = 0 /\ Sized(<<>>)
    BY SumsOfOne, SizedParts
  <1>4. \A y \in Peers : ToFlow(y) = "closed"
    BY <1>1, <1>2 DEF ToFlow, Gone, Announced
  <1>5. Sourced
    BY <1>1, SizeAssumption DEF Sourced, Peers
  <1>6. ASSUME NEW y \in Peers PROVE Fresh(ch[y]) /\ Balance(y)
    <2>1. Fresh(ch[y])
      BY <1>1, <1>2 DEF Fresh
    <2>2. /\ Left(y) = Window /\ Output(y) = 0 /\ Written(y) = 0 /\ Sent(y) = 0
          /\ Spent(y) = 0 /\ Given(y) = 0 /\ Fits(y) /\ Sized(queue[y]) /\ ~Open(y)
      BY <1>1, <1>2, <1>3, <1>4 DEF Left, Output, Written, Sent, Spent, Given, Fits, Open
    <2>3. Balance(y)
      BY <1>2, <2>2, BalanceIs
    <2> QED BY <2>1, <2>3
  <1>7. \A y \in Peers :
          /\ Rwin(y) = 0 /\ Flight(y) = 0 /\ Credit(y) = 0
          /\ Lwin(y) = Window /\ Buffered(y) = 0 /\ Consumed(y) = 0 /\ Lost(y) = 0
          /\ Out(y) = "open"
    BY <1>4, CountsWhenNot DEF Open
  <1>8. FlowAtAcceptor!Init /\ FlowAtOpener!Init
    BY <1>4, <1>7, TwoPeers DEF FlowAtAcceptor!Init, FlowAtOpener!Init
  <1> QED BY <1>5, <1>6, <1>8 DEF WindowInv

(* In each direction, what the sender may send, what is on its way and     *)
(* what is given back add up to the window of the receiver.                *)
THEOREM WindowCorrect == Spec => []WindowInv
  <1>1. Init => WindowInv
    BY InitWindow
  <1>2. IInv /\ WindowInv /\ [Next]_vars => WindowInv'
    BY NextTurn DEF Result
  <1> QED BY <1>1, <1>2, TrafficCorrect, PTL DEF Spec

(* The window of the direction to the Acceptor is accounted for as         *)
(* FlowControl does it.                                                    *)
THEOREM AcceptorFlow == Spec => FlowToAcceptor
  <1>1. Init => FlowAtAcceptor!Init
    BY InitWindow
  <1>2. IInv /\ WindowInv /\ [Next]_vars => [FlowAtAcceptor!Next]_(FlowAtAcceptor!vars)
    BY NextTurn, TwoPeers DEF Result, FlowStep
  <1> QED BY <1>1, <1>2, TrafficCorrect, WindowCorrect, PTL
         DEF Spec, FlowToAcceptor, FlowAtAcceptor!Spec

(* So is the window of the direction to the Opener.                        *)
THEOREM OpenerFlow == Spec => FlowToOpener
  <1>1. Init => FlowAtOpener!Init
    BY InitWindow
  <1>2. IInv /\ WindowInv /\ [Next]_vars => [FlowAtOpener!Next]_(FlowAtOpener!vars)
    BY NextTurn, TwoPeers DEF Result, FlowStep
  <1> QED BY <1>1, <1>2, TrafficCorrect, WindowCorrect, PTL
         DEF Spec, FlowToOpener, FlowAtOpener!Spec

(* Where the loops and the applications are.                               *)
Places ==
    /\ phase \in [Peers -> {"packets", "poll"}]
    /\ app \in [Peers -> {"open", "finished", "reset"}]

LEMMA PlacesKept == Spec => []Places
  <1>1. Init => Places
    BY DEF Init, Places
  <1>2. Places /\ [Next]_vars => Places'
    <2> SUFFICES ASSUME Places, [Next]_vars PROVE Places'
      OBVIOUS
    <2>1. ASSUME NEW x \in Peers, Input(x) PROVE UNCHANGED <<phase, app>>
      BY <2>1 DEF Input, InputOpen, InputOpenConfirmation, InputOpenFailure, InputData,
                  InputWindowAdjust, InputIeof, InputOclose, Dispatch
    <2>2. ASSUME NEW x \in Peers, Prepare(x)
          PROVE  phase' = [phase EXCEPT ![x] = "poll"] /\ app' = app
      BY <2>2 DEF Prepare
    <2>3. ASSUME NEW x \in Peers, Post(x)
          PROVE  phase' = [phase EXCEPT ![x] = "packets"] /\ app' = app
      BY <2>3 DEF Post, AcceptConnection, PostConnecting, PostOpen, PostIdle
    <2>4. ASSUME NEW x \in Peers, Finish(x) \/ Reset(x)
          PROVE  /\ phase' = phase
                 /\ \E a \in {"finished", "reset"} : app' = [app EXCEPT ![x] = a]
      BY <2>4 DEF Finish, Reset
    <2> QED BY <2>1, <2>2, <2>3, <2>4 DEF Next, Places, vars
  <1> QED BY <1>1, <1>2, PTL DEF Spec

(* The windows of both ends stay within the one that was announced, and so *)
(* does what is buffered, whatever the other end sends and whatever is     *)
(* discarded.                                                              *)
THEOREM TypeCorrect == Spec => []TypeOK
  <1>1. IInv /\ WindowInv /\ Places => TypeOK
    <2> SUFFICES ASSUME IInv, WindowInv, Places PROVE TypeOK
      OBVIOUS
    <2>1. ASSUME NEW x \in Peers
          PROVE  /\ ch[x].type \in {"none", "opening", "connecting", "open", "zombie", "freed"}
                 /\ ch[x].istate \in Stage /\ ch[x].ostate \in Stage
                 /\ ch[x].flags \subseteq {"eofSent", "eofRcvd", "closeSent", "closeRcvd"}
                 /\ ch[x].lwin \in 0..Window /\ ch[x].rwin \in 0..Window
                 /\ ch[x].consumed \in 0..Window
                 /\ Len(ch[x].input) <= Window /\ Len(ch[x].output) <= Window
                 /\ ch[x].sends = <<>> /\ nread[x] \in 0..Bytes[x]
      <3> DEFINE y == Peer(x)
      <3>1. /\ y \in Peers /\ Peer(y) = x
            /\ ch[x] \in ChannelSet /\ ch[x].sends = <<>>
            /\ queue[x] \in Seq(MessageSet) /\ nread[x] \in Nat
        BY TwoPeers DEF IInv, StateTypes
      <3>2. /\ ch[x].type \in Types /\ ch[x].istate \in Stage /\ ch[x].ostate \in Stage
            /\ ch[x].flags \subseteq {"eofSent", "eofRcvd", "closeSent", "closeRcvd"}
        BY <3>1 DEF ChannelSet
      <3>9. /\ ch[x].lwin \in Int /\ ch[x].rwin \in Nat /\ ch[x].consumed \in Nat
            /\ Len(ch[x].input) \in Nat /\ Len(ch[x].output) \in Nat
        BY <3>1, LenProperties DEF ChannelSet
      <3>3. /\ ch[x].lwin + Len(ch[x].output) + ch[x].consumed <= Window
            /\ DataOf(queue[x]) <= ch[x].lwin /\ DataOf(queue[x]) \in Nat
        BY <3>1, SumsOfParts DEF WindowInv, Balance
      <3>4. /\ Len(ch[x].input) <= ch[x].rwin
            /\ ch[x].rwin + WindowOf(queue[x]) <= Window /\ WindowOf(queue[x]) \in Nat
        BY <3>1, SumsOfParts DEF WindowInv, Balance
      <3>5. Window \in Nat /\ Bytes[x] \in Nat /\ nread[x] <= Bytes[x]
        BY SizeAssumption DEF Peers, WindowInv, Sourced
      <3>10. Window \in Nat
        BY SizeAssumption
      <3>6. ch[x].lwin \in 0..Window /\ ch[x].consumed \in 0..Window
            /\ Len(ch[x].output) <= Window
        <4> DEFINE l == ch[x].lwin
                   o == Len(ch[x].output)
                   k == ch[x].consumed
                   d == DataOf(queue[x])
        <4>1. l \in Int /\ o \in Nat /\ k \in Nat /\ d \in Nat /\ l + o + k <= Window /\ d <= l
          BY <3>3, <3>9
        <4> HIDE DEF l, o, k, d
        <4>2. l \in 0..Window /\ k \in 0..Window /\ o <= Window
          BY <3>10, <4>1
        <4> QED BY <4>2 DEF l, o, k
      <3>7. ch[x].rwin \in 0..Window /\ Len(ch[x].input) <= Window
        BY <3>4, <3>9, <3>10
      <3>8. nread[x] \in 0..Bytes[x]
        BY <3>1, <3>5
      <3> QED BY <3>1, <3>2, <3>6, <3>7, <3>8 DEF Types
    <2> QED BY <2>1 DEF TypeOK, Places
  <1> QED BY <1>1, TrafficCorrect, WindowCorrect, PlacesKept, PTL
-----------------------------------------------------------------------------
(* The bytes of each direction, from the one application to the other.     *)

(* The data in a queue are the numbers b + 1 to e, in their order.         *)
Steps(q, p) ==
    /\ p \in [0..Len(q) -> Nat]
    /\ \A i \in 1..Len(q) :
         IF q[i].kind = "data" THEN p[i - 1] <= p[i] /\ q[i].bytes = Run(p[i - 1], p[i])
         ELSE p[i] = p[i - 1]

Chain(q, b, e) == \E p : Steps(q, p) /\ p[0] = b /\ p[Len(q)] = e

(* Nothing more comes from an end that has sent EOF or CLOSE, or is gone.  *)
Finished(c) == c.type \in {"zombie", "freed"} \/ c.istate = "closed"

Quiet(q) == \A i \in 1..Len(q) : q[i].kind # "data"

EndsLast(q, c) ==
    \A i \in 1..Len(q) : q[i].kind \in {"eof", "close"} =>
        Finished(c) /\ \A j \in i..Len(q) : q[j].kind # "data"

(* What has been read and not delivered is buffered or on its way.         *)
Stretch(y) ==
    LET x == Peer(y)
    IN  \E a, b, e \in Nat :
          /\ a <= b /\ b <= e /\ e <= nread[x]
          /\ delivered[y] = Run(0, a) /\ ch[y].output = Run(a, b)
          /\ Chain(queue[y], b, e) /\ ch[x].input = Run(e, nread[x])

Streams(y) ==
    LET x == Peer(y)
    IN  /\ ToStream(y) = "open" => Stretch(y)
        /\ ToStream(y) = "open" /\ Finished(ch[x]) => ch[x].input = <<>>
        /\ EndsLast(queue[y], ch[x])
        /\ ch[y].ostate = "drain" => Finished(ch[x]) /\ Quiet(queue[y])
        /\ ch[y].ostate = "closed" /\ app[y] # "reset" => Finished(ch[x])

StreamInv == \A y \in Peers : Streams(y)

(* Runs of numbers, joined and cut.                                        *)
LEMMA RunJoins ==
    ASSUME NEW a \in Nat, NEW b \in Nat, NEW c \in Nat, a <= b, b <= c
    PROVE  Run(a, b) \o Run(b, c) = Run(a, c)
  <1> DEFINE s == Run(a, b)
             t == Run(b, c)
             u == Run(a, c)
  <1>1. /\ s \in Seq(Nat) /\ Len(s) = b - a /\ \A i \in 1..(b - a) : s[i] = a + i
        /\ t \in Seq(Nat) /\ Len(t) = c - b /\ \A i \in 1..(c - b) : t[i] = b + i
        /\ u \in Seq(Nat) /\ Len(u) = c - a /\ \A i \in 1..(c - a) : u[i] = a + i
    <2>1. a <= c
      OBVIOUS
    <2> QED BY <2>1, RunTypes
  <1> HIDE DEF s, t, u
  <1>2. /\ s \o t \in Seq(Nat) /\ Len(s \o t) = Len(s) + Len(t)
        /\ \A i \in 1..(Len(s) + Len(t)) :
             (s \o t)[i] = IF i <= Len(s) THEN s[i] ELSE t[i - Len(s)]
    BY <1>1, ConcatProperties
  <1>3. Len(s \o t) = c - a
    BY <1>1, <1>2
  <1>4. ASSUME NEW i \in 1..(c - a) PROVE (s \o t)[i] = u[i]
    <2>1. CASE i <= b - a
      <3>1. i \in 1..(b - a) /\ i \in 1..(Len(s) + Len(t)) /\ i <= Len(s)
        BY <1>1, <2>1
      <3> QED BY <1>1, <1>2, <3>1
    <2>2. CASE ~ (i <= b - a)
      <3>1. /\ i - (b - a) \in 1..(c - b) /\ i \in 1..(Len(s) + Len(t)) /\ ~ (i <= Len(s))
            /\ i - Len(s) = i - (b - a) /\ b + (i - (b - a)) = a + i
        BY <1>1, <2>2
      <3> QED BY <1>1, <1>2, <3>1
    <2> QED BY <2>1, <2>2
  <1>5. s \o t = u
    BY <1>1, <1>2, <1>3, <1>4, SeqEqual
  <1> QED BY <1>5 DEF s, t, u

LEMMA RunCut ==
    ASSUME NEW a \in Nat, NEW b \in Nat, a <= b, NEW n \in 0..(b - a)
    PROVE  /\ SubSeq(Run(a, b), 1, n) = Run(a, a + n)
           /\ SubSeq(Run(a, b), n + 1, Len(Run(a, b))) = Run(a + n, b)
           /\ a + n \in Nat /\ a <= a + n /\ a + n <= b
  <1> DEFINE s == Run(a, b)
             m == a + n
             t == Run(a, m)
             u == Run(m, b)
             v == SubSeq(s, 1, n)
             w == SubSeq(s, n + 1, Len(s))
  <1>1. m \in Nat /\ a <= m /\ m <= b /\ m - a = n /\ b - m = b - a - n
    OBVIOUS
  <1>2. /\ s \in Seq(Nat) /\ Len(s) = b - a /\ \A i \in 1..(b - a) : s[i] = a + i
    BY RunTypes
  <1>3. /\ t \in Seq(Nat) /\ Len(t) = n /\ \A i \in 1..n : t[i] = a + i
        /\ u \in Seq(Nat) /\ Len(u) = b - a - n /\ \A i \in 1..(b - a - n) : u[i] = m + i
    <2> HIDE DEF m
    <2> QED BY <1>1, RunTypes
  <1> HIDE DEF s
  <1>4. /\ v \in Seq(Nat) /\ Len(v) = n /\ \A i \in 1..n : v[i] = s[i]
        /\ w \in Seq(Nat) /\ Len(w) = b - a - n /\ \A i \in 1..(b - a - n) : w[i] = s[n + i]
    <2>1. n \in 0..Len(s)
      BY <1>2
    <2> QED BY <1>2, <2>1, Parts, PartLengths
  <1> HIDE DEF t, u, v, w
  <1>5. v = t
    <2>1. \A i \in 1..n : i \in 1..(b - a)
      OBVIOUS
    <2>2. \A i \in 1..n : v[i] = t[i]
      BY <1>2, <1>3, <1>4, <2>1
    <2> QED BY <1>3, <1>4, <2>2, SeqEqual
  <1>6. w = u
    <2>1. \A i \in 1..(b - a - n) : n + i \in 1..(b - a) /\ a + (n + i) = m + i
      OBVIOUS
    <2>2. \A i \in 1..(b - a - n) : w[i] = u[i]
      BY <1>2, <1>3, <1>4, <2>1
    <2> QED BY <1>3, <1>4, <2>2, SeqEqual
  <1> QED BY <1>1, <1>5, <1>6 DEF s, t, u, v, w

LEMMA RunEmpty ==
    ASSUME NEW a \in Nat, NEW b \in Nat, a <= b
    PROVE  Run(a, b) = <<>> <=> a = b
  <1>1. Run(a, b) \in Seq(Nat) /\ Len(Run(a, b)) = b - a
    BY RunTypes
  <1>2. Run(a, b) = <<>> <=> Len(Run(a, b)) = 0
    BY <1>1, EmptySeq
  <1> QED BY <1>1, <1>2

(* A chain, by its parts.                                                  *)
LEMMA ChainOfNothing ==
    ASSUME NEW q, Len(q) = 0, NEW b \in Nat
    PROVE  Chain(q, b, b)
  <1> DEFINE p == [i \in 0..0 |-> b]
  <1>1. p \in [0..Len(q) -> Nat] /\ p[0] = b /\ p[Len(q)] = b
    OBVIOUS
  <1>2. Steps(q, p)
    BY <1>1 DEF Steps
  <1> QED BY <1>1, <1>2 DEF Chain

LEMMA ChainGrows ==
    ASSUME NEW q \in Seq(MessageSet), NEW b, NEW e, Chain(q, b, e)
    PROVE  /\ b \in Nat /\ e \in Nat /\ b <= e
           /\ Quiet(q) => b = e
  <1>1. PICK p : Steps(q, p) /\ p[0] = b /\ p[Len(q)] = e
    BY DEF Chain
  <1>2. Len(q) \in Nat /\ 0 \in 0..Len(q) /\ Len(q) \in 0..Len(q)
    BY LenProperties
  <1>3. /\ \A i \in 0..Len(q) : p[i] \in Nat
        /\ \A i \in 1..Len(q) : IF q[i].kind = "data" THEN p[i - 1] <= p[i] ELSE p[i] = p[i - 1]
    BY <1>1 DEF Steps
  <1>4. b \in Nat /\ e \in Nat
    BY <1>1, <1>2, <1>3
  <1> DEFINE Fine(i) == b <= p[i] /\ (Quiet(q) => p[i] = b)
             Bad == {i \in 0..Len(q) : ~ Fine(i)}
  <1>5. Bad = {}
    <2> SUFFICES ASSUME Bad # {} PROVE FALSE
      OBVIOUS
    <2>1. PICK n \in Bad : \A m \in Bad : n <= m
      <3>1. Bad \in SUBSET Nat
        BY <1>2
      <3> QED BY <3>1, Smallest
    <2>2. n \in 0..Len(q) /\ ~ Fine(n)
      OBVIOUS
    <2>3. n # 0
      BY <1>1, <1>4, <2>2
    <2>4. n - 1 \in 0..Len(q) /\ ~ (n <= n - 1) /\ n \in 1..Len(q)
      BY <1>2, <2>2, <2>3
    <2>5. Fine(n - 1)
      BY <2>1, <2>4
    <2>6. p[n] \in Nat /\ p[n - 1] \in Nat
      BY <1>3, <2>2, <2>4
    <2>7. CASE q[n].kind = "data"
      <3>1. p[n - 1] <= p[n] /\ ~ Quiet(q)
        BY <1>3, <2>4, <2>7 DEF Quiet
      <3>2. b <= p[n]
        BY <1>4, <2>5, <2>6, <3>1
      <3> QED BY <2>2, <3>1, <3>2
    <2>8. CASE q[n].kind # "data"
      <3>1. p[n] = p[n - 1]
        BY <1>3, <2>4, <2>8
      <3> QED BY <2>2, <2>5, <3>1
    <2> QED BY <2>7, <2>8
  <1>6. Fine(Len(q))
    BY <1>2, <1>5
  <1> QED BY <1>1, <1>4, <1>6

LEMMA ChainAdds ==
    ASSUME NEW q \in Seq(MessageSet), NEW b, NEW e, Chain(q, b, e), NEW m \in MessageSet,
           NEW f \in Nat,
           IF m.kind = "data" THEN e <= f /\ m.bytes = Run(e, f) ELSE f = e
    PROVE  Chain(Append(q, m), b, f)
  <1>1. PICK p : Steps(q, p) /\ p[0] = b /\ p[Len(q)] = e
    BY DEF Chain
  <1> DEFINE n == Len(q)
             s == Append(q, m)
             r == [i \in 0..(n + 1) |-> IF i <= n THEN p[i] ELSE f]
  <1>2. n \in Nat /\ Len(s) = n + 1 /\ s[n + 1] = m /\ \A i \in 1..n : s[i] = q[i]
    OBVIOUS
  <1>3. \A i \in 0..n : p[i] \in Nat
    BY <1>1 DEF Steps
  <1>4. /\ r \in [0..(n + 1) -> Nat] /\ r[n + 1] = f
        /\ \A i \in 0..n : r[i] = p[i]
    <2>1. ~ (n + 1 <= n) /\ n + 1 \in 0..(n + 1) /\ \A i \in 0..n : i <= n /\ i \in 0..(n + 1)
      BY <1>2
    <2>2. \A i \in 0..(n + 1) : i <= n => i \in 0..n
      BY <1>2
    <2> QED BY <1>3, <2>1, <2>2
  <1> HIDE DEF r, s
  <1>5. ASSUME NEW i \in 1..(n + 1)
        PROVE  IF s[i].kind = "data" THEN r[i - 1] <= r[i] /\ s[i].bytes = Run(r[i - 1], r[i])
               ELSE r[i] = r[i - 1]
    <2>1. CASE i \in 1..n
      <3>1. i \in 0..n /\ i - 1 \in 0..n
        BY <1>2, <2>1
      <3>2. r[i] = p[i] /\ r[i - 1] = p[i - 1] /\ s[i] = q[i]
        BY <1>2, <1>4, <2>1, <3>1
      <3>3. IF q[i].kind = "data" THEN p[i - 1] <= p[i] /\ q[i].bytes = Run(p[i - 1], p[i])
            ELSE p[i] = p[i - 1]
        BY <1>1, <2>1 DEF Steps
      <3> QED BY <3>2, <3>3
    <2>2. CASE i = n + 1
      <3>1. i - 1 = n /\ n \in 0..n
        BY <1>2, <2>2
      <3>2. r[i - 1] = e /\ r[i] = f /\ s[i] = m
        BY <1>1, <1>2, <1>4, <2>2, <3>1
      <3> QED BY <3>2
    <2> QED BY <1>2, <2>1, <2>2
  <1>6. Steps(s, r)
    BY <1>2, <1>4, <1>5 DEF Steps
  <1>7. r[0] = b /\ r[Len(s)] = f
    <2>1. 0 \in 0..n
      BY <1>2
    <2> QED BY <1>1, <1>2, <1>4, <2>1
  <1>8. Chain(s, b, f)
    BY <1>6, <1>7 DEF Chain
  <1> QED BY <1>8 DEF s

LEMMA ChainTakes ==
    ASSUME NEW q \in Seq(MessageSet), NEW b, NEW e, Chain(q, b, e), q # <<>>
    PROVE  \E m \in Nat :
             /\ Chain(Tail(q), m, e)
             /\ IF Head(q).kind = "data" THEN b <= m /\ Head(q).bytes = Run(b, m) ELSE m = b
  <1>1. PICK p : Steps(q, p) /\ p[0] = b /\ p[Len(q)] = e
    BY DEF Chain
  <1> DEFINE n == Len(q) - 1
             t == Tail(q)
             r == [i \in 0..n |-> p[i + 1]]
  <1>2. /\ n \in Nat /\ Len(q) = n + 1 /\ t \in Seq(MessageSet) /\ Len(t) = n
        /\ \A i \in 1..n : t[i] = q[i + 1]
        /\ Head(q) = q[1]
    <2>1. Len(q) \in Nat /\ Len(q) # 0
      BY LenProperties, EmptySeq
    <2> QED BY <2>1, HeadTailProperties
  <1>3. \A i \in 0..(n + 1) : p[i] \in Nat
    BY <1>1, <1>2 DEF Steps
  <1>4. /\ r \in [0..n -> Nat] /\ \A i \in 0..n : r[i] = p[i + 1]
    <2>1. \A i \in 0..n : i + 1 \in 0..(n + 1)
      BY <1>2
    <2> QED BY <1>3, <2>1
  <1> HIDE DEF r, t, n
  <1>5. ASSUME NEW i \in 1..n
        PROVE  IF t[i].kind = "data" THEN r[i - 1] <= r[i] /\ t[i].bytes = Run(r[i - 1], r[i])
               ELSE r[i] = r[i - 1]
    <2>1. i + 1 \in 1..(n + 1) /\ (i + 1) - 1 = i /\ i \in 0..n /\ i - 1 \in 0..n /\ (i - 1) + 1 = i
      BY <1>2
    <2>2. IF q[i + 1].kind = "data" THEN p[i] <= p[i + 1] /\ q[i + 1].bytes = Run(p[i], p[i + 1])
          ELSE p[i + 1] = p[i]
      BY <1>1, <1>2, <2>1 DEF Steps
    <2>3. r[i] = p[i + 1] /\ r[i - 1] = p[i] /\ t[i] = q[i + 1]
      BY <1>2, <1>4, <2>1
    <2> QED BY <2>2, <2>3
  <1>6. Steps(t, r)
    BY <1>2, <1>4, <1>5 DEF Steps
  <1>7. r[0] = p[1] /\ r[Len(t)] = e /\ p[1] \in Nat
    <2>1. 0 \in 0..n /\ n \in 0..n /\ 1 \in 0..(n + 1) /\ 0 + 1 = 1
      BY <1>2
    <2> QED BY <1>1, <1>2, <1>3, <1>4, <2>1
  <1>8. Chain(t, p[1], e)
    BY <1>6, <1>7 DEF Chain
  <1>9. IF Head(q).kind = "data" THEN b <= p[1] /\ Head(q).bytes = Run(b, p[1]) ELSE p[1] = b
    <2>1. 1 \in 1..Len(q) /\ 1 - 1 = 0
      BY <1>2
    <2> QED BY <1>1, <1>2, <2>1 DEF Steps
  <1> QED BY <1>7, <1>8, <1>9 DEF t

(* The end of the stream is among what is sent.                            *)
HasEnd(s) == \E i \in 1..Len(s) : s[i].kind \in {"eof", "close"}

(* What is sent joins what is on its way.                                  *)
Says(c, d, s) ==
    /\ Finished(c) => Finished(d)
    /\ Finished(d) => Quiet(s)
    /\ HasEnd(s) => Finished(d)

LEMMA SaysJoins ==
    ASSUME NEW q \in Seq(MessageSet), NEW s \in Seq(MessageSet), NEW c, NEW d
    PROVE  /\ Quiet(q) /\ Quiet(s) => Quiet(q \o s)
           /\ EndsLast(q, c) /\ Says(c, d, s) => EndsLast(q \o s, d)
  <1> DEFINE r == q \o s
             n == Len(q)
             k == Len(s)
  <1>1. /\ Len(r) = n + k /\ n \in Nat /\ k \in Nat
        /\ \A i \in 1..(n + k) : r[i] = IF i <= n THEN q[i] ELSE s[i - n]
    BY ConcatProperties, LenProperties
  <1> HIDE DEF r
  <1>2. \A i \in 1..(n + k) : (i <= n => i \in 1..n) /\ (~ (i <= n) => i - n \in 1..k)
    BY <1>1
  <1>3. Quiet(q) /\ Quiet(s) => Quiet(r)
    BY <1>1, <1>2 DEF Quiet
  <1>4. ASSUME EndsLast(q, c), Says(c, d, s) PROVE EndsLast(r, d)
    <2> SUFFICES ASSUME NEW i \in 1..(n + k), r[i].kind \in {"eof", "close"}
                 PROVE  Finished(d) /\ \A j \in i..(n + k) : r[j].kind # "data"
      BY <1>1 DEF EndsLast
    <2>1. CASE i <= n
      <3>1. i \in 1..n /\ q[i].kind \in {"eof", "close"}
        BY <1>1, <1>2, <2>1
      <3>2. Finished(c) /\ \A j \in i..n : q[j].kind # "data"
        BY <1>4, <3>1 DEF EndsLast
      <3>3. Finished(d) /\ \A j \in 1..k : s[j].kind # "data"
        BY <1>4, <3>2 DEF Says, Quiet
      <3>4. \A j \in i..(n + k) : /\ j \in 1..(n + k)
                                  /\ j <= n => j \in i..n
                                  /\ ~ (j <= n) => j - n \in 1..k
        BY <1>1
      <3> QED BY <1>1, <3>2, <3>3, <3>4
    <2>2. CASE ~ (i <= n)
      <3>1. i - n \in 1..k /\ s[i - n].kind \in {"eof", "close"}
        BY <1>1, <1>2, <2>2
      <3>2. Finished(d) /\ \A j \in 1..k : s[j].kind # "data"
        BY <1>4, <3>1 DEF Says, HasEnd, Quiet
      <3>3. \A j \in i..(n + k) : j \in 1..(n + k) /\ ~ (j <= n) /\ j - n \in 1..k
        BY <1>1, <2>2
      <3> QED BY <1>1, <3>2, <3>3
    <2> QED BY <2>1, <2>2
  <1> QED BY <1>3, <1>4 DEF r

LEMMA QuietTail ==
    ASSUME NEW q \in Seq(MessageSet), q # <<>>, NEW c
    PROVE  /\ Quiet(q) => Quiet(Tail(q)) /\ Head(q).kind # "data"
           /\ EndsLast(q, c) => EndsLast(Tail(q), c)
           /\ EndsLast(q, c) /\ Head(q).kind \in {"eof", "close"} => Finished(c) /\ Quiet(q)
  <1> DEFINE n == Len(q) - 1
             t == Tail(q)
  <1>1. /\ n \in Nat /\ Len(q) = n + 1 /\ Len(t) = n
        /\ \A i \in 1..n : t[i] = q[i + 1]
        /\ Head(q) = q[1]
    <2>1. Len(q) \in Nat /\ Len(q) # 0
      BY LenProperties, EmptySeq
    <2> QED BY <2>1, HeadTailProperties
  <1> HIDE DEF t, n
  <1>2. 1 \in 1..(n + 1) /\ \A i \in 1..n : i + 1 \in 1..(n + 1)
    BY <1>1
  <1>3. Quiet(q) => Quiet(t) /\ Head(q).kind # "data"
    BY <1>1, <1>2 DEF Quiet
  <1>4. ASSUME EndsLast(q, c) PROVE EndsLast(t, c)
    <2> SUFFICES ASSUME NEW i \in 1..n, t[i].kind \in {"eof", "close"}
                 PROVE  Finished(c) /\ \A j \in i..n : t[j].kind # "data"
      BY <1>1 DEF EndsLast
    <2>1. Finished(c) /\ \A j \in (i + 1)..(n + 1) : q[j].kind # "data"
      BY <1>1, <1>2, <1>4 DEF EndsLast
    <2>2. \A j \in i..n : j \in 1..n /\ j + 1 \in (i + 1)..(n + 1)
      BY <1>1
    <2> QED BY <1>1, <2>1, <2>2
  <1>5. EndsLast(q, c) /\ Head(q).kind \in {"eof", "close"} => Finished(c) /\ Quiet(q)
    BY <1>1, <1>2 DEF EndsLast, Quiet
  <1> QED BY <1>3, <1>4, <1>5 DEF t

LEMMA ChainQuiet ==
    ASSUME NEW q \in Seq(MessageSet), NEW b, NEW e, Chain(q, b, e),
           NEW s \in Seq(MessageSet), Quiet(s)
    PROVE  Chain(q \o s, b, e)
  <1>1. PICK p : Steps(q, p) /\ p[0] = b /\ p[Len(q)] = e
    BY DEF Chain
  <1> DEFINE n == Len(q)
             k == Len(s)
             u == q \o s
             r == [i \in 0..(n + k) |-> IF i <= n THEN p[i] ELSE e]
  <1>2. /\ n \in Nat /\ k \in Nat /\ Len(u) = n + k
        /\ \A i \in 1..(n + k) : u[i] = IF i <= n THEN q[i] ELSE s[i - n]
    BY ConcatProperties, LenProperties
  <1>3. (\A i \in 0..n : p[i] \in Nat) /\ n \in 0..n /\ 0 \in 0..n
    BY <1>1, <1>2 DEF Steps
  <1>4. /\ r \in [0..(n + k) -> Nat]
        /\ \A i \in 0..(n + k) : r[i] = IF i <= n THEN p[i] ELSE e
    <2>1. \A i \in 0..(n + k) : i <= n => i \in 0..n
      BY <1>2
    <2> QED BY <1>1, <1>3, <2>1
  <1> HIDE DEF r, u
  <1>5. ASSUME NEW i \in 1..(n + k)
        PROVE  IF u[i].kind = "data" THEN r[i - 1] <= r[i] /\ u[i].bytes = Run(r[i - 1], r[i])
               ELSE r[i] = r[i - 1]
    <2>1. CASE i <= n
      <3>1. i \in 1..n /\ i \in 0..(n + k) /\ i - 1 \in 0..(n + k) /\ i - 1 <= n
        BY <1>2, <2>1
      <3>2. r[i] = p[i] /\ r[i - 1] = p[i - 1] /\ u[i] = q[i]
        BY <1>2, <1>4, <2>1, <3>1
      <3>3. IF q[i].kind = "data" THEN p[i - 1] <= p[i] /\ q[i].bytes = Run(p[i - 1], p[i])
            ELSE p[i] = p[i - 1]
        BY <1>1, <3>1 DEF Steps
      <3> QED BY <3>2, <3>3
    <2>2. CASE ~ (i <= n)
      <3>1. /\ i - n \in 1..k /\ i \in 0..(n + k) /\ i - 1 \in 0..(n + k)
            /\ i - 1 <= n => i - 1 = n
        BY <1>2, <2>2
      <3>2. r[i] = e /\ r[i - 1] = e /\ u[i] = s[i - n]
        BY <1>1, <1>2, <1>4, <2>2, <3>1
      <3>3. u[i].kind # "data"
        BY <3>1, <3>2 DEF Quiet
      <3> QED BY <3>2, <3>3
    <2> QED BY <2>1, <2>2
  <1>6. Steps(u, r)
    BY <1>2, <1>4, <1>5 DEF Steps
  <1>7. r[0] = b /\ r[Len(u)] = e
    <2>1. 0 \in 0..(n + k) /\ 0 <= n /\ n + k \in 0..(n + k) /\ (n + k <= n => n + k = n)
      BY <1>2
    <2> QED BY <1>1, <1>2, <1>4, <2>1
  <1>8. Chain(u, b, e)
    BY <1>6, <1>7 DEF Chain
  <1> QED BY <1>8 DEF u
-----------------------------------------------------------------------------
(* The steps of Stream, from what happens to a direction.                  *)

StreamStep(y) ==
    /\ y = Acceptor => [AtAcceptor!Next]_(AtAcceptor!vars)
    /\ y = Opener => [AtOpener!Next]_(AtOpener!vars)

LEMMA StreamStutters ==
    ASSUME NEW y \in Peers, ToStream(y)' = ToStream(y), delivered'[y] = delivered[y],
           nread'[Peer(y)] = nread[Peer(y)]
    PROVE  StreamStep(y)
  <1>1. y = Acceptor => [AtAcceptor!Next]_(AtAcceptor!vars)
    BY TwoPeers DEF AtAcceptor!vars
  <1>2. y = Opener => [AtOpener!Next]_(AtOpener!vars)
    BY TwoPeers DEF AtOpener!vars
  <1> QED BY <1>1, <1>2 DEF StreamStep

LEMMA StreamReads ==
    ASSUME NEW y \in Peers, ToStream(y)' = ToStream(y), delivered'[y] = delivered[y],
           NEW x, x = Peer(y), nread[x] \in Nat, nread'[x] \in Nat, Bytes[x] \in Nat,
           nread[x] < nread'[x], nread'[x] <= Bytes[x], ToStream(y) # "ended"
    PROVE  StreamStep(y)
  <1>1. nread'[x] \in (nread[x] + 1)..Bytes[x]
    OBVIOUS
  <1>2. y = Acceptor => [AtAcceptor!Next]_(AtAcceptor!vars)
    BY <1>1, TwoPeers DEF AtAcceptor!Next, AtAcceptor!Read
  <1>3. y = Opener => [AtOpener!Next]_(AtOpener!vars)
    BY <1>1, TwoPeers DEF AtOpener!Next, AtOpener!Read
  <1> QED BY <1>2, <1>3 DEF StreamStep

LEMMA StreamDelivers ==
    ASSUME NEW y \in Peers, ToStream(y) = "open", ToStream(y)' = "open",
           NEW x, x = Peer(y), nread[x] \in Nat, nread'[x] = nread[x],
           NEW a \in Nat, NEW n \in Nat, a < n, n <= nread[x],
           delivered[y] = Run(0, a), delivered'[y] = Run(0, n)
    PROVE  StreamStep(y)
  <1>1. Len(delivered[y]) = a
    <2>1. Len(Run(0, a)) = a - 0
      BY RunTypes
    <2> QED BY <2>1
  <1>2. delivered'[y] = [i \in 1..n |-> i]
    <2>1. n - 0 = n /\ \A i \in 1..n : 0 + i = i
      OBVIOUS
    <2>2. Run(0, n) = [i \in 1..n |-> i]
      BY <2>1 DEF Run
    <2> QED BY <2>2
  <1>3. n \in (Len(delivered[y]) + 1)..nread[x]
    BY <1>1
  <1>4. y = Acceptor => [AtAcceptor!Next]_(AtAcceptor!vars)
    BY <1>2, <1>3, TwoPeers DEF AtAcceptor!Next, AtAcceptor!Deliver
  <1>5. y = Opener => [AtOpener!Next]_(AtOpener!vars)
    BY <1>2, <1>3, TwoPeers DEF AtOpener!Next, AtOpener!Deliver
  <1> QED BY <1>4, <1>5 DEF StreamStep

LEMMA StreamEnds ==
    ASSUME NEW y \in Peers, ToStream(y) = "open", ToStream(y)' = "ended",
           NEW x, x = Peer(y), nread[x] \in Nat, nread'[x] = nread[x],
           delivered'[y] = delivered[y], delivered[y] = Run(0, nread[x])
    PROVE  StreamStep(y)
  <1>1. Len(delivered[y]) = nread[x]
    <2> DEFINE n == nread[x]
    <2>1. n \in Nat /\ 0 \in Nat /\ 0 <= n
      OBVIOUS
    <2> HIDE DEF n
    <2>2. Len(Run(0, n)) = n - 0
      BY <2>1, RunTypes
    <2> QED BY <2>1, <2>2 DEF n
  <1>2. y = Acceptor => [AtAcceptor!Next]_(AtAcceptor!vars)
    BY <1>1, TwoPeers DEF AtAcceptor!Next, AtAcceptor!End
  <1>3. y = Opener => [AtOpener!Next]_(AtOpener!vars)
    BY <1>1, TwoPeers DEF AtOpener!Next, AtOpener!End
  <1> QED BY <1>2, <1>3 DEF StreamStep

LEMMA StreamBreaks ==
    ASSUME NEW y \in Peers, ToStream(y)' = "broken", delivered'[y] = delivered[y],
           nread'[Peer(y)] = nread[Peer(y)]
    PROVE  StreamStep(y)
  <1>1. y = Acceptor => [AtAcceptor!Next]_(AtAcceptor!vars)
    BY TwoPeers DEF AtAcceptor!Next, AtAcceptor!Break
  <1>2. y = Opener => [AtOpener!Next]_(AtOpener!vars)
    BY TwoPeers DEF AtOpener!Next, AtOpener!Break
  <1> QED BY <1>1, <1>2 DEF StreamStep

(* A turn of x, as the sender of the direction that ends in y.             *)
Conveys(y, s) ==
    LET x == Peer(y)
        c == ch[x]
        d == ch'[x]
    IN  /\ s \in Seq(MessageSet) /\ queue'[y] = queue[y] \o s /\ Says(c, d, s)
        /\ nread'[x] \in Nat /\ nread[x] <= nread'[x] /\ nread'[x] <= Bytes[x]
        /\ nread[x] < nread'[x] => ToStream(y) # "ended"
        /\ ToStream(y) = "open" =>
             /\ Finished(d) => d.input = <<>>
             /\ \/ Quiet(s) /\ d.input = c.input \o Run(nread[x], nread'[x])
                \/ /\ nread'[x] = nread[x]
                   /\ \E k \in 1..Len(c.input) :
                        /\ s = <<Data(SubSeq(c.input, 1, k))>>
                        /\ d.input = SubSeq(c.input, k + 1, Len(c.input))

(* A turn of y, as the receiver of its direction.                          *)
Idles(y) ==
    /\ ToStream(y)' = ToStream(y) /\ delivered'[y] = delivered[y]
    /\ ToStream(y) = "open" => ch'[y].output = ch[y].output
    /\ \/ queue'[y] = queue[y]
       \/ /\ queue[y] # <<>> /\ queue'[y] = Tail(queue[y])
          /\ ToStream(y) = "open" => Head(queue[y]).kind # "data"

TakesData(y) ==
    /\ ToStream(y)' = ToStream(y) /\ delivered'[y] = delivered[y]
    /\ queue[y] # <<>> /\ queue'[y] = Tail(queue[y]) /\ Head(queue[y]).kind = "data"
    /\ ToStream(y) = "open" => ch'[y].output = ch[y].output \o Head(queue[y]).bytes

WritesData(y, w) ==
    /\ ToStream(y) = "open" /\ ToStream(y)' = "open" /\ queue'[y] = queue[y]
    /\ w \in 1..Len(ch[y].output)
    /\ delivered'[y] = delivered[y] \o SubSeq(ch[y].output, 1, w)
    /\ ch'[y].output = SubSeq(ch[y].output, w + 1, Len(ch[y].output))

EndsData(y) ==
    /\ ToStream(y) = "open" /\ ToStream(y)' = "ended" /\ delivered'[y] = delivered[y]
    /\ queue'[y] = queue[y] \/ (queue[y] # <<>> /\ queue'[y] = Tail(queue[y]))
    /\ ch[y].output = <<>> /\ Quiet(queue[y]) /\ ch[Peer(y)].input = <<>>

Receives(y) ==
    /\ ch'[y].ostate = "drain" => Finished(ch[Peer(y)]) /\ Quiet(queue'[y])
    /\ ch'[y].ostate = "closed" /\ app'[y] # "reset" => Finished(ch[Peer(y)])
    /\ Idles(y) \/ TakesData(y) \/ EndsData(y) \/ \E w \in Nat : WritesData(y, w)

Streamed(y) == Streams(y)' /\ StreamStep(y)

LEMMA SendsStream ==
    ASSUME StateTypes, NEW y \in Peers, Streams(y), NEW s, Conveys(y, s),
           ch'[y] = ch[y], app'[y] = app[y], delivered'[y] = delivered[y]
    PROVE  Streamed(y)
  <1> DEFINE x == Peer(y)
             c == ch[x]
             d == ch'[x]
             n == nread[x]
             m == nread'[x]
  <1>1. /\ x \in Peers /\ queue[y] \in Seq(MessageSet) /\ n \in Nat /\ Bytes[x] \in Nat
        /\ c.input \in Seq(Nat) /\ c \in ChannelSet
    BY TwoPeers, SizeAssumption DEF StateTypes, ChannelSet, Peers
  <1>2. /\ s \in Seq(MessageSet) /\ queue'[y] = queue[y] \o s /\ Says(c, d, s)
        /\ m \in Nat /\ n <= m /\ m <= Bytes[x]
        /\ n < m => ToStream(y) # "ended"
        /\ ToStream(y) = "open" =>
             /\ Finished(d) => d.input = <<>>
             /\ \/ Quiet(s) /\ d.input = c.input \o Run(n, m)
                \/ m = n /\ \E k \in 1..Len(c.input) :
                              /\ s = <<Data(SubSeq(c.input, 1, k))>>
                              /\ d.input = SubSeq(c.input, k + 1, Len(c.input))
    BY DEF Conveys
  <1>3. ToStream(y)' = ToStream(y)
    BY DEF ToStream, Gone
  <1>4. StreamStep(y)
    <2>1. CASE n = m
      BY <1>3, <2>1, StreamStutters
    <2>2. CASE n # m
      <3>1. n < m
        BY <1>1, <1>2, <2>2
      <3> QED BY <1>1, <1>2, <1>3, <3>1, StreamReads
    <2> QED BY <2>1, <2>2
  <1>5. /\ EndsLast(queue[y], c)
        /\ ch[y].ostate = "drain" => Finished(c) /\ Quiet(queue[y])
        /\ ch[y].ostate = "closed" /\ app[y] # "reset" => Finished(c)
        /\ ToStream(y) = "open" => Stretch(y)
    BY DEF Streams
  <1>6. EndsLast(queue'[y], d) /\ (Quiet(queue[y]) /\ Quiet(s) => Quiet(queue'[y]))
    BY <1>1, <1>2, <1>5, SaysJoins
  <1>7. Finished(c) => Finished(d) /\ Quiet(s)
    BY <1>2 DEF Says
  <1>8. ASSUME ToStream(y) = "open" PROVE Stretch(y)'
    <2>1. PICK a \in Nat, b \in Nat, e \in Nat :
             /\ a <= b /\ b <= e /\ e <= n
             /\ delivered[y] = Run(0, a) /\ ch[y].output = Run(a, b)
             /\ Chain(queue[y], b, e) /\ c.input = Run(e, n)
      BY <1>5, <1>8 DEF Stretch
    <2> SUFFICES \E f \in Nat : b <= f /\ f <= m /\ Chain(queue'[y], b, f) /\ d.input = Run(f, m)
      BY <2>1 DEF Stretch
    <2> HIDE DEF c, d, n, m, x
    <2>2. CASE Quiet(s) /\ d.input = c.input \o Run(n, m)
      <3>1. d.input = Run(e, m)
        <4>1. Run(e, n) \o Run(n, m) = Run(e, m)
          BY <1>1, <1>2, <2>1, RunJoins
        <4> QED BY <2>1, <2>2, <4>1
      <3>2. Chain(queue'[y], b, e)
        BY <1>1, <1>2, <2>1, <2>2, ChainQuiet
      <3>3. e <= m
        BY <1>1, <1>2, <2>1
      <3> QED BY <2>1, <3>1, <3>2, <3>3
    <2>3. ASSUME m = n, NEW k \in 1..Len(c.input), s = <<Data(SubSeq(c.input, 1, k))>>,
                 d.input = SubSeq(c.input, k + 1, Len(c.input))
          PROVE  \E f \in Nat : b <= f /\ f <= m /\ Chain(queue'[y], b, f) /\ d.input = Run(f, m)
      <3> DEFINE g == SubSeq(c.input, 1, k)
                 h == Data(g)
                 f == e + k
      <3>1. k \in 0..(n - e) /\ k \in Nat
        <4>1. Len(Run(e, n)) = n - e
          BY <1>1, <2>1, RunTypes
        <4>2. Len(c.input) = n - e
          BY <2>1, <4>1
        <4> QED BY <1>1, <2>1, <4>2
      <3>2. /\ g = Run(e, f) /\ d.input = Run(f, n)
            /\ f \in Nat /\ e <= f /\ f <= n
        <4>1. /\ SubSeq(Run(e, n), 1, k) = Run(e, e + k)
              /\ SubSeq(Run(e, n), k + 1, Len(Run(e, n))) = Run(e + k, n)
              /\ e + k \in Nat /\ e <= e + k /\ e + k <= n
          BY <1>1, <2>1, <3>1, RunCut
        <4> QED BY <2>1, <2>3, <4>1
      <3>3. g \in Seq(Nat)
        BY <3>2, RunTypes
      <3> HIDE DEF g, f
      <3>4. h \in MessageSet /\ h.kind = "data" /\ h.bytes = g
        BY <3>3, MessageTypes DEF Data
      <3> HIDE DEF h
      <3>5. Chain(Append(queue[y], h), b, f)
        BY <1>1, <2>1, <3>2, <3>4, ChainAdds
      <3>6. queue[y] \o s = Append(queue[y], h)
        <4>1. s = <<h>>
          BY <2>3 DEF h, g
        <4> QED BY <1>1, <3>4, <4>1
      <3>7. b <= f
        BY <2>1, <3>2
      <3> QED BY <1>2, <2>3, <3>2, <3>5, <3>6, <3>7
    <2> QED BY <1>2, <1>8, <2>2, <2>3
  <1>9. Streams(y)'
    <2>1. ch'[y].ostate = "drain" => Finished(d) /\ Quiet(queue'[y])
      BY <1>5, <1>6, <1>7
    <2>2. ch'[y].ostate = "closed" /\ app'[y] # "reset" => Finished(d)
      BY <1>5, <1>7
    <2>3. /\ ToStream(y)' = "open" => Stretch(y)'
          /\ ToStream(y)' = "open" /\ Finished(d) => d.input = <<>>
      BY <1>2, <1>3, <1>8
    <2> QED BY <1>6, <2>1, <2>2, <2>3 DEF Streams, EndsLast, Finished, Quiet
  <1> QED BY <1>4, <1>9 DEF Streamed

LEMMA ReceivesStream ==
    ASSUME StateTypes, NEW y \in Peers, Streams(y), Receives(y),
           ch'[Peer(y)] = ch[Peer(y)], nread'[Peer(y)] = nread[Peer(y)]
    PROVE  Streamed(y)
  <1> DEFINE x == Peer(y)
             c == ch[x]
             e == ch[y]
             n == nread[x]
             q == queue[y]
  <1>1. /\ x \in Peers /\ q \in Seq(MessageSet) /\ n \in Nat
        /\ e.output \in Seq(Nat) /\ e \in ChannelSet
    BY TwoPeers DEF StateTypes, ChannelSet
  <1>2. /\ EndsLast(q, c)
        /\ ToStream(y) = "open" => Stretch(y)
        /\ ToStream(y) = "open" /\ Finished(c) => c.input = <<>>
    BY DEF Streams
  <1>3. /\ ch'[y].ostate = "drain" => Finished(c) /\ Quiet(queue'[y])
        /\ ch'[y].ostate = "closed" /\ app'[y] # "reset" => Finished(c)
    BY DEF Receives
  <1>4. queue'[y] = q \/ (q # <<>> /\ queue'[y] = Tail(q))
    BY DEF Receives, Idles, TakesData, EndsData, WritesData
  <1>5. EndsLast(queue'[y], c)
    BY <1>1, <1>2, <1>4, QuietTail
  <1>6. ASSUME ToStream(y)' = "open" => ToStream(y) = "open" /\ Stretch(y)'
        PROVE  Streams(y)'
    BY <1>2, <1>3, <1>5, <1>6 DEF Streams, EndsLast, Finished, Quiet
  <1>7. ASSUME ToStream(y) = "open"
        PROVE  \E a, b, k \in Nat :
                 /\ a <= b /\ b <= k /\ k <= n
                 /\ delivered[y] = Run(0, a) /\ e.output = Run(a, b)
                 /\ Chain(q, b, k) /\ c.input = Run(k, n)
    BY <1>2, <1>7 DEF Stretch
  <1>8. ASSUME NEW a \in Nat, NEW b \in Nat, NEW k \in Nat,
               a <= b, b <= k, k <= n,
               delivered'[y] = Run(0, a), ch'[y].output = Run(a, b),
               Chain(queue'[y], b, k), c.input = Run(k, n)
        PROVE  Stretch(y)'
    BY <1>8 DEF Stretch
  <1> HIDE DEF c, e, n, q, x
  <1>9. CASE Idles(y)
    <2>1. StreamStep(y)
      BY <1>9, StreamStutters DEF Idles
    <2>2. ASSUME ToStream(y) = "open" PROVE Stretch(y)'
      <3>1. PICK a \in Nat, b \in Nat, k \in Nat :
              /\ a <= b /\ b <= k /\ k <= n
              /\ delivered[y] = Run(0, a) /\ e.output = Run(a, b)
              /\ Chain(q, b, k) /\ c.input = Run(k, n)
        BY <1>7, <2>2
      <3>2. delivered'[y] = Run(0, a) /\ ch'[y].output = Run(a, b)
        BY <1>9, <2>2, <3>1 DEF Idles, e
      <3>3. Chain(queue'[y], b, k)
        <4>1. CASE queue'[y] = q
          BY <3>1, <4>1
        <4>2. CASE q # <<>> /\ queue'[y] = Tail(q) /\ Head(q).kind # "data"
          BY <1>1, <3>1, <4>2, ChainTakes
        <4> QED BY <1>9, <2>2, <4>1, <4>2 DEF Idles, q
      <3> QED BY <1>8, <3>1, <3>2, <3>3
    <2>3. ToStream(y)' = ToStream(y)
      BY <1>9 DEF Idles
    <2> QED BY <1>6, <2>1, <2>2, <2>3 DEF Streamed
  <1>10. CASE TakesData(y)
    <2>1. StreamStep(y)
      BY <1>10, StreamStutters DEF TakesData
    <2>2. ASSUME ToStream(y) = "open" PROVE Stretch(y)'
      <3>1. PICK a \in Nat, b \in Nat, k \in Nat :
              /\ a <= b /\ b <= k /\ k <= n
              /\ delivered[y] = Run(0, a) /\ e.output = Run(a, b)
              /\ Chain(q, b, k) /\ c.input = Run(k, n)
        BY <1>7, <2>2
      <3>2. PICK m \in Nat : Chain(Tail(q), m, k) /\ b <= m /\ Head(q).bytes = Run(b, m)
        <4>1. q # <<>> /\ Head(q).kind = "data"
          BY <1>10 DEF TakesData, q
        <4> QED BY <1>1, <3>1, <4>1, ChainTakes
      <3>3. Tail(q) \in Seq(MessageSet) /\ queue'[y] = Tail(q)
        BY <1>1, <1>10, SumsOfTail DEF TakesData, q
      <3>4. m <= k
        BY <3>2, <3>3, ChainGrows
      <3>5. ch'[y].output = Run(a, m)
        <4>1. Run(a, b) \o Run(b, m) = Run(a, m)
          BY <3>1, <3>2, RunJoins
        <4>2. ch'[y].output = e.output \o Head(q).bytes
          BY <1>10, <2>2 DEF TakesData, e, q
        <4> QED BY <3>1, <3>2, <4>1, <4>2
      <3>6. delivered'[y] = Run(0, a) /\ a <= m
        BY <1>10, <3>1, <3>2 DEF TakesData
      <3> QED BY <1>8, <3>1, <3>2, <3>3, <3>4, <3>5, <3>6
    <2>3. ToStream(y)' = ToStream(y)
      BY <1>10 DEF TakesData
    <2> QED BY <1>6, <2>1, <2>2, <2>3 DEF Streamed
  <1>11. CASE EndsData(y)
    <2>1. /\ ToStream(y) = "open" /\ ToStream(y)' = "ended" /\ delivered'[y] = delivered[y]
          /\ e.output = <<>> /\ Quiet(q) /\ c.input = <<>>
      BY <1>11 DEF EndsData, e, c, q, x
    <2>2. PICK a \in Nat, b \in Nat, k \in Nat :
             /\ a <= b /\ b <= k /\ k <= n
             /\ delivered[y] = Run(0, a) /\ e.output = Run(a, b)
             /\ Chain(q, b, k) /\ c.input = Run(k, n)
      BY <1>7, <2>1
    <2>3. a = b /\ b = k /\ k = n
      <3>1. a = b /\ k = n
        BY <1>1, <2>1, <2>2, RunEmpty
      <3>2. b = k
        BY <1>1, <2>1, <2>2, ChainGrows
      <3> QED BY <3>1, <3>2
    <2>4. delivered[y] = Run(0, n)
      BY <2>2, <2>3
    <2>5. StreamStep(y)
      BY <1>1, <2>1, <2>4, StreamEnds DEF n, x
    <2>6. Streams(y)'
      BY <1>6, <2>1
    <2> QED BY <2>5, <2>6 DEF Streamed
  <1>12. ASSUME NEW w \in Nat, WritesData(y, w) PROVE Streamed(y)
    <2>1. /\ ToStream(y) = "open" /\ ToStream(y)' = "open" /\ queue'[y] = q
          /\ w \in 1..Len(e.output)
          /\ delivered'[y] = delivered[y] \o SubSeq(e.output, 1, w)
          /\ ch'[y].output = SubSeq(e.output, w + 1, Len(e.output))
      BY <1>12 DEF WritesData, e, q
    <2>2. PICK a \in Nat, b \in Nat, k \in Nat :
             /\ a <= b /\ b <= k /\ k <= n
             /\ delivered[y] = Run(0, a) /\ e.output = Run(a, b)
             /\ Chain(q, b, k) /\ c.input = Run(k, n)
      BY <1>7, <2>1
    <2>3. w \in 0..(b - a) /\ 0 < w
      <3>1. Len(Run(a, b)) = b - a
        BY <2>2, RunTypes
      <3> QED BY <2>1, <2>2, <3>1
    <2> DEFINE m == a + w
    <2>4. /\ SubSeq(Run(a, b), 1, w) = Run(a, m)
          /\ SubSeq(Run(a, b), w + 1, Len(Run(a, b))) = Run(m, b)
          /\ m \in Nat /\ a <= m /\ m <= b
      BY <2>2, <2>3, RunCut
    <2>5. a < m
      BY <2>3
    <2> HIDE DEF m
    <2>6. Run(0, a) \o Run(a, m) = Run(0, m)
      <3>1. 0 \in Nat /\ 0 <= a
        OBVIOUS
      <3> QED BY <2>4, <3>1, RunJoins
    <2>7. delivered'[y] = Run(0, m) /\ ch'[y].output = Run(m, b)
      BY <2>1, <2>2, <2>4, <2>6
    <2>8. Stretch(y)'
      BY <1>8, <2>1, <2>2, <2>4, <2>7
    <2>9. m <= n
      BY <1>1, <2>2, <2>4
    <2>10. StreamStep(y)
      BY <1>1, <2>1, <2>2, <2>4, <2>5, <2>7, <2>9, StreamDelivers DEF n, x
    <2> QED BY <1>6, <2>1, <2>8, <2>10 DEF Streamed
  <1> QED BY <1>9, <1>10, <1>11, <1>12 DEF Receives
-----------------------------------------------------------------------------
(* The turns, as the sender of one direction and the receiver of the other.*)

StreamResult == StreamInv' /\ \A y \in Peers : StreamStep(y)

LEMMA StreamResultIs ==
    ASSUME StateTypes, StreamInv, NEW x \in Peers, NEW y, y = Peer(x),
           NEW s, Conveys(y, s), Receives(x),
           ch'[y] = ch[y], nread'[y] = nread[y], app' = app, delivered'[y] = delivered[y]
    PROVE  StreamResult
  <1>1. y \in Peers /\ Peer(y) = x /\ \A z \in Peers : z = x \/ z = y
    BY TwoPeers
  <1>2. Streamed(y)
    BY <1>1, SendsStream DEF StreamInv
  <1>3. Streamed(x)
    BY ReceivesStream DEF StreamInv
  <1> QED BY <1>1, <1>2, <1>3 DEF StreamResult, StreamInv, Streamed

LEMMA NothingStreams ==
    ASSUME StreamInv, ch' = ch, queue' = queue, nread' = nread, app' = app,
           delivered' = delivered
    PROVE  StreamResult
  <1>1. \A y \in Peers : Streams(y)' /\ ToStream(y)' = ToStream(y)
    BY DEF StreamInv, Streams, Stretch, ToStream, Gone
  <1>2. \A y \in Peers : StreamStep(y)
    BY <1>1, TwoPeers, StreamStutters
  <1> QED BY <1>1, <1>2 DEF StreamResult, StreamInv

(* An end that has closed no longer delivers anything.                     *)
LEMMA ClosedEnds ==
    ASSUME StateTypes, NEW y \in Peers, Closed(ch[y])
    PROVE  ToStream(y) # "open"
  BY DEF StateTypes, Regular, Closed, ToStream, Gone

LEMMA ReceivedEnds ==
    ASSUME IInv, NEW x \in Peers, ch[x].type = "open", Received(ch[x])
    PROVE  ToStream(Peer(x)) # "open"
  <1>1. Established
    BY TwoPeers DEF IInv, Idle, Asked, Connecting, Confirmed, Refused, Released
  <1>2. Closed(ch[Peer(x)]) /\ Peer(x) \in Peers
    BY <1>1, TwoPeers DEF Established, Direction
  <1> QED BY <1>2, ClosedEnds DEF IInv

LEMMA CloseComes ==
    ASSUME IInv, NEW x \in Peers, ch[x].type = "open",
           queue[x] # <<>>, Head(queue[x]).kind = "close"
    PROVE  ToStream(Peer(x)) # "open"
  <1>1. Established
    <2>1. ~ (Confirmed /\ x = Acceptor)
      BY DEF Confirmed
    <2> QED BY <2>1, TwoPeers DEF IInv, Idle, Asked, Connecting, Confirmed, Refused, Released
  <1>2. Traffic(queue[x], Closed(ch[Peer(x)])) /\ Peer(x) \in Peers
    BY <1>1, TwoPeers DEF Established, Direction
  <1>3. 1 \in 1..Len(queue[x]) /\ Head(queue[x]) = queue[x][1]
    <2>1. queue[x] \in Seq(MessageSet)
      BY DEF IInv, StateTypes
    <2>2. Len(queue[x]) \in Nat /\ Len(queue[x]) # 0
      BY <2>1, LenProperties, EmptySeq
    <2> QED BY <2>1, <2>2
  <1>4. Closed(ch[Peer(x)])
    BY <1>2, <1>3 DEF Traffic
  <1> QED BY <1>2, <1>4, ClosedEnds DEF IInv

(* While an end reads, the other end has not ended its output.             *)
LEMMA ReadingGoesOn ==
    ASSUME IInv, StreamInv, NEW x \in Peers, ch[x].type = "open", ch[x].istate = "open"
    PROVE  ToStream(Peer(x)) # "ended"
  <1> DEFINE y == Peer(x)
  <1>1. y \in Peers /\ Peer(y) = x /\ StateTypes
    BY TwoPeers DEF IInv
  <1> SUFFICES ASSUME ToStream(y) = "ended" PROVE FALSE
    OBVIOUS
  <1>2. ~ Finished(ch[x]) /\ ~ Closed(ch[x])
    BY <1>1 DEF Finished, Closed, StateTypes, Regular
  <1>3. app[y] # "reset" /\ (Gone(y) \/ ch[y].ostate = "closed")
    BY DEF ToStream
  <1>4. CASE ch[y].ostate = "closed"
    BY <1>1, <1>2, <1>3, <1>4 DEF StreamInv, Streams
  <1>5. CASE Gone(y)
    <2>1. Established
      BY <1>5, TwoPeers DEF Gone, IInv, Idle, Asked, Connecting, Confirmed, Refused, Released
    <2>2. Received(ch[y])
      BY <1>1, <1>5, <2>1 DEF Gone, Established, Received
    <2> QED BY <1>1, <1>2, <2>1, <2>2 DEF Established, Direction
  <1> QED BY <1>3, <1>4, <1>5

(* What the main loop makes of an open channel, before it is collected.    *)
Outgoing(x, e) ==
    LET y == Peer(x)
        c == ch[x]
    IN  /\ Says(c, e, e.sends)
        /\ nread'[x] \in Nat /\ nread[x] <= nread'[x] /\ nread'[x] <= Bytes[x]
        /\ nread[x] < nread'[x] => ToStream(y) # "ended"
        /\ ToStream(y) = "open" =>
             /\ Finished(e) => e.input = <<>>
             /\ \/ Quiet(e.sends) /\ e.input = c.input \o Run(nread[x], nread'[x])
                \/ /\ nread'[x] = nread[x]
                   /\ \E k \in 1..Len(c.input) :
                        /\ e.sends = <<Data(SubSeq(c.input, 1, k))>>
                        /\ e.input = SubSeq(c.input, k + 1, Len(c.input))

Incoming(x, e) ==
    LET c == ch[x]
    IN  \/ /\ delivered'[x] = delivered[x] /\ e.output = c.output /\ e.ostate = c.ostate
        \/ /\ delivered'[x] = delivered[x] /\ app[x] = "reset"
           /\ e.ostate = c.ostate \/ e.ostate = "closed"
        \/ /\ delivered'[x] = delivered[x]
           /\ c.ostate = "drain" /\ c.output = <<>> /\ e.ostate = "closed"
        \/ /\ app[x] # "reset" /\ c.ostate # "closed" /\ e.ostate = c.ostate
           /\ \E w \in 1..Len(c.output) :
                /\ delivered'[x] = delivered[x] \o SubSeq(c.output, 1, w)
                /\ e.output = SubSeq(c.output, w + 1, Len(c.output))

LEMMA CollectSends ==
    ASSUME IInv, NEW x \in Peers, ch[x].type = "open", NEW e, Live(e), Outgoing(x, e),
           Received(e) => Received(ch[x]), NEW d, d = Collect(e), Apply(x, d, queue[x])
    PROVE  Conveys(Peer(x), d.sends)
  <1> DEFINE y == Peer(x)
             c == ch[x]
             m == Message("close")
  <1>1. /\ y \in Peers /\ Peer(y) = x /\ StateTypes /\ queue[x] \in Seq(MessageSet)
        /\ e.type = "open" /\ e.sends \in Seq(MessageSet)
    BY TwoPeers DEF IInv, StateTypes, Live, Regular, ChannelSet
  <1>2. /\ d \in ChannelSet
        /\ d.sends = e.sends \/ (Ended(e) /\ d.sends = Append(e.sends, m))
        /\ \/ /\ d.type = "open" /\ SameOut(e, d) /\ d.istate = e.istate
           \/ /\ Ended(e) /\ Received(e)
              /\ d = [NewChannel("freed") EXCEPT !.sends = d.sends]
    BY CollectKeeps
  <1>3. d.type = "freed" \/ (d.type = "open" /\ d.input = e.input /\ d.istate = e.istate)
    <2> DEFINE n == NewChannel("freed")
    <2>1. n \in ChannelSet /\ n.type = "freed"
      BY NewTypes DEF Types
    <2> HIDE DEF n
    <2>2. [n EXCEPT !.sends = d.sends].type = "freed"
      BY <2>1 DEF ChannelSet
    <2> QED BY <1>2, <2>2 DEF n, SameOut
  <1>4. d.type = "freed" => Ended(e) /\ ToStream(y) # "open"
    BY <1>2, ReceivedEnds
  <1>5. /\ ch'[x].type = d.type /\ ch'[x].istate = d.istate /\ ch'[x].input = d.input
        /\ queue'[y] = queue[y] \o d.sends /\ d.sends \in Seq(MessageSet)
    <2>1. /\ StateTypes /\ x \in Peers /\ d \in ChannelSet /\ queue[x] \in Seq(MessageSet)
          /\ Apply(x, d, queue[x])
      BY <1>1, <1>2
    <2>2. /\ SameOut(d, ch'[x]) /\ ch'[x].type = d.type /\ ch'[x].istate = d.istate
          /\ queue'[Peer(x)] = queue[Peer(x)] \o d.sends /\ d.sends \in Seq(MessageSet)
      BY <2>1, ApplyKeeps, Zenon
    <2> QED BY <2>2 DEF SameOut
  <1>6. Finished(ch'[x]) <=> Finished(e)
    BY <1>1, <1>3, <1>4, <1>5 DEF Finished, Ended
  <1>7. Quiet(e.sends) => Quiet(d.sends)
    <2>1. m \in MessageSet /\ m.kind # "data"
      BY MessageTypes
    <2> HIDE DEF m
    <2>2. <<m>> \in Seq(MessageSet) /\ Append(e.sends, m) = e.sends \o <<m>> /\ Len(<<m>>) = 1
          /\ <<m>>[1] = m
      <3> DEFINE t == e.sends
      <3>1. t \in Seq(MessageSet) /\ m \in MessageSet
        BY <1>1, <2>1
      <3> HIDE DEF t
      <3>2. Append(t, m) = t \o <<m>>
        BY <3>1
      <3>3. <<m>> \in Seq(MessageSet) /\ Len(<<m>>) = 1 /\ <<m>>[1] = m
        BY <3>1
      <3> QED BY <3>2, <3>3 DEF t
    <2>3. Quiet(<<m>>)
      BY <2>1, <2>2 DEF Quiet
    <2>4. Quiet(e.sends) => Quiet(Append(e.sends, m))
      BY <1>1, <2>2, <2>3, SaysJoins
    <2> QED BY <1>2, <2>4 DEF m
  <1>8. Ended(e) => Finished(e) /\ Quiet(e.sends)
    BY DEF Outgoing, Says, Finished, Ended
  <1>9. Says(c, ch'[x], d.sends)
    <2>1. CASE d.sends = e.sends
      BY <1>6, <2>1 DEF Outgoing, Says
    <2>2. CASE Ended(e)
      BY <1>6, <1>7, <1>8, <2>2 DEF Outgoing, Says
    <2> QED BY <1>2, <2>1, <2>2
  <1>10. /\ nread'[x] \in Nat /\ nread[x] <= nread'[x] /\ nread'[x] <= Bytes[x]
         /\ nread[x] < nread'[x] => ToStream(y) # "ended"
    BY DEF Outgoing
  <1>11. ASSUME ToStream(y) = "open"
         PROVE  /\ Finished(ch'[x]) => ch'[x].input = <<>>
                /\ \/ Quiet(d.sends) /\ ch'[x].input = c.input \o Run(nread[x], nread'[x])
                   \/ /\ nread'[x] = nread[x]
                      /\ \E k \in 1..Len(c.input) :
                           /\ d.sends = <<Data(SubSeq(c.input, 1, k))>>
                           /\ ch'[x].input = SubSeq(c.input, k + 1, Len(c.input))
    <2>1. ch'[x].input = e.input
      BY <1>3, <1>4, <1>5, <1>11
    <2>2. /\ Finished(e) => e.input = <<>>
          /\ \/ Quiet(e.sends) /\ e.input = c.input \o Run(nread[x], nread'[x])
             \/ /\ nread'[x] = nread[x]
                /\ \E k \in 1..Len(c.input) :
                     /\ e.sends = <<Data(SubSeq(c.input, 1, k))>>
                     /\ e.input = SubSeq(c.input, k + 1, Len(c.input))
      BY <1>11 DEF Outgoing
    <2>3. Finished(ch'[x]) => ch'[x].input = <<>>
      BY <1>6, <2>1, <2>2
    <2>4. CASE Quiet(e.sends) /\ e.input = c.input \o Run(nread[x], nread'[x])
      BY <1>7, <2>1, <2>3, <2>4
    <2>5. ASSUME nread'[x] = nread[x], NEW k \in 1..Len(c.input),
                 e.sends = <<Data(SubSeq(c.input, 1, k))>>,
                 e.input = SubSeq(c.input, k + 1, Len(c.input))
          PROVE  d.sends = e.sends
      <3> DEFINE h == Data(SubSeq(c.input, 1, k))
      <3>1. h.kind = "data"
        BY DEF Data
      <3> HIDE DEF h
      <3>2. e.sends = <<h>> /\ Len(<<h>>) = 1 /\ <<h>>[1] = h
        BY <2>5 DEF h
      <3>3. ~ Quiet(e.sends)
        BY <3>1, <3>2 DEF Quiet
      <3> QED BY <1>2, <1>8, <3>3
    <2> QED BY <2>1, <2>2, <2>3, <2>4, <2>5
  <1> HIDE DEF c
  <1> QED BY <1>1, <1>5, <1>9, <1>10, <1>11 DEF Conveys, c

LEMMA CollectReceives ==
    ASSUME IInv, StreamInv, NEW x \in Peers, ch[x].type = "open", NEW e, Live(e),
           Incoming(x, e), app' = app, NEW d, d = Collect(e), Apply(x, d, queue[x])
    PROVE  Receives(x)
  <1> DEFINE y == Peer(x)
             c == ch[x]
  <1>1. /\ y \in Peers /\ Peer(y) = x /\ StateTypes /\ queue[x] \in Seq(MessageSet)
        /\ e.type = "open"
    BY TwoPeers DEF IInv, StateTypes, Live, Regular
  <1>2. /\ d \in ChannelSet
        /\ \/ /\ d.type = "open" /\ SameIn(e, d) /\ d.ostate = e.ostate
           \/ Ended(e) /\ d = [NewChannel("freed") EXCEPT !.sends = d.sends]
    BY CollectKeeps
  <1>3. \/ d.type = "open" /\ d.output = e.output /\ d.ostate = e.ostate
        \/ e.ostate = "closed" /\ d.type = "freed" /\ d.ostate = "open"
    <2> DEFINE n == NewChannel("freed")
    <2>1. n \in ChannelSet /\ n.type = "freed" /\ n.ostate = "open"
      BY NewTypes DEF Types
    <2> HIDE DEF n
    <2>2. /\ [n EXCEPT !.sends = d.sends].type = "freed"
          /\ [n EXCEPT !.sends = d.sends].ostate = "open"
      BY <2>1 DEF ChannelSet
    <2> QED BY <1>2, <2>2 DEF n, SameIn, Ended
  <1>4. /\ ch'[x].type = d.type /\ ch'[x].ostate = d.ostate /\ ch'[x].output = d.output
        /\ queue'[x] = queue[x]
    <2>1. /\ SameIn(d, ch'[x]) /\ ch'[x].type = d.type /\ ch'[x].ostate = d.ostate
          /\ queue'[x] = queue[x]
      <3>1. /\ StateTypes /\ d \in ChannelSet /\ queue[x] \in Seq(MessageSet)
            /\ Apply(x, d, queue[x])
        BY <1>1, <1>2
      <3> QED BY <3>1, ApplyKeeps, Zenon
    <2> QED BY <2>1 DEF SameIn
  <1>5. /\ c.ostate = "drain" => Finished(ch[y]) /\ Quiet(queue[x])
        /\ c.ostate = "closed" /\ app[x] # "reset" => Finished(ch[y])
        /\ ToStream(x) = "open" /\ Finished(ch[y]) => ch[y].input = <<>>
    BY DEF StreamInv, Streams
  <1>6. c.ostate \in {"open", "drain", "closed"} /\ c.type = "open"
    BY <1>1 DEF StateTypes, ChannelSet, Stage
  <1>7. /\ ToStream(x) = IF app[x] = "reset" THEN "broken"
                         ELSE IF c.ostate = "closed" THEN "ended" ELSE "open"
        /\ ToStream(x)' = IF app[x] = "reset" THEN "broken"
                          ELSE IF e.ostate = "closed" THEN "ended" ELSE "open"
    BY <1>3, <1>4, <1>6 DEF ToStream, Gone
  <1>8. /\ \/ e.ostate = c.ostate
           \/ e.ostate = "closed" /\ (app[x] = "reset" \/ c.ostate = "drain")
        /\ ch'[x].ostate \in {"open", e.ostate}
    BY <1>3, <1>4 DEF Incoming
  <1>9. /\ ch'[x].ostate = "drain" => Finished(ch[y]) /\ Quiet(queue'[x])
        /\ ch'[x].ostate = "closed" /\ app'[x] # "reset" => Finished(ch[y])
    BY <1>4, <1>5, <1>8
  <1> SUFFICES Idles(x) \/ EndsData(x) \/ \E w \in Nat : WritesData(x, w)
    BY <1>9 DEF Receives
  <1> HIDE DEF c
  <1>10. CASE delivered'[x] = delivered[x] /\ e.output = c.output /\ e.ostate = c.ostate
    <2>1. ToStream(x) = "open" => ch'[x].output = c.output
      BY <1>3, <1>4, <1>7, <1>10
    <2>2. Idles(x)
      BY <1>4, <1>7, <1>10, <2>1 DEF Idles, c
    <2> QED BY <2>2
  <1>11. CASE delivered'[x] = delivered[x] /\ app[x] = "reset"
    <2>1. Idles(x)
      BY <1>4, <1>7, <1>11 DEF Idles
    <2> QED BY <2>1
  <1>12. CASE /\ delivered'[x] = delivered[x] /\ app[x] # "reset"
              /\ c.ostate = "drain" /\ c.output = <<>> /\ e.ostate = "closed"
    <2>1. ToStream(x) = "open" /\ ToStream(x)' = "ended"
      BY <1>7, <1>12
    <2>2. EndsData(x)
      BY <1>4, <1>5, <1>12, <2>1 DEF EndsData, c
    <2> QED BY <2>2
  <1>13. ASSUME app[x] # "reset", c.ostate # "closed", e.ostate = c.ostate,
                NEW w \in 1..Len(c.output),
                delivered'[x] = delivered[x] \o SubSeq(c.output, 1, w),
                e.output = SubSeq(c.output, w + 1, Len(c.output))
         PROVE  WritesData(x, w) /\ w \in Nat
    <2>1. ToStream(x) = "open" /\ ToStream(x)' = "open" /\ ch'[x].output = e.output
      BY <1>3, <1>4, <1>7, <1>13
    <2>2. w \in Nat
      OBVIOUS
    <2> QED BY <1>4, <1>13, <2>1, <2>2 DEF WritesData, c
  <1> QED BY <1>10, <1>11, <1>12, <1>13 DEF Incoming, c

(* What one message says.                                                  *)
LEMMA SaysOne ==
    /\ Quiet(<<>>) /\ ~ HasEnd(<<>>)
    /\ \A m \in MessageSet :
         /\ m.kind # "data" => Quiet(<<m>>)
         /\ m.kind \notin {"eof", "close"} => ~ HasEnd(<<m>>)
  <1>1. Len(<<>>) = 0
    OBVIOUS
  <1>2. ASSUME NEW m \in MessageSet PROVE Len(<<m>>) = 1 /\ <<m>>[1] = m
    OBVIOUS
  <1> QED BY <1>1, <1>2 DEF Quiet, HasEnd

LEMMA RunOfNothing ==
    ASSUME NEW n \in Nat
    PROVE  /\ Run(n, n) = <<>>
           /\ \A s \in Seq(Nat) : s \o Run(n, n) = s
  <1>1. Run(n, n) = <<>>
    BY RunEmpty
  <1> QED BY <1>1, ConcatEmptySeq

(* A turn that reads nothing: the input stays, or a part of it is sent.    *)
LEMMA OutgoingIs ==
    ASSUME IInv, WindowInv, StreamInv, NEW x \in Peers, ch[x].type = "open", nread' = nread,
           NEW e, e.type = "open",
           \/ e.istate = ch[x].istate /\ e.input = ch[x].input /\ e.sends = <<>>
           \/ e.istate = "closed" /\ e.input = ch[x].input /\ ch[x].input = <<>>
              /\ e.sends = <<Message("eof")>>
           \/ /\ e.istate = ch[x].istate /\ ch[x].istate # "closed"
              /\ \E k \in 1..Len(ch[x].input) :
                   /\ e.sends = <<Data(SubSeq(ch[x].input, 1, k))>>
                   /\ e.input = SubSeq(ch[x].input, k + 1, Len(ch[x].input))
    PROVE  Outgoing(x, e)
  <1> DEFINE y == Peer(x)
             c == ch[x]
             m == Message("eof")
  <1>1. /\ y \in Peers /\ Peer(y) = x /\ c.input \in Seq(Nat) /\ c.type = "open"
        /\ nread[x] \in Nat /\ nread'[x] = nread[x] /\ nread[x] <= Bytes[x]
    BY TwoPeers DEF IInv, StateTypes, ChannelSet, WindowInv, Sourced
  <1>2. ToStream(y) = "open" /\ Finished(c) => c.input = <<>>
    BY <1>1 DEF StreamInv, Streams
  <1>3. c.input \o Run(nread[x], nread'[x]) = c.input
    BY <1>1, RunOfNothing
  <1>4. ~ (nread[x] < nread'[x]) /\ nread[x] <= nread'[x]
    BY <1>1
  <1> HIDE DEF c
  <1>5. CASE e.istate = c.istate /\ e.input = c.input /\ e.sends = <<>>
    <2>1. (Finished(e) <=> Finished(c)) /\ Quiet(e.sends) /\ ~ HasEnd(e.sends)
      BY <1>1, <1>5, SaysOne DEF Finished
    <2> QED BY <1>1, <1>2, <1>3, <1>4, <1>5, <2>1 DEF Outgoing, Says, c
  <1>6. CASE e.istate = "closed" /\ e.input = c.input /\ c.input = <<>> /\ e.sends = <<m>>
    <2>1. m \in MessageSet /\ m.kind = "eof"
      BY MessageTypes
    <2> HIDE DEF m
    <2>2. Finished(e) /\ Quiet(e.sends)
      BY <1>6, <2>1, SaysOne DEF Finished
    <2> QED BY <1>1, <1>3, <1>4, <1>6, <2>2 DEF Outgoing, Says, c
  <1>7. ASSUME e.istate = c.istate, c.istate # "closed", NEW k \in 1..Len(c.input),
               e.sends = <<Data(SubSeq(c.input, 1, k))>>,
               e.input = SubSeq(c.input, k + 1, Len(c.input))
        PROVE  Outgoing(x, e)
    <2> DEFINE g == SubSeq(c.input, 1, k)
               h == Data(g)
    <2>1. g \in Seq(Nat)
      <3>1. k \in 0..Len(c.input)
        OBVIOUS
      <3> QED BY <1>1, <3>1, Parts
    <2>2. h \in MessageSet /\ h.kind = "data"
      BY <2>1, MessageTypes
    <2> HIDE DEF g, h
    <2>3. e.sends = <<h>>
      BY <1>7 DEF g, h
    <2>4. ~ Finished(e) /\ ~ Finished(c) /\ ~ HasEnd(e.sends)
      BY <1>1, <1>7, <2>2, <2>3, SaysOne DEF Finished
    <2>5. Says(c, e, e.sends)
      BY <2>4 DEF Says
    <2> QED BY <1>1, <1>4, <1>7, <2>4, <2>5 DEF Outgoing, c
  <1> QED BY <1>5, <1>6, <1>7 DEF c

LEMMA OpenStream ==
    ASSUME IInv, StreamInv, NEW x \in Peers, ch[x].type = "open", NEW e, Live(e),
           Outgoing(x, e), Incoming(x, e), Received(e) => Received(ch[x]),
           Apply(x, Collect(e), queue[x]), app' = app,
           nread'[Peer(x)] = nread[Peer(x)], delivered'[Peer(x)] = delivered[Peer(x)]
    PROVE  StreamResult
  <1> DEFINE d == Collect(e)
             y == Peer(x)
  <1>1. Conveys(y, d.sends)
    <2>1. d = Collect(e) /\ Apply(x, d, queue[x])
      OBVIOUS
    <2> HIDE DEF d
    <2> QED BY <2>1, CollectSends
  <1>2. Receives(x)
    <2>1. d = Collect(e) /\ Apply(x, d, queue[x])
      OBVIOUS
    <2> HIDE DEF d
    <2> QED BY <2>1, CollectReceives
  <1>3. ch'[y] = ch[y] /\ StateTypes
    <2>1. d \in ChannelSet /\ queue[x] \in Seq(MessageSet) /\ StateTypes
      BY CollectKeeps DEF IInv, StateTypes
    <2> HIDE DEF d
    <2> QED BY <2>1, ApplyKeeps DEF d
  <1> HIDE DEF d
  <1> QED BY <1>1, <1>2, <1>3, StreamResultIs

LEMMA PrepareStream ==
    ASSUME IInv, WindowInv, StreamInv, NEW x \in Peers, ch[x].type = "open", Prepare(x)
    PROVE  StreamResult
  <1> DEFINE c == ch[x]
  <1>1. PICK p \in {OutputPoll(c), c} : Apply(x, Collect(Pre(p)), queue[x])
    BY DEF Prepare
  <1>2. /\ Live(c) /\ c.sends = <<>> /\ c \in ChannelSet /\ c.input \in Seq(Nat)
        /\ nread' = nread /\ app' = app /\ delivered' = delivered
    BY OpenLive DEF IInv, StateTypes, ChannelSet, Prepare
  <1> DEFINE e == Pre(p)
  <1>3. Live(e) /\ (Received(e) => Received(c))
    <2>1. Turns(c, c)
      BY <1>2, Silent DEF Live, Regular
    <2>2. Turns(c, p)
      BY <1>1, <1>2, <2>1, OutputPollTurns
    <2>3. Live(p) /\ Turns(p, e) /\ Live(e)
      BY <1>2, <2>2, TurnsLive, PreTurns
    <2> HIDE DEF e, c
    <2> QED BY <1>2, <2>2, <2>3 DEF Turns, Received, Live
  <1>4. /\ p \in ChannelSet /\ SameIn(c, p) /\ p.type = c.type /\ p.ostate = c.ostate
        /\ Nothing(c, p) \/ SendsEof(c, p) \/ \E n \in Nat : SendsData(c, p, n)
    BY <1>2, PollKeeps DEF SameIn, SameOut, Nothing
  <1>5. /\ SameIn(p, e) /\ Nothing(p, e) /\ e.type = p.type
        /\ \/ e.ostate = p.ostate
           \/ p.ostate = "drain" /\ p.output = <<>> /\ e.ostate = "closed"
    BY <1>4, PreKeeps
  <1> HIDE DEF e
  <1>6. Incoming(x, e)
    BY <1>2, <1>4, <1>5 DEF Incoming, SameIn
  <1>7. Outgoing(x, e)
    <2>1. e.istate = p.istate /\ e.input = p.input /\ e.sends = p.sends /\ e.type = "open"
      BY <1>4, <1>5 DEF Nothing, SameOut
    <2>2. \A m : Append(<<>>, m) = <<m>>
      OBVIOUS
    <2>3. CASE Nothing(c, p)
      <3>1. e.istate = c.istate /\ e.input = c.input /\ e.sends = <<>>
        BY <1>2, <2>1, <2>3 DEF Nothing, SameOut
      <3> QED BY <1>2, <2>1, <3>1, OutgoingIs
    <2>4. CASE SendsEof(c, p)
      <3>1. /\ e.istate = "closed" /\ e.input = c.input /\ c.input = <<>>
            /\ e.sends = <<Message("eof")>>
        BY <1>2, <2>1, <2>2, <2>4 DEF SendsEof, SameOut
      <3> QED BY <1>2, <2>1, <3>1, OutgoingIs
    <2>5. ASSUME NEW n \in Nat, SendsData(c, p, n) PROVE Outgoing(x, e)
      <3>1. /\ e.istate = c.istate /\ c.istate # "closed" /\ n \in 1..Len(c.input)
            /\ e.sends = <<Data(SubSeq(c.input, 1, n))>>
            /\ e.input = SubSeq(c.input, n + 1, Len(c.input))
        BY <1>2, <2>1, <2>2, <2>5 DEF SendsData
      <3> QED BY <1>2, <2>1, <3>1, OutgoingIs
    <2> QED BY <1>4, <2>3, <2>4, <2>5
  <1>8. Apply(x, Collect(e), queue[x])
    BY <1>1 DEF e
  <1> QED BY <1>2, <1>3, <1>6, <1>7, <1>8, OpenStream

(* The applications get numbers.                                           *)
Texts == delivered \in [Peers -> Seq(Nat)]

(* A turn that reads r bytes and writes w.                                 *)
LEMMA PostStream ==
    ASSUME IInv, StreamInv, Texts, NEW x \in Peers, ch[x].type = "open", Live(ch[x]),
           ch[x].sends = <<>>, NEW r \in Nat, NEW w \in 0..Len(ch[x].output), Posts(x, r, w),
           app' = app
    PROVE  StreamResult
  <1> DEFINE c == ch[x]
             y == Peer(x)
             n == nread[x]
             a == HandleRead(x, c, r)
             b == HandleWrite(x, a, w)
             e == CheckWindow(b)
             text == delivered[x]
             part == SubSeq(c.output, 1, w)
  <1>1. /\ nread' = [nread EXCEPT ![x] = @ + r]
        /\ delivered' = [delivered EXCEPT ![x] = @ \o part]
        /\ Apply(x, Collect(e), queue[x])
        /\ n + r <= Bytes[x]
        /\ r > 0 => c.istate = "open"
        /\ w > 0 => c.ostate # "closed"
        /\ app[x] = "reset" => w = 0
    BY DEF Posts
  <1>2. /\ c \in ChannelSet /\ n \in Nat /\ StateTypes
        /\ y \in Peers /\ Peer(y) = x /\ y # x
        /\ c.input \in Seq(Nat) /\ c.output \in Seq(Nat) /\ text \in Seq(Nat)
        /\ Bytes[x] \in Nat
    BY TwoPeers, SizeAssumption DEF IInv, StateTypes, ChannelSet, Texts, Peers
  <1>3. /\ nread'[x] = n + r /\ nread'[y] = nread[y]
        /\ delivered'[x] = text \o part /\ delivered'[y] = delivered[y]
    <2> HIDE DEF part
    <2> QED BY <1>1, <1>2 DEF Texts, StateTypes
  <1>4. /\ Turns(c, a) /\ a.output = c.output /\ Live(a)
        /\ Turns(a, b) /\ Turns(b, e) /\ Live(b) /\ Live(e)
    <2>1. Turns(c, a) /\ a.output = c.output /\ Live(a)
      BY <1>2, HandleReadTurns, TurnsLive
    <2>2. w \in 0..Len(a.output)
      BY <2>1
    <2> QED BY <2>1, <2>2, HandleWriteTurns, CheckWindowTurns, TurnsLive
  <1>5. Received(e) => Received(c)
    <2> HIDE DEF e, b, a, c
    <2> QED BY <1>4 DEF Turns, Received, Live
  <1>6. /\ SameIn(c, a) /\ a.type = c.type /\ a.ostate = c.ostate /\ a.sends = <<>>
        /\ \/ a.istate = c.istate /\ a.input = c.input \o Run(n, n + r)
           \/ r = 0 /\ c.istate = "open" /\ a.istate = "drain" /\ a.input = c.input
    <2>1. Reads(x, a, r)
      BY <1>2, ReadKeeps
    <2> HIDE DEF a
    <2> QED BY <2>1 DEF Reads
  <1>7. /\ SameOut(a, b) /\ b.type = a.type /\ b.istate = a.istate /\ b.sends = a.sends
        /\ \/ b.ostate = a.ostate /\ b.output = SubSeq(a.output, w + 1, Len(a.output))
           \/ app[x] = "reset" /\ b.ostate = "closed"
    <2>1. a \in ChannelSet /\ w \in 0..Len(a.output)
      BY <1>4 DEF Live, Regular
    <2> HIDE DEF a
    <2> QED BY <2>1, WriteKeeps
  <1>8. /\ SameOut(b, e) /\ e.output = b.output
        /\ e.type = b.type /\ e.istate = b.istate /\ e.ostate = b.ostate
        /\ e.sends = b.sends \/ e.sends = Append(b.sends, Adjust(b.consumed))
    <2> HIDE DEF b
    <2> QED BY <1>4, CheckKeeps
  <1>9. Adjust(b.consumed) \in MessageSet /\ Adjust(b.consumed).kind = "adjust"
    <2>1. b.consumed \in Nat
      BY <1>4 DEF Live, Regular, ChannelSet
    <2> QED BY <2>1, MessageTypes
  <1> HIDE DEF a, b, e
  <1>10. /\ e.type = "open"
         /\ \/ e.istate = c.istate /\ e.input = c.input \o Run(n, n + r)
            \/ r = 0 /\ c.istate = "open" /\ e.istate = "drain" /\ e.input = c.input
    BY <1>6, <1>7, <1>8 DEF SameOut
  <1>11. Quiet(e.sends) /\ ~ HasEnd(e.sends)
    <2> DEFINE m == Adjust(b.consumed)
    <2>1. m \in MessageSet /\ m.kind = "adjust"
      BY <1>9
    <2> HIDE DEF m
    <2>2. Append(<<>>, m) = <<m>>
      OBVIOUS
    <2>3. e.sends = <<>> \/ e.sends = <<m>>
      BY <1>6, <1>7, <1>8, <2>2 DEF m
    <2> QED BY <2>1, <2>3, SaysOne
  <1>12. n + 0 = n /\ c.input \o Run(n, n) = c.input
    <2>1. n + 0 = n
      BY <1>2
    <2>2. c.input \o Run(n, n) = c.input
      <3> HIDE DEF n, c
      <3> QED BY <1>2, RunOfNothing
    <2> QED BY <2>1, <2>2
  <1>13. Outgoing(x, e)
    <2>1. (Finished(e) => r = 0 /\ e.istate = c.istate) /\ (Finished(c) => Finished(e))
      <3>1. Finished(e) <=> e.istate = "closed"
        BY <1>10 DEF Finished
      <3>2. Finished(c) <=> c.istate = "closed"
        BY DEF Finished
      <3>3. r = 0 \/ r > 0
        OBVIOUS
      <3> QED BY <1>1, <1>10, <3>1, <3>2, <3>3
    <2>2. e.input = c.input \o Run(n, n + r)
      BY <1>10, <1>12
    <2>3. Says(c, e, e.sends)
      BY <1>11, <2>1 DEF Says
    <2>4. ToStream(y) = "open" /\ Finished(e) => e.input = <<>>
      <3>1. Finished(e) => Finished(c)
        BY <2>1, <1>10 DEF Finished
      <3>2. ToStream(y) = "open" /\ Finished(c) => c.input = <<>>
        BY <1>2 DEF StreamInv, Streams
      <3> QED BY <1>12, <2>1, <2>2, <3>1, <3>2
    <2>5. n < n + r => ToStream(y) # "ended"
      <3>1. n < n + r => r > 0
        BY <1>2
      <3> QED BY <1>1, <3>1, ReadingGoesOn
    <2>6. n + r \in Nat /\ n <= n + r
      BY <1>2
    <2> DEFINE m == n + r
    <2>7. nread'[x] = m /\ m \in Nat /\ n <= m /\ m <= Bytes[x]
          /\ (n < m => ToStream(y) # "ended") /\ e.input = c.input \o Run(n, m)
      BY <1>1, <1>3, <2>2, <2>5, <2>6
    <2> HIDE DEF m
    <2> QED BY <1>11, <2>3, <2>4, <2>7 DEF Outgoing
  <1>14. Incoming(x, e)
    <2>1. CASE app[x] = "reset"
      <3>1. part = <<>>
        BY <1>1, <1>2, <2>1
      <3>2. delivered'[x] = delivered[x]
        BY <1>2, <1>3, <3>1, ConcatEmptySeq
      <3>3. e.ostate = c.ostate \/ e.ostate = "closed"
        BY <1>6, <1>7, <1>8
      <3> QED BY <2>1, <3>2, <3>3 DEF Incoming
    <2>2. CASE app[x] # "reset"
      <3>1. e.ostate = c.ostate /\ e.output = SubSeq(c.output, w + 1, Len(c.output))
        BY <1>4, <1>6, <1>7, <1>8, <2>2
      <3>2. CASE w = 0
        <4>1. part = <<>> /\ SubSeq(c.output, 1, Len(c.output)) = c.output
          BY <1>2, <3>2
        <4>2. delivered'[x] = delivered[x]
          BY <1>2, <1>3, <4>1, ConcatEmptySeq
        <4>3. e.output = c.output
          BY <3>1, <3>2, <4>1
        <4> QED BY <3>1, <4>2, <4>3 DEF Incoming
      <3>3. CASE w # 0
        <4>1. w \in 1..Len(c.output) /\ w > 0
          BY <1>2, <3>3
        <4>2. c.ostate # "closed"
          BY <1>1, <4>1
        <4> HIDE DEF c
        <4> QED BY <1>3, <2>2, <3>1, <4>1, <4>2 DEF Incoming, c
      <3> QED BY <3>2, <3>3
    <2> QED BY <2>1, <2>2
  <1> QED BY <1>1, <1>2, <1>3, <1>4, <1>5, <1>13, <1>14, OpenStream

(* What a message h makes of an open channel.                              *)
Hands(c, d, h) ==
    /\ d \in ChannelSet /\ d.type = "open" /\ d.input = c.input
    /\ \/ d.istate = c.istate /\ d.sends = <<>>
       \/ h.kind = "close" /\ d.istate = "closed" /\ d.sends \in {<<>>, <<Message("eof")>>}
    /\ h.kind = "data" =>
         d.ostate = c.ostate /\ (c.ostate = "open" => d.output = c.output \o h.bytes)
    /\ h.kind = "adjust" => d.ostate = c.ostate /\ d.output = c.output
    /\ h.kind \in {"eof", "close"} =>
         /\ d.output = c.output
         /\ \/ d.ostate = c.ostate
            \/ c.ostate # "closed" /\ d.ostate = "drain"
            \/ c.ostate # "closed" /\ c.output = <<>> /\ d.ostate = "closed"

LEMMA MessageHands ==
    ASSUME IInv, WindowInv, NEW x \in Peers, NEW kind, NEW d, Handles(x, kind, d)
    PROVE  /\ ch[x].type = "open" /\ queue[x] # <<>> /\ Apply(x, d, Tail(queue[x]))
           /\ nread' = nread /\ app' = app /\ delivered' = delivered
           /\ Hands(ch[x], d, Head(queue[x]))
  <1> DEFINE c == ch[x]
             h == Head(queue[x])
             m == Message("eof")
  <1>1. /\ Dispatch(x, kind, d) /\ kind \in {"data", "adjust", "eof", "close"}
        /\ kind = "data" => d = RcvdData(c, h.bytes)
        /\ kind = "adjust" => d = IF Known(c) THEN [c EXCEPT !.rwin = @ + h.n] ELSE c
        /\ kind = "eof" => d = RcvdEof(c)
        /\ kind = "close" => d = RcvdClose(c)
    BY DEF Handles
  <1>2. /\ queue[x] # <<>> /\ h.kind = kind /\ Apply(x, d, Tail(queue[x]))
        /\ nread' = nread /\ app' = app /\ delivered' = delivered
    <2>1. queue[x] # <<>> /\ h.kind = kind /\ Apply(x, d, Tail(queue[x])) /\ nread' = nread
      BY <1>1, DispatchQueue
    <2>2. app' = app /\ delivered' = delivered
      BY <1>1 DEF Dispatch
    <2> QED BY <2>1, <2>2
  <1>3. c.type = "open" /\ h \in MessageSet
    BY <1>1, <1>2, NextMessage
  <1>4. Live(c) /\ c \in ChannelSet /\ c.sends = <<>> /\ StateTypes /\ c.lwin \in Int
    BY <1>3, OpenLive DEF IInv, StateTypes, ChannelSet
  <1> HIDE DEF c, h
  <1>5. CASE kind = "data"
    <2>1. h.bytes \in Seq(Nat) /\ DataIn(h) = Len(h.bytes)
      BY <1>2, <1>3, <1>5, MessageTypes, Carries
    <2>2. Len(h.bytes) <= MaxPacket /\ Len(h.bytes) <= c.lwin /\ Len(h.bytes) \in Nat
      <3>1. queue[x] \in Seq(MessageSet) /\ Sized(queue[x]) /\ DataOf(queue[x]) <= c.lwin
        BY <1>4 DEF WindowInv, Balance, StateTypes, c
      <3>2. Len(h.bytes) <= MaxPacket
        BY <1>2, <1>5, <3>1, SizedParts DEF h
      <3>3. /\ Tail(queue[x]) \in Seq(MessageSet)
            /\ DataOf(queue[x]) = Len(h.bytes) + DataOf(Tail(queue[x]))
        BY <1>2, <2>1, <3>1, SumsOfTail DEF h
      <3>4. DataOf(Tail(queue[x])) \in Nat /\ Len(h.bytes) \in Nat
        BY <2>1, <3>3, SumsOfParts, LenProperties
      <3> QED BY <1>4, <3>1, <3>2, <3>3, <3>4
    <2>3. ~ (Len(h.bytes) > MaxPacket) /\ ~ (Len(h.bytes) > c.lwin)
      BY <1>4, <2>2, SizeAssumption
    <2>4. /\ d \in ChannelSet /\ Nothing(c, d) /\ d.type = c.type /\ d.ostate = c.ostate
          /\ c.ostate = "open" => d.output = c.output \o h.bytes
      BY <1>1, <1>4, <1>5, <2>1, <2>3, DataKeeps
    <2>5. Hands(c, d, h)
      BY <1>2, <1>3, <1>4, <1>5, <2>4 DEF Nothing, SameOut, Hands
    <2> QED BY <1>2, <1>3, <2>5 DEF c, h
  <1>6. CASE kind = "adjust"
    <2>1. h.n \in Nat
      BY <1>2, <1>3, <1>6, MessageTypes
    <2>2. d = [c EXCEPT !.rwin = @ + h.n]
      BY <1>1, <1>3, <1>6 DEF Known, c
    <2>3. /\ d \in ChannelSet /\ SameIn(c, d) /\ d.type = c.type /\ d.sends = c.sends
          /\ d.istate = c.istate /\ d.ostate = c.ostate /\ d.input = c.input
      BY <1>4, <2>1, <2>2, AdjustKeeps
    <2>4. Hands(c, d, h)
      BY <1>2, <1>3, <1>4, <1>6, <2>3 DEF SameIn, Hands
    <2> QED BY <1>2, <1>3, <2>4 DEF c, h
  <1>7. CASE kind = "eof"
    <2>1. /\ d \in ChannelSet /\ SameIn(c, d) /\ Nothing(c, d) /\ d.type = c.type
          /\ \/ c.ostate = "closed" /\ d.ostate = "closed"
             \/ c.ostate # "closed" /\ d.ostate = "drain"
             \/ c.ostate # "closed" /\ c.output = <<>> /\ d.ostate = "closed"
      BY <1>1, <1>4, <1>7, EofKeeps
    <2>2. Hands(c, d, h)
      BY <1>2, <1>3, <1>4, <1>7, <2>1 DEF SameIn, SameOut, Nothing, Hands
    <2> QED BY <1>2, <1>3, <2>2 DEF c, h
  <1>8. CASE kind = "close"
    <2>1. /\ d \in ChannelSet /\ SameIn(c, d) /\ SameOut(c, d) /\ d.type = c.type
          /\ d.istate = "closed"
          /\ d.sends = c.sends \/ d.sends = Append(c.sends, m)
          /\ \/ c.ostate = "closed" /\ d.ostate = "closed"
             \/ c.ostate # "closed" /\ d.ostate = "drain"
      BY <1>1, <1>4, <1>8, CloseKeeps
    <2> HIDE DEF m
    <2>2. Append(<<>>, m) = <<m>>
      OBVIOUS
    <2>3. d.sends \in {<<>>, <<m>>}
      BY <1>4, <2>1, <2>2
    <2>4. Hands(c, d, h)
      BY <1>2, <1>3, <1>8, <2>1, <2>3 DEF SameIn, SameOut, Hands, m
    <2> QED BY <1>2, <1>3, <2>4 DEF c, h
  <1> QED BY <1>1, <1>5, <1>6, <1>7, <1>8

LEMMA MessageStream ==
    ASSUME IInv, WindowInv, StreamInv, NEW x \in Peers, NEW kind, NEW d, Handles(x, kind, d)
    PROVE  StreamResult
  <1> DEFINE c == ch[x]
             y == Peer(x)
             h == Head(queue[x])
             rest == Tail(queue[x])
             m == Message("eof")
  <1>1. /\ c.type = "open" /\ queue[x] # <<>> /\ Apply(x, d, rest)
        /\ nread' = nread /\ app' = app /\ delivered' = delivered
        /\ Hands(c, d, h)
    BY MessageHands
  <1>2. /\ d \in ChannelSet /\ d.type = "open" /\ d.input = c.input
        /\ \/ d.istate = c.istate /\ d.sends = <<>>
           \/ h.kind = "close" /\ d.istate = "closed" /\ d.sends \in {<<>>, <<m>>}
        /\ h.kind = "data" =>
             d.ostate = c.ostate /\ (c.ostate = "open" => d.output = c.output \o h.bytes)
        /\ h.kind = "adjust" => d.ostate = c.ostate /\ d.output = c.output
        /\ h.kind \in {"eof", "close"} =>
             /\ d.output = c.output
             /\ \/ d.ostate = c.ostate
                \/ c.ostate # "closed" /\ d.ostate = "drain"
                \/ c.ostate # "closed" /\ c.output = <<>> /\ d.ostate = "closed"
    BY <1>1 DEF Hands
  <1>3. /\ c \in ChannelSet /\ StateTypes /\ y \in Peers /\ Peer(y) = x
        /\ queue[x] \in Seq(MessageSet) /\ rest \in Seq(MessageSet)
        /\ nread[x] \in Nat /\ nread[x] <= Bytes[x] /\ c.input \in Seq(Nat)
    BY <1>1, TwoPeers, SumsOfTail DEF IInv, StateTypes, ChannelSet, WindowInv, Sourced
  <1>4. h.kind \in {"data", "adjust", "eof", "close"}
    BY <1>1, DispatchQueue DEF Handles
  <1>5. /\ c.ostate = "drain" => Finished(ch[y]) /\ Quiet(queue[x])
        /\ c.ostate = "closed" /\ app[x] # "reset" => Finished(ch[y])
        /\ ToStream(x) = "open" /\ Finished(ch[y]) => ch[y].input = <<>>
        /\ EndsLast(queue[x], ch[y])
        /\ ToStream(y) = "open" /\ Finished(c) => c.input = <<>>
    <2>1. Streams(x) /\ Streams(y)
      BY <1>3 DEF StreamInv
    <2> QED BY <1>3, <2>1 DEF Streams
  <1>6. /\ Quiet(queue[x]) => Quiet(rest) /\ h.kind # "data"
        /\ h.kind \in {"eof", "close"} => Finished(ch[y]) /\ Quiet(queue[x])
    BY <1>1, <1>3, <1>5, QuietTail
  <1>7. c.ostate \in {"open", "drain", "closed"}
    BY <1>3 DEF ChannelSet, Stage
  <1>8. /\ ch'[x].type = "open" /\ ch'[x].input = c.input /\ ch'[x].istate = d.istate
        /\ ch'[x].ostate = d.ostate /\ ch'[x].output = d.output
        /\ ch'[y] = ch[y] /\ queue'[x] = rest /\ queue'[y] = queue[y] \o d.sends
        /\ d.sends \in Seq(MessageSet)
    <2>1. /\ SameIn(d, ch'[x]) /\ SameOut(d, ch'[x]) /\ ch'[x].type = d.type
          /\ ch'[x].istate = d.istate /\ ch'[x].ostate = d.ostate
          /\ ch'[y] = ch[y] /\ queue'[x] = rest /\ queue'[y] = queue[y] \o d.sends
          /\ d.sends \in Seq(MessageSet)
      <3>1. StateTypes /\ d \in ChannelSet /\ rest \in Seq(MessageSet) /\ Apply(x, d, rest)
        BY <1>1, <1>2, <1>3
      <3> HIDE DEF rest
      <3> QED BY <3>1, ApplyKeeps, Zenon
    <2> QED BY <1>2, <2>1 DEF SameIn, SameOut
  <1>9. Conveys(y, d.sends)
    <2>1. Quiet(d.sends) /\ (HasEnd(d.sends) => h.kind = "close" /\ d.istate = "closed")
      <3>1. m \in MessageSet /\ m.kind = "eof"
        BY MessageTypes
      <3> HIDE DEF m
      <3> QED BY <1>2, <3>1, SaysOne
    <2>2. /\ Finished(c) <=> c.istate = "closed"
          /\ Finished(ch'[x]) <=> d.istate = "closed"
      BY <1>1, <1>8 DEF Finished
    <2>3. Says(c, ch'[x], d.sends)
      BY <1>2, <2>1, <2>2 DEF Says
    <2>4. h.kind = "close" => ToStream(y) # "open"
      BY <1>1, CloseComes
    <2>5. ToStream(y) = "open" /\ Finished(ch'[x]) => ch'[x].input = <<>>
      BY <1>2, <1>5, <1>8, <2>2, <2>4
    <2>6. /\ c.input \o Run(nread[x], nread'[x]) = c.input
          /\ nread'[x] = nread[x] /\ nread[x] <= nread[x] /\ ~ (nread[x] < nread[x])
      <3>1. nread'[x] = nread[x] /\ nread[x] <= nread[x] /\ ~ (nread[x] < nread[x])
        BY <1>1, <1>3
      <3>2. c.input \o Run(nread[x], nread[x]) = c.input
        <4> DEFINE n == nread[x]
        <4>1. n \in Nat
          BY <1>3
        <4> HIDE DEF n, c
        <4>2. c.input \o Run(n, n) = c.input
          BY <1>3, <4>1, RunOfNothing
        <4> QED BY <4>2 DEF n
      <3> QED BY <3>1, <3>2
    <2> HIDE DEF c, y, h
    <2> QED BY <1>3, <1>8, <2>1, <2>3, <2>5, <2>6 DEF Conveys, c
  <1>10. /\ ToStream(x) = IF app[x] = "reset" THEN "broken"
                          ELSE IF c.ostate = "closed" THEN "ended" ELSE "open"
         /\ ToStream(x)' = IF app[x] = "reset" THEN "broken"
                           ELSE IF d.ostate = "closed" THEN "ended" ELSE "open"
    BY <1>1, <1>8 DEF ToStream, Gone
  <1>11. Receives(x)
    <2>1. /\ d.ostate = "drain" => Finished(ch[y]) /\ Quiet(rest)
          /\ d.ostate = "closed" /\ app[x] # "reset" => Finished(ch[y])
      BY <1>2, <1>4, <1>5, <1>6
    <2> SUFFICES Idles(x) \/ TakesData(x) \/ EndsData(x)
      BY <1>1, <1>8, <2>1 DEF Receives
    <2> HIDE DEF c, h, rest, y
    <2>2. CASE h.kind = "data"
      <3>1. ToStream(x) = "open" => d.output = c.output \o h.bytes
        BY <1>2, <1>5, <1>6, <1>7, <1>10, <2>2
      <3>2. ToStream(x)' = ToStream(x)
        BY <1>2, <1>10, <2>2
      <3>3. TakesData(x)
        BY <1>1, <1>8, <2>2, <3>1, <3>2 DEF TakesData, c, h, rest
      <3> QED BY <3>3
    <2>3. CASE h.kind # "data" /\ ToStream(x)' = ToStream(x)
      <3>1. d.output = c.output
        BY <1>2, <1>4, <2>3
      <3>2. Idles(x)
        BY <1>1, <1>8, <2>3, <3>1 DEF Idles, c, h, rest
      <3> QED BY <3>2
    <2>4. CASE h.kind # "data" /\ ToStream(x)' # ToStream(x)
      <3>1. /\ ToStream(x) = "open" /\ ToStream(x)' = "ended"
            /\ h.kind \in {"eof", "close"} /\ c.output = <<>>
        BY <1>2, <1>4, <1>10, <2>4
      <3>2. Quiet(queue[x]) /\ ch[y].input = <<>>
        BY <1>5, <1>6, <3>1
      <3>3. EndsData(x)
        BY <1>1, <1>8, <3>1, <3>2 DEF EndsData, c, h, rest, y
      <3> QED BY <3>3
    <2> QED BY <2>2, <2>3, <2>4
  <1>12. ch'[y] = ch[y] /\ nread'[y] = nread[y] /\ delivered'[y] = delivered[y]
    BY <1>1, <1>8
  <1> QED BY <1>1, <1>3, <1>9, <1>11, <1>12, StreamResultIs
-----------------------------------------------------------------------------
(* The handshake: nothing is buffered at an end that is not open.          *)
Plain(c) ==
    /\ c \in ChannelSet /\ c.istate = "open" /\ c.ostate = "open"
    /\ c.input = <<>> /\ c.output = <<>>
    /\ c.sends \in Seq(MessageSet) /\ Quiet(c.sends) /\ ~ HasEnd(c.sends)

LEMMA PlainNew ==
    ASSUME NEW t \in Types
    PROVE  Plain(NewChannel(t)) /\ NewChannel(t).sends = <<>> /\ NewChannel(t).type = t
  <1> DEFINE n == NewChannel(t)
  <1>1. n \in ChannelSet /\ n.sends = <<>> /\ n.type = t
    BY NewTypes
  <1>2. n.istate = "open" /\ n.ostate = "open" /\ n.input = <<>> /\ n.output = <<>>
    BY DEF NewChannel
  <1> HIDE DEF n
  <1>3. Quiet(n.sends) /\ ~ HasEnd(n.sends)
    BY <1>1, SaysOne
  <1>4. n.sends \in Seq(MessageSet)
    BY <1>1 DEF ChannelSet
  <1>5. Plain(n) /\ n.sends = <<>> /\ n.type = t
    BY <1>1, <1>2, <1>3, <1>4 DEF Plain
  <1> QED BY <1>5 DEF n

LEMMA PlainSends ==
    ASSUME NEW c, Plain(c), c.sends = <<>>, NEW m \in MessageSet,
           m.kind \notin {"data", "eof", "close"}, NEW d, d = Send(c, m)
    PROVE  Plain(d) /\ d.type = c.type /\ d.sends = <<m>>
  <1>1. c \in ChannelSet
    BY DEF Plain
  <1>2. /\ d \in ChannelSet /\ SameIn(c, d) /\ SameOut(c, d)
        /\ d.type = c.type /\ d.istate = c.istate /\ d.ostate = c.ostate
        /\ d.sends = Append(c.sends, m)
    BY <1>1, SendKeeps
  <1>3. Append(<<>>, m) = <<m>>
    OBVIOUS
  <1>4. d.sends = <<m>>
    BY <1>2, <1>3
  <1>5. Quiet(d.sends) /\ ~ HasEnd(d.sends)
    BY <1>4, SaysOne
  <1>6. d.sends \in Seq(MessageSet)
    BY <1>2 DEF ChannelSet
  <1> QED BY <1>2, <1>4, <1>5, <1>6 DEF Plain, SameIn, SameOut

LEMMA PlainType ==
    ASSUME NEW c, Plain(c), NEW t \in Types, NEW n \in Nat, NEW d,
           \/ d = [c EXCEPT !.type = t]
           \/ d = [c EXCEPT !.rwin = n]
           \/ d = [c EXCEPT !.type = t, !.rwin = n]
    PROVE  Plain(d) /\ d.sends = c.sends
  <1>1. /\ c \in ChannelSet /\ c.istate = "open" /\ c.ostate = "open"
        /\ c.input = <<>> /\ c.output = <<>>
        /\ c.sends \in Seq(MessageSet) /\ Quiet(c.sends) /\ ~ HasEnd(c.sends)
    BY DEF Plain
  <1>2. /\ d \in ChannelSet /\ d.istate = "open" /\ d.ostate = "open"
        /\ d.input = <<>> /\ d.output = <<>> /\ d.sends = c.sends
    BY <1>1 DEF ChannelSet
  <1> QED BY <1>1, <1>2 DEF Plain

LEMMA PlainFree ==
    ASSUME NEW c, Plain(c)
    PROVE  Plain(Free(c)) /\ Free(c).type = "freed" /\ Free(c).sends = c.sends
  <1> DEFINE f == NewChannel("freed")
             d == [f EXCEPT !.sends = c.sends]
  <1>1. c.sends \in Seq(MessageSet) /\ Quiet(c.sends) /\ ~ HasEnd(c.sends)
    BY DEF Plain
  <1>2. /\ f \in ChannelSet /\ f.istate = "open" /\ f.ostate = "open"
        /\ f.input = <<>> /\ f.output = <<>> /\ f.type = "freed"
    BY PlainNew DEF Types, Plain
  <1> HIDE DEF f
  <1>3. /\ d \in ChannelSet /\ d.istate = "open" /\ d.ostate = "open"
        /\ d.input = <<>> /\ d.output = <<>> /\ d.type = "freed" /\ d.sends = c.sends
    BY <1>1, <1>2 DEF ChannelSet
  <1> HIDE DEF d
  <1>4. Plain(d) /\ d.type = "freed" /\ d.sends = c.sends
    BY <1>1, <1>3 DEF Plain
  <1> QED BY <1>4 DEF Free, d, f

LEMMA PlainState ==
    ASSUME StateTypes, WindowInv, NEW x \in Peers, ch[x].type # "open"
    PROVE  Plain(ch[x]) /\ ch[x].sends = <<>>
  <1>1. Fresh(ch[x]) /\ ch[x].sends = <<>> /\ ch[x].type \in Types
    BY DEF WindowInv, StateTypes, ChannelSet
  <1>2. CASE ch[x].type = "connecting"
    <2> DEFINE n == NewChannel("connecting")
    <2>1. ch[x] = [n EXCEPT !.rwin = Window]
      BY <1>1, <1>2 DEF Fresh
    <2>2. Plain(n)
      BY PlainNew DEF Types
    <2> HIDE DEF n
    <2>3. Window \in Nat /\ "none" \in Types
      BY SizeAssumption DEF Types
    <2> DEFINE c == ch[x]
    <2>4. Plain(n) /\ "none" \in Types /\ Window \in Nat /\ c = [n EXCEPT !.rwin = Window]
      BY <2>1, <2>2, <2>3
    <2> HIDE DEF c
    <2>5. Plain(c)
      BY <2>4, PlainType, Zenon
    <2> QED BY <1>1, <2>5 DEF c
  <1>3. CASE ch[x].type # "connecting"
    <2>1. ch[x] = NewChannel(ch[x].type)
      BY <1>1, <1>3 DEF Fresh, Types
    <2> QED BY <1>1, <2>1, PlainNew
  <1> QED BY <1>2, <1>3

(* A turn of the handshake.                                                *)
LEMMA HandshakeStream ==
    ASSUME IInv, WindowInv, StreamInv, NEW x \in Peers, ch[x].type # "open",
           NEW d, Plain(d), NEW rest, Apply(x, d, rest),
           \/ rest = queue[x]
           \/ queue[x] # <<>> /\ Head(queue[x]).kind # "data" /\ rest = Tail(queue[x]),
           Gone(x) => d.type \in {"zombie", "freed"},
           d.type \in {"zombie", "freed"} =>
               Gone(x) \/ (Quiet(queue[x]) /\ ch[Peer(x)].input = <<>>),
           nread' = nread, app' = app, delivered' = delivered
    PROVE  StreamResult
  <1> DEFINE c == ch[x]
             y == Peer(x)
  <1>1. /\ StateTypes /\ y \in Peers /\ Peer(y) = x /\ queue[x] \in Seq(MessageSet)
        /\ nread[x] \in Nat /\ nread[x] <= Bytes[x]
    BY TwoPeers DEF IInv, StateTypes, WindowInv, Sourced
  <1>2. /\ c.istate = "open" /\ c.ostate = "open" /\ c.input = <<>> /\ c.output = <<>>
    BY <1>1, PlainState DEF Plain
  <1>3. /\ d \in ChannelSet /\ d.istate = "open" /\ d.ostate = "open"
        /\ d.input = <<>> /\ d.output = <<>>
        /\ d.sends \in Seq(MessageSet) /\ Quiet(d.sends) /\ ~ HasEnd(d.sends)
    BY DEF Plain
  <1>4. rest \in Seq(MessageSet)
    BY <1>1, SumsOfTail
  <1>5. /\ ch'[x].type = d.type /\ ch'[x].input = <<>> /\ ch'[x].istate = "open"
        /\ ch'[x].ostate = "open" /\ ch'[x].output = <<>>
        /\ ch'[y] = ch[y] /\ queue'[x] = rest /\ queue'[y] = queue[y] \o d.sends
    <2>1. /\ SameIn(d, ch'[x]) /\ SameOut(d, ch'[x]) /\ ch'[x].type = d.type
          /\ ch'[x].istate = d.istate /\ ch'[x].ostate = d.ostate
          /\ ch'[y] = ch[y] /\ queue'[x] = rest /\ queue'[y] = queue[y] \o d.sends
      BY <1>1, <1>3, <1>4, ApplyKeeps, Zenon
    <2> QED BY <1>3, <2>1 DEF SameIn, SameOut
  <1>6. Conveys(y, d.sends)
    <2>1. Says(c, ch'[x], d.sends)
      BY <1>2, <1>3, <1>5 DEF Says, Finished, Gone
    <2>2. /\ nread'[x] = nread[x] /\ nread[x] <= nread[x] /\ ~ (nread[x] < nread[x])
      BY <1>1
    <2>3. <<>> = <<>> \o Run(nread[x], nread[x])
      <3> DEFINE n == nread[x]
                 e == <<>>
      <3>1. n \in Nat /\ e \in Seq(Nat)
        BY <1>1
      <3> HIDE DEF n, e
      <3>2. e = e \o Run(n, n)
        BY <3>1, RunOfNothing
      <3> QED BY <3>2 DEF n, e
    <2> HIDE DEF c
    <2> QED BY <1>1, <1>2, <1>3, <1>5, <2>1, <2>2, <2>3 DEF Conveys, c
  <1>7. /\ ToStream(x) = IF app[x] = "reset" THEN "broken"
                         ELSE IF Gone(x) THEN "ended" ELSE "open"
        /\ ToStream(x)' = IF app[x] = "reset" THEN "broken"
                          ELSE IF d.type \in {"zombie", "freed"} THEN "ended" ELSE "open"
    BY <1>2, <1>5 DEF ToStream, Gone
  <1>8. Receives(x)
    <2> SUFFICES Idles(x) \/ EndsData(x)
      BY <1>5 DEF Receives
    <2>1. CASE ToStream(x)' = ToStream(x)
      <3>1. Idles(x)
        BY <1>2, <1>5, <2>1 DEF Idles
      <3> QED BY <3>1
    <2>2. CASE ToStream(x)' # ToStream(x)
      <3>1. /\ ToStream(x) = "open" /\ ToStream(x)' = "ended"
            /\ Quiet(queue[x]) /\ ch[y].input = <<>>
        BY <1>7, <2>2
      <3>2. EndsData(x)
        BY <1>2, <1>5, <3>1 DEF EndsData
      <3> QED BY <3>2
    <2> QED BY <2>1, <2>2
  <1> QED BY <1>1, <1>5, <1>6, <1>8, StreamResultIs

LEMMA AcceptStream ==
    ASSUME IInv, WindowInv, StreamInv, NEW x \in Peers, AcceptConnection(x)
    PROVE  StreamResult
  <1> DEFINE n == NewChannel("opening")
             m == Message("open")
             d == Send(n, m)
  <1>1. /\ ch[x].type = "none" /\ Apply(x, d, queue[x])
        /\ nread' = nread /\ app' = app /\ delivered' = delivered
    BY DEF AcceptConnection
  <1>2. Plain(n) /\ n.sends = <<>> /\ n.type = "opening"
    BY PlainNew DEF Types
  <1>3. m \in MessageSet /\ m.kind = "open"
    BY MessageTypes
  <1> HIDE DEF n, m
  <1>4. Plain(d) /\ d.type = "opening"
    BY <1>2, <1>3, PlainSends
  <1>5. ~ Gone(x)
    BY <1>1 DEF Gone
  <1> HIDE DEF d
  <1> DEFINE rest == queue[x]
  <1>6. Apply(x, d, rest) /\ rest = queue[x]
    BY <1>1
  <1> HIDE DEF rest
  <1> QED BY <1>1, <1>4, <1>5, <1>6, HandshakeStream

LEMMA InputOpenStream ==
    ASSUME IInv, WindowInv, StreamInv, NEW x \in Peers, InputOpen(x)
    PROVE  StreamResult
  <1> DEFINE n == NewChannel("connecting")
             c == [n EXCEPT !.rwin = Window]
             f == NewChannel("freed")
             m == Message("failure")
             d == Send(f, m)
             rest == Tail(queue[x])
  <1>1. PICK e \in {c, d} : Dispatch(x, "open", e)
    BY DEF InputOpen
  <1>2. /\ Asked /\ x = Acceptor /\ Peer(x) = Opener
        /\ queue[x] # <<>> /\ Head(queue[x]).kind = "open" /\ Apply(x, e, rest)
    BY <1>1, DispatchQueue, NextMessage, TwoPeers DEF Asked
  <1>3. nread' = nread /\ app' = app /\ delivered' = delivered
    BY <1>1 DEF Dispatch
  <1>4. /\ ch[x].type = "none" /\ ~ Gone(x) /\ queue[x] = <<Message("open")>>
        /\ ch[Peer(x)].type = "opening" /\ Peer(x) \in Peers
    BY <1>2, TwoPeers DEF Asked, Gone
  <1>5. Quiet(queue[x]) /\ ch[Peer(x)].input = <<>>
    <2> DEFINE h == Message("open")
               y == Peer(x)
    <2>1. h \in MessageSet /\ h.kind = "open"
      BY MessageTypes
    <2> HIDE DEF h
    <2>2. Quiet(queue[x])
      BY <1>4, <2>1, SaysOne DEF h
    <2>3. y \in Peers /\ ch[y].type # "open" /\ StateTypes
      BY <1>4 DEF IInv
    <2> HIDE DEF y
    <2>4. ch[y].input = <<>>
      BY <2>3, PlainState DEF Plain
    <2> QED BY <2>2, <2>4 DEF y
  <1>6. Plain(e)
    <2>1. Plain(n) /\ Plain(f) /\ f.sends = <<>>
      BY PlainNew DEF Types
    <2>2. m \in MessageSet /\ m.kind = "failure"
      BY MessageTypes
    <2>3. Window \in Nat /\ "none" \in Types
      BY SizeAssumption DEF Types
    <2> HIDE DEF n, f, m
    <2>4. c = [n EXCEPT !.rwin = Window] /\ d = Send(f, m)
      OBVIOUS
    <2> HIDE DEF c, d
    <2>5. Plain(c)
      BY <2>1, <2>3, <2>4, PlainType, Zenon
    <2>6. Plain(d)
      BY <2>1, <2>2, <2>4, PlainSends
    <2> QED BY <2>5, <2>6
  <1>7. rest = Tail(queue[x])
    OBVIOUS
  <1>8. Head(queue[x]).kind # "data" /\ ch[x].type # "open"
    BY <1>2, <1>4
  <1> HIDE DEF rest, c, d
  <1> QED BY <1>2, <1>3, <1>4, <1>5, <1>6, <1>7, <1>8, HandshakeStream

LEMMA ConfirmationStream ==
    ASSUME IInv, WindowInv, StreamInv, NEW x \in Peers, InputOpenConfirmation(x)
    PROVE  StreamResult
  <1> DEFINE c == ch[x]
             d == [c EXCEPT !.type = "open", !.rwin = Window]
             rest == Tail(queue[x])
  <1>1. c.type = "opening" /\ Dispatch(x, "confirm", d)
    BY DEF InputOpenConfirmation
  <1>2. queue[x] # <<>> /\ Head(queue[x]).kind = "confirm" /\ Apply(x, d, rest)
    BY <1>1, DispatchQueue
  <1>3. nread' = nread /\ app' = app /\ delivered' = delivered
    BY <1>1 DEF Dispatch
  <1>4. Plain(c) /\ Window \in Nat /\ "open" \in Types
    BY <1>1, PlainState, SizeAssumption DEF IInv, Types
  <1>5. Plain(d)
    <2> DEFINE t == "open"
    <2>1. t \in Types /\ d = [c EXCEPT !.type = t, !.rwin = Window]
      BY <1>4
    <2> HIDE DEF t, d, c
    <2> QED BY <1>4, <2>1, PlainType, Zenon
  <1>6. d.type = "open"
    <2> HIDE DEF c
    <2> QED BY <1>4 DEF Plain, ChannelSet
  <1>7. ~ Gone(x) /\ Head(queue[x]).kind # "data" /\ ch[x].type # "open"
    BY <1>1, <1>2 DEF Gone
  <1>8. rest = Tail(queue[x]) /\ d.type \notin {"zombie", "freed"}
    BY <1>6
  <1> HIDE DEF rest, d, c
  <1> QED BY <1>2, <1>3, <1>5, <1>7, <1>8, HandshakeStream

LEMMA FailureStream ==
    ASSUME IInv, WindowInv, StreamInv, NEW x \in Peers, InputOpenFailure(x)
    PROVE  StreamResult
  <1> DEFINE c == ch[x]
             d == [c EXCEPT !.type = "zombie"]
             y == Peer(x)
             rest == Tail(queue[x])
  <1>1. c.type = "opening" /\ Dispatch(x, "failure", d)
    BY DEF InputOpenFailure
  <1>2. queue[x] # <<>> /\ Head(queue[x]).kind = "failure" /\ Apply(x, d, rest)
    BY <1>1, DispatchQueue
  <1>3. nread' = nread /\ app' = app /\ delivered' = delivered
    BY <1>1 DEF Dispatch
  <1>4. Plain(c) /\ StateTypes
    BY <1>1, PlainState DEF IInv
  <1>5. Plain(d)
    <2> DEFINE t == "zombie"
    <2>1. t \in Types /\ d = [c EXCEPT !.type = t] /\ 0 \in Nat
      BY DEF Types
    <2> HIDE DEF t, d, c
    <2> QED BY <1>4, <2>1, PlainType, Zenon
  <1>6. Refused /\ x = Opener /\ y = Acceptor /\ y \in Peers
    BY <1>2, NextMessage, TwoPeers
  <1>7. Quiet(queue[x]) /\ ch[y].input = <<>>
    <2> DEFINE h == Message("failure")
    <2>1. h \in MessageSet /\ h.kind = "failure"
      BY MessageTypes
    <2>2. queue[x] = <<h>> /\ ch[y].type = "freed"
      BY <1>6 DEF Refused
    <2> HIDE DEF h, y
    <2>3. Quiet(queue[x])
      BY <2>1, <2>2, SaysOne
    <2>4. ch[y].input = <<>>
      BY <1>4, <1>6, <2>2, PlainState DEF Plain
    <2> QED BY <2>3, <2>4
  <1>8. ~ Gone(x) /\ Head(queue[x]).kind # "data" /\ ch[x].type # "open"
    BY <1>1, <1>2 DEF Gone
  <1>9. rest = Tail(queue[x]) /\ ch[Peer(x)].input = <<>>
    BY <1>7
  <1> HIDE DEF rest, d, c, y
  <1> QED BY <1>2, <1>3, <1>5, <1>7, <1>8, <1>9, HandshakeStream

LEMMA ConnectingStream ==
    ASSUME IInv, WindowInv, StreamInv, NEW x \in Peers, PostConnecting(x)
    PROVE  StreamResult
  <1> DEFINE o == [ch[x] EXCEPT !.type = "open"]
             made == Connected(ch[x])
             z == [ch[x] EXCEPT !.type = "zombie"]
             refused == NotConnected(ch[x])
             rest == queue[x]
  <1>1. /\ ch[x].type = "connecting"
        /\ nread' = nread /\ app' = app /\ delivered' = delivered
        /\ StateTypes /\ ch[x] \in ChannelSet /\ ch[x].istate = "open"
    BY DEF PostConnecting, IInv, StateTypes, Regular
  <1>2. PICK c \in {made, refused, ch[x]} : Apply(x, Collect(c), queue[x])
    BY DEF PostConnecting
  <1>3. /\ Connecting /\ x = Acceptor /\ Peer(x) = Opener /\ Peer(x) \in Peers
        /\ queue[x] = <<>> /\ ch[Peer(x)].type = "opening"
    BY <1>1, TwoPeers DEF IInv, Idle, Asked, Connecting, Confirmed, Refused, Released, Established
  <1>4. Plain(ch[x]) /\ ch[x].sends = <<>>
    BY <1>1, PlainState
  <1>5. Quiet(queue[x]) /\ ch[Peer(x)].input = <<>>
    <2> DEFINE y == Peer(x)
    <2>1. y \in Peers /\ ch[y].type # "open"
      BY <1>3
    <2> HIDE DEF y
    <2>2. ch[y].input = <<>>
      BY <1>1, <2>1, PlainState DEF Plain
    <2> QED BY <1>3, <2>2, SaysOne DEF y
  <1>6. ~ Gone(x) /\ ch[x].type # "open" /\ 0 \in Nat
    BY <1>1 DEF Gone
  <1>7. CASE c = made
    <2> DEFINE m == Message("confirm")
               t == "open"
    <2>1. m \in MessageSet /\ m.kind = "confirm"
      BY MessageTypes
    <2>2. o.type = "open"
      BY <1>1 DEF ChannelSet
    <2>3. made = Send(o, m)
      BY DEF Connected
    <2>4. t \in Types /\ o = [ch[x] EXCEPT !.type = t]
      BY DEF Types
    <2> HIDE DEF o, m, t, made
    <2>5. Plain(o) /\ o.sends = <<>>
      BY <1>4, <1>6, <2>4, PlainType, Zenon
    <2>6. Plain(made) /\ made.type = "open"
      BY <2>1, <2>2, <2>3, <2>5, PlainSends
    <2>7. Collect(made) = made
      BY <2>6 DEF Collect, Plain
    <2>8. Apply(x, made, rest) /\ rest = queue[x] /\ made.type \notin {"zombie", "freed"}
      BY <1>2, <1>7, <2>6, <2>7
    <2> HIDE DEF rest
    <2> QED BY <1>1, <1>6, <2>6, <2>8, HandshakeStream
  <1>8. CASE c = refused
    <2> DEFINE m == Message("failure")
               t == "zombie"
               freed == Free(refused)
    <2>1. m \in MessageSet /\ m.kind = "failure"
      BY MessageTypes
    <2>2. z.type = "zombie"
      BY <1>1 DEF ChannelSet
    <2>3. refused = Send(z, m)
      BY DEF NotConnected
    <2>4. t \in Types /\ z = [ch[x] EXCEPT !.type = t]
      BY DEF Types
    <2> HIDE DEF z, m, t, refused
    <2>5. Plain(z) /\ z.sends = <<>>
      BY <1>4, <1>6, <2>4, PlainType, Zenon
    <2>6. Plain(refused) /\ refused.type = "zombie"
      BY <2>1, <2>2, <2>3, <2>5, PlainSends
    <2>7. Collect(refused) = freed
      BY <2>6 DEF Collect
    <2>8. Plain(freed)
      BY <2>6, PlainFree
    <2>9. Apply(x, freed, rest) /\ rest = queue[x]
      BY <1>2, <1>8, <2>7
    <2> HIDE DEF rest, freed
    <2> QED BY <1>1, <1>5, <1>6, <2>8, <2>9, HandshakeStream
  <1>9. CASE c = ch[x]
    <2>1. Collect(c) = ch[x]
      BY <1>1, <1>9 DEF Collect
    <2>2. ch' = ch /\ queue' = queue
      BY <1>1, <1>2, <2>1, SameStays
    <2> QED BY <1>1, <2>2, NothingStreams
  <1> QED BY <1>7, <1>8, <1>9

LEMMA PrepareTurnStream ==
    ASSUME IInv, WindowInv, StreamInv, NEW x \in Peers, Prepare(x)
    PROVE  StreamResult
  <1>1. PICK c \in {OutputPoll(ch[x]), ch[x]} : Apply(x, Collect(Pre(c)), queue[x])
    BY DEF Prepare
  <1>2. /\ nread' = nread /\ app' = app /\ delivered' = delivered
        /\ StateTypes /\ Regular(ch[x])
    BY DEF Prepare, IInv, StateTypes
  <1>3. CASE ch[x].type = "open"
    BY <1>3, PrepareStream
  <1>4. CASE ch[x].type = "zombie"
    <2> DEFINE f == Free(ch[x])
               rest == queue[x]
    <2>1. Collect(Pre(c)) = f
      BY <1>1, <1>4 DEF Collect, Pre, OutputPoll
    <2>2. Plain(f) /\ f.type = "freed"
      BY <1>2, <1>4, PlainState, PlainFree
    <2>3. Apply(x, f, rest) /\ rest = queue[x]
      BY <1>1, <2>1
    <2>4. Gone(x) /\ ch[x].type # "open" /\ f.type \in {"zombie", "freed"}
      BY <1>4, <2>2 DEF Gone
    <2> HIDE DEF f, rest
    <2> QED BY <1>2, <2>2, <2>3, <2>4, HandshakeStream
  <1>5. CASE ch[x].type \notin {"open", "zombie"}
    <2>1. Collect(Pre(c)) = ch[x]
      BY <1>1, <1>2, <1>5 DEF Collect, Pre, OutputPoll, Regular
    <2>2. ch' = ch /\ queue' = queue
      BY <1>1, <1>2, <2>1, SameStays
    <2> QED BY <1>2, <2>2, NothingStreams
  <1> QED BY <1>3, <1>4, <1>5

(* The application shuts its side down, or aborts.                         *)
LEMMA ApplicationStream ==
    ASSUME StreamInv, Places, NEW x \in Peers, Finish(x) \/ Reset(x)
    PROVE  StreamResult
  <1>1. /\ ch' = ch /\ queue' = queue /\ nread' = nread /\ delivered' = delivered
        /\ \E a \in {"finished", "reset"} :
             app' = [app EXCEPT ![x] = a] /\ (a = "finished" => app[x] = "open")
    BY DEF Finish, Reset
  <1>2. \A y \in Peers : app[y] = "reset" => app'[y] = "reset"
    BY <1>1 DEF Places
  <1>3. ASSUME NEW y \in Peers PROVE Streams(y)' /\ StreamStep(y)
    <2>1. Streams(y) /\ Peer(y) \in Peers
      BY TwoPeers DEF StreamInv
    <2>2. CASE app'[y] = "reset"
      <3>1. ToStream(y)' = "broken"
        BY <2>2 DEF ToStream
      <3>2. Streams(y)'
        BY <1>1, <2>1, <2>2, <3>1 DEF Streams, EndsLast, Finished, Quiet
      <3>3. StreamStep(y)
        BY <1>1, <3>1, StreamBreaks
      <3> QED BY <3>2, <3>3
    <2>3. CASE app'[y] # "reset"
      <3>1. app[y] # "reset"
        BY <1>2, <2>3
      <3>2. ToStream(y)' = ToStream(y)
        BY <1>1, <2>3, <3>1 DEF ToStream, Gone
      <3>3. Streams(y)'
        BY <1>1, <2>1, <2>3, <3>1, <3>2 DEF Streams, Stretch, EndsLast, Finished, Quiet
      <3>4. StreamStep(y)
        BY <1>1, <3>2, StreamStutters
      <3> QED BY <3>3, <3>4
    <2> QED BY <2>2, <2>3
  <1> QED BY <1>3 DEF StreamResult, StreamInv

LEMMA PostOpenStream ==
    ASSUME IInv, WindowInv, StreamInv, Texts, NEW x \in Peers, PostOpen(x)
    PROVE  StreamResult
  <1>1. /\ ch[x].type = "open" /\ Live(ch[x]) /\ ch[x].sends = <<>>
        /\ \E r \in Nat, w \in 0..Len(ch[x].output) : Posts(x, r, w)
    BY PostParts
  <1>2. app' = app
    BY DEF PostOpen
  <1> QED BY <1>1, <1>2, PostStream

(* Every step keeps the bytes of both directions in their places, and is a *)
(* step of Stream in each.                                                 *)
LEMMA NextStream ==
    ASSUME IInv, WindowInv, StreamInv, Texts, Places, [Next]_vars
    PROVE  StreamResult
  <1>1. ASSUME NEW x \in Peers, Input(x) PROVE StreamResult
    <2>1. CASE InputData(x) \/ InputWindowAdjust(x) \/ InputIeof(x) \/ InputOclose(x)
      BY <2>1, Handled, MessageStream
    <2> QED BY <1>1, <2>1, InputOpenStream, ConfirmationStream, FailureStream DEF Input
  <1>2. ASSUME NEW x \in Peers, Post(x) PROVE StreamResult
    <2>1. CASE PostIdle(x)
      BY <2>1, NothingStreams DEF PostIdle
    <2> QED BY <1>2, <2>1, AcceptStream, ConnectingStream, PostOpenStream DEF Post
  <1>3. CASE UNCHANGED vars
    BY <1>3, NothingStreams DEF vars
  <1> QED BY <1>1, <1>2, <1>3, PrepareTurnStream, ApplicationStream DEF Next

LEMMA TextsKept == Spec => []Texts
  <1>1. Init => Texts
    BY DEF Init, Texts
  <1>2. IInv /\ WindowInv /\ Texts /\ [Next]_vars => Texts'
    <2> SUFFICES ASSUME IInv, WindowInv, Texts, [Next]_vars PROVE Texts'
      OBVIOUS
    <2>1. ASSUME NEW x \in Peers, Input(x) \/ Prepare(x) \/ Finish(x) \/ Reset(x)
          PROVE  delivered' = delivered
      BY <2>1 DEF Input, InputOpen, InputOpenConfirmation, InputOpenFailure, InputData,
                  InputWindowAdjust, InputIeof, InputOclose, Dispatch, Prepare, Finish, Reset
    <2>2. ASSUME NEW x \in Peers, AcceptConnection(x) \/ PostConnecting(x) \/ PostIdle(x)
          PROVE  delivered' = delivered
      BY <2>2 DEF AcceptConnection, PostConnecting, PostIdle
    <2>3. ASSUME NEW x \in Peers, PostOpen(x) PROVE Texts'
      <3>1. PICK r \in Nat, w \in 0..Len(ch[x].output) : Posts(x, r, w)
        BY <2>3, PostParts
      <3> DEFINE part == SubSeq(ch[x].output, 1, w)
                 text == delivered[x]
      <3>2. part \in Seq(Nat) /\ text \in Seq(Nat)
        <4>1. ch[x].output \in Seq(Nat)
          BY DEF IInv, StateTypes, ChannelSet
        <4> QED BY <4>1, Parts DEF Texts
      <3>3. delivered' = [delivered EXCEPT ![x] = text \o part]
        BY <3>1 DEF Posts
      <3> HIDE DEF part, text
      <3>4. text \o part \in Seq(Nat)
        BY <3>2, ConcatProperties
      <3> QED BY <3>3, <3>4 DEF Texts
    <2> QED BY <2>1, <2>2, <2>3 DEF Next, Post, Texts, vars
  <1> QED BY <1>1, <1>2, TrafficCorrect, WindowCorrect, PTL DEF Spec

LEMMA InitStream ==
    ASSUME Init
    PROVE  StreamInv /\ AtAcceptor!Init /\ AtOpener!Init
  <1>1. \A y \in Peers : /\ ch[y] = NewChannel("none") /\ queue[y] = <<>> /\ nread[y] = 0
                         /\ delivered[y] = <<>> /\ app[y] = "open" /\ Peer(y) \in Peers
    BY TwoPeers DEF Init
  <1>2. /\ NewChannel("none").type = "none" /\ NewChannel("none").ostate = "open"
        /\ NewChannel("none").istate = "open"
        /\ NewChannel("none").input = <<>> /\ NewChannel("none").output = <<>>
    BY DEF NewChannel
  <1>3. \A y \in Peers : ToStream(y) = "open" /\ ~ Finished(ch[y])
    BY <1>1, <1>2 DEF ToStream, Gone, Finished
  <1>4. ASSUME NEW y \in Peers PROVE Streams(y)
    <2>1. Stretch(y)
      <3>1. Len(<<>>) = 0 /\ 0 \in Nat /\ 0 <= 0
        OBVIOUS
      <3>2. Run(0, 0) = <<>> /\ Chain(<<>>, 0, 0)
        BY <3>1, RunOfNothing, ChainOfNothing
      <3> QED BY <1>1, <1>2, <3>1, <3>2 DEF Stretch
    <2>2. EndsLast(queue[y], ch[Peer(y)])
      <3>1. Len(<<>>) = 0
        OBVIOUS
      <3> QED BY <1>1, <3>1 DEF EndsLast
    <2> QED BY <1>1, <1>2, <1>3, <2>1, <2>2 DEF Streams
  <1>5. AtAcceptor!Init /\ AtOpener!Init
    BY <1>1, <1>3, TwoPeers DEF AtAcceptor!Init, AtOpener!Init
  <1> QED BY <1>4, <1>5 DEF StreamInv

(* In each direction, what has been read and not delivered is buffered at  *)
(* one of the ends or on its way, in its order, and an end that has said   *)
(* that it is finished has sent all of it.                                 *)
THEOREM StreamCorrect == Spec => []StreamInv
  <1>1. Init => StreamInv
    BY InitStream
  <1>2. IInv /\ WindowInv /\ Texts /\ Places /\ StreamInv /\ [Next]_vars => StreamInv'
    BY NextStream DEF StreamResult
  <1> QED BY <1>1, <1>2, TrafficCorrect, WindowCorrect, TextsKept, PlacesKept, PTL DEF Spec

(* The bytes of the Opener's application reach that of the Acceptor in     *)
(* their order, and its end of file after all of them.                     *)
THEOREM AcceptorStream == Spec => StreamToAcceptor
  <1>1. Init => AtAcceptor!Init
    BY InitStream
  <1>2. IInv /\ WindowInv /\ Texts /\ Places /\ StreamInv /\ [Next]_vars =>
          [AtAcceptor!Next]_(AtAcceptor!vars)
    BY NextStream, TwoPeers DEF StreamResult, StreamStep
  <1> QED BY <1>1, <1>2, TrafficCorrect, WindowCorrect, TextsKept, PlacesKept, StreamCorrect, PTL
         DEF Spec, StreamToAcceptor, AtAcceptor!Spec

(* So do those of the Acceptor's application.                              *)
THEOREM OpenerStream == Spec => StreamToOpener
  <1>1. Init => AtOpener!Init
    BY InitStream
  <1>2. IInv /\ WindowInv /\ Texts /\ Places /\ StreamInv /\ [Next]_vars =>
          [AtOpener!Next]_(AtOpener!vars)
    BY NextStream, TwoPeers DEF StreamResult, StreamStep
  <1> QED BY <1>1, <1>2, TrafficCorrect, WindowCorrect, TextsKept, PlacesKept, StreamCorrect, PTL
         DEF Spec, StreamToOpener, AtOpener!Spec

(* Data that arrives is neither a bigger packet nor more than was          *)
(* announced: the branches of channel_input_data that drop it are never    *)
(* taken, and local_window never wraps around.                             *)
THEOREM DataAccepted == Spec => []ArrivingDataFits
  <1>1. ASSUME IInv, WindowInv, NEW x \in Peers,
               queue[x] # <<>>, Head(queue[x]).kind = "data"
        PROVE  Len(Head(queue[x]).bytes) <= MaxPacket /\ Len(Head(queue[x]).bytes) <= ch[x].lwin
    <2> DEFINE q == queue[x]
               m == Head(q)
    <2>1. q \in Seq(MessageSet) /\ q # <<>> /\ ch[x].lwin \in Int /\ m.kind = "data"
      BY <1>1 DEF IInv, StateTypes, ChannelSet
    <2>2. Sized(q) /\ DataOf(q) <= ch[x].lwin
      BY <1>1 DEF WindowInv, Balance
    <2> HIDE DEF q
    <2>3. m \in MessageSet /\ DataOf(q) = DataIn(m) + DataOf(Tail(q))
      BY <2>1, SumsOfTail
    <2>4. DataIn(m) = Len(m.bytes) /\ DataIn(m) \in Nat
      BY <2>1, <2>3, Carries
    <2>5. DataOf(Tail(q)) \in Nat /\ DataOf(q) \in Nat
      BY <2>1, SumsOfTail, SumsOfParts
    <2>6. m = q[1] /\ 1 \in 1..Len(q)
      BY <2>1
    <2>7. Len(m.bytes) <= MaxPacket
      BY <2>1, <2>2, <2>6 DEF Sized
    <2>8. Len(m.bytes) <= ch[x].lwin
      BY <2>1, <2>2, <2>3, <2>4, <2>5
    <2> QED BY <2>7, <2>8 DEF q
  <1>2. IInv /\ WindowInv => ArrivingDataFits
    BY <1>1 DEF ArrivingDataFits
  <1> QED BY <1>2, TrafficCorrect, WindowCorrect, PTL

(* The threshold of channel_check_window never leaves a sender without     *)
(* window for good, unless chan_write_failed has discarded a whole window  *)
(* at once: of FlowControl this is proved, and each direction implements   *)
(* it.                                                                     *)
THEOREM WindowComesBack == Spec => [](FlowAtAcceptor!NeverStuck /\ FlowAtOpener!NeverStuck)
  <1>1. FlowAtAcceptor!Sizes /\ FlowAtOpener!Sizes
    BY SizeAssumption DEF FlowAtAcceptor!Sizes, FlowAtOpener!Sizes
  <1>2. FlowAtAcceptor!Spec => []FlowAtAcceptor!NeverStuck
    BY <1>1, FlowAtAcceptor!SenderNotForgotten
  <1>3. FlowAtOpener!Spec => []FlowAtOpener!NeverStuck
    BY <1>1, FlowAtOpener!SenderNotForgotten
  <1> QED BY <1>2, <1>3, AcceptorFlow, OpenerFlow, PTL DEF FlowToAcceptor, FlowToOpener
=============================================================================
