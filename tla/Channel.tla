------------------------------ MODULE Channel ------------------------------
(***************************************************************************)
(* One forwarded connection: the SSH channel between the sshd of a gateway *)
(* Pod and the ssh of an agent that carries the bytes of an MQTT client to *)
(* the broker behind the agent, and back (channels.c, nchan.c).  The       *)
(* Opener has accepted a connection and asks for the channel; the Acceptor *)
(* connects to its own application, and from then on both ends run the     *)
(* same code: they read from their application into input, send what the   *)
(* window of the other end allows, buffer what arrives in output, write it *)
(* to their application and give the window back; each direction is shut   *)
(* down on its own, and an end is freed when CLOSE has been sent and       *)
(* received.                                                               *)
(*                                                                         *)
(* An end is a record, and the functions of nchan.c are operators from     *)
(* records to records that collect in "sends" the messages they send.      *)
(***************************************************************************)
EXTENDS Integers, SequencesExt

CONSTANTS
    Opener, Acceptor,
    Window,      \* local_window_max
    MaxPacket,   \* local_maxpacket
    Bytes,       \* Bytes[x]: how much the application of x writes at most
    MaxQueue     \* messages buffered before channel_output_poll is skipped

ASSUME SizeAssumption ==
    /\ Opener # Acceptor
    /\ Window \in Nat \ {0, 1} /\ MaxPacket \in 1..Window /\ MaxQueue \in Nat \ {0}
    /\ Bytes \in [{Opener, Acceptor} -> Nat]

Peers == {Opener, Acceptor}

Peer(x) == IF x = Opener THEN Acceptor ELSE Opener

VARIABLES
    ch,         \* ch[x]: the Channel structure of x
    queue,      \* queue[x]: the messages on their way to x
    phase,      \* phase[x]: where x is in its main loop
    app,        \* app[x]: what the application of x has done to its socket
    nread,      \* nread[x]: how many bytes x has read from its application
    delivered   \* delivered[x]: the bytes x has written to its application

vars == <<ch, queue, phase, app, nread, delivered>>

NewChannel(type) ==
    [type |-> type, istate |-> "open", ostate |-> "open", flags |-> {},
     input |-> <<>>, output |-> <<>>,
     lwin |-> Window, consumed |-> 0, rwin |-> 0, sends |-> <<>>]

Init ==
    /\ ch = [x \in Peers |-> NewChannel("none")]
    /\ queue = [x \in Peers |-> <<>>]
    /\ phase = [x \in Peers |-> "packets"]
    /\ app = [x \in Peers |-> "open"]
    /\ nread = [x \in Peers |-> 0]
    /\ delivered = [x \in Peers |-> <<>>]

-----------------------------------------------------------------------------
(* nchan.c                                                                 *)

Message(kind) == [kind |-> kind]
Data(bytes) == [kind |-> "data", bytes |-> bytes]
Adjust(n) == [kind |-> "adjust", n |-> n]

Send(c, m) == [c EXCEPT !.sends = Append(@, m)]

Flag(c, f) == [c EXCEPT !.flags = @ \union {f}]

Closing(c) == c.flags \intersect {"closeSent", "closeRcvd"} # {}

SendEof(c) == Flag(Send(c, Message("eof")), "eofSent")

SendClose(c) == Flag(Send(c, Message("close")), "closeSent")

ReadFailed(c) == [c EXCEPT !.istate = "drain"]

(* The input of a drained channel has been sent.                           *)
InputEmpty(c) ==
    [(IF "closeSent" \in c.flags THEN c ELSE SendEof(c)) EXCEPT !.istate = "closed"]

OutputEmpty(c) == [c EXCEPT !.ostate = "closed"]

WriteFailed(c) == [c EXCEPT !.ostate = "closed", !.output = <<>>]

(* Variant: the end of the input ends the output, with what is buffered.   *)
RcvdEofVariant(c) == WriteFailed(Flag(c, "eofRcvd"))

RcvdEof(c) ==
    LET d == [Flag(c, "eofRcvd") EXCEPT !.ostate = IF @ = "open" THEN "drain" ELSE @]
    IN  IF d.ostate = "drain" /\ d.output = <<>> THEN OutputEmpty(d) ELSE d

(* Variant: a CLOSE ends the output at once, with what is buffered.        *)
RcvdCloseVariant(c) ==
    LET d == [Flag(c, "closeRcvd") EXCEPT !.ostate = "closed", !.output = <<>>]
    IN  [(IF d.istate = "drain" THEN SendEof(d) ELSE d) EXCEPT !.istate = "closed"]

(* Variant: a CLOSE leaves the input to end by itself.                     *)
RcvdCloseLateVariant(c) ==
    [Flag(c, "closeRcvd") EXCEPT !.ostate = IF @ = "open" THEN "drain" ELSE @]

RcvdClose(c) ==
    LET d == [Flag(c, "closeRcvd") EXCEPT !.ostate = IF @ = "open" THEN "drain" ELSE @]
    IN  [(IF d.istate = "drain" THEN SendEof(d) ELSE d) EXCEPT !.istate = "closed"]

(* Variant: an end is freed as soon as it has sent its CLOSE.              *)
DeadVariant(c) == "closeSent" \in c.flags

(* chan_is_dead with do_send, and channel_free if it is.                   *)
Dead(c) == {"closeSent", "closeRcvd"} \subseteq c.flags

Free(c) == [NewChannel("freed") EXCEPT !.sends = c.sends]

Collect(c) ==
    IF c.type = "zombie" THEN Free(c)
    ELSE IF c.istate = "closed" /\ c.ostate = "closed"
    THEN LET d == IF "closeSent" \in c.flags THEN c ELSE SendClose(c)
         IN  IF Dead(d) THEN Free(d) ELSE d
    ELSE c

-----------------------------------------------------------------------------
(* channels.c: from the application to the other end.                      *)

(* Variant: what is sent is not taken off the window. *)
SendInputVariant(c) ==
    LET n == Min({Len(c.input), c.rwin, MaxPacket})
    IN  IF n = 0 THEN c
        ELSE [Send(c, Data(SubSeq(c.input, 1, n))) EXCEPT !.input = SubSeq(@, n + 1, Len(@))]

SendInput(c) ==
    LET n == Min({Len(c.input), c.rwin, MaxPacket})
    IN  IF n = 0 THEN c
        ELSE [Send(c, Data(SubSeq(c.input, 1, n))) EXCEPT
                 !.input = SubSeq(@, n + 1, Len(@)), !.rwin = @ - n]

OutputPoll(c) ==
    IF c.type # "open" \/ Closing(c) \/ c.istate = "closed" THEN c
    ELSE IF c.input # <<>> THEN SendInput(c)
    ELSE IF c.istate = "drain" THEN InputEmpty(c)
    ELSE c

WantsRead(c) == c.istate = "open" /\ Len(c.input) < c.rwin

WantsWrite(c) == c.ostate # "closed" /\ c.output # <<>>

(* The pre handler: the end of a drained output.  What it wants to poll    *)
(* for stays true until the post handler runs.                             *)
Pre(c) ==
    IF c.type = "open" /\ c.ostate = "drain" /\ c.output = <<>>
    THEN OutputEmpty(c) ELSE c

(* Variant: the bytes given back are not taken off the count.              *)
CheckWindowVariant(c) ==
    IF /\ c.type = "open" /\ ~Closing(c) /\ c.consumed > 0
       /\ Window - c.lwin > 3 * MaxPacket \/ c.lwin < Window \div 2
    THEN [Send(c, Adjust(c.consumed)) EXCEPT !.lwin = @ + c.consumed]
    ELSE c

(* channel_check_window: give back the window of what has been written.    *)
CheckWindow(c) ==
    IF /\ c.type = "open" /\ ~Closing(c) /\ c.consumed > 0
       /\ Window - c.lwin > 3 * MaxPacket \/ c.lwin < Window \div 2
    THEN [Send(c, Adjust(c.consumed)) EXCEPT !.lwin = @ + c.consumed, !.consumed = 0]
    ELSE c

-----------------------------------------------------------------------------
(* What a handler has made of the channel of x, and sent.                  *)
Apply(x, c, rest) ==
    /\ ch' = [ch EXCEPT ![x] = [c EXCEPT !.sends = <<>>]]
    /\ queue' = [queue EXCEPT ![x] = rest, ![Peer(x)] = @ \o c.sends]

(* A packet of x is dispatched.  All but window adjustments look the       *)
(* channel up, and disconnect if there is none.                            *)
Dispatch(x, kind, c) ==
    /\ phase[x] = "packets"
    /\ queue[x] # <<>> /\ Head(queue[x]).kind = kind
    /\ Apply(x, c, Tail(queue[x]))
    /\ UNCHANGED <<phase, app, nread, delivered>>

(* What channel_lookup finds; a zombie is there, but not public.           *)
Known(c) == c.type \in {"opening", "connecting", "open"}

(* The connection to the application is started, or cannot be.             *)
InputOpen(x) ==
    /\ ch[x].type = "none"
    /\ \/ Dispatch(x, "open", [NewChannel("connecting") EXCEPT !.rwin = Window])
       \/ Dispatch(x, "open", Send(NewChannel("freed"), Message("failure")))

InputOpenConfirmation(x) ==
    /\ ch[x].type = "opening"
    /\ Dispatch(x, "confirm", [ch[x] EXCEPT !.type = "open", !.rwin = Window])

InputOpenFailure(x) ==
    /\ ch[x].type = "opening"
    /\ Dispatch(x, "failure", [ch[x] EXCEPT !.type = "zombie"])

(* Variant: data for an output that has closed is dropped, not consumed.   *)
RcvdDataVariant(c, bytes) ==
    LET n == Len(bytes)
    IN  IF c.type # "open" THEN c
        ELSE IF c.ostate # "open" THEN [c EXCEPT !.lwin = @ - n]
        ELSE [c EXCEPT !.lwin = @ - n, !.output = @ \o bytes]

RcvdData(c, bytes) ==
    LET n == Len(bytes)
    IN  CASE c.type # "open" -> c
          [] c.type = "open" /\ c.ostate # "open" ->
               [c EXCEPT !.lwin = @ - n, !.consumed = @ + n]
          [] c.type = "open" /\ c.ostate = "open" /\ (n > MaxPacket \/ n > c.lwin) -> c
          [] OTHER -> [c EXCEPT !.lwin = @ - n, !.output = @ \o bytes]

InputData(x) ==
    /\ Known(ch[x])
    /\ Dispatch(x, "data", RcvdData(ch[x], Head(queue[x]).bytes))

InputWindowAdjust(x) ==
    Dispatch(x, "adjust",
        IF Known(ch[x]) THEN [ch[x] EXCEPT !.rwin = @ + Head(queue[x]).n] ELSE ch[x])

InputIeof(x) == Known(ch[x]) /\ Dispatch(x, "eof", RcvdEof(ch[x]))

InputOclose(x) == Known(ch[x]) /\ Dispatch(x, "close", RcvdClose(ch[x]))

-----------------------------------------------------------------------------
(* The rest of a turn of the main loop, up to poll: what is buffered is    *)
(* sent, unless much is still to be written, and the pre handlers run.     *)
Prepare(x) ==
    /\ phase[x] = "packets"
    /\ phase' = [phase EXCEPT ![x] = "poll"]
    /\ LET c == IF Len(queue[Peer(x)]) < MaxQueue THEN OutputPoll(ch[x]) ELSE ch[x]
       IN  Apply(x, Collect(Pre(c)), queue[x])
    /\ UNCHANGED <<app, nread, delivered>>

(* channel_post_port_listener: a connection is accepted.                   *)
AcceptConnection(x) ==
    /\ x = Opener /\ phase[x] = "poll" /\ ch[x].type = "none"
    /\ phase' = [phase EXCEPT ![x] = "packets"]
    /\ Apply(x, Send(NewChannel("opening"), Message("open")), queue[x])
    /\ UNCHANGED <<app, nread, delivered>>

(* channel_post_connecting: the connection is made, refused, or pending.   *)
Connected(c) == Send([c EXCEPT !.type = "open"], Message("confirm"))
NotConnected(c) == Send([c EXCEPT !.type = "zombie"], Message("failure"))

PostConnecting(x) ==
    /\ phase[x] = "poll" /\ ch[x].type = "connecting"
    /\ phase' = [phase EXCEPT ![x] = "packets"]
    /\ \E c \in {Connected(ch[x]), NotConnected(ch[x]), ch[x]} :
         Apply(x, Collect(c), queue[x])
    /\ UNCHANGED <<app, nread, delivered>>

(* channel_handle_rfd: n bytes are read, or the end of what there is.      *)
Ending(x) == app[x] # "open" /\ WantsRead(ch[x])

CanRead(x) ==
    IF ~WantsRead(ch[x]) \/ app[x] = "reset" THEN {0}
    ELSE {n \in 0..(ch[x].rwin - Len(ch[x].input)) : nread[x] + n <= Bytes[x]}

HandleRead(x, c, n) ==
    IF Ending(x) /\ n = 0 THEN ReadFailed(c)
    ELSE [c EXCEPT !.input = @ \o [i \in 1..n |-> nread[x] + i]]

(* channel_handle_wfd: n bytes are written, or the write fails.            *)
CanWrite(x) ==
    IF ~WantsWrite(ch[x]) \/ app[x] = "reset" THEN {0}
    ELSE 0..Len(ch[x].output)

(* Variant: a write that empties the buffer is not counted.                *)
HandleWriteVariant(x, c, n) ==
    IF WantsWrite(c) /\ app[x] = "reset" THEN WriteFailed(c)
    ELSE [c EXCEPT !.output = SubSeq(@, n + 1, Len(@)),
                   !.consumed = IF n = Len(c.output) THEN @ ELSE @ + n]

HandleWrite(x, c, n) ==
    IF WantsWrite(c) /\ app[x] = "reset" THEN WriteFailed(c)
    ELSE [c EXCEPT !.output = SubSeq(@, n + 1, Len(@)), !.consumed = @ + n]

PostOpen(x) ==
    /\ phase[x] = "poll" /\ ch[x].type = "open"
    /\ phase' = [phase EXCEPT ![x] = "packets"]
    /\ \E r \in CanRead(x), w \in CanWrite(x) :
         /\ nread' = [nread EXCEPT ![x] = @ + r]
         /\ delivered' = [delivered EXCEPT ![x] = @ \o SubSeq(ch[x].output, 1, w)]
         /\ LET c == CheckWindow(HandleWrite(x, HandleRead(x, ch[x], r), w))
            IN  Apply(x, Collect(c), queue[x])
    /\ UNCHANGED app

(* No handler, and nothing to do but to collect.                           *)
PostIdle(x) ==
    /\ phase[x] = "poll"
    /\ ch[x].type \in {"none", "opening", "freed"}
    /\ phase' = [phase EXCEPT ![x] = "packets"]
    /\ UNCHANGED <<ch, queue, app, nread, delivered>>

-----------------------------------------------------------------------------
(* The application shuts its side down, and goes on reading, or aborts.    *)
HasApplication(x) ==
    \/ ch[x].type = "open"
    \/ x = Opener /\ ch[x].type = "opening"

Finish(x) ==
    /\ HasApplication(x) /\ app[x] = "open"
    /\ app' = [app EXCEPT ![x] = "finished"]
    /\ UNCHANGED <<ch, queue, phase, nread, delivered>>

Reset(x) ==
    /\ HasApplication(x) /\ app[x] # "reset"
    /\ app' = [app EXCEPT ![x] = "reset"]
    /\ UNCHANGED <<ch, queue, phase, nread, delivered>>

Input(x) ==
    \/ InputOpen(x) \/ InputOpenConfirmation(x) \/ InputOpenFailure(x)
    \/ InputData(x) \/ InputWindowAdjust(x) \/ InputIeof(x) \/ InputOclose(x)

Post(x) == AcceptConnection(x) \/ PostConnecting(x) \/ PostOpen(x) \/ PostIdle(x)

Next == \E x \in Peers : Input(x) \/ Prepare(x) \/ Post(x) \/ Finish(x) \/ Reset(x)

Spec == Init /\ [][Next]_vars
(* The loops turn, and what has arrived is dispatched in every turn; a     *)
(* connection is made or refused in the end, and an application that has   *)
(* not aborted reads in the end what is written to it.                     *)
Fairness ==
    \A x \in Peers :
        /\ WF_vars(Prepare(x) \/ Post(x))
        /\ SF_vars(Input(x))
        /\ SF_vars(PostConnecting(x) /\ ch'[x].type # "connecting")
        /\ SF_vars(PostOpen(x) /\ delivered' # delivered)

FairSpec == Spec /\ Fairness
-----------------------------------------------------------------------------
Stage == {"open", "drain", "closed"}

TypeOK ==
    /\ \A x \in Peers :
         /\ ch[x].type \in {"none", "opening", "connecting", "open", "zombie", "freed"}
         /\ ch[x].istate \in Stage /\ ch[x].ostate \in Stage
         /\ ch[x].flags \subseteq {"eofSent", "eofRcvd", "closeSent", "closeRcvd"}
         /\ ch[x].lwin \in 0..Window /\ ch[x].rwin \in 0..Window
         /\ ch[x].consumed \in 0..Window
         /\ Len(ch[x].input) <= Window /\ Len(ch[x].output) <= Window
         /\ ch[x].sends = <<>>
    /\ phase \in [Peers -> {"packets", "poll"}]
    /\ app \in [Peers -> {"open", "finished", "reset"}]
    /\ \A x \in Peers : nread[x] \in 0..Bytes[x]

(* The refinement mappings, for the direction that ends in y.              *)
Gone(x) == ch[x].type \in {"zombie", "freed"}

ToStream(y) ==
    IF app[y] = "reset" THEN "broken"
    ELSE IF Gone(y) \/ ch[y].ostate = "closed" THEN "ended" ELSE "open"

AtAcceptor == INSTANCE Stream WITH
    Bytes <- Bytes[Opener], read <- nread[Opener],
    delivered <- delivered[Acceptor], state <- ToStream(Acceptor)

AtOpener == INSTANCE Stream WITH
    Bytes <- Bytes[Acceptor], read <- nread[Acceptor],
    delivered <- delivered[Opener], state <- ToStream(Opener)

(* Each direction is a stream: the shutdown of one side, a CLOSE that      *)
(* overtakes nothing but finds data still buffered, and the loop that      *)
(* skips channel_output_poll lose and reorder nothing (nchan.c,            *)
(* chan_rcvd_oclose and chan_ibuf_empty).                                  *)
StreamToAcceptor == AtAcceptor!Spec

StreamToOpener == AtOpener!Spec

(* The window of the direction that ends in y.  What was given away and is *)
(* neither buffered nor consumed has been lost.                            *)
Announced(y) ==
    \/ ch[y].type = "open"
    \/ y = Opener /\ ch[y].type = "opening"

ToFlow(y) ==
    IF \E x \in Peers : Gone(x) THEN "done"
    ELSE IF Announced(y) THEN "open" ELSE "closed"

WhenOpen(y, n) == IF ToFlow(y) = "open" THEN n ELSE 0

(* The sum of the numbers in w. *)
Total(w) ==
    LET sum[i \in 0..Len(w)] == IF i = 0 THEN 0 ELSE sum[i - 1] + w[i]
    IN  sum[Len(w)]

DataIn(m) == IF m.kind = "data" THEN Len(m.bytes) ELSE 0

WindowIn(m) ==
    CASE m.kind = "adjust" -> m.n
      [] m.kind \in {"open", "confirm"} -> Window
      [] OTHER -> 0

DataOf(q) == Total([i \in DOMAIN q |-> DataIn(q[i])])
WindowOf(q) == Total([i \in DOMAIN q |-> WindowIn(q[i])])

Rwin(y) == WhenOpen(y, ch[Peer(y)].rwin)
Flight(y) == WhenOpen(y, DataOf(queue[y]))
Credit(y) == WhenOpen(y, WindowOf(queue[Peer(y)]))
Lwin(y) == IF ToFlow(y) = "open" THEN ch[y].lwin ELSE Window
Buffered(y) == WhenOpen(y, Len(ch[y].output))
Consumed(y) == WhenOpen(y, ch[y].consumed)
Out(y) == IF ToFlow(y) = "open" THEN ch[y].ostate ELSE "open"
Lost(y) == Window - Lwin(y) - Buffered(y) - Consumed(y)

FlowAtAcceptor == INSTANCE FlowControl WITH
    state <- ToFlow(Acceptor), rwin <- Rwin(Acceptor),
    flight <- Flight(Acceptor), credit <- Credit(Acceptor),
    lwin <- Lwin(Acceptor), buffered <- Buffered(Acceptor),
    consumed <- Consumed(Acceptor), out <- Out(Acceptor), lost <- Lost(Acceptor)

FlowAtOpener == INSTANCE FlowControl WITH
    state <- ToFlow(Opener), rwin <- Rwin(Opener),
    flight <- Flight(Opener), credit <- Credit(Opener),
    lwin <- Lwin(Opener), buffered <- Buffered(Opener),
    consumed <- Consumed(Opener), out <- Out(Opener), lost <- Lost(Opener)

(* The window of each direction is the one whose accounting FlowControl    *)
(* proves: no byte of it is forgotten when data arrives for an output that *)
(* has closed (channels.c, channel_input_data), given back twice, or given *)
(* back before the data is written (channel_check_window).                 *)
FlowToAcceptor == FlowAtAcceptor!Spec

FlowToOpener == FlowAtOpener!Spec

(* No data is dropped as too big a packet or too much, and local_window    *)
(* never wraps around, not even for an output that has closed, where it is *)
(* not looked at (channels.c, channel_input_data): whatever was sent       *)
(* before the window was given back, the sender has counted it.            *)
ArrivingDataFits ==
    \A x \in Peers :
        ch[x].type = "open" /\ queue[x] # <<>> /\ Head(queue[x]).kind = "data" =>
            LET n == Len(Head(queue[x]).bytes)
            IN  n <= MaxPacket /\ n <= ch[x].lwin

(* A message other than a window adjustment is never for a channel that    *)
(* has been freed, or that is a zombie because it could not be opened: it  *)
(* would disconnect the whole session (channels.c, channel_lookup and      *)
(* channel_from_packet_id).  chan_is_dead must wait for the CLOSE of the   *)
(* other end and have sent its own, and the failure must be the last of    *)
(* its channel.                                                            *)
NoMessageForFreed ==
    \A x \in Peers :
        ch[x].type \in {"none", "zombie", "freed"} =>
            \A i \in DOMAIN queue[x] : queue[x][i].kind \in {"open", "adjust"}

(* Both windows are used up, and what they were used for was discarded     *)
(* when the applications aborted: neither end polls its connection again.  *)
Unnoticed ==
    \A x \in Peers :
        app[x] = "reset" /\ ch[x].istate = "open" /\ ch[x].ostate = "closed" /\ ch[x].rwin = 0

(* When both applications have closed their connections, whatever was on   *)
(* its way, both channels are freed; all but those whose applications have *)
(* both aborted without reading a whole window: chan_write_failed discards *)
(* it without giving it back, and channel_pre_open, which does not ask for *)
(* input without window, never notices the abort on either side.           *)
ChannelFreed ==
    (\A x \in Peers : app[x] # "open") ~>
        (\A x \in Peers : ch[x].type = "freed") \/ Unnoticed
=============================================================================
