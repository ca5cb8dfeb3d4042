---------------------------- MODULE FlowControl ----------------------------
(***************************************************************************)
(* The window of one direction of a channel, in numbers of bytes: the      *)
(* sender spends what it has been given, the receiver buffers what comes   *)
(* and gives back what it has written to its application.  Channel         *)
(* implements two of these; here the accounting is proved correct for      *)
(* every window and packet size.                                           *)
(***************************************************************************)
EXTENDS Integers, TLAPS

CONSTANTS Window, MaxPacket

(* What Channel assumes of its own sizes. *)
Sizes ==
    Window \in Nat \ {0, 1} /\ MaxPacket \in Nat \ {0} /\ MaxPacket <= Window

VARIABLES
    state,       \* "closed", "open", "done"
    rwin,        \* remote_window of the sender
    flight,      \* data on its way
    credit,      \* window on its way back
    lwin,        \* local_window of the receiver
    buffered,    \* output of the receiver
    consumed,    \* local_consumed of the receiver
    out,         \* output of the receiver: "open", "drain", "closed"
    lost         \* window of data that was discarded unwritten

vars == <<state, rwin, flight, credit, lwin, buffered, consumed, out, lost>>

Init ==
    /\ state = "closed"
    /\ rwin = 0 /\ flight = 0 /\ credit = 0
    /\ lwin = Window /\ buffered = 0 /\ consumed = 0
    /\ out = "open" /\ lost = 0

(* The receiver announces its window, with OPEN or OPEN_CONFIRMATION.      *)
Announce ==
    /\ state = "closed" /\ state' = "open"
    /\ credit' = Window
    /\ UNCHANGED <<rwin, flight, lwin, buffered, consumed, out, lost>>

(* Variant: only the packet size bounds what is sent.                      *)
SendDataVariant(n) ==
    /\ state = "open"
    /\ n <= MaxPacket
    /\ rwin' = IF n <= rwin THEN rwin - n ELSE 0
    /\ flight' = flight + n
    /\ UNCHANGED <<state, credit, lwin, buffered, consumed, out, lost>>

SendData(n) ==
    /\ state = "open"
    /\ n <= rwin /\ n <= MaxPacket
    /\ rwin' = rwin - n /\ flight' = flight + n
    /\ UNCHANGED <<state, credit, lwin, buffered, consumed, out, lost>>

ReceiveData(n) ==
    /\ state = "open" /\ out = "open" /\ n <= flight
    /\ flight' = flight - n /\ lwin' = lwin - n
    /\ buffered' = buffered + n
    /\ UNCHANGED <<state, rwin, credit, consumed, out, lost>>

(* Variant: ignored data is not counted as consumed.                       *)
IgnoreDataVariant(n) ==
    /\ state = "open" /\ out # "open" /\ n <= flight
    /\ flight' = flight - n /\ lwin' = lwin - n
    /\ UNCHANGED <<state, rwin, credit, buffered, consumed, out, lost>>

(* The output takes no more, and the data is taken for written.            *)
IgnoreData(n) ==
    /\ state = "open" /\ out # "open" /\ n <= flight
    /\ flight' = flight - n /\ lwin' = lwin - n
    /\ consumed' = consumed + n
    /\ UNCHANGED <<state, rwin, credit, buffered, out, lost>>

(* What is buffered is still written, but nothing more will be; an output  *)
(* that has been written is closed.                                        *)
ShutDown ==
    /\ state = "open" /\ out # "closed"
    /\ out' = "drain" \/ (out' = "closed" /\ buffered = 0)
    /\ UNCHANGED <<state, rwin, flight, credit, lwin, buffered, consumed, lost>>

(* A turn of the receiver's loop: w bytes are written to its application,  *)
(* and the window is given back if it has shrunk enough.                   *)
Due(w) ==
    /\ consumed + w > 0
    /\ Window - lwin > 3 * MaxPacket \/ lwin < Window \div 2

(* Variant: the bytes given back stay in the count.                        *)
GiveBackVariant(w, gives) ==
    /\ gives => Due(w)
    /\ credit' = IF gives THEN credit + consumed + w ELSE credit
    /\ lwin' = IF gives THEN lwin + consumed + w ELSE lwin
    /\ consumed' = consumed + w

GiveBack(w, gives) ==
    /\ gives => Due(w)
    /\ credit' = IF gives THEN credit + consumed + w ELSE credit
    /\ lwin' = IF gives THEN lwin + consumed + w ELSE lwin
    /\ consumed' = IF gives THEN 0 ELSE consumed + w

Write(w, gives) ==
    /\ state = "open" /\ w <= buffered
    /\ buffered' = buffered - w
    /\ GiveBack(w, gives)
    /\ UNCHANGED <<state, rwin, flight, out, lost>>

(* The application has gone: what is buffered is discarded, and never      *)
(* counts as consumed, and the output is closed.                           *)
Discard(gives) ==
    /\ state = "open" /\ out # "closed" /\ buffered > 0
    /\ buffered' = 0 /\ lost' = lost + buffered
    /\ out' = "closed"
    /\ GiveBack(0, gives)
    /\ UNCHANGED <<state, rwin, flight>>

ReceiveCredit(n) ==
    /\ state = "open" /\ n <= credit
    /\ credit' = credit - n /\ rwin' = rwin + n
    /\ UNCHANGED <<state, flight, lwin, buffered, consumed, out, lost>>

(* The channel of one of the ends is freed, or was never opened.           *)
End ==
    /\ state' = "done"
    /\ rwin' = 0 /\ flight' = 0 /\ credit' = 0
    /\ lwin' = Window /\ buffered' = 0 /\ consumed' = 0
    /\ out' = "open" /\ lost' = 0

Next ==
    \/ Announce \/ ShutDown \/ End
    \/ \E n \in 1..Window :
         SendData(n) \/ ReceiveData(n) \/ IgnoreData(n) \/ ReceiveCredit(n)
    \/ \E gives \in BOOLEAN : Discard(gives) \/ \E w \in 0..Window : Write(w, gives)

Spec == Init /\ [][Next]_vars
-----------------------------------------------------------------------------
TypeOK ==
    /\ state \in {"closed", "open", "done"} /\ out \in {"open", "drain", "closed"}
    /\ rwin \in 0..Window /\ lwin \in 0..Window
    /\ flight \in 0..Window /\ credit \in 0..Window
    /\ buffered \in 0..Window /\ consumed \in 0..Window /\ lost \in 0..Window

(* What the sender has spent or may spend is what the receiver has been    *)
(* given and not yet received.                                             *)
Spendable == state = "open" => rwin + flight + credit = lwin

Accounted == lwin + buffered + consumed + lost = Window

(* The receiver never gets more than its window (channels.c,               *)
(* channel_input_data, "rcvd too much data" and the data dropped), nor     *)
(* buffers more than it, whatever was sent before the window came back.    *)
WithinWindow ==
    /\ flight <= lwin
    /\ buffered + consumed + lost <= Window

(* A sender without window is not forgotten: either window or data is on   *)
(* its way, or the application has data to read, or the window is due back *)
(* in the next turn (channels.c, channel_check_window: the threshold).     *)
(* There is one exception, a whole window that was discarded at once when  *)
(* the application had gone (nchan.c, chan_write_failed); less will not do.*)
NeverStuck ==
    state = "open" /\ rwin = 0 =>
        \/ flight > 0 \/ credit > 0 \/ buffered > 0 \/ Due(0)
        \/ lost = Window /\ out = "closed"
-----------------------------------------------------------------------------
(* The accounting is inductive: every byte of window is with the sender,   *)
(* on its way, or with the receiver.                                       *)
IInv ==
    /\ state \in {"closed", "open", "done"}
    /\ rwin \in Nat /\ lwin \in Nat /\ flight \in Nat /\ credit \in Nat
    /\ buffered \in Nat /\ consumed \in Nat /\ lost \in Nat
    /\ out \in {"open", "drain", "closed"}
    /\ out = "closed" => buffered = 0
    /\ lost > 0 => out = "closed"
    /\ Spendable /\ Accounted
    /\ state # "open" =>
         rwin = 0 /\ flight = 0 /\ credit = 0 /\ lwin = Window
         /\ buffered = 0 /\ consumed = 0 /\ lost = 0 /\ out = "open"

(* The accounting is an invariant of every window (channels.c, all places  *)
(* that change local_window, local_consumed and remote_window).            *)
LEMMA Accounting ==
    ASSUME Sizes PROVE Spec => []IInv
<1> USE DEF Sizes
<1>1. Init => IInv
  BY DEF Init, IInv, Spendable, Accounted
<1>2. IInv /\ [Next]_vars => IInv'
  <2> SUFFICES ASSUME IInv, [Next]_vars PROVE IInv'
    OBVIOUS
  <2> USE DEF IInv, Spendable, Accounted
  <2>1. CASE Announce
    BY <2>1 DEF Announce
  <2>2. CASE End
    BY <2>2 DEF End
  <2>3. ASSUME NEW n \in 1..Window, SendData(n) PROVE IInv'
    BY <2>3 DEF SendData
  <2>4. ASSUME NEW n \in 1..Window, ReceiveData(n) PROVE IInv'
    BY <2>4 DEF ReceiveData
  <2>5. ASSUME NEW n \in 1..Window, IgnoreData(n) PROVE IInv'
    BY <2>5 DEF IgnoreData
  <2>6. ASSUME NEW n \in 1..Window, ReceiveCredit(n) PROVE IInv'
    BY <2>6 DEF ReceiveCredit
  <2>7. ASSUME NEW w \in 0..Window, NEW gives \in BOOLEAN, Write(w, gives)
        PROVE  IInv'
    <3>1. CASE gives
      BY <2>7, <3>1 DEF Write, GiveBack
    <3>2. CASE ~gives
      BY <2>7, <3>2 DEF Write, GiveBack
    <3> QED BY <3>1, <3>2
  <2>9. ASSUME NEW gives \in BOOLEAN, Discard(gives) PROVE IInv'
    <3>1. CASE gives
      BY <2>9, <3>1 DEF Discard, GiveBack
    <3>2. CASE ~gives
      BY <2>9, <3>2 DEF Discard, GiveBack
    <3> QED BY <3>1, <3>2
  <2>10. CASE ShutDown
    BY <2>10 DEF ShutDown
  <2>8. CASE UNCHANGED vars
    BY <2>8 DEF vars
  <2> QED
    BY <2>1, <2>2, <2>3, <2>4, <2>5, <2>6, <2>7, <2>8, <2>9, <2>10 DEF Next
<1> QED
  BY <1>1, <1>2, PTL DEF Spec

(* Each count stays within the window, so that the u_int arithmetic of     *)
(* channels.c never wraps around.                                          *)
THEOREM TypeCorrect ==
    ASSUME Sizes PROVE Spec => []TypeOK
<1>1. IInv => TypeOK
  BY DEF Sizes, IInv, Spendable, Accounted, TypeOK
<1> QED
  BY <1>1, Accounting, PTL

(* No data is ever dropped for being more than the window (channels.c,     *)
(* channel_input_data), whatever the sizes of window and packets.          *)
THEOREM DataFits ==
    ASSUME Sizes PROVE Spec => []WithinWindow
<1>1. IInv => WithinWindow
  BY DEF Sizes, IInv, Spendable, Accounted, WithinWindow
<1> QED
  BY <1>1, Accounting, PTL

(* The threshold of channel_check_window cannot starve the sender,         *)
(* whatever was discarded, short of a whole window (nchan.c,               *)
(* chan_write_failed).                                                     *)
THEOREM SenderNotForgotten ==
    ASSUME Sizes PROVE Spec => []NeverStuck
<1>1. IInv => NeverStuck
  BY DEF Sizes, IInv, Spendable, Accounted, NeverStuck, Due
<1> QED
  BY <1>1, Accounting, PTL
=============================================================================
