------------------------------ MODULE Startups ------------------------------
(***************************************************************************)
(* The listening sshd of a gateway Pod (sshd.c, server_accept_loop;        *)
(* srclimit.c): it forks a child for each connection, counts those that    *)
(* have not authenticated by the pipes they hold open, drops connections   *)
(* beyond MaxStartups, and on SIGHUP closes its sockets, waits until every *)
(* child has its configuration, and executes itself again.                 *)
(*                                                                         *)
(* A client that was dropped or whose session is over may connect again.   *)
(***************************************************************************)
EXTENDS Naturals, FiniteSets

CONSTANTS
    Clients,          \* the clients, each with one connection at a time
    Sources, Source,  \* their addresses, masked as srclimit.c does
    Begin, Full,      \* max_startups_begin, max_startups
    AlwaysDrop,       \* max_startups_rate is 100
    PerSource,        \* per_source_max_startups, or NoLimit
    NoLimit, NoFd, NoClient, Closed,
    MaxHups, MaxFailures    \* bounds on SIGHUPs and failing system calls

ASSUME LimitAssumption ==
    /\ Begin \in Nat /\ Full \in Nat \ {0} /\ Begin <= Full
    /\ AlwaysDrop \in BOOLEAN
    /\ PerSource \in Nat \ {0} \/ PerSource = NoLimit
    /\ NoLimit \notin Nat /\ NoFd \notin Nat
    /\ Source \in [Clients -> Sources]
    /\ {NoClient, Closed} \cap Clients = {} /\ NoClient # Closed

Slots == 1..Full
Fds == 1..(Full + 1)
NoEntry == [id |-> NoFd, source |-> NoClient]

VARIABLES
    conn,        \* conn[c]: the state of the client's connection
    pipes,       \* startup_pipes
    flags,       \* startup_flags
    startups, listening, lameduck,
    hup,         \* received_sighup
    end,         \* end[f]: the child that holds the other end of pipe f
    ready,       \* ready[f]: a byte is in the pipe
    child,       \* the table of srclimit.c
    leaks,       \* failed socketpairs, of which the table was not told
    hups, failures

listener == <<pipes, flags, startups, listening, lameduck, hup, child, leaks>>
bounds == <<hups, failures>>
vars == <<conn, listener, end, ready, bounds>>

Init ==
    /\ conn = [c \in Clients |-> "none"]
    /\ pipes = [i \in Slots |-> NoFd]
    /\ flags = [i \in Slots |-> FALSE]
    /\ startups = 0 /\ listening = 0 /\ lameduck = FALSE /\ hup = FALSE
    /\ end = [f \in Fds |-> NoClient]
    /\ ready = [f \in Fds |-> FALSE]
    /\ child = [i \in Slots |-> NoEntry]
    /\ leaks = 0
    /\ hups = 0 /\ failures = 0

Least(S) == CHOOSE i \in S : \A j \in S : i <= j

-----------------------------------------------------------------------------
(* srclimit.c                                                              *)
Entries(s) == {i \in Slots : child[i].id # NoFd /\ child[i].source = s}
Unused == {i \in Slots : child[i].id = NoFd}

(* Variant: the limit itself is allowed. *)
SourceAllowedVariant(s) ==
    PerSource # NoLimit => Unused # {} /\ Cardinality(Entries(s)) <= PerSource

SourceAllowed(s) ==
    PerSource # NoLimit => Unused # {} /\ Cardinality(Entries(s)) < PerSource

(* srclimit_check_allow of a source that is allowed.                       *)
Note(s, f) ==
    IF PerSource = NoLimit THEN child
    ELSE [child EXCEPT ![Least(Unused)] = [id |-> f, source |-> s]]

(* srclimit_done: the first entry of that number.                          *)
Forget(f) ==
    LET found == {i \in Slots : child[i].id = f}
    IN  IF found = {} THEN child ELSE [child EXCEPT ![Least(found)] = NoEntry]

-----------------------------------------------------------------------------
(* The listener.                                                           *)
Connect(c) ==
    /\ conn[c] = "none" /\ ~lameduck
    /\ conn' = [conn EXCEPT ![c] = "waiting"]
    /\ UNCHANGED <<listener, end, ready, bounds>>

(* should_drop_connection: what it may answer.                             *)
ShouldDrop ==
    IF startups < Begin THEN {FALSE}
    ELSE IF startups >= Full \/ AlwaysDrop THEN {TRUE} ELSE BOOLEAN

Drop(c) ==
    /\ conn[c] = "waiting"
    /\ TRUE \in ShouldDrop \/ ~SourceAllowed(Source[c])
    /\ conn' = [conn EXCEPT ![c] = "none"]
    /\ UNCHANGED <<listener, end, ready, bounds>>

NewPipe == Least({f \in Fds : end[f] = NoClient})

Admitted(c) ==
    /\ conn[c] = "waiting"
    /\ FALSE \in ShouldDrop /\ SourceAllowed(Source[c])

(* There is no descriptor for the socketpair of the re-execution.  The     *)
(* pipe is closed again, but srclimit_done is not called for it.           *)
SocketpairFails(c) ==
    /\ Admitted(c)
    /\ failures < MaxFailures /\ failures' = failures + 1
    /\ child' = Note(Source[c], NewPipe)
    /\ leaks' = leaks + 1
    /\ conn' = [conn EXCEPT ![c] = "none"]
    /\ UNCHANGED <<pipes, flags, startups, listening, lameduck, hup, end, ready, hups>>

(* A slot is taken and a child is forked, or fork fails and the pipe is    *)
(* without another end.                                                    *)
Record(c, e) ==
    LET i == Least({j \in Slots : pipes[j] = NoFd})
        f == NewPipe
    IN  /\ child' = Note(Source[c], f)
        /\ pipes' = [pipes EXCEPT ![i] = f]
        /\ flags' = [flags EXCEPT ![i] = TRUE]
        /\ end' = [end EXCEPT ![f] = e]
        /\ ready' = [ready EXCEPT ![f] = FALSE]
        /\ startups' = startups + 1
        /\ listening' = listening + 1

Fork(c) ==
    /\ Admitted(c)
    /\ Record(c, c)
    /\ conn' = [conn EXCEPT ![c] = "preliminaries"]
    /\ UNCHANGED <<lameduck, hup, leaks, bounds>>

ForkFails(c) ==
    /\ Admitted(c)
    /\ failures < MaxFailures /\ failures' = failures + 1
    /\ Record(c, Closed)
    /\ conn' = [conn EXCEPT ![c] = "none"]
    /\ UNCHANGED <<lameduck, hup, leaks, hups>>

(* Variant: the byte of a child counts even when it has counted before. *)
ChildReadyVariant(i) ==
    /\ pipes[i] # NoFd /\ ready[pipes[i]]
    /\ ready' = [ready EXCEPT ![pipes[i]] = FALSE]
    /\ listening' = listening - 1
    /\ UNCHANGED flags
    /\ UNCHANGED <<conn, pipes, startups, lameduck, hup, end, child, leaks, bounds>>

(* The byte: the child has finished its preliminaries.                     *)
ChildReady(i) ==
    /\ pipes[i] # NoFd /\ ready[pipes[i]]
    /\ ready' = [ready EXCEPT ![pipes[i]] = FALSE]
    /\ listening' = IF flags[i] THEN listening - 1 ELSE listening
    /\ flags' = [flags EXCEPT ![i] = FALSE]
    /\ UNCHANGED <<conn, pipes, startups, lameduck, hup, end, child, leaks, bounds>>

(* Variant: a pipe is closed when the child has its configuration. *)
ChildDoneVariant(i) ==
    /\ pipes[i] # NoFd /\ (end[pipes[i]] = Closed \/ ready[pipes[i]])
    /\ pipes' = [pipes EXCEPT ![i] = NoFd]
    /\ end' = [end EXCEPT ![pipes[i]] = NoClient]
    /\ ready' = [ready EXCEPT ![pipes[i]] = FALSE]
    /\ child' = Forget(pipes[i])
    /\ startups' = startups - 1
    /\ listening' = IF flags[i] THEN listening - 1 ELSE listening
    /\ UNCHANGED <<conn, flags, lameduck, hup, leaks, bounds>>

(* Variant: a child that goes was listening, whatever it had reported.     *)
ChildDoneTwiceVariant(i) ==
    /\ pipes[i] # NoFd /\ end[pipes[i]] = Closed /\ ~ready[pipes[i]]
    /\ pipes' = [pipes EXCEPT ![i] = NoFd]
    /\ end' = [end EXCEPT ![pipes[i]] = NoClient]
    /\ child' = Forget(pipes[i])
    /\ startups' = startups - 1
    /\ listening' = IF listening > 0 THEN listening - 1 ELSE 0
    /\ UNCHANGED <<conn, flags, lameduck, hup, ready, leaks, bounds>>

(* Variant: only a child that had reported gives its place back.           *)
ChildDoneKeptVariant(i) ==
    /\ pipes[i] # NoFd /\ end[pipes[i]] = Closed /\ ~ready[pipes[i]]
    /\ pipes' = [pipes EXCEPT ![i] = NoFd]
    /\ end' = [end EXCEPT ![pipes[i]] = NoClient]
    /\ child' = Forget(pipes[i])
    /\ startups' = IF flags[i] THEN startups ELSE startups - 1
    /\ listening' = IF flags[i] THEN listening - 1 ELSE listening
    /\ UNCHANGED <<conn, flags, lameduck, hup, ready, leaks, bounds>>

(* Variant: a child that goes is forgotten by startups alone.              *)
ChildDoneWaitedVariant(i) ==
    /\ pipes[i] # NoFd /\ end[pipes[i]] = Closed /\ ~ready[pipes[i]]
    /\ pipes' = [pipes EXCEPT ![i] = NoFd]
    /\ end' = [end EXCEPT ![pipes[i]] = NoClient]
    /\ child' = Forget(pipes[i])
    /\ startups' = startups - 1
    /\ UNCHANGED listening
    /\ UNCHANGED <<conn, flags, lameduck, hup, ready, leaks, bounds>>

(* Variant: the slot is cleared before srclimit_done is called with it.    *)
ChildDoneClearedVariant(i) ==
    /\ pipes[i] # NoFd /\ end[pipes[i]] = Closed /\ ~ready[pipes[i]]
    /\ pipes' = [pipes EXCEPT ![i] = NoFd]
    /\ end' = [end EXCEPT ![pipes[i]] = NoClient]
    /\ child' = Forget(pipes'[i])
    /\ startups' = startups - 1
    /\ listening' = IF flags[i] THEN listening - 1 ELSE listening
    /\ UNCHANGED <<conn, flags, lameduck, hup, ready, leaks, bounds>>

(* The end of the pipe: the child has exited or completed authentication.  *)
ChildDone(i) ==
    /\ pipes[i] # NoFd /\ end[pipes[i]] = Closed /\ ~ready[pipes[i]]
    /\ pipes' = [pipes EXCEPT ![i] = NoFd]
    /\ end' = [end EXCEPT ![pipes[i]] = NoClient]
    /\ child' = Forget(pipes[i])
    /\ startups' = startups - 1
    /\ listening' = IF flags[i] THEN listening - 1 ELSE listening
    /\ UNCHANGED <<conn, flags, lameduck, hup, ready, leaks, bounds>>

ReceiveHup ==
    /\ hups < MaxHups /\ hups' = hups + 1
    /\ hup' = TRUE
    /\ UNCHANGED <<conn, pipes, flags, startups, listening, lameduck, child, leaks, end, ready, failures>>

(* The sockets are closed, and the connections not accepted with them.     *)
StopListening ==
    /\ hup /\ ~lameduck
    /\ lameduck' = TRUE
    /\ conn' = [c \in Clients |-> IF conn[c] = "waiting" THEN "none" ELSE conn[c]]
    /\ UNCHANGED <<pipes, flags, startups, listening, hup, child, leaks, end, ready, bounds>>

(* sighup_restart: the new process knows nothing of the children.          *)
Restart ==
    /\ hup /\ lameduck /\ listening = 0
    /\ pipes' = [i \in Slots |-> NoFd]
    /\ flags' = [i \in Slots |-> FALSE]
    /\ startups' = 0 /\ listening' = 0 /\ lameduck' = FALSE /\ hup' = FALSE
    /\ child' = [i \in Slots |-> NoEntry] /\ leaks' = 0
    /\ end' = [f \in Fds |-> NoClient]
    /\ ready' = [f \in Fds |-> FALSE]
    /\ UNCHANGED <<conn, bounds>>

-----------------------------------------------------------------------------
(* The children.                                                           *)
ClosePipe(c) == end' = [f \in Fds |-> IF end[f] = c THEN Closed ELSE end[f]]

(* The configuration has been received, and the parent is told.            *)
Configured(c) ==
    /\ conn[c] = "preliminaries"
    /\ conn' = [conn EXCEPT ![c] = "authenticating"]
    /\ ready' = [f \in Fds |-> ready[f] \/ end[f] = c]
    /\ UNCHANGED <<listener, end, bounds>>

(* The re-execution fails: the child goes on by itself, with what it has   *)
(* received of its configuration, and the parent is not told.              *)
ReexecFails(c) ==
    /\ conn[c] = "preliminaries"
    /\ failures < MaxFailures /\ failures' = failures + 1
    /\ conn' = [conn EXCEPT ![c] = "authenticating"]
    /\ UNCHANGED <<listener, end, ready, hups>>

Authenticate(c) ==
    /\ conn[c] = "authenticating"
    /\ conn' = [conn EXCEPT ![c] = "authenticated"]
    /\ ClosePipe(c)
    /\ UNCHANGED <<listener, ready, bounds>>

(* LoginGraceTime is over, authentication fails, or the client is gone.    *)
Give(c) ==
    /\ conn[c] \in {"preliminaries", "authenticating"}
    /\ conn' = [conn EXCEPT ![c] = "none"]
    /\ ClosePipe(c)
    /\ UNCHANGED <<listener, ready, bounds>>

SessionEnds(c) ==
    /\ conn[c] = "authenticated"
    /\ conn' = [conn EXCEPT ![c] = "none"]
    /\ UNCHANGED <<listener, end, ready, bounds>>

Next ==
    \/ \E c \in Clients :
         \/ Connect(c) \/ Drop(c) \/ SocketpairFails(c) \/ Fork(c) \/ ForkFails(c)
         \/ Configured(c) \/ ReexecFails(c) \/ Authenticate(c) \/ Give(c) \/ SessionEnds(c)
    \/ \E i \in Slots : ChildReady(i) \/ ChildDone(i)
    \/ ReceiveHup \/ StopListening \/ Restart

Spec == Init /\ [][Next]_vars

(* The listener runs, and no child outlasts the grace time. Clients are    *)
(* free to stay away or to come again and again, and no chance of a drop   *)
(* is ever assumed to favour one of them.                                  *)
Fairness ==
    /\ \A c \in Clients : WF_vars(Configured(c) \/ Authenticate(c) \/ Give(c))
    /\ \A i \in Slots : WF_vars(ChildReady(i) \/ ChildDone(i))
    /\ WF_vars(StopListening) /\ WF_vars(Restart)

FairSpec == Spec /\ Fairness
-----------------------------------------------------------------------------
States == {"none", "waiting", "preliminaries", "authenticating", "authenticated"}

Open(i) == pipes[i] # NoFd

TypeOK ==
    /\ conn \in [Clients -> States]
    /\ pipes \in [Slots -> Fds \union {NoFd}] /\ flags \in [Slots -> BOOLEAN]
    /\ startups \in 0..Full /\ listening \in 0..Full /\ leaks \in Nat
    /\ {lameduck, hup} \subseteq BOOLEAN
    /\ end \in [Fds -> Clients \union {NoClient, Closed}]
    /\ ready \in [Fds -> BOOLEAN]
    /\ \A i, j \in Slots : Open(i) /\ pipes[i] = pipes[j] => i = j
    /\ \A i \in Slots :
         child[i] = NoEntry \/ (child[i].id \in Fds /\ child[i].source \in Sources)

Unauthenticated == {c \in Clients : conn[c] \in {"preliminaries", "authenticating"}}

(* Those the listener knows: forked since its last execution.              *)
Counted == {c \in Unauthenticated : \E i \in Slots : Open(i) /\ end[pipes[i]] = c}

(* The count follows the children through forks that fail, exits, the two  *)
(* messages of a pipe and their delays (sshd.c, server_accept_loop): it is *)
(* never too low, so that MaxStartups is kept, and never so high that a    *)
(* slot is lost for good.                                                  *)
StartupsExact ==
    /\ startups = Cardinality({i \in Slots : Open(i)})
    /\ hups = 0 => Counted = Unauthenticated
    /\ \A i \in Slots : Open(i) => end[pipes[i]] \in Counted \union {Closed}

(* What PerSourceMaxStartups says, through all that srclimit.c does to     *)
(* keep its own table in step with the pipes.                              *)
SourceLimited ==
    PerSource # NoLimit => \A s \in Sources :
        Cardinality({c \in Counted : Source[c] = s}) <= PerSource

(* A restart never happens under a child that waits for its configuration  *)
(* (sshd.c:1174-1181), though the pipes are the only thing the listener    *)
(* sees of its children and some of them are gone.                         *)
RestartSparesChildren ==
    [][Restart => \A c \in Clients : conn[c] # "preliminaries"]_vars

(* The table of srclimit.c has an entry for each pipe the listener holds,  *)
(* though it knows them by descriptors that are used again, and beyond     *)
(* these only those that a failed socketpair has left behind (sshd.c:1273; *)
(* srclimit.c, srclimit_check_allow and srclimit_done).                    *)
TableInStep ==
    PerSource # NoLimit =>
        Cardinality({i \in Slots : child[i].id # NoFd}) = startups + leaks

(* The entries that no end of a pipe will clear any more: srclimit_done    *)
(* takes the first one of a descriptor, whoever it was made for.           *)
Cleared(i) ==
    \E j \in Slots :
        Open(j) /\ i = Least({k \in Slots : child[k].id = pipes[j]})

Stale == {i \in Slots : child[i].id # NoFd /\ ~Cleared(i)}

ShutOut(s) ==
    /\ PerSource # NoLimit
    /\ \/ Cardinality(Stale) = Full
       \/ Cardinality(Stale \cap Entries(s)) >= PerSource

Admits(s) == ~lameduck /\ FALSE \in ShouldDrop /\ SourceAllowed(s)

(* The daemon never locks a source out: whatever drops, failing forks and  *)
(* re-executions, expiring grace times and restarts there were, it is      *)
(* ready again and again to admit a client from there (sshd.c:1209-1240,   *)
(* srclimit.c, srclimit_done); all but a source that stale entries shut    *)
(* out for good, of which there is one for each failed socketpair.         *)
NeverLockedOut ==
    \A s \in Sources : []<>Admits(s) \/ <>[]ShutOut(s)

(* A SIGHUP is obeyed: the listener notices every way in which a child may *)
(* end its preliminaries (sshd.c:1209-1240).                               *)
HupObeyed == hup ~> ~hup
=============================================================================
