--------------------------- MODULE StartupsProofs ---------------------------
(***************************************************************************)
(* Proofs about Startups, for any clients, sources, limits and bounds.     *)
(***************************************************************************)
EXTENDS Startups, FiniteSetTheorems, WellFoundedInduction, TLAPS

OpenSlots == {i \in Slots : Open(i)}

(* The slots whose child has not reported yet.                             *)
Flagged == {i \in Slots : Open(i) /\ flags[i]}

Entry == [id : Fds \union {NoFd}, source : Sources \union {NoClient}]

StateTypes ==
    /\ conn \in [Clients -> States]
    /\ pipes \in [Slots -> Fds \union {NoFd}]
    /\ flags \in [Slots -> BOOLEAN]
    /\ lameduck \in BOOLEAN /\ hup \in BOOLEAN
    /\ end \in [Fds -> Clients \union {NoClient, Closed}]
    /\ ready \in [Fds -> BOOLEAN]
    /\ child \in [Slots -> Entry]
    /\ \A i \in Slots :
         child[i] = NoEntry \/ (child[i].id \in Fds /\ child[i].source \in Sources)
    /\ hups \in Nat

(* The slots and the pipes that are in use, and nothing else, belong       *)
(* together.                                                               *)
PipesMatch ==
    /\ \A i, j \in Slots : Open(i) /\ pipes[i] = pipes[j] => i = j
    /\ \A f \in Fds : end[f] # NoClient => \E i \in Slots : pipes[i] = f
    /\ \A i \in Slots : Open(i) => end[pipes[i]] # NoClient

CountsMatch ==
    /\ startups = Cardinality(OpenSlots)
    /\ listening = Cardinality(Flagged)

(* A child that holds a pipe has not authenticated.                        *)
HoldersUnauthenticated ==
    \A i \in Slots :
        Open(i) /\ end[pipes[i]] # Closed => end[pipes[i]] \in Unauthenticated

(* A child that has not reported is waited for.                            *)
PreliminariesFlagged ==
    \A c \in Clients : conn[c] = "preliminaries" =>
        \E i \in Slots :
            Open(i) /\ end[pipes[i]] = c /\ flags[i] /\ ~ready[pipes[i]]

(* Before the first SIGHUP the listener knows all its children.            *)
AllKnown ==
    /\ hup => hups # 0
    /\ hups = 0 => \A c \in Unauthenticated : \E i \in Slots : Open(i) /\ end[pipes[i]] = c

(* The table of srclimit.c has an entry for every child that holds a pipe, *)
(* and not too many for any source.                                        *)
Listed(i) == child[i].id # NoFd

EntryOf(i) ==
    \E k \in Slots : child[k].id = pipes[i] /\ child[k].source = Source[end[pipes[i]]]

TableMatches ==
    PerSource # NoLimit =>
        /\ \A i \in Slots : Open(i) /\ end[pipes[i]] \in Clients => EntryOf(i)
        /\ \A s \in Sources : Cardinality(Entries(s)) <= PerSource

(* And for every pipe, whether its child is still there or not; nothing    *)
(* else is in it but what failed socketpairs have left.                    *)
Used == {i \in Slots : Listed(i)}

InStep ==
    /\ leaks \in Nat
    /\ PerSource # NoLimit =>
         /\ \A i \in Slots : Open(i) => \E k \in Slots : child[k].id = pipes[i]
         /\ Cardinality(Used) = startups + leaks

IInv ==
    /\ StateTypes /\ PipesMatch /\ CountsMatch /\ HoldersUnauthenticated
    /\ PreliminariesFlagged /\ AllKnown /\ TableMatches
-----------------------------------------------------------------------------
(* Slots and descriptors.                                                  *)

(* A set of numbers that is not empty has a least one (sshd.c and          *)
(* srclimit.c take the first slot that is free).                           *)
LEMMA LeastIn ==
    ASSUME NEW S \in SUBSET Nat, S # {}
    PROVE  Least(S) \in S
  <1> DEFINE R == OpToRel(<, Nat)
  <1>1. IsWellFoundedOn(R, Nat)
    BY NatLessThanWellFounded
  <1>2. \E x \in S : \A y \in S : ~ (<<y, x>> \in R)
    <2> HIDE DEF R
    <2> QED BY <1>1, WFMin
  <1>3. \A x, y \in Nat : x < y => <<x, y>> \in R
    BY DEF OpToRel
  <1>4. \E x \in S : \A y \in S : ~ (y < x)
    <2> HIDE DEF R
    <2> QED BY <1>2, <1>3, Zenon
  <1>5. \E x \in S : \A y \in S : x <= y
    BY <1>4
  <1> QED BY <1>5, Zenon DEF Least

(* There are Full slots and one descriptor more, none of which is NoFd.    *)
LEMMA Sets ==
    /\ Slots \in SUBSET Nat /\ Fds \in SUBSET Nat
    /\ NoFd \notin Fds /\ NoFd \notin Slots
    /\ IsFiniteSet(Slots) /\ Cardinality(Slots) = Full
    /\ IsFiniteSet(Fds) /\ Cardinality(Fds) = Full + 1
  BY LimitAssumption, FS_Interval DEF Slots, Fds

LEMMA SubsetsOfSlots ==
    ASSUME NEW S \in SUBSET Slots
    PROVE  IsFiniteSet(S) /\ Cardinality(S) \in 0..Full
  <1>1. IsFiniteSet(S) /\ Cardinality(S) <= Full
    BY Sets, FS_Subset
  <1>2. Cardinality(S) \in Nat
    BY <1>1, FS_CardinalityType
  <1> QED BY <1>1, <1>2, LimitAssumption

(* Below Full there is a free slot (sshd.c, the search for startup_pipes). *)
LEMMA FreeSlot ==
    ASSUME IInv, startups < Full
    PROVE  \E i \in Slots : pipes[i] = NoFd
  <1> SUFFICES ASSUME \A i \in Slots : pipes[i] # NoFd PROVE FALSE
    OBVIOUS
  <1>1. OpenSlots = Slots
    BY DEF OpenSlots, Open
  <1> QED BY <1>1, Sets, LimitAssumption DEF IInv, CountsMatch

(* There is always a descriptor for another pipe.                          *)
LEMMA FreeDescriptor ==
    ASSUME IInv
    PROVE  \E f \in Fds : end[f] = NoClient
  <1> SUFFICES ASSUME \A f \in Fds : end[f] # NoClient PROVE FALSE
    OBVIOUS
  <1> DEFINE slotOf == [f \in Fds |-> CHOOSE i \in Slots : pipes[i] = f]
  <1>1. \A f \in Fds : slotOf[f] \in Slots /\ pipes[slotOf[f]] = f
    BY DEF IInv, PipesMatch
  <1>2. slotOf \in [Fds -> Slots]
    BY <1>1
  <1>3. Cardinality(Slots) < Cardinality(Fds)
    BY Sets, LimitAssumption
  <1>4. \E x, y \in Fds : x # y /\ slotOf[x] = slotOf[y]
    <2> HIDE DEF slotOf
    <2> QED BY <1>2, <1>3, Sets, FS_PigeonHole
  <1> QED BY <1>1, <1>4

(* What server_accept_loop admits finds a slot.                            *)
LEMMA RoomForAdmitted ==
    ASSUME IInv, NEW c \in Clients, Admitted(c)
    PROVE  startups < Full
  <1>1. startups \in 0..Full
    BY SubsetsOfSlots DEF IInv, CountsMatch, OpenSlots
  <1>2. CASE startups < Begin
    BY <1>1, <1>2, LimitAssumption
  <1>3. CASE ~(startups < Begin)
    <2>1. CASE startups >= Full
      <3>1. ShouldDrop = {TRUE}
        BY <1>3, <2>1 DEF ShouldDrop
      <3> QED BY <3>1, Zenon DEF Admitted
    <2>2. CASE ~(startups >= Full)
      BY <1>1, <2>2, LimitAssumption
    <2> QED BY <2>1, <2>2
  <1> QED BY <1>2, <1>3

LEMMA NewPipeFree ==
    ASSUME IInv
    PROVE  NewPipe \in Fds /\ end[NewPipe] = NoClient
  <1> DEFINE free == {f \in Fds : end[f] = NoClient}
  <1>1. free # {} /\ free \in SUBSET Nat
    BY FreeDescriptor, Sets
  <1>2. Least(free) \in free
    <2> HIDE DEF free
    <2> QED BY <1>1, LeastIn
  <1> QED BY <1>2 DEF NewPipe

-----------------------------------------------------------------------------
(* srclimit.c                                                              *)

(* An entry is added without overwriting another (srclimit_check_allow).   *)
LEMMA NoteEffect ==
    ASSUME StateTypes, TableMatches, NEW s \in Sources, NEW f \in Fds,
           SourceAllowed(s), child' = Note(s, f)
    PROVE  /\ child' \in [Slots -> Entry]
           /\ \A i \in Slots : child'[i] = NoEntry
                \/ (child'[i].id \in Fds /\ child'[i].source \in Sources)
           /\ \A k \in Slots : Listed(k) => child'[k] = child[k]
           /\ PerSource # NoLimit =>
                /\ \E k \in Slots : child'[k].id = f /\ child'[k].source = s
                /\ \A t \in Sources : Cardinality(Entries(t)') <= PerSource
  <1>1. CASE PerSource = NoLimit
    BY <1>1 DEF Note, StateTypes
  <1>2. CASE PerSource # NoLimit
    <2> DEFINE u == Least(Unused)
               e == [id |-> f, source |-> s]
    <2>1. u \in Unused
      <3>1. Unused # {} /\ Unused \in SUBSET Nat
        BY <1>2, Sets DEF SourceAllowed, Unused
      <3> QED BY <3>1, LeastIn
    <2> HIDE DEF u
    <2>2. u \in Slots /\ child[u].id = NoFd
      BY <2>1 DEF Unused
    <2>3. child' = [child EXCEPT ![u] = e]
      BY <1>2 DEF Note, u
    <2>4. e \in Entry
      BY DEF Entry
    <2>5. /\ child' \in [Slots -> Entry] /\ child'[u] = e
          /\ \A k \in Slots \ {u} : child'[k] = child[k]
      BY <2>2, <2>3, <2>4 DEF StateTypes
    <2>6. ASSUME NEW t \in Sources PROVE Cardinality(Entries(t)') <= PerSource
      <3>1. CASE t = s
        <4>1. Entries(t)' = Entries(s) \union {u} /\ u \notin Entries(s)
          <5>1. e.id # NoFd /\ e.source = s
            BY Sets
          <5>2. \A k \in Slots : k \in Entries(t)' <=> k \in Entries(s) \/ k = u
            BY <2>2, <2>5, <3>1, <5>1 DEF Entries
          <5>3. Entries(t)' \in SUBSET Slots /\ Entries(s) \in SUBSET Slots /\ u \notin Entries(s)
            BY <2>2 DEF Entries
          <5> HIDE DEF e
          <5> QED BY <2>2, <5>2, <5>3
        <4>2. IsFiniteSet(Entries(s)) /\ Cardinality(Entries(s)) \in Nat
          BY SubsetsOfSlots DEF Entries
        <4>3. Cardinality(Entries(t)') = Cardinality(Entries(s)) + 1
          BY <4>1, <4>2, FS_AddElement
        <4> QED BY <1>2, <4>2, <4>3, LimitAssumption DEF SourceAllowed
      <3>2. CASE t # s
        <4>1. Entries(t)' = Entries(t)
          BY <2>2, <2>5, <3>2 DEF Entries
        <4> QED BY <1>2, <4>1 DEF TableMatches
      <3> QED BY <3>1, <3>2
    <2> QED BY <2>2, <2>5, <2>6 DEF Listed, StateTypes
  <1> QED BY <1>1, <1>2

(* Only an entry of the pipe that was closed is removed (srclimit_done).   *)
LEMMA ForgetEffect ==
    ASSUME StateTypes, TableMatches, NEW f \in Fds, child' = Forget(f)
    PROVE  /\ child' \in [Slots -> Entry]
           /\ \A i \in Slots : child'[i] = NoEntry
                \/ (child'[i].id \in Fds /\ child'[i].source \in Sources)
           /\ \A k \in Slots : child[k].id # f => child'[k] = child[k]
           /\ PerSource # NoLimit =>
                \A t \in Sources : Cardinality(Entries(t)') <= PerSource
  <1> DEFINE found == {i \in Slots : child[i].id = f}
  <1>1. CASE found = {}
    <2>1. child' = child
      BY <1>1 DEF Forget
    <2> QED BY <2>1 DEF StateTypes, TableMatches, Entries
  <1>2. CASE found # {}
    <2> DEFINE u == Least(found)
    <2>1. u \in found
      <3>1. found \in SUBSET Nat
        BY Sets
      <3> HIDE DEF found
      <3> QED BY <1>2, <3>1, LeastIn
    <2>2. child' = [child EXCEPT ![u] = NoEntry]
      BY <1>2 DEF Forget
    <2> HIDE DEF u
    <2>3. u \in Slots /\ child[u].id = f
      BY <2>1
    <2>4. NoEntry \in Entry
      BY DEF NoEntry, Entry
    <2>5. /\ child' \in [Slots -> Entry] /\ child'[u] = NoEntry
          /\ \A k \in Slots \ {u} : child'[k] = child[k]
      BY <2>2, <2>3, <2>4 DEF StateTypes
    <2>6. ASSUME PerSource # NoLimit, NEW t \in Sources
          PROVE  Cardinality(Entries(t)') <= PerSource
      <3>1. Entries(t)' \in SUBSET Entries(t)
        BY <2>3, <2>5 DEF Entries, NoEntry
      <3>2. IsFiniteSet(Entries(t)) /\ Cardinality(Entries(t)) \in Nat
        BY SubsetsOfSlots DEF Entries
      <3>3. Cardinality(Entries(t)') <= Cardinality(Entries(t))
        BY <3>1, <3>2, FS_Subset
      <3>4. Cardinality(Entries(t)') \in Nat
        BY <3>1, <3>2, FS_Subset, FS_CardinalityType
      <3>5. Cardinality(Entries(t)) <= PerSource
        BY <2>6 DEF TableMatches
      <3> QED BY <2>6, <3>2, <3>3, <3>4, <3>5, LimitAssumption
    <2> QED BY <2>3, <2>5, <2>6 DEF StateTypes
  <1> QED BY <1>1, <1>2

(* An entry more, and an entry less.                                       *)
LEMMA NoteAdds ==
    ASSUME StateTypes, NEW s \in Sources, NEW f \in Fds, PerSource # NoLimit,
           SourceAllowed(s), child' = Note(s, f)
    PROVE  Cardinality(Used') = Cardinality(Used) + 1
  <1> DEFINE u == Least(Unused)
  <1>1. u \in Unused
    <2>1. Unused # {} /\ Unused \in SUBSET Nat
      BY Sets DEF SourceAllowed, Unused
    <2> QED BY <2>1, LeastIn
  <1>2. child' = [child EXCEPT ![u] = [id |-> f, source |-> s]]
    BY DEF Note
  <1> HIDE DEF u
  <1>3. u \in Slots /\ child[u].id = NoFd /\ f # NoFd
    BY <1>1, Sets DEF Unused
  <1>4. child'[u].id = f /\ \A k \in Slots \ {u} : child'[k] = child[k]
    BY <1>2, <1>3 DEF StateTypes
  <1>5. Used' = Used \union {u} /\ u \notin Used
    BY <1>3, <1>4 DEF Used, Listed
  <1>6. IsFiniteSet(Used)
    BY SubsetsOfSlots DEF Used
  <1> QED BY <1>5, <1>6, FS_AddElement

LEMMA ForgetRemoves ==
    ASSUME StateTypes, NEW f \in Fds, child' = Forget(f),
           \E k \in Slots : child[k].id = f
    PROVE  Cardinality(Used') = Cardinality(Used) - 1
  <1> DEFINE found == {i \in Slots : child[i].id = f}
             u == Least(found)
  <1>1. u \in found /\ found # {}
    <2>1. found \in SUBSET Nat /\ found # {}
      BY Sets
    <2> HIDE DEF found
    <2> QED BY <2>1, LeastIn
  <1>2. child' = [child EXCEPT ![u] = NoEntry]
    BY <1>1 DEF Forget
  <1> HIDE DEF u
  <1>3. u \in Slots /\ child[u].id # NoFd
    BY <1>1, Sets
  <1>4. child'[u] = NoEntry /\ \A k \in Slots \ {u} : child'[k] = child[k]
    BY <1>2, <1>3 DEF StateTypes
  <1>5. Used' = Used \ {u} /\ u \in Used
    BY <1>3, <1>4 DEF Used, Listed, NoEntry
  <1>6. IsFiniteSet(Used)
    BY SubsetsOfSlots DEF Used
  <1> QED BY <1>5, <1>6, FS_RemoveElement

-----------------------------------------------------------------------------
(* The steps.                                                              *)

LEMMA InvInit == Init => IInv
  <1> SUFFICES ASSUME Init PROVE IInv
    OBVIOUS
  <1>1. \A i \in Slots : ~Open(i) /\ child[i] = NoEntry
    BY DEF Init, Open
  <1>2. NoEntry \in Entry
    BY DEF NoEntry, Entry
  <1>3. StateTypes
    <2>1. /\ pipes \in [Slots -> Fds \union {NoFd}] /\ flags \in [Slots -> BOOLEAN]
          /\ end \in [Fds -> Clients \union {NoClient, Closed}] /\ ready \in [Fds -> BOOLEAN]
          /\ conn \in [Clients -> States] /\ hups \in Nat
      BY DEF Init, States
    <2>2. child \in [Slots -> Entry]
      BY <1>2 DEF Init
    <2>3. lameduck \in BOOLEAN /\ hup \in BOOLEAN
      BY Zenon DEF Init
    <2> QED BY <1>1, <2>1, <2>2, <2>3 DEF StateTypes
  <1>4. PipesMatch
    BY <1>1 DEF PipesMatch, Init
  <1>5. CountsMatch
    <2>1. OpenSlots = {} /\ Flagged = {}
      BY <1>1 DEF OpenSlots, Flagged
    <2> QED BY <2>1, FS_EmptySet DEF CountsMatch, Init
  <1>6. HoldersUnauthenticated /\ PreliminariesFlagged /\ AllKnown
    BY <1>1 DEF HoldersUnauthenticated, PreliminariesFlagged, AllKnown, Init, Unauthenticated
  <1>7. TableMatches
    <2>1. \A s \in Sources : Entries(s) = {}
      BY <1>1 DEF Entries, NoEntry
    <2>2. PerSource # NoLimit => \A s \in Sources : Cardinality(Entries(s)) <= PerSource
      BY <2>1, FS_EmptySet, LimitAssumption
    <2> QED BY <1>1, <2>2 DEF TableMatches
  <1> QED BY <1>3, <1>4, <1>5, <1>6, <1>7 DEF IInv

(* A step that leaves the listener and its pipes alone.                    *)
LEMMA OnlyConnections ==
    ASSUME IInv,
           UNCHANGED <<pipes, flags, startups, listening, hup, child, end, ready, hups>>,
           lameduck' \in BOOLEAN, conn' \in [Clients -> States],
           Unauthenticated' = Unauthenticated,
           \A c \in Clients : conn'[c] = "preliminaries" => conn[c] = "preliminaries"
    PROVE  IInv'
  <1>1. StateTypes'
    BY DEF IInv, StateTypes
  <1>2. PipesMatch'
    BY DEF IInv, PipesMatch, Open
  <1>3. CountsMatch'
    BY DEF IInv, CountsMatch, OpenSlots, Flagged, Open
  <1>4. HoldersUnauthenticated' /\ AllKnown'
    BY DEF IInv, HoldersUnauthenticated, AllKnown, Open
  <1>5. PreliminariesFlagged'
    BY DEF IInv, PreliminariesFlagged, Open
  <1>6. TableMatches'
    BY DEF IInv, TableMatches, Open, EntryOf, Entries
  <1> QED BY <1>1, <1>2, <1>3, <1>4, <1>5, <1>6 DEF IInv

(* The failing socketpair only leaves an entry behind.                     *)
LEMMA SocketpairStep ==
    ASSUME IInv, NEW c \in Clients, SocketpairFails(c)
    PROVE  IInv'
  <1> USE DEF SocketpairFails
  <1>1. Source[c] \in Sources /\ SourceAllowed(Source[c]) /\ NewPipe \in Fds
    BY NewPipeFree, LimitAssumption DEF Admitted
  <1>2. /\ child' \in [Slots -> Entry]
        /\ \A i \in Slots : child'[i] = NoEntry
             \/ (child'[i].id \in Fds /\ child'[i].source \in Sources)
        /\ \A k \in Slots : Listed(k) => child'[k] = child[k]
        /\ PerSource # NoLimit => \A t \in Sources : Cardinality(Entries(t)') <= PerSource
    <2>1. StateTypes /\ TableMatches
      BY DEF IInv
    <2> QED BY <1>1, <2>1, NoteEffect
  <1>3. conn' \in [Clients -> States] /\ Unauthenticated' = Unauthenticated
    BY DEF IInv, StateTypes, States, Admitted, Unauthenticated
  <1>4. StateTypes'
    BY <1>2, <1>3 DEF IInv, StateTypes
  <1>5. PipesMatch' /\ CountsMatch'
    BY DEF IInv, PipesMatch, Open, CountsMatch, OpenSlots, Flagged
  <1>6. HoldersUnauthenticated' /\ AllKnown'
    BY <1>3 DEF IInv, HoldersUnauthenticated, AllKnown, Open
  <1>7. PreliminariesFlagged'
    BY DEF IInv, PreliminariesFlagged, Open, StateTypes
  <1>8. TableMatches'
    <2>1. ASSUME PerSource # NoLimit, NEW i \in Slots, Open(i)', (end[pipes[i]] \in Clients)'
          PROVE  EntryOf(i)'
      <3>1. Open(i) /\ end[pipes[i]] \in Clients /\ pipes[i] \in Fds
        BY <2>1 DEF Open, IInv, StateTypes
      <3>2. PICK k \in Slots : child[k].id = pipes[i] /\ child[k].source = Source[end[pipes[i]]]
        BY <2>1, <3>1 DEF IInv, TableMatches, EntryOf
      <3>3. child'[k] = child[k]
        BY <1>2, <3>1, <3>2, Sets DEF Listed
      <3> QED BY <3>2, <3>3 DEF EntryOf
    <2> QED BY <1>2, <2>1 DEF TableMatches
  <1> QED BY <1>4, <1>5, <1>6, <1>7, <1>8 DEF IInv

(* A connection takes a free slot and a free pipe, whether the child is    *)
(* forked or not.                                                          *)
LEMMA RecordStep ==
    ASSUME IInv, NEW c \in Clients, NEW e \in {c, Closed},
           Admitted(c), Record(c, e), UNCHANGED <<lameduck, hup, hups>>,
           conn' = [conn EXCEPT ![c] = IF e = c THEN "preliminaries" ELSE "none"]
    PROVE  IInv'
  <1> DEFINE i0 == Least({j \in Slots : pipes[j] = NoFd})
             f0 == NewPipe
  <1>1. i0 \in Slots /\ pipes[i0] = NoFd
    <2> DEFINE free == {j \in Slots : pipes[j] = NoFd}
    <2>1. free # {} /\ free \in SUBSET Nat
      BY RoomForAdmitted, FreeSlot, Sets
    <2>2. Least(free) \in free
      <3> HIDE DEF free
      <3> QED BY <2>1, LeastIn
    <2> QED BY <2>2
  <1>2. f0 \in Fds /\ end[f0] = NoClient
    BY NewPipeFree
  <1>3. /\ child' = Note(Source[c], f0)
        /\ pipes' = [pipes EXCEPT ![i0] = f0] /\ flags' = [flags EXCEPT ![i0] = TRUE]
        /\ end' = [end EXCEPT ![f0] = e] /\ ready' = [ready EXCEPT ![f0] = FALSE]
        /\ startups' = startups + 1 /\ listening' = listening + 1
    BY DEF Record
  <1> HIDE DEF i0, f0
  <1>4. /\ conn[c] = "waiting" /\ SourceAllowed(Source[c])
        /\ Source[c] \in Sources /\ e # NoClient /\ e \in Clients \union {Closed}
        /\ Closed \notin Clients
    BY LimitAssumption DEF Admitted
  <1>5. /\ child' \in [Slots -> Entry]
        /\ \A i \in Slots : child'[i] = NoEntry
             \/ (child'[i].id \in Fds /\ child'[i].source \in Sources)
        /\ \A k \in Slots : Listed(k) => child'[k] = child[k]
        /\ PerSource # NoLimit =>
             /\ \E k \in Slots : child'[k].id = f0 /\ child'[k].source = Source[c]
             /\ \A t \in Sources : Cardinality(Entries(t)') <= PerSource
    <2>1. StateTypes /\ TableMatches
      BY DEF IInv
    <2> QED BY <1>2, <1>3, <1>4, <2>1, NoteEffect
  <1>6. /\ pipes \in [Slots -> Fds \union {NoFd}] /\ flags \in [Slots -> BOOLEAN]
        /\ end \in [Fds -> Clients \union {NoClient, Closed}]
        /\ ready \in [Fds -> BOOLEAN] /\ conn \in [Clients -> States]
    BY DEF IInv, StateTypes
  <1>7. StateTypes'
    <2>1. /\ pipes' \in [Slots -> Fds \union {NoFd}] /\ flags' \in [Slots -> BOOLEAN]
          /\ end' \in [Fds -> Clients \union {NoClient, Closed}]
          /\ ready' \in [Fds -> BOOLEAN]
      BY <1>1, <1>2, <1>3, <1>4, <1>6
    <2>2. conn' \in [Clients -> States]
      BY <1>6 DEF States
    <2> QED BY <1>5, <2>1, <2>2 DEF IInv, StateTypes
  (* The new pipe is no other's. *)
  <1>8. /\ pipes'[i0] = f0 /\ flags'[i0] = TRUE /\ end'[f0] = e /\ ready'[f0] = FALSE
        /\ \A i \in Slots \ {i0} : pipes'[i] = pipes[i] /\ flags'[i] = flags[i]
        /\ \A f \in Fds \ {f0} : end'[f] = end[f] /\ ready'[f] = ready[f]
        /\ \A i \in Slots : Open(i) => pipes[i] # f0 /\ i # i0
        /\ f0 # NoFd
    BY <1>1, <1>2, <1>3, <1>6, Sets DEF IInv, PipesMatch, Open
  <1>9. \A i \in Slots : Open(i)' <=> Open(i) \/ i = i0
    BY <1>1, <1>8 DEF Open
  <1>10. PipesMatch'
    <2>1. \A i, j \in Slots : Open(i)' /\ pipes'[i] = pipes'[j] => i = j
      BY <1>1, <1>8, <1>9 DEF IInv, PipesMatch, Open
    <2>2. \A f \in Fds : end'[f] # NoClient => \E i \in Slots : pipes'[i] = f
      BY <1>1, <1>2, <1>8, Sets DEF IInv, PipesMatch
    <2>3. \A i \in Slots : Open(i)' => end'[pipes'[i]] # NoClient
      BY <1>4, <1>6, <1>8, <1>9 DEF IInv, PipesMatch, Open
    <2> QED BY <2>1, <2>2, <2>3 DEF PipesMatch
  <1>11. CountsMatch'
    <2>1. OpenSlots' = OpenSlots \union {i0} /\ i0 \notin OpenSlots
      BY <1>1, <1>9 DEF OpenSlots, Open
    <2>2. Flagged' = Flagged \union {i0} /\ i0 \notin Flagged
      BY <1>1, <1>8, <1>9 DEF Flagged, Open
    <2>3. IsFiniteSet(OpenSlots) /\ IsFiniteSet(Flagged)
      BY SubsetsOfSlots DEF OpenSlots, Flagged
    <2>4. /\ Cardinality(OpenSlots') = Cardinality(OpenSlots) + 1
          /\ Cardinality(Flagged') = Cardinality(Flagged) + 1
      BY <2>1, <2>2, <2>3, FS_AddElement
    <2> QED BY <1>3, <2>4 DEF IInv, CountsMatch
  <1>12. \A d \in Clients \ {c} : conn'[d] = conn[d]
    BY <1>6
  <1>13. \A d \in Clients : d \in Unauthenticated' <=>
            d \in Unauthenticated \/ (d = c /\ e = c)
    BY <1>4, <1>6, <1>12 DEF Unauthenticated
  <1>14. HoldersUnauthenticated'
    <2>1. ASSUME NEW i \in Slots, Open(i)', end'[pipes'[i]] # Closed
          PROVE  end'[pipes'[i]] \in Unauthenticated'
      <3>1. CASE i = i0
        BY <1>8, <1>13, <2>1, <3>1
      <3>2. CASE i # i0
        <4>1. Open(i) /\ pipes'[i] = pipes[i] /\ end'[pipes'[i]] = end[pipes[i]]
          BY <1>6, <1>8, <1>9, <2>1, <3>2 DEF Open
        <4>2. end[pipes[i]] \in Unauthenticated
          BY <2>1, <4>1 DEF IInv, HoldersUnauthenticated
        <4> QED BY <1>13, <4>1, <4>2 DEF Unauthenticated
      <3> QED BY <3>1, <3>2
    <2> QED BY <2>1 DEF HoldersUnauthenticated
  (* What a slot says of its child stays as it was. *)
  <1>15. ASSUME NEW i \in Slots, Open(i)
         PROVE  /\ Open(i)' /\ pipes'[i] = pipes[i] /\ flags'[i] = flags[i]
                /\ end'[pipes'[i]] = end[pipes[i]] /\ ready'[pipes'[i]] = ready[pipes[i]]
    BY <1>6, <1>8, <1>9, <1>15 DEF Open
  <1>16. PreliminariesFlagged'
    <2>1. ASSUME NEW d \in Clients, conn'[d] = "preliminaries"
          PROVE  \E i \in Slots : Open(i)' /\ end'[pipes'[i]] = d /\ flags'[i]
                                  /\ ~ready'[pipes'[i]]
      <3>1. CASE d = c
        <4>1. e = c
          BY <1>6, <2>1, <3>1
        <4> QED BY <1>1, <1>8, <1>9, <3>1, <4>1
      <3>2. CASE d # c
        BY <1>12, <1>15, <2>1, <3>2 DEF IInv, PreliminariesFlagged
      <3> QED BY <3>1, <3>2
    <2> QED BY <2>1 DEF PreliminariesFlagged
  <1>17. AllKnown'
    <2>1. ASSUME hups' = 0, NEW d \in Unauthenticated'
          PROVE  \E i \in Slots : Open(i)' /\ end'[pipes'[i]] = d
      <3>1. d \in Clients
        BY DEF Unauthenticated
      <3>2. CASE d = c /\ e = c
        BY <1>1, <1>8, <1>9, <3>2
      <3>3. CASE d \in Unauthenticated
        BY <1>15, <2>1, <3>3 DEF IInv, AllKnown
      <3> QED BY <1>13, <3>1, <3>2, <3>3
    <2> QED BY <2>1 DEF IInv, AllKnown
  <1>18. TableMatches'
    <2>1. ASSUME PerSource # NoLimit, NEW i \in Slots, Open(i)', end'[pipes'[i]] \in Clients
          PROVE  EntryOf(i)'
      <3>1. CASE i = i0
        <4>1. end'[pipes'[i]] = c /\ pipes'[i] = f0
          BY <1>4, <1>8, <2>1, <3>1
        <4> QED BY <1>5, <2>1, <4>1 DEF EntryOf
      <3>2. CASE i # i0
        <4>1. Open(i)
          BY <1>9, <2>1, <3>2
        <4>2. PICK k \in Slots : child[k].id = pipes[i] /\ child[k].source = Source[end[pipes[i]]]
          BY <1>15, <2>1, <4>1 DEF IInv, TableMatches, EntryOf
        <4>3. child'[k] = child[k]
          BY <1>5, <4>1, <4>2 DEF Listed, Open
        <4> QED BY <1>15, <4>1, <4>2, <4>3 DEF EntryOf
      <3> QED BY <3>1, <3>2
    <2> QED BY <1>5, <2>1 DEF TableMatches
  <1> QED BY <1>7, <1>10, <1>11, <1>14, <1>16, <1>17, <1>18 DEF IInv

(* The byte of a child is counted once.                                    *)
LEMMA ReadyStep ==
    ASSUME IInv, NEW i0 \in Slots, ChildReady(i0)
    PROVE  IInv'
  <1> USE DEF ChildReady, bounds
  <1> DEFINE f0 == pipes[i0]
  <1>1. /\ pipes \in [Slots -> Fds \union {NoFd}] /\ flags \in [Slots -> BOOLEAN]
        /\ ready \in [Fds -> BOOLEAN]
        /\ Open(i0) /\ f0 \in Fds /\ ready[f0]
    BY DEF IInv, StateTypes, Open
  <1>2. StateTypes'
    BY <1>1 DEF IInv, StateTypes
  <1>3. PipesMatch' /\ HoldersUnauthenticated' /\ AllKnown'
    BY DEF IInv, PipesMatch, Open, HoldersUnauthenticated, Unauthenticated, AllKnown
  <1>4. TableMatches'
    BY DEF IInv, TableMatches, Open, EntryOf, Entries
  <1>5. CountsMatch'
    <2>1. OpenSlots' = OpenSlots
      BY DEF OpenSlots, Open
    <2>2. Flagged' = Flagged \ {i0}
      BY <1>1 DEF Flagged, Open
    <2>3. i0 \in Flagged <=> flags[i0]
      BY <1>1 DEF Flagged
    <2>4. IsFiniteSet(Flagged)
      BY SubsetsOfSlots DEF Flagged
    <2>5. Cardinality(Flagged') =
             IF flags[i0] THEN Cardinality(Flagged) - 1 ELSE Cardinality(Flagged)
      BY <2>2, <2>3, <2>4, FS_RemoveElement
    <2> QED BY <2>1, <2>5 DEF IInv, CountsMatch
  <1>6. PreliminariesFlagged'
    <2>1. ASSUME NEW c \in Clients, conn'[c] = "preliminaries"
          PROVE  \E i \in Slots : Open(i)' /\ end'[pipes'[i]] = c /\ flags'[i]
                                  /\ ~ready'[pipes'[i]]
      <3>1. PICK i \in Slots : Open(i) /\ end[pipes[i]] = c /\ flags[i] /\ ~ready[pipes[i]]
        BY <2>1 DEF IInv, PreliminariesFlagged
      <3>2. i # i0 /\ pipes[i] \in Fds
        BY <1>1, <3>1 DEF Open
      <3> QED BY <1>1, <3>1, <3>2 DEF Open
    <2> QED BY <2>1 DEF PreliminariesFlagged
  <1> QED BY <1>2, <1>3, <1>4, <1>5, <1>6 DEF IInv

(* A pipe that has ended gives its slot back.                              *)
LEMMA DoneStep ==
    ASSUME IInv, NEW i0 \in Slots, ChildDone(i0)
    PROVE  IInv'
  <1> USE DEF ChildDone, bounds
  <1> DEFINE f0 == pipes[i0]
  <1>1. /\ pipes \in [Slots -> Fds \union {NoFd}] /\ flags \in [Slots -> BOOLEAN]
        /\ end \in [Fds -> Clients \union {NoClient, Closed}]
        /\ Open(i0) /\ f0 \in Fds /\ end[f0] = Closed
    BY DEF IInv, StateTypes, Open
  <1>2. /\ child' \in [Slots -> Entry]
        /\ \A i \in Slots : child'[i] = NoEntry
             \/ (child'[i].id \in Fds /\ child'[i].source \in Sources)
        /\ \A k \in Slots : child[k].id # f0 => child'[k] = child[k]
        /\ PerSource # NoLimit => \A t \in Sources : Cardinality(Entries(t)') <= PerSource
    <2>1. StateTypes /\ TableMatches
      BY DEF IInv
    <2> QED BY <1>1, <2>1, ForgetEffect
  <1>3. StateTypes'
    BY <1>1, <1>2 DEF IInv, StateTypes
  (* What is said of the other slots stays as it was. *)
  <1>4. \A i \in Slots : Open(i)' <=> Open(i) /\ i # i0
    BY <1>1 DEF Open
  <1>5. ASSUME NEW i \in Slots, Open(i), i # i0
        PROVE  /\ pipes'[i] = pipes[i] /\ pipes[i] \in Fds /\ pipes[i] # f0
               /\ end'[pipes'[i]] = end[pipes[i]]
    BY <1>1, <1>5 DEF Open, IInv, PipesMatch
  <1>6. PipesMatch'
    <2>1. \A i, j \in Slots : Open(i)' /\ pipes'[i] = pipes'[j] => i = j
      BY <1>1, <1>4 DEF IInv, PipesMatch, Open
    <2>2. \A f \in Fds : end'[f] # NoClient => \E i \in Slots : pipes'[i] = f
      BY <1>1 DEF IInv, PipesMatch
    <2>3. \A i \in Slots : Open(i)' => end'[pipes'[i]] # NoClient
      BY <1>4, <1>5 DEF IInv, PipesMatch
    <2> QED BY <2>1, <2>2, <2>3 DEF PipesMatch
  <1>7. CountsMatch'
    <2>1. OpenSlots' = OpenSlots \ {i0} /\ i0 \in OpenSlots
      BY <1>1, <1>4 DEF OpenSlots
    <2>2. Flagged' = Flagged \ {i0}
      BY <1>4 DEF Flagged
    <2>3. i0 \in Flagged <=> flags[i0]
      BY <1>1 DEF Flagged
    <2>4. IsFiniteSet(Flagged) /\ IsFiniteSet(OpenSlots)
      BY SubsetsOfSlots DEF Flagged, OpenSlots
    <2>5. Cardinality(Flagged') =
             IF flags[i0] THEN Cardinality(Flagged) - 1 ELSE Cardinality(Flagged)
      BY <2>2, <2>3, <2>4, FS_RemoveElement
    <2>6. Cardinality(OpenSlots') = Cardinality(OpenSlots) - 1
      BY <2>1, <2>4, FS_RemoveElement
    <2> QED BY <2>5, <2>6 DEF IInv, CountsMatch
  <1>8. HoldersUnauthenticated'
    BY <1>4, <1>5 DEF IInv, HoldersUnauthenticated, Unauthenticated
  <1>9. PreliminariesFlagged'
    <2>1. ASSUME NEW c \in Clients, conn'[c] = "preliminaries"
          PROVE  \E i \in Slots : Open(i)' /\ end'[pipes'[i]] = c /\ flags'[i]
                                  /\ ~ready'[pipes'[i]]
      <3>1. PICK i \in Slots : Open(i) /\ end[pipes[i]] = c /\ flags[i] /\ ~ready[pipes[i]]
        BY <2>1 DEF IInv, PreliminariesFlagged
      <3>2. i # i0
        BY <1>1, <3>1, LimitAssumption
      <3> QED BY <1>4, <1>5, <3>1, <3>2
    <2> QED BY <2>1 DEF PreliminariesFlagged
  <1>10. AllKnown'
    <2>1. ASSUME hups' = 0, NEW d \in Unauthenticated'
          PROVE  \E i \in Slots : Open(i)' /\ end'[pipes'[i]] = d
      <3>1. d \in Unauthenticated /\ d # Closed
        BY LimitAssumption DEF Unauthenticated
      <3>2. PICK i \in Slots : Open(i) /\ end[pipes[i]] = d
        BY <2>1, <3>1 DEF IInv, AllKnown
      <3>3. i # i0
        BY <1>1, <3>1, <3>2
      <3> QED BY <1>4, <1>5, <3>2, <3>3
    <2> QED BY <2>1 DEF IInv, AllKnown
  <1>11. TableMatches'
    <2>1. ASSUME PerSource # NoLimit, NEW i \in Slots, Open(i)', end'[pipes'[i]] \in Clients
          PROVE  EntryOf(i)'
      <3>1. Open(i) /\ i # i0
        BY <1>4, <2>1
      <3>2. PICK k \in Slots : child[k].id = pipes[i] /\ child[k].source = Source[end[pipes[i]]]
        BY <1>5, <2>1, <3>1 DEF IInv, TableMatches, EntryOf
      <3>3. child'[k] = child[k]
        BY <1>2, <1>5, <3>1, <3>2
      <3> QED BY <1>5, <3>1, <3>2, <3>3 DEF EntryOf
    <2> QED BY <1>2, <2>1 DEF TableMatches
  <1> QED BY <1>3, <1>6, <1>7, <1>8, <1>9, <1>10, <1>11 DEF IInv

(* The new execution starts from nothing, and no child is waited for.      *)
LEMMA RestartStep ==
    ASSUME IInv, Restart
    PROVE  IInv' /\ \A c \in Clients : conn[c] # "preliminaries"
  <1> USE DEF Restart
  <1>1. \A c \in Clients : conn[c] # "preliminaries"
    <2>1. IsFiniteSet(Flagged) /\ Cardinality(Flagged) = 0
      BY SubsetsOfSlots DEF Flagged, IInv, CountsMatch
    <2>2. Flagged = {}
      BY <2>1, FS_EmptySet
    <2> QED BY <2>2 DEF IInv, PreliminariesFlagged, Flagged
  <1>2. \A i \in Slots : ~Open(i)' /\ child'[i] = NoEntry
    BY DEF Open
  <1>3. StateTypes'
    <2>1. NoEntry \in Entry
      BY DEF NoEntry, Entry
    <2>2. child' \in [Slots -> Entry]
      BY <2>1
    <2>3. /\ pipes' \in [Slots -> Fds \union {NoFd}] /\ flags' \in [Slots -> BOOLEAN]
          /\ end' \in [Fds -> Clients \union {NoClient, Closed}] /\ ready' \in [Fds -> BOOLEAN]
      OBVIOUS
    <2>4. conn' \in [Clients -> States] /\ hups' \in Nat
      BY DEF IInv, StateTypes, bounds
    <2>5. lameduck' \in BOOLEAN /\ hup' \in BOOLEAN
      BY Zenon
    <2> QED BY <1>2, <2>2, <2>3, <2>4, <2>5 DEF StateTypes
  <1>4. PipesMatch'
    BY <1>2 DEF PipesMatch
  <1>5. CountsMatch'
    <2>1. OpenSlots' = {} /\ Flagged' = {}
      BY <1>2 DEF OpenSlots, Flagged
    <2> QED BY <2>1, FS_EmptySet DEF CountsMatch
  <1>6. HoldersUnauthenticated' /\ PreliminariesFlagged'
    BY <1>1, <1>2 DEF HoldersUnauthenticated, PreliminariesFlagged
  <1>7. AllKnown'
    BY DEF IInv, AllKnown, bounds
  <1>8. TableMatches'
    <2>1. \A s \in Sources : Entries(s)' = {}
      BY <1>2 DEF Entries, NoEntry
    <2>2. PerSource # NoLimit => \A s \in Sources : Cardinality(Entries(s)') <= PerSource
      BY <2>1, FS_EmptySet, LimitAssumption
    <2> QED BY <1>2, <2>2 DEF TableMatches
  <1> QED BY <1>1, <1>3, <1>4, <1>5, <1>6, <1>7, <1>8 DEF IInv

(* A child leaves what the listener has not authenticated, and closes its  *)
(* end of the pipe.                                                        *)
LEMMA LeaveStep ==
    ASSUME IInv, NEW c \in Clients, ClosePipe(c), UNCHANGED <<listener, ready, bounds>>,
           conn[c] \in {"preliminaries", "authenticating"},
           NEW s \in {"authenticated", "none"}, conn' = [conn EXCEPT ![c] = s]
    PROVE  IInv'
  <1> USE DEF listener, bounds
  <1>1. /\ pipes \in [Slots -> Fds \union {NoFd}] /\ conn \in [Clients -> States]
        /\ end \in [Fds -> Clients \union {NoClient, Closed}]
        /\ NoClient \notin Clients /\ Closed \notin Clients /\ NoClient # Closed
        /\ NoFd \notin Fds
    BY LimitAssumption, Sets DEF IInv, StateTypes
  <1>2. end' = [f \in Fds |-> IF end[f] = c THEN Closed ELSE end[f]]
    BY DEF ClosePipe
  <1>3. Unauthenticated' = Unauthenticated \ {c} /\ conn'[c] \notin {"preliminaries"}
    BY <1>1 DEF Unauthenticated
  <1>4. StateTypes'
    <2>1. end' \in [Fds -> Clients \union {NoClient, Closed}]
      BY <1>1, <1>2
    <2>2. conn' \in [Clients -> States]
      BY <1>1 DEF States
    <2> QED BY <2>1, <2>2 DEF IInv, StateTypes
  <1>5. \A i \in Slots : Open(i)' <=> Open(i)
    BY DEF Open
  <1>6. ASSUME NEW i \in Slots, Open(i)
        PROVE  /\ pipes[i] \in Fds /\ pipes'[i] = pipes[i]
               /\ end'[pipes'[i]] = IF end[pipes[i]] = c THEN Closed ELSE end[pipes[i]]
    BY <1>1, <1>2, <1>6 DEF Open
  <1>7. PipesMatch'
    <2>1. \A i, j \in Slots : Open(i)' /\ pipes'[i] = pipes'[j] => i = j
      BY <1>5 DEF IInv, PipesMatch
    <2>2. \A f \in Fds : end'[f] # NoClient => \E i \in Slots : pipes'[i] = f
      BY <1>1, <1>2 DEF IInv, PipesMatch
    <2>3. \A i \in Slots : Open(i)' => end'[pipes'[i]] # NoClient
      BY <1>1, <1>5, <1>6 DEF IInv, PipesMatch
    <2> QED BY <2>1, <2>2, <2>3 DEF PipesMatch
  <1>8. CountsMatch'
    BY DEF IInv, CountsMatch, OpenSlots, Flagged, Open
  <1>9. HoldersUnauthenticated'
    BY <1>3, <1>5, <1>6 DEF IInv, HoldersUnauthenticated
  <1>10. PreliminariesFlagged'
    <2>1. ASSUME NEW d \in Clients, conn'[d] = "preliminaries"
          PROVE  \E i \in Slots : Open(i)' /\ end'[pipes'[i]] = d /\ flags'[i]
                                  /\ ~ready'[pipes'[i]]
      <3>1. d # c /\ conn[d] = "preliminaries"
        BY <1>1, <2>1
      <3> QED BY <1>5, <1>6, <3>1 DEF IInv, PreliminariesFlagged
    <2> QED BY <2>1 DEF PreliminariesFlagged
  <1>11. AllKnown'
    <2>1. ASSUME hups' = 0, NEW d \in Unauthenticated'
          PROVE  \E i \in Slots : Open(i)' /\ end'[pipes'[i]] = d
      BY <1>3, <1>5, <1>6, <2>1 DEF IInv, AllKnown
    <2> QED BY <2>1 DEF IInv, AllKnown
  <1>12. TableMatches'
    <2>1. ASSUME PerSource # NoLimit, NEW i \in Slots, Open(i)', end'[pipes'[i]] \in Clients
          PROVE  EntryOf(i)'
      <3>1. Open(i) /\ end'[pipes'[i]] = end[pipes[i]] /\ end[pipes[i]] \in Clients
        BY <1>1, <1>5, <1>6, <2>1
      <3>2. EntryOf(i)
        BY <2>1, <3>1 DEF IInv, TableMatches
      <3> QED BY <3>1, <3>2 DEF EntryOf
    <2>2. \A s1 \in Sources : Entries(s1)' = Entries(s1)
      BY DEF Entries
    <2> QED BY <2>1, <2>2 DEF IInv, TableMatches
  <1> QED BY <1>4, <1>7, <1>8, <1>9, <1>10, <1>11, <1>12 DEF IInv

(* A child has its configuration: it has yet to be counted.                *)
LEMMA ConfiguredStep ==
    ASSUME IInv, NEW c \in Clients, Configured(c)
    PROVE  IInv'
  <1> USE DEF Configured, listener, bounds
  <1>1. /\ pipes \in [Slots -> Fds \union {NoFd}] /\ conn \in [Clients -> States]
        /\ ready' = [f \in Fds |-> ready[f] \/ end[f] = c]
    BY DEF IInv, StateTypes
  <1>2. Unauthenticated' = Unauthenticated
    BY <1>1 DEF Unauthenticated
  <1>3. StateTypes'
    <2>1. conn' \in [Clients -> States] /\ ready' \in [Fds -> BOOLEAN]
      BY <1>1 DEF States
    <2> QED BY <2>1 DEF IInv, StateTypes
  <1>4. PipesMatch' /\ CountsMatch'
    BY DEF IInv, PipesMatch, CountsMatch, OpenSlots, Flagged, Open
  <1>5. HoldersUnauthenticated' /\ AllKnown'
    BY <1>2 DEF IInv, HoldersUnauthenticated, AllKnown, Open
  <1>6. PreliminariesFlagged'
    <2>1. ASSUME NEW d \in Clients, conn'[d] = "preliminaries"
          PROVE  \E i \in Slots : Open(i)' /\ end'[pipes'[i]] = d /\ flags'[i]
                                  /\ ~ready'[pipes'[i]]
      <3>1. d # c /\ conn[d] = "preliminaries"
        BY <1>1, <2>1
      <3>2. PICK i \in Slots : Open(i) /\ end[pipes[i]] = d /\ flags[i] /\ ~ready[pipes[i]]
        BY <3>1 DEF IInv, PreliminariesFlagged
      <3>3. pipes[i] \in Fds
        BY <1>1, <3>2 DEF Open
      <3> QED BY <1>1, <3>1, <3>2, <3>3 DEF Open
    <2> QED BY <2>1 DEF PreliminariesFlagged
  <1>7. TableMatches'
    BY DEF IInv, TableMatches, Open, EntryOf, Entries
  <1> QED BY <1>3, <1>4, <1>5, <1>6, <1>7 DEF IInv

LEMMA InvNext == IInv /\ [Next]_vars => IInv'
  <1> SUFFICES ASSUME IInv, [Next]_vars PROVE IInv'
    OBVIOUS
  <1> USE DEF listener, bounds
  <1>1. /\ conn \in [Clients -> States] /\ lameduck \in BOOLEAN /\ hups \in Nat
    BY DEF IInv, StateTypes
  <1>2. ASSUME NEW c \in Clients, Connect(c) \/ Drop(c) \/ ReexecFails(c) \/ SessionEnds(c)
        PROVE  IInv'
    <2>1. /\ conn' \in [Clients -> States] /\ Unauthenticated' = Unauthenticated
          /\ \A d \in Clients : conn'[d] = "preliminaries" => conn[d] = "preliminaries"
      BY <1>1, <1>2 DEF Connect, Drop, ReexecFails, SessionEnds, States, Unauthenticated
    <2>2. UNCHANGED <<pipes, flags, startups, listening, lameduck, hup, child, end, ready, hups>>
      BY <1>2 DEF Connect, Drop, ReexecFails, SessionEnds
    <2> QED BY <1>1, <2>1, <2>2, OnlyConnections
  <1>3. ASSUME NEW c \in Clients, Fork(c) PROVE IInv'
    <2>1. /\ Admitted(c) /\ Record(c, c) /\ UNCHANGED <<lameduck, hup, hups>>
          /\ conn' = [conn EXCEPT ![c] = IF c = c THEN "preliminaries" ELSE "none"]
      BY <1>3 DEF Fork
    <2> QED BY <2>1, RecordStep
  <1>4. ASSUME NEW c \in Clients, ForkFails(c) PROVE IInv'
    <2>1. Closed # c
      BY LimitAssumption
    <2>2. /\ Admitted(c) /\ Record(c, Closed) /\ UNCHANGED <<lameduck, hup, hups>>
          /\ conn' = [conn EXCEPT ![c] = IF Closed = c THEN "preliminaries" ELSE "none"]
      BY <1>4, <2>1 DEF ForkFails
    <2> QED BY <2>2, RecordStep
  <1>5. ASSUME NEW c \in Clients, Authenticate(c) PROVE IInv'
    <2>1. /\ conn[c] \in {"preliminaries", "authenticating"} /\ ClosePipe(c)
          /\ UNCHANGED <<listener, ready, bounds>>
          /\ conn' = [conn EXCEPT ![c] = "authenticated"]
      BY <1>5 DEF Authenticate
    <2> HIDE DEF listener, bounds
    <2> QED BY <2>1, LeaveStep
  <1>6. ASSUME NEW c \in Clients, Give(c) PROVE IInv'
    <2>1. /\ conn[c] \in {"preliminaries", "authenticating"} /\ ClosePipe(c)
          /\ UNCHANGED <<listener, ready, bounds>>
          /\ conn' = [conn EXCEPT ![c] = "none"]
      BY <1>6 DEF Give
    <2> HIDE DEF listener, bounds
    <2> QED BY <2>1, LeaveStep
  <1>7. CASE ReceiveHup
    <2>1. /\ hups' \in Nat /\ hups' # 0 /\ hup' = TRUE
          /\ UNCHANGED <<conn, pipes, flags, startups, listening, lameduck, child, end, ready>>
      BY <1>1, <1>7 DEF ReceiveHup
    <2>2. StateTypes'
      BY <2>1 DEF IInv, StateTypes
    <2>3. PipesMatch' /\ CountsMatch' /\ AllKnown'
      BY <2>1 DEF IInv, PipesMatch, CountsMatch, OpenSlots, Flagged, Open, AllKnown
    <2>4. HoldersUnauthenticated' /\ PreliminariesFlagged'
      BY <2>1 DEF IInv, HoldersUnauthenticated, Unauthenticated, PreliminariesFlagged, Open
    <2>5. TableMatches'
      BY <2>1 DEF IInv, TableMatches, Open, EntryOf, Entries
    <2> QED BY <2>2, <2>3, <2>4, <2>5 DEF IInv
  <1>8. CASE StopListening
    <2>1. /\ conn' = [c \in Clients |-> IF conn[c] = "waiting" THEN "none" ELSE conn[c]]
          /\ lameduck' = TRUE
          /\ UNCHANGED <<pipes, flags, startups, listening, hup, child, end, ready, hups>>
      BY <1>8 DEF StopListening
    <2>2. /\ conn' \in [Clients -> States] /\ Unauthenticated' = Unauthenticated
          /\ \A d \in Clients : conn'[d] = "preliminaries" => conn[d] = "preliminaries"
      BY <1>1, <2>1 DEF States, Unauthenticated
    <2> QED BY <2>1, <2>2, OnlyConnections
  <1>9. CASE UNCHANGED vars
    <2>1. /\ conn' = conn
          /\ UNCHANGED <<pipes, flags, startups, listening, lameduck, hup, child, end, ready, hups>>
      BY <1>9 DEF vars
    <2>2. Unauthenticated' = Unauthenticated
      BY <2>1 DEF Unauthenticated
    <2> QED BY <1>1, <2>1, <2>2, OnlyConnections
  <1>10. CASE Restart
    BY <1>10, RestartStep
  <1>11. ASSUME NEW c \in Clients, SocketpairFails(c) PROVE IInv'
    BY <1>11, SocketpairStep
  <1>12. ASSUME NEW c \in Clients, Configured(c) PROVE IInv'
    BY <1>12, ConfiguredStep
  <1>13. ASSUME NEW i \in Slots, ChildReady(i) PROVE IInv'
    BY <1>13, ReadyStep
  <1>14. ASSUME NEW i \in Slots, ChildDone(i) PROVE IInv'
    BY <1>14, DoneStep
  <1> HIDE DEF listener, bounds
  <1> QED BY <1>2, <1>3, <1>4, <1>5, <1>6, <1>7, <1>8, <1>9, <1>10, <1>11, <1>12, <1>13, <1>14
          DEF Next

(* The table of srclimit.c follows the pipes through every step.           *)
LEMMA StepInStep == IInv /\ InStep /\ [Next]_vars => InStep'
  <1> SUFFICES ASSUME IInv, InStep, [Next]_vars PROVE InStep'
    OBVIOUS
  <1> USE DEF bounds
  <1>1. StateTypes /\ TableMatches /\ pipes \in [Slots -> Fds \union {NoFd}] /\ NoFd \notin Fds
    BY Sets DEF IInv, StateTypes
  <1>2. IsFiniteSet(Used) /\ Cardinality(Used) \in Nat /\ startups \in Nat /\ leaks \in Nat
    BY SubsetsOfSlots, LimitAssumption DEF Used, InStep, IInv, CountsMatch, OpenSlots
  <1>3. ASSUME UNCHANGED <<pipes, child, startups, leaks>> PROVE InStep'
    BY <1>3 DEF InStep, Open, Used, Listed
  <1>4. ASSUME NEW c \in Clients, SocketpairFails(c) PROVE InStep'
    <2>1. /\ Source[c] \in Sources /\ SourceAllowed(Source[c]) /\ NewPipe \in Fds
          /\ child' = Note(Source[c], NewPipe) /\ leaks' = leaks + 1
          /\ UNCHANGED <<pipes, startups>>
      BY <1>4, NewPipeFree, LimitAssumption DEF SocketpairFails, Admitted
    <2>2. ASSUME PerSource # NoLimit
          PROVE  /\ Cardinality(Used') = startups' + leaks'
                 /\ \A i \in Slots : Open(i)' => \E k \in Slots : child'[k].id = pipes'[i]
      <3>1. Cardinality(Used') = Cardinality(Used) + 1
        BY <1>1, <2>1, <2>2, NoteAdds
      <3>2. \A k \in Slots : Listed(k) => child'[k] = child[k]
        BY <1>1, <2>1, NoteEffect
      <3>3. Cardinality(Used') = startups' + leaks'
        BY <1>2, <2>1, <2>2, <3>1 DEF InStep
      <3> QED BY <2>1, <2>2, <3>2, <3>3 DEF InStep, Open, Listed
    <2> QED BY <1>2, <2>1, <2>2 DEF InStep
  <1>5. ASSUME NEW c \in Clients, NEW e, Admitted(c), Record(c, e), leaks' = leaks
        PROVE  InStep'
    <2> DEFINE i0 == Least({j \in Slots : pipes[j] = NoFd})
               f0 == NewPipe
    <2>1. /\ Source[c] \in Sources /\ SourceAllowed(Source[c]) /\ f0 \in Fds
          /\ child' = Note(Source[c], f0) /\ startups' = startups + 1
          /\ pipes' = [pipes EXCEPT ![i0] = f0]
      BY <1>5, NewPipeFree, LimitAssumption DEF Record, Admitted
    <2> HIDE DEF i0, f0
    <2>2. ASSUME PerSource # NoLimit
          PROVE  /\ Cardinality(Used') = startups' + leaks'
                 /\ \A i \in Slots : Open(i)' => \E k \in Slots : child'[k].id = pipes'[i]
      <3>1. Cardinality(Used') = Cardinality(Used) + 1
        BY <1>1, <2>1, <2>2, NoteAdds
      <3>2. /\ \A k \in Slots : Listed(k) => child'[k] = child[k]
            /\ \E k \in Slots : child'[k].id = f0
        BY <1>1, <2>1, <2>2, NoteEffect
      <3>3. Cardinality(Used') = startups' + leaks'
        BY <1>2, <1>5, <2>1, <2>2, <3>1 DEF InStep
      <3>4. ASSUME NEW i \in Slots, Open(i)' PROVE \E k \in Slots : child'[k].id = pipes'[i]
        <4>1. CASE pipes'[i] = f0
          BY <3>2, <4>1
        <4>2. CASE pipes'[i] # f0
          <5>1. pipes'[i] = pipes[i] /\ Open(i)
            BY <1>1, <2>1, <3>4, <4>2 DEF Open
          <5>2. PICK k \in Slots : child[k].id = pipes[i]
            BY <2>2, <5>1 DEF InStep
          <5> QED BY <3>2, <5>1, <5>2 DEF Open, Listed
        <4> QED BY <4>1, <4>2
      <3> QED BY <3>3, <3>4
    <2> QED BY <1>2, <1>5, <2>2 DEF InStep
  <1>6. ASSUME NEW i0 \in Slots, ChildDone(i0) PROVE InStep'
    <2> DEFINE f0 == pipes[i0]
    <2>1. /\ Open(i0) /\ f0 \in Fds /\ child' = Forget(f0) /\ startups' = startups - 1
          /\ leaks' = leaks /\ pipes' = [pipes EXCEPT ![i0] = NoFd]
      BY <1>1, <1>6 DEF ChildDone, Open
    <2>2. ASSUME PerSource # NoLimit
          PROVE  /\ Cardinality(Used') = startups' + leaks'
                 /\ \A i \in Slots : Open(i)' => \E k \in Slots : child'[k].id = pipes'[i]
      <3>1. \E k \in Slots : child[k].id = f0
        BY <2>1, <2>2 DEF InStep
      <3>2. \A k \in Slots : child[k].id # f0 => child'[k] = child[k]
        <4> HIDE DEF f0
        <4> QED BY <1>1, <2>1, ForgetEffect
      <3>3. Cardinality(Used') = Cardinality(Used) - 1
        <4> HIDE DEF f0
        <4> QED BY <1>1, <2>1, <3>1, ForgetRemoves
      <3>4. Cardinality(Used') = startups' + leaks'
        BY <1>2, <2>1, <2>2, <3>3 DEF InStep
      <3>5. ASSUME NEW i \in Slots, Open(i)' PROVE \E k \in Slots : child'[k].id = pipes'[i]
        <4>1. i # i0 /\ pipes'[i] = pipes[i] /\ Open(i)
          BY <1>1, <2>1, <3>5 DEF Open
        <4>2. pipes[i] # f0
          BY <2>1, <4>1 DEF IInv, PipesMatch
        <4>3. PICK k \in Slots : child[k].id = pipes[i]
          BY <2>2, <4>1 DEF InStep
        <4> QED BY <3>2, <4>1, <4>2, <4>3
      <3> QED BY <3>4, <3>5
    <2> QED BY <1>2, <2>1, <2>2 DEF InStep
  <1>7. CASE Restart
    <2>1. leaks' = 0 /\ startups' = 0 /\ \A i \in Slots : ~Open(i)' /\ ~Listed(i)'
      BY <1>7 DEF Restart, Open, Listed, NoEntry
    <2>2. Used' = {}
      BY <2>1 DEF Used
    <2> QED BY <2>1, <2>2, FS_EmptySet DEF InStep
  <1>8. ASSUME NEW c \in Clients,
               \/ Connect(c) \/ Drop(c) \/ Configured(c) \/ ReexecFails(c)
               \/ Authenticate(c) \/ Give(c) \/ SessionEnds(c)
        PROVE  InStep'
    BY <1>3, <1>8 DEF Connect, Drop, Configured, ReexecFails, Authenticate, Give, SessionEnds,
                      listener
  <1>9. ASSUME NEW c \in Clients, Fork(c) PROVE InStep'
    BY <1>5, <1>9 DEF Fork
  <1>10. ASSUME NEW c \in Clients, ForkFails(c) PROVE InStep'
    BY <1>5, <1>10 DEF ForkFails
  <1>11. ASSUME NEW i \in Slots, ChildReady(i) PROVE InStep'
    BY <1>3, <1>11 DEF ChildReady
  <1>12. ASSUME ReceiveHup \/ StopListening \/ UNCHANGED vars PROVE InStep'
    BY <1>3, <1>12 DEF ReceiveHup, StopListening, vars, listener
  <1> HIDE DEF bounds
  <1> QED BY <1>4, <1>6, <1>7, <1>8, <1>9, <1>10, <1>11, <1>12 DEF Next

LEMMA Invariance == Spec => [](IInv /\ InStep)
  <1>1. Init => InStep
    <2> SUFFICES ASSUME Init PROVE InStep
      OBVIOUS
    <2>1. leaks = 0 /\ startups = 0 /\ \A i \in Slots : ~Open(i) /\ ~Listed(i)
      BY DEF Init, Open, Listed, NoEntry
    <2>2. Used = {}
      BY <2>1 DEF Used
    <2> QED BY <2>1, <2>2, FS_EmptySet DEF InStep
  <1> QED BY <1>1, InvInit, InvNext, StepInStep, PTL DEF Spec

-----------------------------------------------------------------------------
(* The results.                                                            *)

(* The listener's table of pipes is well formed whatever the children do.  *)
(* (sshd.c, server_accept_loop; srclimit.c)                                *)
THEOREM TypeCorrect == Spec => []TypeOK
  <1>1. IInv /\ InStep => TypeOK
    <2> SUFFICES ASSUME IInv, InStep PROVE TypeOK
      OBVIOUS
    <2>1. startups \in 0..Full /\ listening \in 0..Full
      BY SubsetsOfSlots DEF IInv, CountsMatch, OpenSlots, Flagged
    <2> QED BY <2>1 DEF IInv, InStep, StateTypes, PipesMatch, TypeOK
  <1> QED BY <1>1, Invariance, PTL

(* The listener's count is that of the pipes it holds, and before the      *)
(* first SIGHUP that of the children that have not authenticated or have   *)
(* gone unnoticed (sshd.c, server_accept_loop).                            *)
THEOREM CountExact == Spec => []StartupsExact
  <1>1. IInv => StartupsExact
    <2> SUFFICES ASSUME IInv PROVE StartupsExact
      OBVIOUS
    <2>1. startups = Cardinality({i \in Slots : Open(i)})
      BY DEF IInv, CountsMatch, OpenSlots
    <2>2. hups = 0 => Counted = Unauthenticated
      BY DEF IInv, AllKnown, Counted
    <2>3. \A i \in Slots : Open(i) => end[pipes[i]] \in Counted \union {Closed}
      BY DEF IInv, HoldersUnauthenticated, Counted
    <2> QED BY <2>1, <2>2, <2>3 DEF StartupsExact
  <1> QED BY <1>1, Invariance, PTL

(* PerSourceMaxStartups is kept, though srclimit.c counts its own entries  *)
(* and the entry of a failed socketpair stays.                             *)
THEOREM SourcesLimited == Spec => []SourceLimited
  <1>1. IInv => SourceLimited
    <2> SUFFICES ASSUME IInv, PerSource # NoLimit, NEW s \in Sources
                 PROVE  Cardinality({c \in Counted : Source[c] = s}) <= PerSource
      BY DEF SourceLimited
    <2> DEFINE mine == {c \in Counted : Source[c] = s}
               slot == [c \in mine |-> CHOOSE i \in Slots : Open(i) /\ end[pipes[i]] = c]
               entry == [c \in mine |->
                           CHOOSE k \in Slots :
                               child[k].id = pipes[slot[c]] /\ child[k].source = s]
    <2>1. \A c \in mine : slot[c] \in Slots /\ Open(slot[c]) /\ end[pipes[slot[c]]] = c
      BY DEF Counted
    <2> HIDE DEF slot
    <2>2. ASSUME NEW c \in mine
          PROVE  /\ entry[c] \in Slots /\ child[entry[c]].id = pipes[slot[c]]
                 /\ child[entry[c]].source = s
      <3>1. c \in Clients /\ Source[c] = s
        BY DEF Counted, Unauthenticated
      <3>2. \E k \in Slots : child[k].id = pipes[slot[c]] /\ child[k].source = s
        BY <2>1, <3>1 DEF IInv, TableMatches, EntryOf
      <3> QED BY <3>2
    <2> HIDE DEF entry
    <2>3. \A c \in mine : entry[c] \in Entries(s)
      BY <2>1, <2>2 DEF Entries, Open
    <2>4. \A c, d \in mine : entry[c] = entry[d] => c = d
      BY <2>1, <2>2
    <2>5. entry \in Injection(mine, Entries(s))
      <3>1. entry \in [mine -> Entries(s)]
        BY <2>3 DEF entry
      <3> HIDE DEF mine
      <3> QED BY <2>4, <3>1 DEF Injection, IsInjective
    <2>6. IsFiniteSet(Entries(s)) /\ Cardinality(Entries(s)) \in Nat
      BY SubsetsOfSlots DEF Entries
    <2>7. IsFiniteSet(mine) /\ Cardinality(mine) <= Cardinality(Entries(s))
      <3> HIDE DEF mine
      <3> QED BY <2>5, <2>6, FS_Injection
    <2>8. Cardinality(mine) \in Nat
      <3> HIDE DEF mine
      <3> QED BY <2>7, FS_CardinalityType
    <2>9. Cardinality(Entries(s)) <= PerSource
      BY DEF IInv, TableMatches
    <2> HIDE DEF mine
    <2>10. Cardinality(mine) <= PerSource
      BY <2>6, <2>7, <2>8, <2>9, LimitAssumption
    <2> QED BY <2>10 DEF mine
  <1> QED BY <1>1, Invariance, PTL

(* The table of srclimit.c has the entries of the pipes and of the failed  *)
(* socketpairs, whichever descriptors are used again (srclimit.c,          *)
(* srclimit_done; sshd.c:1273).                                            *)
THEOREM TableStays == Spec => []TableInStep
  <1>1. InStep => TableInStep
    BY DEF InStep, TableInStep, Used, Listed
  <1> QED BY <1>1, Invariance, PTL

(* The listener executes itself again only when no child is still to get   *)
(* its configuration (sshd.c:1174-1181).                                   *)
THEOREM ChildrenSpared == Spec => RestartSparesChildren
  <1>1. IInv /\ [Next]_vars => [Restart => \A c \in Clients : conn[c] # "preliminaries"]_vars
    BY RestartStep
  <1> QED BY <1>1, Invariance, PTL DEF Spec, RestartSparesChildren
=============================================================================
