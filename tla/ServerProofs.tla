---------------------------- MODULE ServerProofs ----------------------------
(***************************************************************************)
(* Theorems about TcpServer, for any number of addresses, descriptors,     *)
(* frames and close requests, with or without failing writes, and about    *)
(* the composed server.                                                    *)
(*                                                                         *)
(* ClosedOnce counts tasks and owners.  The invariant says which task each *)
(* phase of a connection has left behind: "established" while it is        *)
(* connecting, the removal between handle_close and the report to the      *)
(* service, "destroyed" between the report and the close of the            *)
(* descriptor, and each of them once.                                      *)
(*                                                                         *)
(* Every step of the composed server is a step of the transport and, seen  *)
(* through conns, a step of the service or none: so what is proved of      *)
(* TcpServer and of RoomService holds there.  What the composition adds is *)
(* the order in which the service sees frames and closes, and that the     *)
(* closes it asks for wait on the I/O loops.                               *)
(***************************************************************************)
EXTENDS Server, SequenceTheorems, FiniteSetTheorems, TLAPS

-----------------------------------------------------------------------------
(* TcpServer. *)

States == {"none", "connecting", "connected", "disconnecting", "disconnected"}

IoTasks == {"established", "close", "destroyed"}

BaseTasks == [kind : {"frame", "remove"}, conn : Conns]

TcpTypeOK ==
    /\ state \in [Conns -> States]
    /\ fd \in [Conns -> Fds \cup {NoFd}]
    /\ registered \subseteq Conns
    /\ reading \subseteq Conns
    /\ told \in [Conns -> {0, 1}]
    /\ DOMAIN table \subseteq Fds
    /\ \A f \in DOMAIN table : table[f] \in Conns
    /\ open \subseteq Fds
    /\ base \in Seq(BaseTasks)
    /\ io \in [Conns -> Seq(IoTasks)]

\* The object has a descriptor of its own.
Owns(c) == state[c] \notin {"none", "disconnected"}

\* An element of a sequence, and one that is there at most once.
Holds(s, e) == \E i \in 1 .. Len(s) : s[i] = e

AtMostOnce(s, e) == \A i, j \in 1 .. Len(s) : s[i] = e /\ s[j] = e => i = j

\* An address without an object: nothing refers to it.
NothingLeft ==
    \A c \in Conns : state[c] = "none" =>
        io[c] = <<>> /\ ~ Holds(base, Frame(c))

\* The close of an object was reported iff it has left the table.
TableOK ==
    /\ \A f \in DOMAIN table : fd[table[f]] = f /\ Owns(table[f]) /\ told[table[f]] = 0
    /\ \A c \in Conns : state[c] # "none" /\ told[c] = 0 =>
         fd[c] \in DOMAIN table /\ table[fd[c]] = c

\* What each phase of c has left in the queues.
PhaseOK(c) ==
    /\ Holds(base, Removal(c)) <=> state[c] = "disconnecting" /\ told[c] = 0
    /\ AtMostOnce(base, Removal(c))
    /\ Holds(io[c], "destroyed") <=> state[c] = "disconnecting" /\ told[c] = 1
    /\ AtMostOnce(io[c], "destroyed")
    /\ state[c] = "connecting" => io[c] # <<>> /\ Head(io[c]) = "established"
    /\ \A i \in 1 .. Len(io[c]) : io[c][i] = "established" => i = 1 /\ state[c] = "connecting"
    /\ state[c] \in {"connecting", "connected"} => told[c] = 0
    /\ state[c] = "disconnected" => told[c] = 1
    /\ c \in reading \cup registered => state[c] \in {"connected", "disconnecting"}

PhasesOK == \A c \in Conns : PhaseOK(c)

\* Open descriptors and objects that own one correspond.
OwnersOK ==
    /\ \A c \in Conns : Owns(c) => fd[c] \in open
    /\ \A f \in open : \E c \in Conns : Owns(c) /\ fd[c] = f
    /\ \A c, d \in Conns : Owns(c) /\ Owns(d) /\ fd[c] = fd[d] => c = d

TcpInv == TcpTypeOK /\ NothingLeft /\ TableOK /\ PhasesOK /\ OwnersOK

-----------------------------------------------------------------------------
(* Sequences of tasks. *)

\* A task is queued.
LEMMA AppendHolds ==
    ASSUME NEW S, NEW s \in Seq(S), NEW x \in S, NEW e
    PROVE  /\ Append(s, x) \in Seq(S) /\ Append(s, x) # <<>>
           /\ s # <<>> => Head(Append(s, x)) = Head(s)
           /\ Holds(Append(s, x), e) <=> Holds(s, e) \/ x = e
           /\ AtMostOnce(s, e) /\ (x = e => ~ Holds(s, e)) => AtMostOnce(Append(s, x), e)
  <1> DEFINE n == Append(s, x)
  <1>1. /\ n \in Seq(S) /\ Len(n) = Len(s) + 1
        /\ \A i \in 1 .. Len(s) : n[i] = s[i]
        /\ n[Len(s) + 1] = x
        /\ Len(s) \in Nat
    OBVIOUS
  <1>2. n # <<>> /\ (s # <<>> => Head(n) = Head(s))
    BY SMTT(30)
  <1> HIDE DEF n
  <1>3. Holds(n, e) <=> Holds(s, e) \/ x = e
    BY <1>1 DEF Holds
  <1>4. AtMostOnce(s, e) /\ (x = e => ~ Holds(s, e)) => AtMostOnce(n, e)
    BY <1>1 DEF Holds, AtMostOnce
  <1> QED BY <1>1, <1>2, <1>3, <1>4 DEF n

\* The first task is taken.
LEMMA TailHolds ==
    ASSUME NEW S, NEW s \in Seq(S), s # <<>>, NEW e
    PROVE  /\ Tail(s) \in Seq(S)
           /\ Holds(s, Head(s))
           /\ Head(s) # e => (Holds(Tail(s), e) <=> Holds(s, e))
           /\ Head(s) = e /\ AtMostOnce(s, e) => ~ Holds(Tail(s), e)
           /\ AtMostOnce(s, e) => AtMostOnce(Tail(s), e)
           /\ \A i \in 1 .. Len(Tail(s)) : i + 1 \in 1 .. Len(s) /\ Tail(s)[i] = s[i + 1]
  <1> DEFINE n == Tail(s)
  <1>1. /\ n \in Seq(S) /\ Len(n) = Len(s) - 1
        /\ \A i \in 1 .. Len(n) : i + 1 \in 1 .. Len(s) /\ n[i] = s[i + 1]
        /\ Head(s) = s[1]
        /\ Len(s) \in Nat \ {0}
    OBVIOUS
  <1> HIDE DEF n
  <1>2. Holds(s, Head(s))
    BY <1>1 DEF Holds
  <1>3. \A i \in 1 .. Len(s) : i = 1 \/ (i - 1 \in 1 .. Len(n) /\ n[i - 1] = s[i])
    BY <1>1
  <1>4. Head(s) # e => (Holds(n, e) <=> Holds(s, e))
    BY <1>1, <1>3 DEF Holds
  <1>5. Head(s) = e /\ AtMostOnce(s, e) => ~ Holds(n, e)
    BY <1>1 DEF Holds, AtMostOnce
  <1>6. AtMostOnce(s, e) => AtMostOnce(n, e)
    <2> SUFFICES ASSUME AtMostOnce(s, e), NEW i \in 1 .. Len(n), NEW j \in 1 .. Len(n),
                        n[i] = e, n[j] = e
                 PROVE  i = j
      BY DEF AtMostOnce
    <2>1. i + 1 = j + 1
      BY <1>1 DEF AtMostOnce
    <2> QED BY <1>1, <2>1
  <1> QED BY <1>1, <1>2, <1>4, <1>5, <1>6 DEF n

\* How often a task waits, when it does at most once.
LEMMA CountOnce ==
    ASSUME NEW S, NEW s \in Seq(S), NEW e, AtMostOnce(s, e)
    PROVE  Cardinality({i \in 1 .. Len(s) : s[i] = e}) = IF Holds(s, e) THEN 1 ELSE 0
  <1> DEFINE at == {i \in 1 .. Len(s) : s[i] = e}
  <1>1. CASE Holds(s, e)
    <2>1. PICK i \in 1 .. Len(s) : s[i] = e
      BY <1>1 DEF Holds
    <2>2. at = {i}
      BY <2>1 DEF AtMostOnce
    <2> QED BY <1>1, <2>2, FS_Singleton
  <1>2. CASE ~ Holds(s, e)
    <2>1. at = {}
      BY <1>2 DEF Holds
    <2> QED BY <1>2, <2>1, FS_EmptySet
  <1> QED BY <1>1, <1>2

-----------------------------------------------------------------------------
(* What the steps have in common. *)

\* The tasks of the base loop.
LEMMA BaseTaskTypes ==
    ASSUME NEW c \in Conns
    PROVE  /\ Frame(c) \in BaseTasks /\ Removal(c) \in BaseTasks
           /\ \A d \in Conns : /\ Frame(c) # Removal(d)
                               /\ Frame(c) = Frame(d) => c = d
                               /\ Removal(c) = Removal(d) => c = d
           /\ \A task \in BaseTasks : task.conn = c => task = Frame(c) \/ task = Removal(c)
  BY DEF Frame, Removal, BaseTasks

\* Whatever is referenced exists.
LEMMA ReferencedExists ==
    ASSUME TcpInv, NEW c \in Conns, Referenced(c)
    PROVE  state[c] # "none"
  <1>1. CASE c \in Range(table)
    BY <1>1 DEF TcpInv, TableOK, Owns, Range
  <1>2. CASE \E i \in 1 .. Len(base) : base[i].conn = c
    <2>1. PICK i \in 1 .. Len(base) : base[i].conn = c
      BY <1>2
    <2>2. base[i] \in BaseTasks
      BY DEF TcpInv, TcpTypeOK
    <2>3. base[i] = Frame(c) \/ base[i] = Removal(c)
      BY <2>1, <2>2, BaseTaskTypes
    <2>4. Holds(base, Frame(c)) \/ Holds(base, Removal(c))
      BY <2>3 DEF Holds
    <2> QED BY <2>4 DEF TcpInv, NothingLeft, PhasesOK, PhaseOK
  <1>3. CASE io[c] # <<>> \/ c \in reading
    BY <1>3 DEF TcpInv, NothingLeft, PhasesOK, PhaseOK
  <1> QED BY <1>1, <1>2, <1>3 DEF Referenced

\* An object that is not disconnected is referenced: by the table until its
\* close is reported, then by the task that closes the descriptor.
LEMMA OwnerIsReferenced ==
    ASSUME TcpInv, NEW c \in Conns, Owns(c)
    PROVE  Referenced(c)
  <1>1. CASE told[c] = 0
    BY <1>1 DEF TcpInv, TableOK, Owns, Referenced, Range
  <1>2. CASE told[c] = 1
    <2>1. PhaseOK(c) /\ state[c] \in States
      BY DEF TcpInv, TcpTypeOK, PhasesOK
    <2>2. state[c] = "disconnecting"
      BY <1>2, <2>1 DEF States, PhaseOK, Owns
    <2>3. Holds(io[c], "destroyed")
      BY <1>2, <2>1, <2>2 DEF PhaseOK
    <2>4. io[c] # <<>>
      BY <2>3 DEF Holds
    <2> QED BY <2>4 DEF Referenced
  <1> QED BY <1>1, <1>2 DEF TcpInv, TcpTypeOK

\* A connection the step does not concern.
LEMMA OtherPhase ==
    ASSUME NEW d \in Conns, PhaseOK(d),
           state'[d] = state[d], told'[d] = told[d], io'[d] = io[d],
           d \in reading' \cup registered' => d \in reading \cup registered,
           Holds(base', Removal(d)) <=> Holds(base, Removal(d)),
           AtMostOnce(base, Removal(d)) => AtMostOnce(base', Removal(d))
    PROVE  PhaseOK(d)'
  BY DEF PhaseOK

\* A step that opens and closes no descriptor and reports nothing.
LEMMA SameOwners ==
    ASSUME TcpInv, UNCHANGED <<fd, told, table, open>>,
           \A d \in Conns : /\ state'[d] = "none" <=> state[d] = "none"
                            /\ state'[d] = "disconnected" <=> state[d] = "disconnected"
    PROVE  TableOK' /\ OwnersOK'
  <1>1. \A d \in Conns : Owns(d)' <=> Owns(d)
    BY DEF Owns
  <1>2. \A f \in DOMAIN table : table[f] \in Conns
    BY DEF TcpInv, TcpTypeOK
  <1>3. TableOK'
    BY <1>1, <1>2 DEF TcpInv, TableOK
  <1>4. OwnersOK'
    BY <1>1 DEF TcpInv, OwnersOK
  <1> QED BY <1>3, <1>4

\* The first handle_close of a connection posts its removal, the others nothing.
LEMMA HandleCloseOK ==
    ASSUME TcpInv, NEW c \in Conns, HandleClose(c), state[c] # "none"
    PROVE  /\ state' \in [Conns -> States] /\ base' \in Seq(BaseTasks)
           /\ state'[c] \in {"disconnecting", "disconnected"}
           /\ state'[c] = "disconnected" <=> state[c] = "disconnected"
           /\ Holds(base', Removal(c)) <=> state'[c] = "disconnecting" /\ told[c] = 0
           /\ AtMostOnce(base', Removal(c))
           /\ \A d \in Conns : Holds(base', Frame(d)) <=> Holds(base, Frame(d))
           /\ \A d \in Conns : d # c =>
                /\ state'[d] = state[d]
                /\ Holds(base', Removal(d)) <=> Holds(base, Removal(d))
                /\ AtMostOnce(base, Removal(d)) => AtMostOnce(base', Removal(d))
  <1>1. CASE state[c] \in {"disconnecting", "disconnected"}
    BY <1>1 DEF HandleClose, TcpInv, TcpTypeOK, PhasesOK, PhaseOK
  <1>2. CASE state[c] \notin {"disconnecting", "disconnected"}
    <2>1. /\ state' = [state EXCEPT ![c] = "disconnecting"]
          /\ base' = Append(base, Removal(c))
      BY <1>2 DEF HandleClose
    <2>2. /\ state' \in [Conns -> States] /\ state'[c] = "disconnecting"
          /\ \A d \in Conns : d # c => state'[d] = state[d]
      BY <2>1 DEF TcpInv, TcpTypeOK, States
    <2>3. told[c] = 0 /\ ~ Holds(base, Removal(c)) /\ AtMostOnce(base, Removal(c))
      BY <1>2 DEF TcpInv, TcpTypeOK, States, PhasesOK, PhaseOK
    <2>4. base \in Seq(BaseTasks) /\ Removal(c) \in BaseTasks
      BY BaseTaskTypes DEF TcpInv, TcpTypeOK
    <2>5. /\ base' \in Seq(BaseTasks)
          /\ Holds(base', Removal(c)) /\ AtMostOnce(base', Removal(c))
      BY <2>1, <2>3, <2>4, AppendHolds
    <2>6. \A d \in Conns : Holds(base', Frame(d)) <=> Holds(base, Frame(d))
      BY <2>1, <2>4, AppendHolds, BaseTaskTypes
    <2>7. ASSUME NEW d \in Conns, d # c
          PROVE  /\ Holds(base', Removal(d)) <=> Holds(base, Removal(d))
                 /\ AtMostOnce(base, Removal(d)) => AtMostOnce(base', Removal(d))
      <3>1. Removal(c) # Removal(d)
        BY <2>7, BaseTaskTypes
      <3> QED BY <2>1, <2>4, <3>1, AppendHolds
    <2> QED BY <1>2, <2>2, <2>3, <2>5, <2>6, <2>7
  <1> QED BY <1>1, <1>2

\* A task of c is taken from its loop.
LEMMA TakeTaskOK ==
    ASSUME TcpInv, NEW c \in Conns, NEW task, TakeTask(c, task)
    PROVE  /\ io' \in [Conns -> Seq(IoTasks)]
           /\ \A d \in Conns : d # c => io'[d] = io[d]
           /\ io[c] # <<>> /\ c \notin reading
           /\ Holds(io[c], task)
           /\ task # "destroyed" => (Holds(io'[c], "destroyed") <=> Holds(io[c], "destroyed"))
           /\ task = "destroyed" => ~ Holds(io'[c], "destroyed")
           /\ AtMostOnce(io'[c], "destroyed")
           /\ \A i \in 1 .. Len(io'[c]) : io'[c][i] # "established"
  <1>1. /\ io[c] # <<>> /\ Head(io[c]) = task /\ c \notin reading
        /\ io' = [io EXCEPT ![c] = Tail(io[c])]
    BY DEF TakeTask
  <1>2. io[c] \in Seq(IoTasks) /\ io \in [Conns -> Seq(IoTasks)]
    BY DEF TcpInv, TcpTypeOK
  <1>3. io'[c] = Tail(io[c]) /\ \A d \in Conns : d # c => io'[d] = io[d]
    BY <1>1, <1>2
  <1>4. /\ io'[c] \in Seq(IoTasks)
        /\ Holds(io[c], task)
        /\ task # "destroyed" => (Holds(io'[c], "destroyed") <=> Holds(io[c], "destroyed"))
        /\ task = "destroyed" /\ AtMostOnce(io[c], "destroyed") => ~ Holds(io'[c], "destroyed")
        /\ AtMostOnce(io[c], "destroyed") => AtMostOnce(io'[c], "destroyed")
        /\ \A i \in 1 .. Len(io'[c]) : i + 1 \in 1 .. Len(io[c]) /\ io'[c][i] = io[c][i + 1]
    BY <1>1, <1>2, <1>3, TailHolds
  <1>5. /\ AtMostOnce(io[c], "destroyed")
        /\ \A i \in 1 .. Len(io[c]) : io[c][i] = "established" => i = 1
    BY DEF TcpInv, PhasesOK, PhaseOK
  <1>6. \A i \in 1 .. Len(io'[c]) : io'[c][i] # "established"
    <2> SUFFICES ASSUME NEW i \in 1 .. Len(io'[c]), io'[c][i] = "established"
                 PROVE  FALSE
      OBVIOUS
    <2>1. i + 1 = 1 /\ i \in Nat \ {0}
      BY <1>4, <1>5, SMTT(30)
    <2> QED BY <2>1
  <1>7. io' \in [Conns -> Seq(IoTasks)]
    BY <1>1, <1>2, <1>3, <1>4
  <1> QED BY <1>1, <1>3, <1>4, <1>5, <1>6, <1>7

-----------------------------------------------------------------------------
(* The I/O threads. *)

\* A step of c's thread that moves c on by handle_close, or leaves its state.
\* What it leaves to show is that c's own tasks fit its phase.
LEMMA CloseKeepsInv ==
    ASSUME TcpInv, NEW c \in Conns, HandleClose(c), state[c] # "none",
           UNCHANGED <<fd, told, table, open>>,
           registered' = registered, reading' \subseteq reading,
           \/ io' = io /\ state[c] # "connecting"
           \/ \E task \in {"established", "close"} : TakeTask(c, task)
    PROVE  TcpInv'
  <1>1. /\ state' \in [Conns -> States] /\ base' \in Seq(BaseTasks)
        /\ state'[c] \in {"disconnecting", "disconnected"}
        /\ state'[c] = "disconnected" <=> state[c] = "disconnected"
        /\ Holds(base', Removal(c)) <=> state'[c] = "disconnecting" /\ told[c] = 0
        /\ AtMostOnce(base', Removal(c))
        /\ \A d \in Conns : Holds(base', Frame(d)) <=> Holds(base, Frame(d))
        /\ \A d \in Conns : d # c =>
             /\ state'[d] = state[d]
             /\ Holds(base', Removal(d)) <=> Holds(base, Removal(d))
             /\ AtMostOnce(base, Removal(d)) => AtMostOnce(base', Removal(d))
    BY HandleCloseOK
  <1>2. /\ io' \in [Conns -> Seq(IoTasks)]
        /\ \A d \in Conns : d # c => io'[d] = io[d]
        /\ Holds(io'[c], "destroyed") <=> Holds(io[c], "destroyed")
        /\ AtMostOnce(io'[c], "destroyed")
        /\ \A i \in 1 .. Len(io'[c]) : io'[c][i] # "established"
    <2>1. CASE io' = io /\ state[c] # "connecting"
      <3>1. /\ io \in [Conns -> Seq(IoTasks)]
            /\ AtMostOnce(io[c], "destroyed")
            /\ \A i \in 1 .. Len(io[c]) : io[c][i] # "established"
        BY <2>1 DEF TcpInv, TcpTypeOK, PhasesOK, PhaseOK
      <3> QED BY <2>1, <3>1
    <2>2. CASE \E task \in {"established", "close"} : TakeTask(c, task)
      BY <2>2, TakeTaskOK
    <2> QED BY <2>1, <2>2
  <1>3. TcpTypeOK'
    BY <1>1, <1>2 DEF TcpInv, TcpTypeOK
  <1>4. NothingLeft'
    BY <1>1, <1>2 DEF TcpInv, NothingLeft
  <1>5. TableOK' /\ OwnersOK'
    BY <1>1, SameOwners
  <1>6. PhasesOK'
    <2> SUFFICES ASSUME NEW d \in Conns PROVE PhaseOK(d)'
      BY DEF PhasesOK
    <2>1. PhaseOK(d)
      BY DEF TcpInv, PhasesOK
    <2>2. CASE d # c
      BY <1>1, <1>2, <2>1, <2>2, OtherPhase
    <2>3. CASE d = c
      <3>1. PhaseOK(c) /\ told[c] \in {0, 1} /\ state[c] \in States
        BY <2>1, <2>3 DEF TcpInv, TcpTypeOK
      <3>2. told[c] = 1 /\ state[c] # "disconnected" => state[c] = "disconnecting"
        BY <3>1 DEF PhaseOK, States
      <3>3. Holds(io'[c], "destroyed") <=> state'[c] = "disconnecting" /\ told[c] = 1
        BY <1>1, <1>2, <3>1, <3>2 DEF PhaseOK
      <3>4. c \in reading' \cup registered' => state'[c] = "disconnecting"
        BY <1>1, <3>1 DEF PhaseOK
      <3>5. state'[c] = "disconnected" => told[c] = 1
        BY <1>1, <3>1 DEF PhaseOK
      <3> QED BY <1>1, <1>2, <2>3, <3>3, <3>4, <3>5 DEF PhaseOK
    <2> QED BY <2>2, <2>3
  <1> QED BY <1>3, <1>4, <1>5, <1>6 DEF TcpInv

\* connect_established succeeds.
LEMMA EstablishKeepsInv ==
    ASSUME TcpInv, NEW c \in Conns, TakeTask(c, "established"),
           registered' = registered \cup {c},
           state' = [state EXCEPT ![c] = "connected"],
           UNCHANGED <<fd, reading, told, table, open, base>>
    PROVE  TcpInv'
  <1>1. /\ io' \in [Conns -> Seq(IoTasks)]
        /\ \A d \in Conns : d # c => io'[d] = io[d]
        /\ Holds(io[c], "established")
        /\ Holds(io'[c], "destroyed") <=> Holds(io[c], "destroyed")
        /\ AtMostOnce(io'[c], "destroyed")
        /\ \A i \in 1 .. Len(io'[c]) : io'[c][i] # "established"
    BY TakeTaskOK
  <1>2. state[c] = "connecting"
    BY <1>1 DEF Holds, TcpInv, PhasesOK, PhaseOK
  <1>3. /\ state' \in [Conns -> States] /\ state'[c] = "connected"
        /\ \A d \in Conns : d # c => state'[d] = state[d]
    BY DEF TcpInv, TcpTypeOK, States
  <1>4. TcpTypeOK'
    BY <1>1, <1>3 DEF TcpInv, TcpTypeOK
  <1>5. NothingLeft'
    BY <1>1, <1>3 DEF TcpInv, NothingLeft
  <1>6. TableOK' /\ OwnersOK'
    BY <1>2, <1>3, SameOwners
  <1>7. PhasesOK'
    <2> SUFFICES ASSUME NEW d \in Conns PROVE PhaseOK(d)'
      BY DEF PhasesOK
    <2>1. PhaseOK(d)
      BY DEF TcpInv, PhasesOK
    <2>2. CASE d # c
      BY <1>1, <1>3, <2>1, <2>2, OtherPhase
    <2>3. CASE d = c
      BY <1>1, <1>2, <1>3, <2>1, <2>3 DEF PhaseOK
    <2> QED BY <2>2, <2>3
  <1> QED BY <1>4, <1>5, <1>6, <1>7 DEF TcpInv

\* A read begins or ends, or a frame of it is posted.
LEMMA ReadKeepsInv ==
    ASSUME TcpInv, NEW c \in Conns, state[c] \in {"connected", "disconnecting"},
           reading' \subseteq reading \cup {c},
           base' = base \/ base' = Append(base, Frame(c)),
           UNCHANGED <<state, fd, registered, told, table, open, io>>
    PROVE  TcpInv'
  <1>1. base \in Seq(BaseTasks) /\ Frame(c) \in BaseTasks
    BY BaseTaskTypes DEF TcpInv, TcpTypeOK
  <1>2. base' \in Seq(BaseTasks)
    BY <1>1, AppendHolds
  <1>3. ASSUME NEW d \in Conns
        PROVE  /\ Holds(base', Removal(d)) <=> Holds(base, Removal(d))
               /\ AtMostOnce(base, Removal(d)) => AtMostOnce(base', Removal(d))
               /\ d # c => (Holds(base', Frame(d)) <=> Holds(base, Frame(d)))
    <2>1. Frame(c) # Removal(d) /\ (d # c => Frame(c) # Frame(d))
      BY BaseTaskTypes
    <2>2. CASE base' = base
      BY <2>2
    <2>3. CASE base' = Append(base, Frame(c))
      BY <1>1, <2>1, <2>3, AppendHolds
    <2> QED BY <2>2, <2>3
  <1>4. TcpTypeOK'
    BY <1>2 DEF TcpInv, TcpTypeOK
  <1>5. NothingLeft'
    BY <1>3 DEF TcpInv, NothingLeft
  <1>6. TableOK' /\ OwnersOK'
    BY SameOwners
  <1>7. PhasesOK'
    <2> SUFFICES ASSUME NEW d \in Conns PROVE PhaseOK(d)'
      BY DEF PhasesOK
    <2> QED BY <1>3 DEF TcpInv, PhasesOK, PhaseOK
  <1> QED BY <1>4, <1>5, <1>6, <1>7 DEF TcpInv

\* connect_destroyed closes the descriptor of the one who owns it.
LEMMA DestroyKeepsInv ==
    ASSUME TcpInv, NEW c \in Conns, ConnectDestroyed(c)
    PROVE  TcpInv'
  <1>1. /\ TakeTask(c, "destroyed")
        /\ registered' = registered \ {c}
        /\ open' = open \ {fd[c]}
        /\ state' = [state EXCEPT ![c] = "disconnected"]
        /\ UNCHANGED <<fd, reading, told, table, base>>
    BY DEF ConnectDestroyed
  <1>2. /\ io' \in [Conns -> Seq(IoTasks)]
        /\ \A d \in Conns : d # c => io'[d] = io[d]
        /\ Holds(io[c], "destroyed") /\ c \notin reading
        /\ ~ Holds(io'[c], "destroyed")
        /\ AtMostOnce(io'[c], "destroyed")
        /\ \A i \in 1 .. Len(io'[c]) : io'[c][i] # "established"
    BY <1>1, TakeTaskOK
  <1>3. state[c] = "disconnecting" /\ told[c] = 1
    BY <1>2 DEF TcpInv, PhasesOK, PhaseOK
  <1>4. /\ state' \in [Conns -> States] /\ state'[c] = "disconnected"
        /\ \A d \in Conns : d # c => state'[d] = state[d]
    BY <1>1 DEF TcpInv, TcpTypeOK, States
  <1>5. TcpTypeOK'
    BY <1>1, <1>2, <1>4 DEF TcpInv, TcpTypeOK
  <1>6. NothingLeft'
    BY <1>1, <1>2, <1>4 DEF TcpInv, NothingLeft
  <1>7. /\ Owns(c) /\ ~ Owns(c)'
        /\ \A d \in Conns : d # c => (Owns(d)' <=> Owns(d))
    BY <1>3, <1>4 DEF Owns
  <1>8. TableOK'
    <2>1. \A f \in DOMAIN table : table[f] # c /\ table[f] \in Conns
      BY <1>3 DEF TcpInv, TcpTypeOK, TableOK
    <2> QED BY <1>1, <1>3, <1>4, <1>7, <2>1 DEF TcpInv, TableOK
  <1>9. OwnersOK'
    BY <1>1, <1>7 DEF TcpInv, OwnersOK
  <1>10. PhasesOK'
    <2> SUFFICES ASSUME NEW d \in Conns PROVE PhaseOK(d)'
      BY DEF PhasesOK
    <2>1. PhaseOK(d)
      BY DEF TcpInv, PhasesOK
    <2>2. CASE d # c
      BY <1>1, <1>2, <1>4, <2>1, <2>2, OtherPhase
    <2>3. CASE d = c
      BY <1>1, <1>2, <1>3, <1>4, <2>1, <2>3 DEF PhaseOK
    <2> QED BY <2>2, <2>3
  <1> QED BY <1>5, <1>6, <1>8, <1>9, <1>10 DEF TcpInv

\* The steps of the I/O threads.
LEMMA IoKeepsInv ==
    ASSUME TcpInv, NEW c \in Conns, IoStep(c)
    PROVE  TcpInv'
  <1>1. CASE ConnectEstablished(c)
    <2>1. state[c] # "none"
      BY <1>1 DEF ConnectEstablished, TakeTask, TcpInv, NothingLeft
    <2> QED BY <1>1, <2>1, CloseKeepsInv, EstablishKeepsInv DEF ConnectEstablished
  <1>2. CASE c \in reading /\ (DecodeFrame(c) \/ DecodeHeartbeat(c) \/ DecodeEnds(c))
    <2>1. state[c] \in {"connected", "disconnecting"}
      BY <1>2 DEF TcpInv, PhasesOK, PhaseOK
    <2>2. CASE DecodeFrame(c)
      BY <2>1, <2>2, ReadKeepsInv DEF DecodeFrame
    <2>3. CASE DecodeHeartbeat(c)
      BY <2>1, <2>3, CloseKeepsInv DEF DecodeHeartbeat
    <2>4. CASE DecodeEnds(c) /\ HandleClose(c)
      BY <2>1, <2>4, CloseKeepsInv DEF DecodeEnds
    <2>5. CASE DecodeEnds(c) /\ UNCHANGED <<state, base>>
      BY <2>1, <2>5, ReadKeepsInv DEF DecodeEnds
    <2> QED BY <1>2, <2>2, <2>3, <2>4, <2>5 DEF DecodeEnds
  <1>3. CASE HandleRead(c)
    BY <1>3, ReadKeepsInv DEF HandleRead
  <1>4. CASE CloseByIo(c)
    BY <1>4, CloseKeepsInv DEF CloseByIo
  <1>5. CASE CloseByRequest(c)
    <2>1. state[c] # "none"
      BY <1>5 DEF CloseByRequest, TakeTask, TcpInv, NothingLeft
    <2> QED BY <1>5, <2>1, CloseKeepsInv DEF CloseByRequest
  <1>6. CASE ConnectDestroyed(c)
    BY <1>6, DestroyKeepsInv
  <1> QED BY <1>1, <1>2, <1>3, <1>4, <1>5, <1>6
          DEF IoStep, DecodeFrame, DecodeHeartbeat, DecodeEnds

-----------------------------------------------------------------------------
(* The base thread. *)

\* Close requests, with or without the frame that caused them.
LEMMA RequestsKeepInv ==
    ASSUME TcpInv, NEW closing \in SUBSET Conns, RequestClose(closing),
           \/ base' = base
           \/ /\ base # <<>> /\ base' = Tail(base)
              /\ \E c \in Conns : Head(base) = Frame(c),
           UNCHANGED <<state, fd, registered, reading, told, table, open>>
    PROVE  TcpInv'
  <1>1. base \in Seq(BaseTasks)
    BY DEF TcpInv, TcpTypeOK
  <1>2. ASSUME NEW d \in Conns
        PROVE  /\ base' \in Seq(BaseTasks)
               /\ Holds(base', Removal(d)) <=> Holds(base, Removal(d))
               /\ AtMostOnce(base, Removal(d)) => AtMostOnce(base', Removal(d))
               /\ Holds(base', Frame(d)) => Holds(base, Frame(d))
    <2>1. CASE base' = base
      BY <1>1, <2>1
    <2>2. ASSUME base # <<>>, base' = Tail(base), NEW c \in Conns, Head(base) = Frame(c)
          PROVE  <1>2!2
      <3>1. Head(base) # Removal(d)
        BY <2>2, BaseTaskTypes
      <3>2. Head(base) # Frame(d) => (Holds(base', Frame(d)) <=> Holds(base, Frame(d)))
        BY <1>1, <2>2, TailHolds
      <3>3. Holds(base, Head(base))
        BY <1>1, <2>2, TailHolds
      <3> QED BY <1>1, <2>2, <3>1, <3>2, <3>3, TailHolds
    <2> QED BY <2>1, <2>2
  <1>3. base' \in Seq(BaseTasks)
    BY <1>1, TailHolds
  <1>4. ASSUME NEW d \in Conns
        PROVE  /\ io'[d] \in Seq(IoTasks)
               /\ io[d] # <<>> => io'[d] # <<>> /\ Head(io'[d]) = Head(io[d])
               /\ Holds(io'[d], "destroyed") <=> Holds(io[d], "destroyed")
               /\ AtMostOnce(io[d], "destroyed") => AtMostOnce(io'[d], "destroyed")
               /\ \A i \in 1 .. Len(io'[d]) : io'[d][i] = "established" =>
                    i \in 1 .. Len(io[d]) /\ io[d][i] = "established"
               /\ state[d] = "none" => io'[d] = io[d]
    <2>1. io[d] \in Seq(IoTasks) /\ "close" \in IoTasks
      BY DEF TcpInv, TcpTypeOK, IoTasks
    <2>2. CASE d \in closing
      <3>1. io'[d] = Append(io[d], "close") /\ state[d] # "none"
        BY <2>2, ReferencedExists DEF RequestClose
      <3>2. \A i \in 1 .. Len(io'[d]) : io'[d][i] = "established" =>
              i \in 1 .. Len(io[d]) /\ io[d][i] = "established"
        BY <2>1, <3>1
      <3> QED BY <2>1, <3>1, <3>2, AppendHolds
    <2>3. CASE d \notin closing
      <3>1. io'[d] = io[d]
        BY <2>3 DEF RequestClose
      <3> QED BY <2>1, <3>1
    <2> QED BY <2>2, <2>3
  <1>5. TcpTypeOK'
    <2>1. io' \in [Conns -> Seq(IoTasks)]
      <3>1. io' = [d \in Conns |-> io'[d]]
        BY DEF RequestClose
      <3> QED BY <1>4, <3>1
    <2> QED BY <1>3, <2>1 DEF TcpInv, TcpTypeOK
  <1>6. NothingLeft'
    BY <1>2, <1>4 DEF TcpInv, NothingLeft
  <1>7. TableOK' /\ OwnersOK'
    BY SameOwners
  <1>8. PhasesOK'
    <2> SUFFICES ASSUME NEW d \in Conns PROVE PhaseOK(d)'
      BY DEF PhasesOK
    <2>1. PhaseOK(d)
      BY DEF TcpInv, PhasesOK
    <2> QED BY <1>2, <1>4, <2>1 DEF PhaseOK
  <1> QED BY <1>5, <1>6, <1>7, <1>8 DEF TcpInv

\* A new object at a free address, with a descriptor nobody holds: the table has
\* no older entry for it.
LEMMA AcceptKeepsInv ==
    ASSUME TcpInv, NEW c \in Conns, NEW f \in Fds, HandleAccept(c, f)
    PROVE  TcpInv' /\ f \notin DOMAIN table
  <1>1. state[c] = "none" /\ f \notin open
    BY DEF HandleAccept
  <1>2. f \notin DOMAIN table
    BY <1>1 DEF TcpInv, TcpTypeOK, TableOK, OwnersOK
  <1>3. /\ state' = [state EXCEPT ![c] = "connecting"]
        /\ fd' = [fd EXCEPT ![c] = f]
        /\ told' = [told EXCEPT ![c] = 0]
        /\ table' = [g \in DOMAIN table \cup {f} |-> IF g = f THEN c ELSE table[g]]
        /\ open' = open \cup {f}
        /\ io' = [io EXCEPT ![c] = <<"established">>]
        /\ UNCHANGED <<registered, reading, base>>
    BY <1>2 DEF HandleAccept
  <1>4. /\ state'[c] = "connecting" /\ fd'[c] = f /\ told'[c] = 0
        /\ io'[c] = <<"established">>
        /\ \A d \in Conns : d # c => /\ state'[d] = state[d] /\ fd'[d] = fd[d]
                                     /\ told'[d] = told[d] /\ io'[d] = io[d]
    BY <1>3 DEF TcpInv, TcpTypeOK
  <1>5. TcpTypeOK'
    BY <1>3 DEF TcpInv, TcpTypeOK, States, IoTasks
  <1>6. NothingLeft'
    BY <1>3, <1>4 DEF TcpInv, NothingLeft
  <1>7. /\ ~ Owns(c) /\ Owns(c)'
        /\ \A d \in Conns : d # c => (Owns(d)' <=> Owns(d))
    BY <1>1, <1>4 DEF Owns
  <1>8. \A g \in DOMAIN table : table[g] \in Conns \ {c}
    BY <1>7 DEF TcpInv, TcpTypeOK, TableOK
  <1>9. TableOK'
    <2>1. \A d \in Conns : d # c /\ state[d] # "none" /\ told[d] = 0 => fd[d] # f
      BY <1>2 DEF TcpInv, TableOK
    <2>2. /\ DOMAIN table' = DOMAIN table \cup {f}
          /\ table'[f] = c
          /\ \A g \in DOMAIN table : table'[g] = table[g]
      BY <1>2, <1>3
    <2>3. ASSUME NEW g \in DOMAIN table'
          PROVE  /\ fd'[table'[g]] = g /\ told'[table'[g]] = 0
                 /\ state'[table'[g]] \notin {"none", "disconnected"}
      <3>1. CASE g = f
        BY <1>4, <2>2, <3>1
      <3>2. CASE g # f
        BY <1>4, <1>8, <2>2, <2>3, <3>2 DEF TcpInv, TableOK, Owns
      <3> QED BY <3>1, <3>2
    <2>4. ASSUME NEW d \in Conns, state'[d] # "none", told'[d] = 0
          PROVE  fd'[d] \in DOMAIN table' /\ table'[fd'[d]] = d
      <3>1. CASE d = c
        BY <1>4, <2>2, <3>1
      <3>2. CASE d # c
        BY <1>4, <2>1, <2>2, <2>4, <3>2 DEF TcpInv, TableOK
      <3> QED BY <3>1, <3>2
    <2> QED BY <2>3, <2>4 DEF TableOK, Owns
  <1>10. OwnersOK'
    <2>1. \A d \in Conns : Owns(d) => fd[d] # f
      BY <1>1 DEF TcpInv, OwnersOK
    <2>2. \A d \in Conns : Owns(d)' => fd'[d] \in open'
      BY <1>3, <1>4, <1>7 DEF TcpInv, OwnersOK
    <2>3. \A g \in open' : \E d \in Conns : Owns(d)' /\ fd'[d] = g
      <3> SUFFICES ASSUME NEW g \in open' PROVE \E d \in Conns : Owns(d)' /\ fd'[d] = g
        OBVIOUS
      <3>1. CASE g = f
        BY <1>4, <1>7, <3>1
      <3>2. CASE g # f
        <4>1. PICK d \in Conns : Owns(d) /\ fd[d] = g
          BY <1>3, <3>2 DEF TcpInv, OwnersOK
        <4> QED BY <1>4, <1>7, <4>1
      <3> QED BY <3>1, <3>2
    <2>4. \A d, e \in Conns : Owns(d)' /\ Owns(e)' /\ fd'[d] = fd'[e] => d = e
      BY <1>4, <1>7, <2>1 DEF TcpInv, OwnersOK
    <2> QED BY <2>2, <2>3, <2>4 DEF OwnersOK
  <1>11. PhasesOK'
    <2> SUFFICES ASSUME NEW d \in Conns PROVE PhaseOK(d)'
      BY DEF PhasesOK
    <2>1. PhaseOK(d)
      BY DEF TcpInv, PhasesOK
    <2>2. CASE d # c
      BY <1>3, <1>4, <2>1, <2>2, OtherPhase
    <2>3. CASE d = c
      <3>1. /\ ~ Holds(io'[c], "destroyed") /\ AtMostOnce(io'[c], "destroyed")
            /\ io'[c] # <<>> /\ Head(io'[c]) = "established"
            /\ \A i \in 1 .. Len(io'[c]) : i = 1
        BY <1>4 DEF Holds, AtMostOnce
      <3>2. c \notin reading' \cup registered' /\ ~ Holds(base', Removal(c))
        BY <1>1, <1>3, <2>1, <2>3 DEF PhaseOK
      <3> QED BY <1>3, <1>4, <2>1, <2>3, <3>1, <3>2 DEF PhaseOK
    <2> QED BY <2>2, <2>3
  <1> QED BY <1>2, <1>5, <1>6, <1>9, <1>10, <1>11 DEF TcpInv

\* The removal finds its connection in the table, unless it was posted twice:
\* which it is not.
LEMMA RemoveKeepsInv ==
    ASSUME TcpInv, NEW c \in Conns, RemoveConnectionInLoop(c)
    PROVE  TcpInv' /\ told[c] = 0 /\ told'[c] = 1
  <1>1. base # <<>> /\ Head(base) = Removal(c) /\ base' = Tail(base) /\ base \in Seq(BaseTasks)
    BY DEF RemoveConnectionInLoop, TcpInv, TcpTypeOK
  <1>2. Holds(base, Removal(c))
    BY <1>1, TailHolds
  <1>3. state[c] = "disconnecting" /\ told[c] = 0
    BY <1>2 DEF TcpInv, PhasesOK, PhaseOK
  <1>4. fd[c] \in DOMAIN table /\ table[fd[c]] = c
    BY <1>3 DEF TcpInv, TableOK
  <1>5. /\ told' = [told EXCEPT ![c] = @ + 1]
        /\ table' = [f \in DOMAIN table \ {fd[c]} |-> table[f]]
        /\ io' = [io EXCEPT ![c] = Append(@, "destroyed")]
        /\ UNCHANGED <<state, fd, registered, reading, open>>
    BY <1>4 DEF RemoveConnectionInLoop
  <1>6. /\ told'[c] = 1 /\ \A d \in Conns : d # c => told'[d] = told[d]
        /\ io'[c] = Append(io[c], "destroyed") /\ \A d \in Conns : d # c => io'[d] = io[d]
    BY <1>3, <1>5 DEF TcpInv, TcpTypeOK
  <1>7. /\ base' \in Seq(BaseTasks)
        /\ ~ Holds(base', Removal(c)) /\ AtMostOnce(base', Removal(c))
    BY <1>1, TailHolds DEF TcpInv, PhasesOK, PhaseOK
  <1>8. ASSUME NEW d \in Conns
        PROVE  /\ Holds(base', Frame(d)) <=> Holds(base, Frame(d))
               /\ AtMostOnce(base, Removal(d)) => AtMostOnce(base', Removal(d))
               /\ d # c => (Holds(base', Removal(d)) <=> Holds(base, Removal(d)))
    <2>1. Removal(c) # Frame(d) /\ (d # c => Removal(c) # Removal(d))
      BY BaseTaskTypes
    <2> QED BY <1>1, <2>1, TailHolds
  <1>9. io[c] \in Seq(IoTasks) /\ "destroyed" \in IoTasks
    BY DEF TcpInv, TcpTypeOK, IoTasks
  <1>10. /\ io'[c] \in Seq(IoTasks)
         /\ Holds(io'[c], "destroyed") /\ AtMostOnce(io'[c], "destroyed")
    BY <1>3, <1>6, <1>9, AppendHolds DEF TcpInv, PhasesOK, PhaseOK
  <1>11. \A i \in 1 .. Len(io'[c]) : io'[c][i] # "established"
    BY <1>3, <1>6, <1>9 DEF TcpInv, PhasesOK, PhaseOK
  <1>12. TcpTypeOK'
    <2>1. told' \in [Conns -> {0, 1}] /\ io' \in [Conns -> Seq(IoTasks)]
      BY <1>3, <1>5, <1>9, <1>10, <1>6 DEF TcpInv, TcpTypeOK
    <2> QED BY <1>5, <1>7, <2>1 DEF TcpInv, TcpTypeOK
  <1>13. NothingLeft'
    BY <1>3, <1>5, <1>6, <1>8 DEF TcpInv, NothingLeft
  <1>14. \A d \in Conns : Owns(d)' <=> Owns(d)
    BY <1>5 DEF Owns
  <1>15. TableOK'
    <2>1. \A f \in DOMAIN table' : /\ f \in DOMAIN table /\ f # fd[c]
                                   /\ table'[f] = table[f] /\ table[f] \in Conns
      BY <1>5 DEF TcpInv, TcpTypeOK
    <2>2. \A f \in DOMAIN table' : table[f] # c
      BY <2>1 DEF TcpInv, TableOK
    <2>3. \A f \in DOMAIN table' :
            /\ fd'[table'[f]] = f /\ told'[table'[f]] = 0
            /\ state'[table'[f]] \notin {"none", "disconnected"}
      BY <1>5, <1>6, <2>1, <2>2 DEF TcpInv, TableOK, Owns
    <2>4. ASSUME NEW d \in Conns, state'[d] # "none", told'[d] = 0
          PROVE  fd'[d] \in DOMAIN table' /\ table'[fd'[d]] = d
      <3>1. d # c /\ told[d] = 0 /\ state[d] # "none" /\ fd'[d] = fd[d]
        BY <1>5, <1>6, <2>4
      <3>2. fd[d] \in DOMAIN table /\ table[fd[d]] = d
        BY <3>1 DEF TcpInv, TableOK
      <3> QED BY <1>4, <1>5, <3>1, <3>2
    <2> QED BY <2>3, <2>4 DEF TableOK, Owns
  <1>16. OwnersOK'
    BY <1>5, <1>14 DEF TcpInv, OwnersOK
  <1>17. PhasesOK'
    <2> SUFFICES ASSUME NEW d \in Conns PROVE PhaseOK(d)'
      BY DEF PhasesOK
    <2>1. PhaseOK(d)
      BY DEF TcpInv, PhasesOK
    <2>2. CASE d # c
      BY <1>5, <1>6, <1>8, <2>1, <2>2, OtherPhase
    <2>3. CASE d = c
      BY <1>3, <1>5, <1>6, <1>7, <1>10, <1>11, <2>1, <2>3 DEF PhaseOK
    <2> QED BY <2>2, <2>3
  <1> QED BY <1>3, <1>6, <1>12, <1>13, <1>15, <1>16, <1>17 DEF TcpInv

\* An object goes when its descriptor was closed and the last task, frame and
\* callback that held it are gone.
LEMMA DestructKeepsInv ==
    ASSUME TcpInv, NEW c \in Conns, Destruct(c)
    PROVE  TcpInv' /\ told[c] = 1
  <1>1. /\ state[c] = "disconnected" /\ told[c] = 1
    BY OwnerIsReferenced DEF Destruct, Owns, TcpInv, PhasesOK, PhaseOK
  <1>2. /\ state' = [state EXCEPT ![c] = "none"]
        /\ fd' = [fd EXCEPT ![c] = NoFd]
        /\ told' = [told EXCEPT ![c] = 0]
        /\ registered' = registered \ {c}
        /\ UNCHANGED <<reading, table, open, base, io>>
    BY <1>1 DEF Destruct
  <1>3. /\ io[c] = <<>> /\ c \notin reading
        /\ ~ Holds(base, Frame(c)) /\ ~ Holds(base, Removal(c))
    BY DEF Destruct, Referenced, Holds, Frame, Removal
  <1>4. /\ state'[c] = "none" /\ told'[c] = 0
        /\ \A d \in Conns : d # c => /\ state'[d] = state[d] /\ fd'[d] = fd[d]
                                     /\ told'[d] = told[d]
    BY <1>2 DEF TcpInv, TcpTypeOK
  <1>5. TcpTypeOK'
    BY <1>2 DEF TcpInv, TcpTypeOK, States
  <1>6. NothingLeft'
    BY <1>2, <1>3, <1>4 DEF TcpInv, NothingLeft
  <1>7. /\ ~ Owns(c) /\ ~ Owns(c)'
        /\ \A d \in Conns : d # c => (Owns(d)' <=> Owns(d))
    BY <1>1, <1>4 DEF Owns
  <1>8. TableOK'
    <2>1. \A f \in DOMAIN table : table[f] \in Conns \ {c}
      BY <1>7 DEF TcpInv, TcpTypeOK, TableOK
    <2> QED BY <1>2, <1>4, <1>7, <2>1 DEF TcpInv, TableOK
  <1>9. OwnersOK'
    BY <1>2, <1>4, <1>7 DEF TcpInv, OwnersOK
  <1>10. PhasesOK'
    <2> SUFFICES ASSUME NEW d \in Conns PROVE PhaseOK(d)'
      BY DEF PhasesOK
    <2>1. PhaseOK(d)
      BY DEF TcpInv, PhasesOK
    <2>2. CASE d # c
      BY <1>2, <1>4, <2>1, <2>2, OtherPhase
    <2>3. CASE d = c
      BY <1>2, <1>3, <1>4, <2>1, <2>3 DEF PhaseOK, Holds
    <2> QED BY <2>2, <2>3
  <1> QED BY <1>1, <1>5, <1>6, <1>8, <1>9, <1>10 DEF TcpInv

-----------------------------------------------------------------------------

\* A server that has accepted nobody.
LEMMA TcpInitInv == TcpInit => TcpInv
  <1> SUFFICES ASSUME TcpInit PROVE TcpInv
    OBVIOUS
  <1> USE DEF TcpInit
  <1>1. TcpTypeOK
    BY DEF TcpTypeOK, States, IoTasks
  <1>2. NothingLeft /\ TableOK /\ OwnersOK
    BY DEF NothingLeft, TableOK, OwnersOK, Owns, Holds
  <1>3. PhasesOK
    BY DEF PhasesOK, PhaseOK, Holds, AtMostOnce
  <1> QED BY <1>1, <1>2, <1>3 DEF TcpInv

\* Every step keeps the invariant.
LEMMA TcpNextKeepsInv ==
    ASSUME TcpInv, [TcpNext]_tcpVars
    PROVE  TcpInv'
  <1>1. CASE UNCHANGED tcpVars
    BY <1>1 DEF tcpVars, TcpInv, TcpTypeOK, NothingLeft, TableOK, PhasesOK, PhaseOK, OwnersOK,
                Owns, Holds, AtMostOnce
  <1>2. ASSUME NEW closing \in SUBSET Conns, RunTimer(closing) PROVE TcpInv'
    BY <1>2, RequestsKeepInv DEF RunTimer
  <1>3. ASSUME NEW c \in Conns, NEW closing \in SUBSET Conns, RunFrame(c, closing) PROVE TcpInv'
    BY <1>3, RequestsKeepInv DEF RunFrame
  <1>4. ASSUME NEW c \in Conns, NEW f \in Fds, HandleAccept(c, f) PROVE TcpInv'
    BY <1>4, AcceptKeepsInv
  <1>5. ASSUME NEW c \in Conns, RemoveConnectionInLoop(c) \/ IoStep(c) \/ Destruct(c) PROVE TcpInv'
    BY <1>5, RemoveKeepsInv, IoKeepsInv, DestructKeepsInv
  <1> QED BY <1>1, <1>2, <1>3, <1>4, <1>5 DEF TcpNext

\* Every phase of every connection has left the tasks it should, whatever the
\* order in which the threads run.
THEOREM TcpInvariance == TcpSpec => []TcpInv
  BY TcpInitInv, TcpNextKeepsInv, PTL DEF TcpSpec

\* The invariant implies the two properties of the run.
LEMMA TcpInvImplies ==
    ASSUME TcpInv
    PROVE  ClosedOnce /\ DescriptorsAreOwned
  <1>1. ClosedOnce
    <2> SUFFICES ASSUME NEW c \in Conns
                 PROVE  /\ state[c] # "none" => told[c] = IF c \in Range(table) THEN 0 ELSE 1
                        /\ Waiting(Removal(c))
                             = IF state[c] = "disconnecting" /\ told[c] = 0 THEN 1 ELSE 0
      BY DEF ClosedOnce
    <2>1. told[c] \in {0, 1}
      BY DEF TcpInv, TcpTypeOK
    <2>2. state[c] # "none" => (c \in Range(table) <=> told[c] = 0)
      BY DEF TcpInv, TableOK, Range
    <2>3. Waiting(Removal(c)) = IF Holds(base, Removal(c)) THEN 1 ELSE 0
      BY CountOnce DEF Waiting, TcpInv, TcpTypeOK, PhasesOK, PhaseOK
    <2>4. Holds(base, Removal(c)) <=> state[c] = "disconnecting" /\ told[c] = 0
      BY DEF TcpInv, PhasesOK, PhaseOK
    <2> QED BY <2>1, <2>2, <2>3, <2>4
  <1>2. DescriptorsAreOwned
    <2> DEFINE owners(f) == {c \in Conns : fd[c] = f /\ state[c] \notin {"none", "disconnected"}}
    <2>1. ASSUME NEW f \in open PROVE Cardinality(owners(f)) = 1
      <3>1. PICK c \in Conns : Owns(c) /\ fd[c] = f
        BY DEF TcpInv, OwnersOK
      <3>2. owners(f) = {c}
        BY <3>1 DEF TcpInv, OwnersOK, Owns
      <3> QED BY <3>2, FS_Singleton
    <2>2. ASSUME NEW f \in Fds \ open PROVE owners(f) = {}
      BY DEF TcpInv, OwnersOK, Owns
    <2>3. ASSUME NEW f \in DOMAIN table PROVE table[f] \in owners(f)
      BY DEF TcpInv, TcpTypeOK, TableOK, Owns
    <2>4. ASSUME NEW c \in registered PROVE c \in owners(fd[c])
      BY DEF TcpInv, TcpTypeOK, PhasesOK, PhaseOK
    <2> HIDE DEF owners
    <2>5. /\ \A f \in open : Cardinality(owners(f)) = 1
          /\ \A f \in Fds \ open : owners(f) = {}
          /\ \A f \in DOMAIN table : table[f] \in owners(f)
          /\ \A c \in registered : c \in owners(fd[c])
      BY <2>1, <2>2, <2>3, <2>4
    <2> QED BY <2>5 DEF DescriptorsAreOwned, owners
  <1> QED BY <1>1, <1>2

\* handle_close and remove_connection_in_loop together report the close of every
\* accepted connection once, however many errors, timeouts and close requests
\* meet.
THEOREM AlwaysClosedOnce == TcpSpec => []ClosedOnce
  BY TcpInvariance, TcpInvImplies, PTL

\* A descriptor is closed by its one owner after every table forgot it
\* (connect_destroyed), and never leaks.
THEOREM DescriptorsAlwaysOwned == TcpSpec => []DescriptorsAreOwned
  BY TcpInvariance, TcpInvImplies, PTL

-----------------------------------------------------------------------------
(* Frames before the close. *)

Before(s, a, b) == \A i, j \in 1 .. Len(s) : s[i] = a /\ s[j] = b => i < j

\* No frame is left when the service hears of the close.
FramesFirst ==
    \A c \in Conns :
        /\ c \in reading => state[c] = "connected"
        /\ Holds(base, Frame(c)) => told[c] = 0
        /\ Before(base, Frame(c), Removal(c))

\* Queueing behind and taking from the front keep an order.
LEMMA OrderKept ==
    ASSUME NEW S, NEW s \in Seq(S), NEW a, NEW b, a # b, Before(s, a, b)
    PROVE  /\ \A x \in S : (x = a => ~ Holds(s, b)) => Before(Append(s, x), a, b)
           /\ s # <<>> => Before(Tail(s), a, b)
           /\ s # <<>> /\ Head(s) = b => ~ Holds(s, a)
  <1>1. ASSUME NEW x \in S, x = a => ~ Holds(s, b)
        PROVE  Before(Append(s, x), a, b)
    <2> DEFINE n == Append(s, x)
    <2>1. /\ Len(n) = Len(s) + 1 /\ Len(s) \in Nat
          /\ \A i \in 1 .. Len(s) : n[i] = s[i]
          /\ n[Len(s) + 1] = x
      OBVIOUS
    <2> HIDE DEF n
    <2>2. Before(n, a, b)
      BY <1>1, <2>1 DEF Before, Holds
    <2> QED BY <2>2 DEF n
  <1>2. ASSUME s # <<>>
        PROVE  Before(Tail(s), a, b)
    <2> DEFINE n == Tail(s)
    <2>1. \A i \in 1 .. Len(n) : i + 1 \in 1 .. Len(s) /\ n[i] = s[i + 1]
      BY <1>2
    <2>2. Len(n) \in Nat
      BY <1>2
    <2> HIDE DEF n
    <2>3. ASSUME NEW i \in 1 .. Len(n), NEW j \in 1 .. Len(n), n[i] = a, n[j] = b
          PROVE  i < j
      <3>1. i + 1 < j + 1
        BY <2>1, <2>3 DEF Before
      <3> QED BY <2>2, <3>1
    <2> QED BY <2>3 DEF Before, n
  <1>3. ASSUME s # <<>>, Head(s) = b, Holds(s, a)
        PROVE  FALSE
    <2>1. s[1] = b /\ 1 \in 1 .. Len(s)
      BY <1>3
    <2>2. PICK i \in 1 .. Len(s) : s[i] = a
      BY <1>3 DEF Holds
    <2>3. i < 1
      BY <2>1, <2>2 DEF Before
    <2> QED BY <2>2, <2>3
  <1> QED BY <1>1, <1>2, <1>3

\* handle_close posts behind the frames that were read.
LEMMA CloseKeepsFrames ==
    ASSUME TcpInv, FramesFirst, NEW c \in Conns, HandleClose(c), state[c] # "none",
           c \notin reading', reading' \subseteq reading, UNCHANGED told
    PROVE  FramesFirst'
  <1>1. /\ \A d \in Conns : Holds(base', Frame(d)) <=> Holds(base, Frame(d))
        /\ \A d \in Conns : d # c => state'[d] = state[d]
    BY HandleCloseOK
  <1>2. ASSUME NEW d \in Conns PROVE Before(base', Frame(d), Removal(d))
    <2>1. Frame(d) # Removal(d) /\ Frame(d) # Removal(c) /\ Removal(c) \in BaseTasks
      BY BaseTaskTypes
    <2>2. base \in Seq(BaseTasks) /\ Before(base, Frame(d), Removal(d))
      BY DEF TcpInv, TcpTypeOK, FramesFirst
    <2>3. base' = base \/ base' = Append(base, Removal(c))
      BY DEF HandleClose
    <2> QED BY <2>1, <2>2, <2>3, OrderKept
  <1> QED BY <1>1, <1>2 DEF FramesFirst

\* A step that posts nothing and takes at most a frame.
LEMMA SameFrames ==
    ASSUME TcpInv, FramesFirst, reading' \subseteq reading,
           base' = base \/ (base # <<>> /\ base' = Tail(base)),
           \A c \in Conns : Holds(base', Frame(c)) => told'[c] = 0,
           \A c \in reading' : state'[c] = state[c]
    PROVE  FramesFirst'
  <1>1. ASSUME NEW d \in Conns PROVE Before(base', Frame(d), Removal(d))
    <2>1. base \in Seq(BaseTasks) /\ Frame(d) # Removal(d) /\ Before(base, Frame(d), Removal(d))
      BY BaseTaskTypes DEF TcpInv, TcpTypeOK, FramesFirst
    <2> QED BY <2>1, OrderKept
  <1> QED BY <1>1 DEF FramesFirst

\* A frame taken leaves the others.
LEMMA TailFrames ==
    ASSUME TcpInv, base # <<>>, NEW c \in Conns, Holds(Tail(base), Frame(c))
    PROVE  Holds(base, Frame(c))
  <1>1. base \in Seq(BaseTasks)
    BY DEF TcpInv, TcpTypeOK
  <1>2. Holds(base, Head(base)) /\ (Head(base) # Frame(c) => Holds(base, Frame(c)))
    BY <1>1, TailHolds
  <1> QED BY <1>2

\* Unless the write of a heartbeat's answer fails in the middle of a read, the
\* frames of that read are posted before the removal.
LEMMA NextKeepsFrames ==
    ASSUME ~ AckWriteMayFail, TcpInv, FramesFirst, [TcpNext]_tcpVars
    PROVE  FramesFirst'
  <1>1. CASE UNCHANGED tcpVars
    BY <1>1, SameFrames DEF tcpVars, FramesFirst
  <1>2. ASSUME NEW closing \in SUBSET Conns, RunTimer(closing) PROVE FramesFirst'
    BY <1>2, SameFrames DEF RunTimer, FramesFirst
  <1>3. ASSUME NEW c \in Conns, NEW closing \in SUBSET Conns, RunFrame(c, closing)
        PROVE  FramesFirst'
    <2>1. base # <<>> /\ base' = Tail(base) /\ UNCHANGED <<state, reading, told>>
      BY <1>3 DEF RunFrame
    <2>2. \A d \in Conns : Holds(base', Frame(d)) => told'[d] = 0
      BY <2>1, TailFrames DEF FramesFirst
    <2> QED BY <2>1, <2>2, SameFrames
  <1>4. ASSUME NEW c \in Conns, NEW f \in Fds, HandleAccept(c, f) PROVE FramesFirst'
    <2>1. /\ state[c] = "none" /\ UNCHANGED <<reading, base>>
          /\ told' = [told EXCEPT ![c] = 0]
          /\ state' = [state EXCEPT ![c] = "connecting"]
      BY <1>4, AcceptKeepsInv DEF HandleAccept
    <2>2. \A d \in reading' : state'[d] = state[d]
      BY <2>1 DEF FramesFirst, TcpInv, TcpTypeOK
    <2>3. \A d \in Conns : Holds(base', Frame(d)) => told'[d] = 0
      BY <2>1 DEF FramesFirst, TcpInv, TcpTypeOK
    <2> QED BY <2>1, <2>2, <2>3, SameFrames
  <1>5. ASSUME NEW c \in Conns, RemoveConnectionInLoop(c) PROVE FramesFirst'
    <2>1. /\ base # <<>> /\ Head(base) = Removal(c) /\ base' = Tail(base)
          /\ UNCHANGED <<state, reading>>
          /\ \A d \in Conns : d # c => told'[d] = told[d]
      BY <1>5 DEF RemoveConnectionInLoop, TcpInv, TcpTypeOK
    <2>2. ~ Holds(base, Frame(c))
      <3>1. /\ base \in Seq(BaseTasks) /\ Frame(c) # Removal(c)
            /\ Before(base, Frame(c), Removal(c))
        BY BaseTaskTypes DEF TcpInv, TcpTypeOK, FramesFirst
      <3> QED BY <2>1, <3>1, OrderKept
    <2>3. \A d \in Conns : Holds(base', Frame(d)) => told'[d] = 0
      BY <2>1, <2>2, TailFrames DEF FramesFirst
    <2> QED BY <2>1, <2>3, SameFrames
  <1>6. ASSUME NEW c \in Conns, Destruct(c) PROVE FramesFirst'
    <2>1. /\ c \notin reading /\ UNCHANGED <<reading, base>>
          /\ told' = [told EXCEPT ![c] = 0]
          /\ state' = [state EXCEPT ![c] = "none"]
      BY <1>6 DEF Destruct, Referenced
    <2>2. \A d \in reading' : state'[d] = state[d]
      BY <2>1 DEF TcpInv, TcpTypeOK
    <2>3. \A d \in Conns : Holds(base', Frame(d)) => told'[d] = 0
      BY <2>1 DEF FramesFirst, TcpInv, TcpTypeOK
    <2> QED BY <2>1, <2>2, <2>3, SameFrames
  <1>7. ASSUME NEW c \in Conns, IoStep(c) PROVE FramesFirst'
    <2>1. CASE HandleRead(c)
      BY <2>1 DEF HandleRead, FramesFirst, Holds, Before
    <2>2. CASE DecodeFrame(c)
      <3>1. state[c] = "connected" /\ told[c] = 0 /\ ~ Holds(base, Removal(c))
        BY <2>2 DEF DecodeFrame, FramesFirst, TcpInv, PhasesOK, PhaseOK
      <3>2. /\ base \in Seq(BaseTasks) /\ Frame(c) \in BaseTasks
            /\ base' = Append(base, Frame(c)) /\ UNCHANGED <<state, reading, told>>
        BY <2>2, BaseTaskTypes DEF DecodeFrame, TcpInv, TcpTypeOK
      <3>3. ASSUME NEW d \in Conns
            PROVE  /\ Holds(base', Frame(d)) => told[d] = 0
                   /\ Before(base', Frame(d), Removal(d))
        <4>1. /\ Frame(d) # Removal(d) /\ (Frame(c) = Frame(d) => c = d)
              /\ Before(base, Frame(d), Removal(d))
              /\ Holds(base, Frame(d)) => told[d] = 0
          BY BaseTaskTypes DEF FramesFirst
        <4>2. Holds(base', Frame(d)) <=> Holds(base, Frame(d)) \/ Frame(c) = Frame(d)
          BY <3>2, AppendHolds
        <4>3. Frame(c) = Frame(d) => ~ Holds(base, Removal(d))
          BY <3>1, <4>1
        <4>4. Before(base', Frame(d), Removal(d))
          BY <3>2, <4>1, <4>3, OrderKept
        <4> QED BY <3>1, <4>1, <4>2, <4>4
      <3> QED BY <3>2, <3>3 DEF FramesFirst
    <2>3. CASE DecodeHeartbeat(c)
      BY <2>3 DEF DecodeHeartbeat
    <2>4. CASE DecodeEnds(c)
      <3>1. /\ state[c] # "none" /\ c \notin reading' /\ reading' \subseteq reading
            /\ UNCHANGED told
        BY <2>4 DEF DecodeEnds, FramesFirst
      <3>2. CASE HandleClose(c)
        BY <3>1, <3>2, CloseKeepsFrames
      <3>3. CASE UNCHANGED <<state, base>>
        BY <3>1, <3>3, SameFrames DEF FramesFirst
      <3> QED BY <2>4, <3>2, <3>3 DEF DecodeEnds
    <2>5. CASE CloseByIo(c)
      BY <2>5, CloseKeepsFrames DEF CloseByIo
    <2>6. ASSUME TakeTask(c, "established") \/ TakeTask(c, "close") \/ TakeTask(c, "destroyed")
          PROVE  c \notin reading /\ state[c] # "none"
      BY <2>6 DEF TakeTask, TcpInv, NothingLeft
    <2>7. CASE CloseByRequest(c)
      BY <2>6, <2>7, CloseKeepsFrames DEF CloseByRequest
    <2>8. CASE ConnectEstablished(c) \/ ConnectDestroyed(c)
      <3>1. c \notin reading /\ state[c] # "none" /\ UNCHANGED <<reading, told>>
        BY <2>6, <2>8 DEF ConnectEstablished, ConnectDestroyed
      <3>2. CASE HandleClose(c)
        BY <3>1, <3>2, CloseKeepsFrames
      <3>3. CASE UNCHANGED base /\ \A d \in Conns : d # c => state'[d] = state[d]
        <4>1. \A d \in reading' : state'[d] = state[d]
          BY <3>1, <3>3 DEF TcpInv, TcpTypeOK
        <4> QED BY <3>1, <3>3, <4>1, SameFrames DEF FramesFirst
      <3> QED BY <2>8, <3>2, <3>3 DEF ConnectEstablished, ConnectDestroyed, TcpInv, TcpTypeOK
    <2> QED BY <1>7, <2>1, <2>2, <2>3, <2>4, <2>5, <2>7, <2>8 DEF IoStep
  <1> QED BY <1>1, <1>2, <1>3, <1>4, <1>5, <1>6, <1>7 DEF TcpNext

\* Where no write of a heartbeat's answer fails, the service handles every frame
\* of a connection before it hears of its close, and none after.
THEOREM FramesBeforeClose ==
    ASSUME ~ AckWriteMayFail
    PROVE  TcpSpec => []FramesFirst
  <1>1. TcpInit => FramesFirst
    BY DEF TcpInit, FramesFirst, Holds, Before
  <1>2. TcpInv /\ FramesFirst /\ [TcpNext]_tcpVars => FramesFirst'
    BY NextKeepsFrames
  <1> QED BY <1>1, <1>2, TcpInvariance, PTL DEF TcpSpec

-----------------------------------------------------------------------------
(* The composed server. *)

\* The I/O threads change nothing the service sees of a connection.
LEMMA IoIsInvisible ==
    ASSUME TcpInv, NEW c \in Conns, IoStep(c)
    PROVE  UNCHANGED conns
  <1>1. ASSUME HandleClose(c), state[c] # "none"
        PROVE  \A d \in Conns : state'[d] = "none" <=> state[d] = "none"
    BY <1>1, HandleCloseOK
  <1>2. ASSUME NEW task, TakeTask(c, task)
        PROVE  state[c] # "none"
    BY <1>2 DEF TakeTask, TcpInv, NothingLeft
  <1>3. c \in reading => state[c] # "none"
    BY DEF TcpInv, PhasesOK, PhaseOK
  <1>4. ASSUME state' = [state EXCEPT ![c] = "connected"] \/ state' = [state EXCEPT ![c] = "disconnected"],
               state[c] # "none"
        PROVE  \A d \in Conns : state'[d] = "none" <=> state[d] = "none"
    BY <1>4 DEF TcpInv, TcpTypeOK
  <1>5. \A d \in Conns : state'[d] = "none" <=> state[d] = "none"
    <2>1. CASE ConnectEstablished(c) \/ ConnectDestroyed(c) \/ CloseByRequest(c)
      BY <1>1, <1>2, <1>4, <2>1 DEF ConnectEstablished, ConnectDestroyed, CloseByRequest
    <2>2. CASE HandleRead(c) \/ DecodeFrame(c)
      BY <2>2 DEF HandleRead, DecodeFrame
    <2>3. CASE DecodeHeartbeat(c) \/ DecodeEnds(c) \/ CloseByIo(c)
      BY <1>1, <1>3, <2>3 DEF DecodeHeartbeat, DecodeEnds, CloseByIo
    <2> QED BY <2>1, <2>2, <2>3 DEF IoStep
  <1>6. told' = told
    BY DEF IoStep, ConnectEstablished, HandleRead, DecodeFrame, DecodeHeartbeat, DecodeEnds,
           CloseByIo, CloseByRequest, ConnectDestroyed
  <1> QED BY <1>5, <1>6 DEF conns

-----------------------------------------------------------------------------
(* The server implements its two parts. *)

\* Every step is a step of the transport.
LEMMA StepsOfTransport ==
    ASSUME [Next]_vars
    PROVE  [TcpNext]_tcpVars
  BY DEF Next, vars, Accept, HandleFrame, HandleConnectionClosed, Free, Io, Advance,
         HandleSessionTimeouts, HandleTick, TcpNext

\* TcpServer, Connection and their loops run as TcpServer.tla says.
THEOREM ImplementsTransport == Spec => TcpSpec
  <1>1. Init => TcpInit
    BY DEF Init
  <1> QED BY <1>1, StepsOfTransport, PTL DEF Spec, TcpSpec

\* Every step is a step of the service, or leaves it alone.
LEMMA StepsOfService ==
    ASSUME TcpInv, [Next]_vars
    PROVE  [Service!Next]_(Service!vars)
  <1>1. CASE UNCHANGED vars
    BY <1>1 DEF vars, tcpVars, serviceVars, Service!vars, conns
  <1>2. ASSUME NEW c \in Conns, Io(c) PROVE UNCHANGED Service!vars
    BY <1>2, IoIsInvisible DEF Io, serviceVars, Service!vars
  <1>3. ASSUME NEW c \in Conns, Accept(c) \/ HandleFrame(c) \/ HandleConnectionClosed(c) \/ Free(c)
        PROVE  Service!Next
    BY <1>3 DEF Accept, HandleFrame, HandleConnectionClosed, Free, Service!Next
  <1>4. ASSUME HandleSessionTimeouts \/ HandleTick \/ Advance
        PROVE  Service!Next
    BY <1>4 DEF HandleSessionTimeouts, HandleTick, Advance, Service!Next
  <1> QED BY <1>1, <1>2, <1>3, <1>4 DEF Next

\* Seen through conns, the server behaves as RoomService.tla says, whatever the
\* threads do in between.
THEOREM ImplementsService == Spec => Service!Spec
  <1>1. Init => Service!Init
    BY DEF Init
  <1>2. TcpInv /\ [Next]_vars => [Service!Next]_(Service!vars)
    BY StepsOfService
  <1> QED BY <1>1, <1>2, ImplementsTransport, TcpInvariance, PTL DEF Spec, Service!Spec

\* The tables of the service agree in the composed server too: its seats have
\* sessions, its bindings are online and its weak pointers are the bound
\* connections.
THEOREM ServiceInvariance == Spec => []Service!Inv
  <1>1. Service!Spec => []Service!Inv
    BY Service!Invariance, ServerAssumption
       DEF Service!GamestateAssumption, Service!RoomAssumption, Service!RoomServiceAssumption
  <1> QED BY <1>1, ImplementsService, PTL

\* On this transport too, a player keeps seat and session while the reconnection
\* window is open, and a session goes offline only by the close of the
\* connection it is bound to (handle_session_timeouts, handle_connection_closed).
THEOREM SeatsKeptByServer == Spec => Service!SeatKeptInWindow /\ Service!OwnCloseOnly
  <1>1. Service!Spec => Service!SeatKeptInWindow
    BY Service!SeatAlwaysKeptInWindow, ServerAssumption
       DEF Service!GamestateAssumption, Service!RoomAssumption, Service!RoomServiceAssumption
  <1>2. Service!Spec => Service!OwnCloseOnly
    BY Service!OwnCloseAlways, ServerAssumption
       DEF Service!GamestateAssumption, Service!RoomAssumption, Service!RoomServiceAssumption
  <1> QED BY <1>1, <1>2, ImplementsService, PTL

-----------------------------------------------------------------------------
(* Who is online is connected. *)

\* A frame that is handled comes from a connection whose close is still to come.
LEMMA OrderlySteps ==
    ASSUME TcpInv, FramesFirst, [Next]_vars
    PROVE  [Service!OrderlyNext]_(Service!vars)
  <1>1. CASE UNCHANGED vars
    BY <1>1 DEF vars, tcpVars, serviceVars, Service!vars, conns
  <1>2. ASSUME NEW c \in Conns, Io(c) PROVE UNCHANGED Service!vars
    BY <1>2, IoIsInvisible DEF Io, serviceVars, Service!vars
  <1>3. ASSUME NEW c \in Conns, HandleFrame(c) PROVE Service!OrderlyNext
    <2>1. base # <<>> /\ Head(base) = Frame(c) /\ base \in Seq(BaseTasks)
      BY <1>3 DEF HandleFrame, RunFrame, TcpInv, TcpTypeOK
    <2>2. Holds(base, Frame(c))
      BY <2>1, TailHolds
    <2>3. told[c] = 0 /\ state[c] # "none"
      BY <2>2 DEF FramesFirst, TcpInv, NothingLeft
    <2>4. conns[c] = "open"
      BY <2>3 DEF conns
    <2> QED BY <1>3, <2>4 DEF HandleFrame, Service!OrderlyNext
  <1>4. ASSUME NEW c \in Conns, Accept(c) \/ HandleConnectionClosed(c) \/ Free(c)
        PROVE  Service!OrderlyNext
    BY <1>4 DEF Accept, HandleConnectionClosed, Free, Service!OrderlyNext
  <1>5. ASSUME HandleSessionTimeouts \/ HandleTick \/ Advance
        PROVE  Service!OrderlyNext
    BY <1>5 DEF HandleSessionTimeouts, HandleTick, Advance, Service!OrderlyNext
  <1> QED BY <1>1, <1>2, <1>3, <1>4, <1>5 DEF Next

\* Where no write of a heartbeat's answer fails, an address is bound only while
\* the connection that was bound is there and its close is still to come.
LEMMA BoundStayOpen ==
    ASSUME ~ AckWriteMayFail
    PROVE  Spec => []Service!BoundAreOpen
  <1>1. Init => Service!BoundAreOpen
    BY DEF Init, Service!Init, Service!NoBindings, Service!BoundAreOpen
  <1>2. TcpInv /\ FramesFirst /\ Service!Inv /\ Service!BoundAreOpen /\ [Next]_vars
          => Service!BoundAreOpen'
    <2> SUFFICES ASSUME TcpInv, FramesFirst, Service!Inv, Service!BoundAreOpen, [Next]_vars
                 PROVE  Service!BoundAreOpen'
      OBVIOUS
    <2>1. [Service!OrderlyNext]_(Service!vars)
      BY OrderlySteps
    <2> QED BY <2>1, Service!OrderlyKeepsBound, ServerAssumption
            DEF Service!GamestateAssumption, Service!RoomAssumption, Service!RoomServiceAssumption
  <1> QED BY <1>1, <1>2, ImplementsTransport, TcpInvariance, FramesBeforeClose,
             ServiceInvariance, PTL DEF Spec

\* On that condition a session the service takes to be online has a connection
\* whose close it has yet to hear of: the player will go offline, may resume and
\* will time out (handle_connection_closed).
THEOREM OnlineAlwaysConnected ==
    ASSUME ~ AckWriteMayFail
    PROVE  Spec => []OnlineIsConnected
  <1>1. Service!Inv /\ Service!BoundAreOpen => OnlineIsConnected
    BY DEF Service!Inv, Service!BindingsAreOnline, Service!BoundAreOpen, OnlineIsConnected
  <1> QED BY <1>1, BoundStayOpen, ServiceInvariance, PTL

\* On the same condition, whoever speaks for a player hears its room: an address
\* is bound only while the connection that was bound is there, and then it is the
\* one the room and the session point to (SessionManager::lookup, detach).
THEOREM SpeakersAlwaysReached ==
    ASSUME ~ AckWriteMayFail
    PROVE  Spec => []SpeakersAreReached
  <1>1. Service!Inv /\ Service!BoundAreOpen => SpeakersAreReached
    <2> SUFFICES ASSUME Service!Inv, Service!BoundAreOpen,
                        NEW c \in Conns, NEW t \in DOMAIN sessions
                 PROVE  c \in DOMAIN bindings /\ bindings[c] = t
                          <=> rooms[sessions[t].room].members[sessions[t].player] = c
      BY DEF SpeakersAreReached
    <2>1. rooms[sessions[t].room].members[sessions[t].player] = sessions[t].conn
      BY DEF Service!Inv, Service!ConnectionsAgree
    <2>2. c \in DOMAIN bindings /\ bindings[c] = t => sessions[t].conn = c
      BY DEF Service!BoundAreOpen
    <2>3. sessions[t].conn = c => c \in DOMAIN bindings /\ bindings[c] = t
      BY ServerAssumption
         DEF Service!Inv, Service!ConnectionsAgree, Service!RoomAssumption
    <2> QED BY <2>1, <2>2, <2>3
  <1> QED BY <1>1, BoundStayOpen, ServiceInvariance, PTL

-----------------------------------------------------------------------------
(* No frame is lost in silence. *)

\* The close the service asked for waits on the I/O loop until it has begun.
ClosingIsQueued ==
    \A c \in doomed :
        /\ state[c] # "none"
        /\ state[c] \in {"connecting", "connected"} => Holds(io[c], "close")

\* Steps of the base thread: requests are queued, tasks appended.
LEMMA QueueKeepsClosing ==
    ASSUME TcpInv, Service!Inv, ClosingIsQueued, NEW closing \in SUBSET Conns, RequestClose(closing),
           doomed' \subseteq doomed \cup closing, UNCHANGED state
    PROVE  ClosingIsQueued'
  <1>1. doomed \subseteq Conns
    BY DEF Service!Inv, Service!TypeOK
  <1>2. ASSUME NEW c \in Conns
        PROVE  /\ c \in closing => Holds(io'[c], "close") /\ state[c] # "none"
               /\ Holds(io[c], "close") => Holds(io'[c], "close")
    <2>1. io[c] \in Seq(IoTasks) /\ "close" \in IoTasks
      BY DEF TcpInv, TcpTypeOK, IoTasks
    <2>2. CASE c \in closing
      BY <2>1, <2>2, AppendHolds, ReferencedExists DEF RequestClose
    <2>3. CASE c \notin closing
      BY <2>3 DEF RequestClose
    <2> QED BY <2>2, <2>3
  <1> QED BY <1>1, <1>2 DEF ClosingIsQueued

\* Only the task itself takes a close request from the loop, and it closes.
LEMMA IoKeepsClosing ==
    ASSUME TcpInv, Service!Inv, ClosingIsQueued, NEW c \in Conns, IoStep(c), UNCHANGED doomed
    PROVE  ClosingIsQueued'
  <1>1. doomed \subseteq Conns
    BY DEF Service!Inv, Service!TypeOK
  <1>2. \A d \in Conns : d # c => state'[d] = state[d] /\ io'[d] = io[d]
    BY DEF IoStep, ConnectEstablished, HandleRead, DecodeFrame, DecodeHeartbeat, DecodeEnds,
           CloseByIo, CloseByRequest, ConnectDestroyed, HandleClose, TakeTask, TcpInv, TcpTypeOK
  <1>3. ASSUME c \in doomed
        PROVE  /\ state'[c] # "none"
               /\ state'[c] \in {"connecting", "connected"} => Holds(io'[c], "close")
    <2>1. state[c] # "none"
      BY <1>3 DEF ClosingIsQueued
    <2>2. CASE HandleClose(c)
      BY <2>1, <2>2, HandleCloseOK
    <2>3. CASE UNCHANGED <<state, io>>
      BY <1>3, <2>3 DEF ClosingIsQueued
    <2>4. CASE ConnectDestroyed(c)
      BY <2>4 DEF ConnectDestroyed, TcpInv, TcpTypeOK
    <2>5. CASE TakeTask(c, "established")
      <3>1. io[c] \in Seq(IoTasks) /\ io[c] # <<>> /\ Head(io[c]) = "established"
        BY <2>5 DEF TakeTask, TcpInv, TcpTypeOK
      <3>2. io'[c] = Tail(io[c])
        BY <2>5 DEF TakeTask, TcpInv, TcpTypeOK
      <3>3. Holds(io[c], "established")
        BY <3>1, TailHolds
      <3>4. state[c] = "connecting"
        BY <3>3 DEF Holds, TcpInv, PhasesOK, PhaseOK
      <3>5. Holds(io'[c], "close")
        BY <1>3, <3>1, <3>2, <3>4, TailHolds DEF ClosingIsQueued
      <3>6. state'[c] # "none"
        BY <2>1, <2>5, IoIsInvisible DEF conns
      <3> QED BY <3>5, <3>6
    <2> QED BY <2>2, <2>3, <2>4, <2>5
            DEF IoStep, ConnectEstablished, HandleRead, DecodeFrame, DecodeHeartbeat, DecodeEnds,
                CloseByIo, CloseByRequest
  <1> QED BY <1>1, <1>2, <1>3 DEF ClosingIsQueued

\* Every step keeps what was asked for.
LEMMA NextKeepsClosing ==
    ASSUME TcpInv, Service!Inv, ClosingIsQueued, [Next]_vars
    PROVE  ClosingIsQueued'
  <1>1. doomed \subseteq Conns
    BY DEF Service!Inv, Service!TypeOK
  <1>2. CASE UNCHANGED vars \/ Advance
    BY <1>2 DEF vars, tcpVars, serviceVars, Advance, Service!Advance, ClosingIsQueued, Holds
  <1>3. ASSUME NEW c \in Conns, Accept(c) PROVE ClosingIsQueued'
    <2>1. PICK f \in Fds : HandleAccept(c, f)
      BY <1>3 DEF Accept
    <2>2. /\ UNCHANGED doomed /\ state[c] = "none"
          /\ \A d \in Conns : d # c => state'[d] = state[d] /\ io'[d] = io[d]
      BY <1>3, <2>1, AcceptKeepsInv
         DEF Accept, Service!Accept, HandleAccept, TcpInv, TcpTypeOK
    <2> QED BY <1>1, <2>2 DEF ClosingIsQueued
  <1>4. ASSUME NEW c \in Conns, HandleFrame(c) PROVE ClosingIsQueued'
    BY <1>4, QueueKeepsClosing DEF HandleFrame, RunFrame, Closing
  <1>5. CASE HandleSessionTimeouts
    BY <1>5, QueueKeepsClosing DEF HandleSessionTimeouts, RunTimer, Closing
  <1>6. CASE HandleTick
    BY <1>6, QueueKeepsClosing DEF HandleTick, Service!HandleTick, RunTimer
  <1>7. ASSUME NEW c \in Conns, HandleConnectionClosed(c) PROVE ClosingIsQueued'
    <2>1. /\ UNCHANGED <<doomed, state>>
          /\ \A d \in Conns : io'[d] = io[d] \/ io'[d] = Append(io[d], "destroyed")
      BY <1>7 DEF HandleConnectionClosed, Service!HandleConnectionClosed, RemoveConnectionInLoop,
                  TcpInv, TcpTypeOK
    <2>2. \A d \in Conns : io[d] \in Seq(IoTasks) /\ "destroyed" \in IoTasks
      BY DEF TcpInv, TcpTypeOK, IoTasks
    <2>3. ASSUME NEW d \in Conns, Holds(io[d], "close")
          PROVE  Holds(io'[d], "close")
      <3>1. CASE io'[d] = io[d]
        BY <2>3, <3>1
      <3>2. CASE io'[d] = Append(io[d], "destroyed")
        BY <2>2, <2>3, <3>2, AppendHolds
      <3> QED BY <2>1, <3>1, <3>2
    <2> QED BY <1>1, <2>1, <2>3 DEF ClosingIsQueued
  <1>8. ASSUME NEW c \in Conns, Free(c) PROVE ClosingIsQueued'
    <2>1. /\ doomed' = doomed \ {c} /\ UNCHANGED io
          /\ \A d \in Conns : d # c => state'[d] = state[d]
      BY <1>8 DEF Free, Service!Free, Destruct, TcpInv, TcpTypeOK
    <2> QED BY <1>1, <2>1 DEF ClosingIsQueued
  <1>9. ASSUME NEW c \in Conns, Io(c) PROVE ClosingIsQueued'
    BY <1>9, IoKeepsClosing DEF Io, serviceVars
  <1> QED BY <1>2, <1>3, <1>4, <1>5, <1>6, <1>7, <1>8, <1>9 DEF Next

\* A loop without a close request holds none.
LEMMA NoRequests ==
    ASSUME TcpInv, NEW c \in Conns, CloseRequests(c) = 0
    PROVE  ~ Holds(io[c], "close")
  <1> DEFINE at == {i \in 1 .. Len(io[c]) : io[c][i] = "close"}
  <1>1. Len(io[c]) \in Nat
    BY DEF TcpInv, TcpTypeOK
  <1>2. IsFiniteSet(1 .. Len(io[c]))
    BY <1>1, FS_Interval
  <1>3. IsFiniteSet(at) /\ Cardinality(at) = 0
    BY <1>2, FS_Subset DEF CloseRequests
  <1>4. at = {}
    BY <1>3, FS_EmptySet
  <1> QED BY <1>4 DEF Holds

\* A join_ok, resume_ok, player_joined or player_left that cannot be queued is
\* followed by the close of that connection (send_frame, broadcast_frame,
\* request_close), also when its I/O thread is busy: a client that stays
\* connected knows its room.
THEOREM NeverSilentLoss == Spec => []NoSilentLoss
  <1>1. Init => ClosingIsQueued
    BY DEF Init, Service!Init, ClosingIsQueued
  <1>2. TcpInv /\ Service!Inv /\ ClosingIsQueued /\ [Next]_vars => ClosingIsQueued'
    BY NextKeepsClosing
  <1>3. Service!Spec => []Service!RostersAreAccurate
    BY Service!RostersAlwaysAccurate, ServerAssumption
       DEF Service!GamestateAssumption, Service!RoomAssumption, Service!RoomServiceAssumption
  <1>4. TcpInv /\ Service!Inv /\ ClosingIsQueued /\ Service!RostersAreAccurate => NoSilentLoss
    <2> SUFFICES ASSUME TcpInv, Service!Inv, ClosingIsQueued, Service!RostersAreAccurate,
                        NEW t \in DOMAIN sessions,
                        sessions[t].conn \in Conns,
                        state[sessions[t].conn] = "connected",
                        CloseRequests(sessions[t].conn) = 0
                 PROVE  roster[sessions[t].conn] = Service!Members(rooms[sessions[t].room])
      BY DEF NoSilentLoss
    <2>1. sessions[t].conn \notin doomed
      BY NoRequests DEF ClosingIsQueued
    <2> QED BY <2>1 DEF Service!RostersAreAccurate
  <1> QED BY <1>1, <1>2, <1>3, <1>4, ImplementsTransport, ImplementsService, TcpInvariance,
             ServiceInvariance, PTL DEF Spec
=============================================================================
