-------------------------- MODULE ConnectionProofs --------------------------
(***************************************************************************)
(* The account of a connection's bytes is right, and its descriptor armed, *)
(* for every limit, every set of frame sizes and every length of the       *)
(* queue, in every interleaving of the base thread and the I/O thread.     *)
(*                                                                         *)
(* DebtIsExact carries the bounds of TypeOK: what is in the buffer or in a *)
(* thread's hands is part of a debt that reserve_write_bytes keeps below   *)
(* the hard limit, and only the I/O thread takes away from it, so the debt *)
(* it has loaded covers what it releases.  It needs to know that only      *)
(* frames carry bytes (OnlySendsCarry), and OutputIsArmed that the paths   *)
(* on which the I/O thread returns without arming the descriptor are those *)
(* of a connection that is not up (PathsOK).                               *)
(***************************************************************************)
EXTENDS Connection, SequenceTheorems, WellFoundedInduction, TLAPS

-----------------------------------------------------------------------------
(* The bytes of a queue of tasks. *)

\* A set that holds 0 and the successors of its elements holds every number.
LEMMA NumberInduction ==
    ASSUME NEW S, S \subseteq Nat, 0 \in S, \A n \in S : n + 1 \in S
    PROVE  S = Nat
  <1> SUFFICES ASSUME Nat \ S # {} PROVE FALSE
    OBVIOUS
  <1>1. PICK x \in Nat \ S : \A y \in Nat \ S : ~ (<<y, x>> \in OpToRel(<, Nat))
    BY NatLessThanWellFounded, WFMin
  <1>2. x # 0 /\ x - 1 \in Nat /\ x - 1 < x /\ x = (x - 1) + 1
    OBVIOUS
  <1>3. x - 1 \in S
    BY <1>1, <1>2 DEF OpToRel
  <1> QED BY <1>2, <1>3

TaskOf == [kind : {"established", "send", "close", "timeout", "destroyed"},
           len  : Sizes \cup {0}]

\* A task carries a count of bytes.
LEMMA TaskLen ==
    ASSUME NEW t \in TaskOf
    PROVE  t.len \in Nat
  <1>1. t.len \in Sizes \/ t.len = 0
    BY DEF TaskOf
  <1>2. \A len \in Sizes : len \in Nat
    BY ConnectionAssumption
  <1> QED BY <1>1, <1>2

\* sum holds the bytes of the first n tasks of s, for n up to k.
Sums(s, k, sum) ==
    sum = [n \in 0 .. k |-> IF n = 0 THEN 0 ELSE sum[n - 1] + s[n].len]

\* Every queue can be summed up, task by task.
LEMMA SumsExist ==
    ASSUME NEW s
    PROVE  \A k \in Nat : \E sum : Sums(s, k, sum)
  <1> DEFINE S == {k \in Nat : \E sum : Sums(s, k, sum)}
  <1>1. 0 \in S
    <2>1. Sums(s, 0, [n \in 0 .. 0 |-> 0])
      BY DEF Sums
    <2> QED BY <2>1
  <1>2. ASSUME NEW k \in S PROVE k + 1 \in S
    <2>1. k \in Nat
      OBVIOUS
    <2>2. PICK f : Sums(s, k, f)
      OBVIOUS
    <2> DEFINE last == f[k] + s[k + 1].len
               g    == [n \in 0 .. k + 1 |-> IF n = k + 1 THEN last ELSE f[n]]
               h    == [n \in 0 .. k + 1 |-> IF n = 0 THEN 0 ELSE g[n - 1] + s[n].len]
    <2>3. \A n \in 0 .. k : f[n] = IF n = 0 THEN 0 ELSE f[n - 1] + s[n].len
      BY <2>2 DEF Sums
    <2>4. ASSUME NEW n \in 0 .. k + 1 PROVE g[n] = h[n]
      <3>1. h[n] = IF n = 0 THEN 0 ELSE g[n - 1] + s[n].len
        OBVIOUS
      <3>2. CASE n = k + 1
        <4>1. n - 1 = k /\ k \in 0 .. k + 1 /\ k # k + 1 /\ n # 0
          BY <2>1, <3>2
        <4>2. g[k] = f[k] /\ g[n] = last
          BY <4>1, <3>2
        <4> HIDE DEF g, h
        <4> QED BY <4>1, <4>2, <3>1, <3>2
      <3>3. CASE n # k + 1
        <4>1. n \in 0 .. k /\ (n # 0 => n - 1 \in 0 .. k + 1 /\ n - 1 # k + 1)
          BY <2>1, <3>3
        <4>2. g[n] = f[n] /\ (n # 0 => g[n - 1] = f[n - 1])
          BY <4>1, <3>3
        <4> HIDE DEF g, h
        <4> QED BY <4>1, <4>2, <2>3, <3>1
      <3> QED BY <3>2, <3>3
    <2>5. g = h
      BY <2>4
    <2>6. Sums(s, k + 1, g)
      BY <2>5 DEF Sums
    <2> QED BY <2>1, <2>6
  <1> HIDE DEF S
  <1>3. S = Nat
    BY <1>1, <1>2, NumberInduction DEF S
  <1> QED BY <1>3 DEF S

\* What Bytes computes: the last of the sums, each of them a number.
LEMMA BytesSums ==
    ASSUME NEW s \in Seq(TaskOf)
    PROVE  \E sum \in [0 .. Len(s) -> Nat] :
               /\ sum[0] = 0
               /\ \A n \in 1 .. Len(s) : sum[n] = sum[n - 1] + s[n].len
               /\ Bytes(s) = sum[Len(s)]
  <1> DEFINE sum == CHOOSE f : Sums(s, Len(s), f)
             S   == {n \in Nat : n <= Len(s) => sum[n] \in Nat}
  <1>1. Sums(s, Len(s), sum)
    BY SumsExist
  <1>2. Bytes(s) = sum[Len(s)]
    BY DEF Bytes, Sums
  <1> HIDE DEF sum
  <1>3. /\ sum[0] = 0
        /\ \A n \in 1 .. Len(s) : sum[n] = sum[n - 1] + s[n].len
        /\ DOMAIN sum = 0 .. Len(s)
        /\ sum = [n \in 0 .. Len(s) |-> sum[n]]
    BY <1>1 DEF Sums
  <1>4. ASSUME NEW n \in 1 .. Len(s) PROVE s[n].len \in Nat
    <2>1. s[n] \in TaskOf
      OBVIOUS
    <2> QED BY <2>1, TaskLen
  <1>5. 0 \in S
    BY <1>3
  <1>6. ASSUME NEW n \in S PROVE n + 1 \in S
    <2>1. CASE n + 1 <= Len(s)
      <3>1. n + 1 \in 1 .. Len(s) /\ (n + 1) - 1 = n /\ sum[n] \in Nat
        BY <2>1
      <3>2. sum[n + 1] = sum[n] + s[n + 1].len
        BY <1>3, <3>1
      <3>3. s[n + 1].len \in Nat
        BY <1>4, <3>1
      <3> QED BY <3>1, <3>2, <3>3
    <2> QED BY <2>1
  <1> HIDE DEF S
  <1>7. S = Nat
    BY <1>5, <1>6, NumberInduction DEF S
  <1>8. \A n \in 0 .. Len(s) : sum[n] \in Nat
    BY <1>7 DEF S
  <1>9. sum \in [0 .. Len(s) -> Nat]
    BY <1>3, <1>8
  <1> QED BY <1>2, <1>3, <1>9

\* An empty queue carries none.
LEMMA BytesEmpty == Bytes(<<>>) = 0
  <1>1. <<>> \in Seq(TaskOf) /\ Len(<<>>) = 0
    OBVIOUS
  <1> QED BY <1>1, BytesSums

\* A task that is queued adds its bytes.
LEMMA BytesAppend ==
    ASSUME NEW s \in Seq(TaskOf), NEW t \in TaskOf
    PROVE  Bytes(s) \in Nat /\ Bytes(Append(s, t)) = Bytes(s) + t.len
  <1> DEFINE a == Append(s, t)
  <1>1. a \in Seq(TaskOf) /\ Len(a) = Len(s) + 1 /\ a[Len(s) + 1] = t
        /\ \A n \in 1 .. Len(s) : a[n] = s[n]
    OBVIOUS
  <1>2. PICK f \in [0 .. Len(s) -> Nat] :
               /\ f[0] = 0
               /\ \A n \in 1 .. Len(s) : f[n] = f[n - 1] + s[n].len
               /\ Bytes(s) = f[Len(s)]
    BY BytesSums
  <1>3. PICK g \in [0 .. Len(a) -> Nat] :
               /\ g[0] = 0
               /\ \A n \in 1 .. Len(a) : g[n] = g[n - 1] + a[n].len
               /\ Bytes(a) = g[Len(a)]
    BY <1>1, BytesSums
  <1> HIDE DEF a
  <1> DEFINE S == {n \in Nat : n <= Len(s) => g[n] = f[n]}
  <1>4. 0 \in S
    BY <1>2, <1>3
  <1>5. ASSUME NEW n \in S PROVE n + 1 \in S
    <2>1. CASE n + 1 <= Len(s)
      <3>1. n + 1 \in 1 .. Len(s) /\ n + 1 \in 1 .. Len(a) /\ (n + 1) - 1 = n /\ g[n] = f[n]
        BY <1>1, <2>1
      <3>2. f[n + 1] = f[n] + s[n + 1].len
        BY <1>2, <3>1
      <3>3. g[n + 1] = g[n] + s[n + 1].len
        BY <1>3, <1>1, <3>1
      <3> QED BY <3>1, <3>2, <3>3
    <2> QED BY <2>1
  <1> HIDE DEF S
  <1>6. S = Nat
    BY <1>4, <1>5, NumberInduction DEF S
  <1>7. Len(s) \in Nat /\ g[Len(s)] = f[Len(s)]
    BY <1>6 DEF S
  <1>8. Len(a) \in 1 .. Len(a) /\ Len(a) - 1 = Len(s) /\ Len(s) \in 0 .. Len(s)
    BY <1>1, <1>7
  <1>9. g[Len(a)] = g[Len(s)] + t.len
    BY <1>1, <1>3, <1>8
  <1>10. f[Len(s)] \in Nat
    BY <1>2, <1>8
  <1> QED BY <1>2, <1>3, <1>7, <1>9, <1>10 DEF a

\* A task that is taken takes its bytes.
LEMMA BytesTail ==
    ASSUME NEW s \in Seq(TaskOf), s # <<>>
    PROVE  /\ Bytes(Tail(s)) \in Nat
           /\ Head(s).len \in Nat
           /\ Bytes(s) = Head(s).len + Bytes(Tail(s))
  <1> DEFINE a == Tail(s)
             h == Head(s).len
  <1>1. a \in Seq(TaskOf) /\ Len(a) = Len(s) - 1 /\ Len(s) \in Nat /\ Len(s) > 0
        /\ \A n \in 1 .. Len(a) : a[n] = s[n + 1]
    OBVIOUS
  <1>2. PICK f \in [0 .. Len(s) -> Nat] :
               /\ f[0] = 0
               /\ \A n \in 1 .. Len(s) : f[n] = f[n - 1] + s[n].len
               /\ Bytes(s) = f[Len(s)]
    BY BytesSums
  <1>3. PICK g \in [0 .. Len(a) -> Nat] :
               /\ g[0] = 0
               /\ \A n \in 1 .. Len(a) : g[n] = g[n - 1] + a[n].len
               /\ Bytes(a) = g[Len(a)]
    BY <1>1, BytesSums
  <1>h. h \in Nat /\ h = s[1].len
    <2>1. s[1] \in TaskOf /\ Head(s) = s[1]
      BY <1>1
    <2> QED BY <2>1, TaskLen
  <1> HIDE DEF a, h
  <1> DEFINE S == {n \in Nat : n <= Len(a) => f[n + 1] = h + g[n]}
  <1>4. 0 \in S
    <2>1. 1 \in 1 .. Len(s) /\ 1 - 1 = 0
      BY <1>1
    <2>2. f[1] = f[0] + s[1].len
      BY <1>2, <2>1
    <2> QED BY <1>2, <1>3, <1>h, <2>2
  <1>5. ASSUME NEW n \in S PROVE n + 1 \in S
    <2>1. CASE n + 1 <= Len(a)
      <3>1. /\ n + 1 \in 1 .. Len(a) /\ (n + 1) - 1 = n /\ n \in 0 .. Len(a)
            /\ n + 2 \in 1 .. Len(s) /\ (n + 2) - 1 = n + 1 /\ (n + 1) + 1 = n + 2
            /\ f[n + 1] = h + g[n]
        BY <1>1, <2>1
      <3>2. f[n + 2] = f[n + 1] + s[n + 2].len
        BY <1>2, <3>1
      <3>3. g[n + 1] = g[n] + s[n + 2].len
        BY <1>3, <1>1, <3>1
      <3>4. s[n + 2].len \in Nat /\ g[n] \in Nat
        <4>1. s[n + 2] \in TaskOf
          BY <3>1
        <4> QED BY <1>3, <3>1, <4>1, TaskLen
      <3>5. f[n + 2] = h + g[n + 1]
        BY <1>h, <3>1, <3>2, <3>3, <3>4
      <3> QED BY <3>1, <3>5
    <2> QED BY <2>1
  <1> HIDE DEF S
  <1>6. S = Nat
    BY <1>4, <1>5, NumberInduction DEF S
  <1>7. Len(a) \in Nat /\ Len(a) + 1 = Len(s) /\ Len(a) \in 0 .. Len(a)
    BY <1>1
  <1>8. f[Len(a) + 1] = h + g[Len(a)]
    BY <1>6, <1>7 DEF S
  <1>9. f[Len(s)] = h + g[Len(a)] /\ g[Len(a)] \in Nat
    BY <1>3, <1>7, <1>8
  <1> QED BY <1>2, <1>3, <1>9, <1>h DEF a, h

-----------------------------------------------------------------------------
(* The inductive invariant. *)

\* Only frames on their way carry bytes.
OnlySendsCarry ==
    \A i \in 1 .. Len(tasks) : tasks[i].kind # "send" => tasks[i].len = 0

\* Nothing is buffered before the connection is up, and the paths that give bytes
\* up or call the close callback are those of a connection that is not.
PathsOK ==
    /\ state = "connecting" => buffered = 0
    /\ io.pc = "release" => io.then # "none"
    /\ \/ io.pc \in {"load", "notify"}
       \/ io.pc = "release" /\ io.then \in {"notify", "return"}
       => state # "connected"

ConnInv == TypeOK /\ DebtIsExact /\ OutputIsArmed /\ OnlySendsCarry /\ PathsOK

Callers == {"task", "decode", "event"}

IoOf == [pc     : {"idle", "decode", "reserve", "load", "write", "release", "notify"},
         len    : 0 .. HardLimit,
         cur    : 0 .. HardLimit,
         then   : {"none", "write", "notify", "return"},
         caller : {"none", "task", "decode", "event"},
         events : Events,
         frames : 0 .. MaxFrames]

BaseOf == [pc   : {"idle", "load", "reserve", "post"},
           kind : {"none", "critical", "snapshot"},
           len  : Sizes \cup {0},
           cur  : 0 .. HardLimit]

\* The variables that take no part in the account of the bytes.
OthersOK ==
    /\ peer_eof \in BOOLEAN
    /\ armed \in {"none", "off", "in", "inout"}
    /\ quiet \in BOOLEAN
    /\ removal \in {"no", "posted", "done"}
    /\ peer \in {"open", "eof"}
    /\ unread \in BOOLEAN

\* The bytes in the hands of the two threads.
Promised == IF base.pc = "post" THEN base.len ELSE 0
Held == IF io.pc \in {"release", "load"} THEN io.len ELSE 0

\* The invariant, in the parts that the steps keep.
LEMMA Parts ==
    ConnInv <=>
        /\ debt \in 0 .. HardLimit /\ buffered \in 0 .. HardLimit
        /\ state \in {"connecting", "connected", "disconnecting", "disconnected"}
        /\ OthersOK
        /\ tasks \in Seq(TaskOf) /\ base \in BaseOf /\ io \in IoOf
        /\ debt = buffered + Queued + Promised + Held
        /\ io.pc = "release" => io.len <= io.cur
        /\ OutputIsArmed /\ OnlySendsCarry /\ PathsOK
  BY DEF ConnInv, TypeOK, DebtIsExact, Promised, Held, OthersOK, TaskOf, BaseOf, IoOf

\* The same of the next state.
LEMMA PartsNext ==
    ConnInv' <=>
        /\ debt' \in 0 .. HardLimit /\ buffered' \in 0 .. HardLimit
        /\ state' \in {"connecting", "connected", "disconnecting", "disconnected"}
        /\ OthersOK'
        /\ tasks' \in Seq(TaskOf) /\ base' \in BaseOf /\ io' \in IoOf
        /\ debt' = buffered' + Queued' + Promised' + Held'
        /\ io'.pc = "release" => io'.len <= io'.cur
        /\ OutputIsArmed' /\ OnlySendsCarry' /\ PathsOK'
  BY DEF ConnInv, TypeOK, DebtIsExact, Promised, Held, OthersOK, TaskOf, BaseOf, IoOf

\* The parts of the account are numbers, none above the debt.
LEMMA Account ==
    ASSUME ConnInv
    PROVE  /\ debt \in Nat /\ buffered \in Nat /\ Queued \in Nat
           /\ Promised \in Nat /\ Held \in Nat
           /\ debt = buffered + Queued + Promised + Held
           /\ debt <= HardLimit /\ HardLimit \in Nat
  <1>1. HardLimit \in Nat /\ \A len \in Sizes : len \in Nat
    BY ConnectionAssumption
  <1>2. Queued \in Nat
    <2>1. tasks \in Seq(TaskOf)
      BY Parts
    <2>2. Task("close", 0) \in TaskOf
      BY DEF Task, TaskOf
    <2> QED BY <2>1, <2>2, BytesAppend DEF Queued
  <1>3. Promised \in Nat
    <2>1. base.len \in Sizes \/ base.len = 0
      BY Parts DEF BaseOf
    <2> QED BY <1>1, <2>1 DEF Promised
  <1>4. Held \in Nat
    BY <1>1, Parts DEF Held, IoOf
  <1> QED BY <1>1, <1>2, <1>3, <1>4, Parts

\* Between two tasks the I/O thread is in a state of its own type.
LEMMA IdleIsIo == IoIdle \in IoOf
  <1>1. 0 \in 0 .. HardLimit /\ 0 \in 0 .. MaxFrames /\ {} \in Events
    BY ConnectionAssumption DEF Events
  <1> QED BY <1>1 DEF IoIdle, IoOf

\* The end of a handler, or back to the frames that are still to be decoded.
LEMMA BackFacts ==
    ASSUME io \in IoOf, NEW caller
    PROVE  /\ Back(caller) \in IoOf
           /\ Back(caller).pc \in {"idle", "decode"}
  <1>1. CASE caller = "decode"
    <2>1. 0 \in 0 .. HardLimit
      BY ConnectionAssumption
    <2>2. Back(caller) = IoAt("decode", 0, 0, "none", "none")
      BY <1>1 DEF Back
    <2> QED BY <2>1, <2>2 DEF IoAt, IoOf
  <1>2. CASE caller # "decode"
    BY <1>2, IdleIsIo DEF Back, IoIdle
  <1> QED BY <1>1, <1>2

\* Where release_write_bytes starts, or what follows if there is nothing to release.
LEMMA ReleaseFacts ==
    ASSUME io \in IoOf, debt \in 0 .. HardLimit,
           NEW len \in 0 .. debt, NEW then \in {"write", "notify", "return"},
           NEW caller \in {"none"} \cup Callers, NEW r, r = Release(len, then, caller)
    PROVE  /\ r \in IoOf
           /\ \/ r.pc = "release" /\ r.len = len /\ r.cur = debt /\ r.then = then
              \/ r.pc = "notify" /\ len = 0 /\ then = "notify"
              \/ r.pc \in {"idle", "decode"} /\ len = 0 /\ then # "notify"
  <1>0. 0 \in 0 .. HardLimit /\ len \in 0 .. HardLimit
    BY ConnectionAssumption
  <1>1. CASE len # 0
    <2>1. r = IoAt("release", len, debt, then, caller)
      BY <1>1 DEF Release
    <2> QED BY <1>0, <2>1 DEF IoAt, IoOf, Callers
  <1>2. CASE len = 0 /\ then = "notify"
    <2>1. r = IoAt("notify", 0, 0, "none", caller)
      BY <1>2 DEF Release
    <2> QED BY <1>0, <1>2, <2>1 DEF IoAt, IoOf, Callers
  <1>3. CASE len = 0 /\ then # "notify"
    BY <1>3, BackFacts DEF Release
  <1> QED BY <1>1, <1>2, <1>3

\* The buffer is given up and the close callback is due, or was called before.
LEMMA CloseFacts ==
    ASSUME ConnInv, NEW caller \in Callers \cup {"none"}, HandleClose(caller, buffered)
    PROVE  /\ state' \in {"disconnecting", "disconnected"}
           /\ io' \in IoOf
           /\ buffered' \in 0 .. HardLimit
           /\ \/ /\ io'.pc = "release" /\ io'.then = "notify" /\ io'.len <= io'.cur
                 /\ buffered' = 0 /\ io'.len = buffered
              \/ io'.pc \in {"idle", "decode", "notify"} /\ buffered' = buffered
  <1>0. /\ buffered \in 0 .. debt /\ debt \in 0 .. HardLimit /\ io \in IoOf
        /\ 0 \in 0 .. HardLimit /\ buffered \in 0 .. HardLimit
    BY Account, Parts
  <1>1. CASE state \in {"disconnecting", "disconnected"}
    <2>1. io' = Back(caller) /\ buffered' = buffered /\ state' = state
      BY <1>1 DEF HandleClose
    <2> QED BY <1>0, <1>1, <2>1, BackFacts
  <1>2. CASE state \notin {"disconnecting", "disconnected"}
    <2>1. state' = "disconnecting" /\ buffered' = 0 /\ io' = Release(buffered, "notify", caller)
      BY <1>2 DEF HandleClose, ClearWriteBuffer
    <2>2. /\ io' \in IoOf
          /\ \/ io'.pc = "release" /\ io'.len = buffered /\ io'.cur = debt /\ io'.then = "notify"
             \/ io'.pc = "notify" /\ buffered = 0
      BY <1>0, <2>1, ReleaseFacts, ZenonT(60)
    <2> QED BY <1>0, <2>1, <2>2
  <1> QED BY <1>1, <1>2

\* A step of the I/O thread that ends in handle_close.
LEMMA CloseKeeps ==
    ASSUME ConnInv, NEW caller \in Callers \cup {"none"}, HandleClose(caller, buffered),
           Held = 0, UNCHANGED <<debt, base>>, OthersOK',
           tasks' \in Seq(TaskOf), OnlySendsCarry', Queued' = Queued
    PROVE  ConnInv'
  <1>1. debt' = buffered' + Queued' + Promised' + Held'
    <2>1. Promised' = Promised
      BY DEF Promised
    <2>2. buffered' + Held' = buffered /\ buffered' \in Nat /\ Held' \in Nat
      BY Account, CloseFacts DEF Held
    <2>3. /\ buffered \in Nat /\ Queued \in Nat /\ Promised \in Nat /\ debt' = debt
          /\ debt = buffered + Queued + Promised + 0
      BY Account
    <2>4. (buffered' + Held') + Queued + Promised + 0 = buffered' + Queued + Promised + Held'
      BY <2>2, <2>3, SMTT(30)
    <2>5. debt' = (buffered' + Held') + Queued + Promised + 0
      BY <2>2, <2>3
    <2>6. debt' = buffered' + Queued + Promised + Held'
      BY <2>4, <2>5
    <2> QED BY <2>1, <2>6
  <1>2. OutputIsArmed' /\ PathsOK'
    BY CloseFacts DEF OutputIsArmed, PathsOK
  <1>3. debt' \in 0 .. HardLimit /\ base' \in BaseOf
    BY Parts
  <1>4. state' \in {"connecting", "connected", "disconnecting", "disconnected"}
    BY CloseFacts
  <1> QED BY <1>1, <1>2, <1>3, <1>4, CloseFacts, PartsNext

\* A step of the I/O thread that ends in update_fd.
LEMMA RearmKeeps ==
    ASSUME ConnInv, NEW caller \in Callers \cup {"none"}, Rearm(caller), Held = 0,
           UNCHANGED <<debt, tasks, base, peer_eof, quiet, removal, peer, unread>>
    PROVE  ConnInv'
  <1>0. tasks' \in Seq(TaskOf) /\ OnlySendsCarry' /\ Queued' = Queued
    BY Parts DEF OnlySendsCarry, Queued
  <1>1. CASE HandleClose(caller, buffered) /\ UNCHANGED armed
    <2>1. OthersOK'
      BY <1>1, Parts DEF OthersOK
    <2> QED BY <1>0, <1>1, <2>1, CloseKeeps
  <1>2. CASE /\ armed' = IF buffered = 0 THEN "in" ELSE "inout"
             /\ io' = Back(caller)
             /\ UNCHANGED <<state, buffered>>
    <2>1. OthersOK'
      BY <1>2, Parts DEF OthersOK
    <2>2. io' \in IoOf /\ io'.pc \in {"idle", "decode"}
      BY <1>2, Parts, BackFacts
    <2>3. Held' = 0 /\ Promised' = Promised
      BY <2>2 DEF Held, Promised
    <2>4. OutputIsArmed' /\ PathsOK'
      BY <1>2, <2>2, Parts DEF OutputIsArmed, PathsOK
    <2> QED BY <1>0, <1>2, <2>1, <2>2, <2>3, <2>4, Parts, PartsNext
  <1> QED BY <1>1, <1>2 DEF Rearm

\* The end of handle_event.
LEMMA EventEndsKeeps ==
    ASSUME ConnInv, NEW events, EventEnds(events), Held = 0,
           UNCHANGED <<debt, tasks, base, peer_eof, quiet, removal, peer, unread>>
    PROVE  ConnInv'
  <1>0. "event" \in Callers \cup {"none"}
    BY DEF Callers
  <1>1. CASE HandleClose("event", buffered) /\ UNCHANGED armed
    <2>1. OthersOK' /\ tasks' \in Seq(TaskOf) /\ OnlySendsCarry' /\ Queued' = Queued
      BY <1>1, Parts DEF OthersOK, OnlySendsCarry, Queued
    <2> QED BY <1>0, <1>1, <2>1, CloseKeeps
  <1>2. CASE Rearm("event")
    BY <1>0, <1>2, RearmKeeps
  <1> QED BY <1>1, <1>2 DEF EventEnds

\* A task is taken from the queue, and its bytes with it.
LEMMA TakeFacts ==
    ASSUME ConnInv, NEW kind, TakeTask(kind)
    PROVE  /\ tasks' \in Seq(TaskOf) /\ OnlySendsCarry'
           /\ Head(tasks) \in TaskOf
           /\ Head(tasks).len \in Nat /\ Queued' \in Nat
           /\ Queued = Head(tasks).len + Queued'
           /\ kind # "send" => Queued' = Queued
           /\ Held = 0
  <1>1. /\ tasks \in Seq(TaskOf) /\ tasks # <<>> /\ tasks' = Tail(tasks)
        /\ io.pc = "idle" /\ Head(tasks).kind = kind
    BY Parts DEF TakeTask
  <1>2. Head(tasks) \in TaskOf /\ Head(tasks) = tasks[1] /\ 1 \in 1 .. Len(tasks)
        /\ tasks' \in Seq(TaskOf)
    BY <1>1
  <1>3. /\ Queued' \in Nat /\ Head(tasks).len \in Nat
        /\ Queued = Head(tasks).len + Queued'
    BY <1>1, BytesTail DEF Queued
  <1>4. kind # "send" => Head(tasks).len = 0
    BY <1>1, <1>2, Parts DEF OnlySendsCarry
  <1>5. OnlySendsCarry'
    <2>1. /\ \A i \in 1 .. Len(Tail(tasks)) : i + 1 \in 1 .. Len(tasks)
                                              /\ Tail(tasks)[i] = tasks[i + 1]
      BY <1>1
    <2> QED BY <1>1, <2>1, Parts DEF OnlySendsCarry
  <1> QED BY <1>1, <1>2, <1>3, <1>4, <1>5 DEF Held

-----------------------------------------------------------------------------
(* The base thread. *)

\* A task is queued, and its bytes with it.
LEMMA PostFacts ==
    ASSUME ConnInv, NEW t \in TaskOf, t.kind # "send" => t.len = 0,
           tasks' = Append(tasks, t)
    PROVE  /\ tasks' \in Seq(TaskOf) /\ OnlySendsCarry'
           /\ Queued' = Queued + t.len
  <1>1. tasks \in Seq(TaskOf) /\ OnlySendsCarry
    BY Parts
  <1>2. tasks' \in Seq(TaskOf)
    BY <1>1
  <1>3. Queued' = Queued + t.len
    BY <1>1, BytesAppend DEF Queued
  <1>4. \A i \in 1 .. Len(tasks') : IF i = Len(tasks) + 1 THEN tasks'[i] = t
                                    ELSE i \in 1 .. Len(tasks) /\ tasks'[i] = tasks[i]
    BY <1>1
  <1> QED BY <1>1, <1>2, <1>3, <1>4 DEF OnlySendsCarry

\* A step of the base thread leaves the I/O thread's part alone.
LEMMA BaseKeeps ==
    ASSUME ConnInv, BaseOnly, debt' \in 0 .. HardLimit,
           removal' \in {"no", "posted", "done"},
           tasks' \in Seq(TaskOf), OnlySendsCarry', base' \in BaseOf,
           debt' = buffered + Queued' + Promised' + Held
    PROVE  ConnInv'
  <1>1. UNCHANGED <<buffered, state, peer_eof, armed, quiet, io, peer, unread>>
    BY DEF BaseOnly, socket
  <1>2. OthersOK' /\ OutputIsArmed' /\ PathsOK'
    BY <1>1, Parts DEF OthersOK, OutputIsArmed, PathsOK
  <1>3. Held' = Held
    BY <1>1 DEF Held
  <1>4. buffered' \in 0 .. HardLimit /\ io' \in IoOf /\ (io'.pc = "release" => io'.len <= io'.cur)
        /\ state' \in {"connecting", "connected", "disconnecting", "disconnected"}
    BY <1>1, Parts
  <1>5. debt' = buffered' + Queued' + Promised' + Held'
    BY <1>1, <1>3
  <1> QED BY <1>2, <1>4, <1>5, PartsNext

\* Every step of the base thread keeps the account: reserve_write_bytes adds
\* exactly what send then posts.
LEMMA BaseStepKeeps ==
    ASSUME ConnInv, BaseStep
    PROVE  ConnInv'
  <1>0. /\ base \in BaseOf /\ tasks \in Seq(TaskOf) /\ OnlySendsCarry
        /\ debt \in 0 .. HardLimit /\ 0 \in 0 .. HardLimit
        /\ removal \in {"no", "posted", "done"}
        /\ debt = buffered + Queued + Promised + Held
    BY Account, Parts DEF OthersOK
  <1>1. /\ BaseIdle \in BaseOf /\ BaseIdle.pc = "idle"
        /\ \A kind \in {"established", "send", "close", "timeout", "destroyed"} :
               /\ Task(kind, 0) \in TaskOf
               /\ Task(kind, 0).len = 0
    BY <1>0 DEF BaseIdle, BaseOf, Task, TaskOf
  <1>2. ASSUME NEW len \in Sizes, NEW kind \in {"critical", "snapshot"}, BeginSend(kind, len)
        PROVE  ConnInv'
    <2>1. /\ base' = [pc |-> "load", kind |-> kind, len |-> len, cur |-> 0]
          /\ base.pc = "idle" /\ UNCHANGED <<debt, tasks, removal>> /\ BaseOnly
      BY <1>2 DEF BeginSend, BaseFree, shared
    <2>2. base' \in BaseOf /\ Promised' = Promised
      BY <1>0, <2>1 DEF BaseOf, Promised
    <2>3. tasks' \in Seq(TaskOf) /\ OnlySendsCarry' /\ Queued' = Queued
      BY <1>0, <2>1 DEF OnlySendsCarry, Queued
    <2> QED BY <1>0, <2>1, <2>2, <2>3, BaseKeeps
  <1>3. CASE BaseLoad
    <2>1. /\ base' = [base EXCEPT !.pc = "reserve", !.cur = debt]
          /\ base.pc = "load" /\ UNCHANGED <<debt, tasks, removal>> /\ BaseOnly
      BY <1>3 DEF BaseLoad, shared
    <2>2. base' \in BaseOf /\ Promised' = Promised
      BY <1>0, <2>1 DEF BaseOf, Promised
    <2>3. tasks' \in Seq(TaskOf) /\ OnlySendsCarry' /\ Queued' = Queued
      BY <1>0, <2>1 DEF OnlySendsCarry, Queued
    <2> QED BY <1>0, <2>1, <2>2, <2>3, BaseKeeps
  <1>4. CASE BaseReserve
    <2>1. /\ base.pc = "reserve" /\ ~ Refused(base.len, base.cur)
          /\ UNCHANGED <<tasks, removal>> /\ BaseOnly
      BY <1>4 DEF BaseReserve
    <2>2. tasks' \in Seq(TaskOf) /\ OnlySendsCarry' /\ Queued' = Queued
      BY <1>0, <2>1 DEF OnlySendsCarry, Queued
    <2>3. CASE debt = base.cur
      <3>1. debt' = debt + base.len /\ base' = [base EXCEPT !.pc = "post"]
        BY <1>4, <2>3 DEF BaseReserve
      <3>2. base.len \in Nat
        <4>1. base.len \in Sizes \/ base.len = 0
          BY <1>0 DEF BaseOf
        <4>2. \A len \in Sizes : len \in Nat
          BY ConnectionAssumption
        <4> QED BY <4>1, <4>2
      <3>3. debt' \in 0 .. HardLimit
        BY <1>0, <2>1, <2>3, <3>1, <3>2, Account, SMTT(30) DEF Refused
      <3>4. base' \in BaseOf /\ Promised = 0 /\ Promised' = base.len
        BY <1>0, <2>1, <3>1 DEF BaseOf, Promised
      <3>5. debt' = buffered + Queued' + Promised' + Held
        <4>1. /\ buffered \in Nat /\ Queued \in Nat /\ Held \in Nat
              /\ debt = buffered + Queued + 0 + Held
          BY <3>4, Account
        <4>2. debt + base.len = buffered + Queued + base.len + Held
          BY <3>2, <4>1
        <4> QED BY <2>2, <3>1, <3>4, <4>2
      <3> QED BY <1>0, <2>1, <2>2, <3>3, <3>4, <3>5, BaseKeeps
    <2>4. CASE debt # base.cur
      <3>1. debt' = debt /\ base' = [base EXCEPT !.cur = debt]
        BY <1>4, <2>4 DEF BaseReserve
      <3>2. base' \in BaseOf /\ Promised' = Promised
        BY <1>0, <2>1, <3>1 DEF BaseOf, Promised
      <3> QED BY <1>0, <2>1, <2>2, <3>1, <3>2, BaseKeeps
    <2> QED BY <2>3, <2>4
  <1>5. CASE BaseRefused
    <2>1. /\ base.pc = "reserve" /\ base' = BaseIdle
          /\ tasks' = tasks \/ tasks' = Append(tasks, Task("close", 0))
          /\ UNCHANGED <<debt, removal>> /\ BaseOnly
      BY <1>5 DEF BaseRefused
    <2>2. Promised' = Promised
      BY <1>1, <2>1 DEF Promised
    <2>3. tasks' \in Seq(TaskOf) /\ OnlySendsCarry' /\ Queued' = Queued
      <3>1. CASE tasks' = tasks
        BY <1>0, <3>1 DEF OnlySendsCarry, Queued
      <3>2. CASE tasks' = Append(tasks, Task("close", 0))
        <4>1. Queued + 0 = Queued
          BY Account
        <4> QED BY <1>1, <3>2, <4>1, PostFacts
      <3> QED BY <2>1, <3>1, <3>2
    <2> QED BY <1>0, <1>1, <2>1, <2>2, <2>3, BaseKeeps
  <1>6. CASE BasePost
    <2>1. /\ base.pc = "post" /\ base' = BaseIdle
          /\ tasks' = Append(tasks, Task("send", base.len))
          /\ UNCHANGED <<debt, removal>> /\ BaseOnly
      BY <1>6 DEF BasePost
    <2>2. /\ Task("send", base.len) \in TaskOf
          /\ Task("send", base.len).kind = "send" /\ Task("send", base.len).len = base.len
      BY <1>0 DEF Task, TaskOf, BaseOf
    <2>3. tasks' \in Seq(TaskOf) /\ OnlySendsCarry' /\ Queued' = Queued + base.len
      BY <2>1, <2>2, PostFacts
    <2>4. Promised = base.len /\ Promised' = 0
      BY <1>1, <2>1 DEF Promised
    <2>5. debt' = buffered + Queued' + Promised' + Held
      <3>1. /\ buffered \in Nat /\ Queued \in Nat /\ Held \in Nat /\ base.len \in Nat
            /\ debt = buffered + Queued + base.len + Held
        BY <2>4, Account
      <3>2. debt = buffered + (Queued + base.len) + 0 + Held
        BY <3>1
      <3> QED BY <2>1, <2>3, <2>4, <3>2
    <2> QED BY <1>0, <1>1, <2>1, <2>3, <2>5, BaseKeeps
  <1>7. CASE CheckTimeout \/ RemoveConnection
    <2>1. PICK kind \in {"timeout", "destroyed"} :
             /\ tasks' = Append(tasks, Task(kind, 0)) /\ UNCHANGED <<debt, base>>
             /\ BaseOnly /\ removal' \in {removal, "done"}
      BY <1>7 DEF CheckTimeout, RemoveConnection
    <2>2. tasks' \in Seq(TaskOf) /\ OnlySendsCarry' /\ Queued' = Queued
      <3>1. Queued + 0 = Queued
        BY Account
      <3> QED BY <1>1, <2>1, <3>1, PostFacts
    <2>3. Promised' = Promised /\ base' \in BaseOf
      BY <1>0, <2>1 DEF Promised
    <2> QED BY <1>0, <2>1, <2>2, <2>3, BaseKeeps
  <1> QED BY <1>2, <1>3, <1>4, <1>5, <1>6, <1>7 DEF BaseStep

-----------------------------------------------------------------------------
(* The I/O thread. *)

States == {"connecting", "connected", "disconnecting", "disconnected"}

\* A step that does not touch the bytes, the state or the descriptor.
LEMMA NothingKeeps ==
    ASSUME ConnInv, UNCHANGED <<debt, buffered, state, armed, base, io>>, OthersOK',
           tasks' \in Seq(TaskOf), OnlySendsCarry', Queued' = Queued
    PROVE  ConnInv'
  <1>1. Promised' = Promised /\ Held' = Held
    BY DEF Promised, Held
  <1>2. OutputIsArmed' /\ PathsOK'
    BY Parts DEF OutputIsArmed, PathsOK
  <1> QED BY <1>1, <1>2, Parts, PartsNext

\* A step of the I/O thread to the place r, with held bytes in its hands, of
\* which the account is right, in a state where it may be there.
LEMMA IoStepTo ==
    ASSUME ConnInv, UNCHANGED base, OthersOK',
           debt' \in 0 .. HardLimit, buffered' \in 0 .. HardLimit, state' \in States,
           tasks' \in Seq(TaskOf), OnlySendsCarry', io' \in IoOf,
           NEW held \in Nat, Held' = held,
           debt' = buffered' + Queued' + Promised + held,
           io'.pc = "release" => io'.len <= io'.cur, OutputIsArmed', PathsOK'
    PROVE  ConnInv'
  <1>1. Promised' = Promised
    BY DEF Promised
  <1>2. debt' = buffered' + Queued' + Promised' + Held'
    BY <1>1
  <1>3. base' \in BaseOf
    BY Parts
  <1> QED BY <1>2, <1>3, PartsNext DEF States

\* Tasks: what a task does to a connection in any state.
LEMMA RunTaskKeeps ==
    ASSUME ConnInv, RunTask
    PROVE  ConnInv'
  <1>0. /\ io \in IoOf /\ OthersOK /\ base \in BaseOf /\ state \in States
        /\ debt \in 0 .. HardLimit /\ buffered \in 0 .. HardLimit /\ 0 \in 0 .. HardLimit
        /\ buffered \in 0 .. debt
        /\ "task" \in Callers \cup {"none"} /\ "task" \in {"none"} \cup Callers
    BY Account, Parts DEF Callers, States
  <1>1. CASE ConnectEstablished
    <2>1. /\ TakeTask("established")
          /\ UNCHANGED <<debt, peer_eof, quiet, removal, base, peer, unread>>
      BY <1>1 DEF ConnectEstablished, IoOnly, socket
    <2>2. /\ tasks' \in Seq(TaskOf) /\ OnlySendsCarry' /\ Queued' = Queued /\ Held = 0
          /\ io.pc = "idle"
      BY <2>1, TakeFacts DEF TakeTask
    <2>3. CASE UNCHANGED <<state, buffered, armed, io>>
      <3>1. OthersOK'
        BY <1>0, <2>1, <2>3 DEF OthersOK
      <3> QED BY <2>1, <2>2, <2>3, <3>1, NothingKeeps
    <2>4. CASE /\ state = "connecting" /\ state' = "connected" /\ armed' = "in"
               /\ UNCHANGED <<buffered, io>>
      <3>1. OthersOK'
        BY <1>0, <2>1, <2>4 DEF OthersOK
      <3>2. buffered = 0
        BY <2>4, Parts DEF PathsOK
      <3>3. OutputIsArmed' /\ PathsOK'
        BY <2>2, <2>4, <3>2 DEF OutputIsArmed, PathsOK
      <3>4. Promised' = Promised /\ Held' = Held
        BY <2>1, <2>4 DEF Promised, Held
      <3> QED BY <2>1, <2>2, <2>4, <3>1, <3>3, <3>4, Parts, PartsNext
    <2>5. CASE HandleClose("task", buffered) /\ UNCHANGED armed
      <3>1. OthersOK'
        BY <1>0, <2>1, <2>5 DEF OthersOK
      <3> QED BY <1>0, <2>1, <2>2, <2>5, <3>1, CloseKeeps
    <2> QED BY <1>1, <2>3, <2>4, <2>5 DEF ConnectEstablished
  <1>2. CASE SendInLoop
    <2>1. /\ TakeTask("send")
          /\ UNCHANGED <<debt, state, armed, peer_eof, quiet, removal, base, peer, unread>>
      BY <1>2 DEF SendInLoop, IoOnly, socket
    <2> DEFINE len == Head(tasks).len
    <2>2. /\ tasks' \in Seq(TaskOf) /\ OnlySendsCarry' /\ Held = 0
          /\ len \in Nat /\ Queued' \in Nat /\ Queued = len + Queued'
      BY <2>1, TakeFacts
    <2> HIDE DEF len
    <2>3. OthersOK' /\ debt' \in 0 .. HardLimit /\ state' \in States
      BY <1>0, <2>1 DEF OthersOK
    <2>4. /\ buffered \in Nat /\ Promised \in Nat
          /\ debt = buffered + (len + Queued') + Promised + 0 /\ debt <= HardLimit /\ HardLimit \in Nat
      BY <2>2, Account
    <2>5. CASE state = "connected"
      <3>1. /\ buffered' = buffered + len
            /\ io' = [IoIdle EXCEPT !.pc = "write", !.caller = "task"]
        BY <1>2, <2>5 DEF SendInLoop, len
      <3>2. io' \in IoOf /\ io'.pc = "write"
        BY <3>1, IdleIsIo DEF IoOf, IoIdle
      <3>3. OutputIsArmed' /\ PathsOK' /\ Held' = 0
        BY <2>1, <2>5, <3>2 DEF OutputIsArmed, PathsOK, Held
      <3>4. debt' = (buffered + len) + Queued' + Promised + 0 /\ buffered' \in 0 .. HardLimit
        BY <2>1, <2>2, <2>4, <3>1
      <3> QED BY <2>1, <2>2, <2>3, <3>1, <3>2, <3>3, <3>4, IoStepTo
    <2>6. CASE state # "connected"
      <3>1. io' = Release(len, "return", "task") /\ buffered' = buffered
        BY <1>2, <2>6 DEF SendInLoop, len
      <3>2. len \in 0 .. debt
        <4>1. \A b, l, q, p \in Nat : l <= b + (l + q) + p + 0
          OBVIOUS
        <4>2. len <= debt
          BY <2>2, <2>4, <4>1
        <4> QED BY <1>0, <2>2, <4>2
      <3>3. /\ io' \in IoOf
            /\ \/ io'.pc = "release" /\ io'.len = len /\ io'.cur = debt /\ io'.then = "return"
               \/ io'.pc \in {"idle", "decode"} /\ len = 0
        BY <1>0, <3>1, <3>2, ReleaseFacts
      <3>4. OutputIsArmed' /\ PathsOK' /\ Held' = len
        BY <2>1, <2>6, <3>1, <3>3, Parts DEF OutputIsArmed, PathsOK, Held
      <3>5. debt' = buffered' + Queued' + Promised + len
        BY <2>1, <2>2, <2>4, <3>1
      <3>6. io'.pc = "release" => io'.len <= io'.cur
        BY <3>2, <3>3
      <3> QED BY <1>0, <2>1, <2>2, <2>3, <3>1, <3>3, <3>4, <3>5, <3>6, IoStepTo
    <2> QED BY <2>5, <2>6
  <1>3. CASE CloseByRequest \/ CheckTimeoutInLoop
    <2>1. PICK kind \in {"close", "timeout"} :
             /\ TakeTask(kind)
             /\ UNCHANGED <<debt, armed, peer_eof, quiet, removal, base, peer, unread>>
      BY <1>3 DEF CloseByRequest, CheckTimeoutInLoop, IoOnly, socket
    <2>2. tasks' \in Seq(TaskOf) /\ OnlySendsCarry' /\ Queued' = Queued /\ Held = 0
      BY <2>1, TakeFacts
    <2>3. OthersOK'
      BY <1>0, <2>1 DEF OthersOK
    <2>4. CASE HandleClose("task", buffered)
      BY <1>0, <2>1, <2>2, <2>3, <2>4, CloseKeeps
    <2>5. CASE UNCHANGED <<state, buffered, io>>
      BY <2>1, <2>2, <2>3, <2>5, NothingKeeps
    <2> QED BY <1>3, <2>4, <2>5 DEF CloseByRequest, CheckTimeoutInLoop
  <1>4. CASE ConnectDestroyed
    <2>1. /\ TakeTask("destroyed")
          /\ UNCHANGED <<debt, peer_eof, quiet, removal, base, peer, unread>>
      BY <1>4 DEF ConnectDestroyed, IoOnly, socket
    <2>2. tasks' \in Seq(TaskOf) /\ OnlySendsCarry' /\ Queued' = Queued /\ Held = 0
      BY <2>1, TakeFacts
    <2>3. CASE UNCHANGED <<state, buffered, armed, io>>
      <3>1. OthersOK'
        BY <1>0, <2>1, <2>3 DEF OthersOK
      <3> QED BY <2>1, <2>2, <2>3, <3>1, NothingKeeps
    <2>4. CASE /\ state' = "disconnected" /\ armed' = "none"
               /\ ClearWriteBuffer(buffered, "return", "task")
      <3>1. buffered' = 0 /\ io' = Release(buffered, "return", "task")
        BY <2>4 DEF ClearWriteBuffer
      <3>2. /\ io' \in IoOf
            /\ \/ io'.pc = "release" /\ io'.len = buffered /\ io'.cur = debt /\ io'.then = "return"
               \/ io'.pc \in {"idle", "decode"} /\ buffered = 0
        BY <1>0, <3>1, ReleaseFacts
      <3>3. OthersOK' /\ debt' \in 0 .. HardLimit /\ state' \in States
        BY <1>0, <2>1, <2>4 DEF OthersOK, States
      <3>4. OutputIsArmed' /\ PathsOK' /\ Held' = buffered
        BY <2>4, <3>2 DEF OutputIsArmed, PathsOK, Held
      <3>5. debt' = buffered' + Queued' + Promised + buffered
        <4>1. /\ buffered \in Nat /\ Queued \in Nat /\ Promised \in Nat
              /\ debt = buffered + Queued + Promised + 0
          BY <2>2, Account
        <4>2. debt = 0 + Queued + Promised + buffered
          BY <4>1
        <4> QED BY <2>1, <2>2, <3>1, <4>2
      <3>6. io'.pc = "release" => io'.len <= io'.cur
        BY <1>0, <3>2
      <3>7. buffered \in Nat
        BY Account
      <3> QED BY <1>0, <2>1, <2>2, <3>1, <3>2, <3>3, <3>4, <3>5, <3>6, <3>7, IoStepTo
    <2> QED BY <1>4, <2>3, <2>4 DEF ConnectDestroyed
  <1> QED BY <1>1, <1>2, <1>3, <1>4 DEF RunTask

\* handle_event, up to its decoding.
LEMMA RunEventKeeps ==
    ASSUME ConnInv, RunEvent
    PROVE  ConnInv'
  <1>1. PICK events \in Events, frames \in 0 .. MaxFrames : HandleEvent(events, frames)
    BY DEF RunEvent
  <1>2. /\ io.pc = "idle" /\ armed' = "off"
        /\ UNCHANGED <<debt, tasks, quiet, removal, base, peer>>
    BY <1>1 DEF HandleEvent, shared
  <1>3. /\ tasks' \in Seq(TaskOf) /\ OnlySendsCarry' /\ Queued' = Queued /\ Held = 0
        /\ debt' \in 0 .. HardLimit
    BY <1>2, Parts DEF OnlySendsCarry, Queued, Held
  <1>4. peer_eof' \in BOOLEAN /\ unread' \in BOOLEAN
    BY <1>1, Parts DEF HandleEvent, OthersOK
  <1>5. OthersOK'
    BY <1>2, <1>4, Parts DEF OthersOK
  <1>6. CASE state # "connected" /\ UNCHANGED <<state, buffered, io>>
    <2>1. Promised' = Promised /\ Held' = Held
      BY <1>2, <1>6 DEF Promised, Held
    <2>2. OutputIsArmed' /\ PathsOK'
      BY <1>6, Parts DEF OutputIsArmed, PathsOK
    <2> QED BY <1>2, <1>3, <1>5, <1>6, <2>1, <2>2, Parts, PartsNext
  <1>7. CASE /\ state = "connected" /\ UNCHANGED <<state, buffered>>
             /\ io' = [IoIdle EXCEPT !.pc = "decode", !.events = events, !.frames = frames]
    <2>1. io' \in IoOf /\ io'.pc = "decode"
      BY <1>7, IdleIsIo DEF IoOf, IoIdle
    <2>2. Promised' = Promised /\ Held' = 0
      BY <1>2, <2>1 DEF Promised, Held
    <2>3. OutputIsArmed' /\ PathsOK'
      BY <1>7, <2>1 DEF OutputIsArmed, PathsOK
    <2> QED BY <1>2, <1>3, <1>5, <1>7, <2>1, <2>2, <2>3, Parts, PartsNext
  <1>8. CASE HandleClose("event", buffered)
    <2>1. "event" \in Callers \cup {"none"}
      BY DEF Callers
    <2> QED BY <1>2, <1>3, <1>5, <1>8, <2>1, CloseKeeps
  <1> QED BY <1>1, <1>6, <1>7, <1>8 DEF HandleEvent

\* What a step of the I/O thread inside a handler leaves alone.
LEMMA HandlerFrame ==
    ASSUME ConnInv, UNCHANGED <<tasks, armed, peer_eof, removal, base, peer, unread>>,
           quiet' \in BOOLEAN
    PROVE  tasks' \in Seq(TaskOf) /\ OnlySendsCarry' /\ Queued' = Queued /\ OthersOK'
  BY Parts DEF OnlySendsCarry, Queued, OthersOK

\* The frames of a read.
LEMMA DecodeKeeps ==
    ASSUME ConnInv, DecodeFrame \/ DecodeFails \/ DecodeEnds
    PROVE  ConnInv'
  <1>0. /\ io \in IoOf /\ "event" \in Callers \cup {"none"} /\ io.pc = "decode" /\ Held = 0
        /\ quiet \in BOOLEAN /\ debt \in 0 .. HardLimit /\ buffered \in 0 .. HardLimit
        /\ state \in States /\ AckSize \in 0 .. HardLimit /\ MaxFrames \in Nat
    BY Parts, ConnectionAssumption
       DEF Callers, DecodeFrame, DecodeFails, DecodeEnds, Held, OthersOK, States
  <1>1. CASE DecodeFrame
    <2>1. /\ UNCHANGED <<debt, tasks, state, buffered, armed, peer_eof, removal, base, peer, unread>>
          /\ quiet' \in BOOLEAN /\ io.frames > 0
      BY <1>0, <1>1 DEF DecodeFrame, RefreshPeerActivity, IoOnly, socket, shared
    <2>2. io.frames - 1 \in 0 .. MaxFrames
      BY <1>0, <2>1 DEF IoOf
    <2>3. io' \in IoOf /\ io'.pc \in {"decode", "reserve"}
      <3>1. CASE io' = [io EXCEPT !.frames = @ - 1]
        BY <1>0, <2>2, <3>1 DEF IoOf
      <3>2. CASE io' = [io EXCEPT !.frames = @ - 1, !.pc = "reserve", !.len = AckSize, !.cur = debt]
        BY <1>0, <2>2, <3>2 DEF IoOf
      <3> QED BY <1>1, <3>1, <3>2 DEF DecodeFrame
    <2>4. OutputIsArmed' /\ PathsOK' /\ Held' = 0 /\ Promised' = Promised
      BY <2>1, <2>3, Parts DEF OutputIsArmed, PathsOK, Held, Promised
    <2> QED BY <1>0, <2>1, <2>3, <2>4, HandlerFrame, Parts, PartsNext
  <1>2. CASE DecodeFails
    <2>1. /\ HandleClose("event", buffered)
          /\ UNCHANGED <<debt, tasks, armed, quiet, peer_eof, removal, base, peer, unread>>
      BY <1>2 DEF DecodeFails, IoOnly, socket, shared
    <2> QED BY <1>0, <2>1, HandlerFrame, CloseKeeps
  <1>3. CASE DecodeEnds
    <2>1. UNCHANGED <<debt, tasks, base, peer_eof, quiet, removal, peer, unread>>
      BY <1>3 DEF DecodeEnds, IoOnly, socket, shared
    <2>2. CASE EventEnds(io.events)
      BY <1>0, <2>1, <2>2, EventEndsKeeps
    <2>3. CASE /\ io' = [io EXCEPT !.pc = "write", !.caller = "event", !.events = io.events]
               /\ UNCHANGED <<state, buffered, armed>>
      <3>1. io' \in IoOf /\ io'.pc = "write"
        BY <1>0, <2>3 DEF IoOf
      <3>2. OutputIsArmed' /\ PathsOK' /\ Held' = 0 /\ Promised' = Promised
        BY <2>1, <2>3, <3>1, Parts DEF OutputIsArmed, PathsOK, Held, Promised
      <3> QED BY <1>0, <2>1, <2>3, <3>1, <3>2, HandlerFrame, Parts, PartsNext
    <2>4. CASE state # "connected" /\ io' = IoIdle /\ UNCHANGED <<state, buffered, armed>>
      <3>1. io' \in IoOf /\ io'.pc = "idle"
        BY <2>4, IdleIsIo DEF IoIdle
      <3>2. OutputIsArmed' /\ PathsOK' /\ Held' = 0 /\ Promised' = Promised
        BY <2>1, <2>4, <3>1, Parts DEF OutputIsArmed, PathsOK, Held, Promised
      <3> QED BY <1>0, <2>1, <2>4, <3>1, <3>2, HandlerFrame, Parts, PartsNext
    <2> QED BY <1>3, <2>2, <2>3, <2>4 DEF DecodeEnds, EventWrites
  <1> QED BY <1>1, <1>2, <1>3

\* The ack of a heartbeat: reserve_write_bytes and send_in_loop on this thread.
LEMMA AckKeeps ==
    ASSUME ConnInv, AckReserve \/ AckRelease
    PROVE  ConnInv'
  <1>0. /\ io \in IoOf /\ quiet \in BOOLEAN /\ debt \in 0 .. HardLimit
        /\ buffered \in 0 .. HardLimit /\ state \in States
        /\ "event" \in Callers \cup {"none"} /\ io.caller \in {"none"} \cup Callers
        /\ io.len \in Nat /\ HardLimit \in Nat /\ 0 \in 0 .. HardLimit
    BY Parts, Account DEF Callers, OthersOK, States, IoOf
  <1>1. CASE AckReserve
    <2>1. /\ io.pc = "reserve"
          /\ UNCHANGED <<tasks, armed, quiet, peer_eof, removal, base, peer, unread>>
      BY <1>1 DEF AckReserve, IoOnly, socket
    <2>2. Held = 0
      BY <2>1 DEF Held
    <2>3. CASE Refused(io.len, io.cur)
      <3>1. HandleClose("event", buffered) /\ UNCHANGED debt
        BY <1>1, <2>3 DEF AckReserve
      <3> QED BY <1>0, <2>1, <2>2, <3>1, HandlerFrame, CloseKeeps
    <2>4. CASE ~ Refused(io.len, io.cur) /\ debt # io.cur
      <3>1. io' = [io EXCEPT !.cur = debt] /\ UNCHANGED <<debt, state, buffered>>
        BY <1>1, <2>4 DEF AckReserve
      <3>2. io' \in IoOf /\ io'.pc = "reserve"
        BY <1>0, <2>1, <3>1 DEF IoOf
      <3>3. OutputIsArmed' /\ PathsOK' /\ Held' = 0 /\ Promised' = Promised
        BY <2>1, <3>1, <3>2, Parts DEF OutputIsArmed, PathsOK, Held, Promised
      <3> QED BY <1>0, <2>1, <2>2, <3>1, <3>2, <3>3, HandlerFrame, Parts, PartsNext
    <2>5. CASE ~ Refused(io.len, io.cur) /\ debt = io.cur
      <3>1. debt' = debt + io.len /\ state' = state
        BY <1>1, <2>5 DEF AckReserve
      <3>2. debt' \in 0 .. HardLimit
        BY <1>0, <2>5, <3>1 DEF Refused
      <3>3. /\ buffered \in Nat /\ Queued \in Nat /\ Promised \in Nat
            /\ debt = buffered + Queued + Promised + 0
        BY <2>2, Account
      <3>4. CASE state = "connected"
        <4>1. buffered' = buffered + io.len /\ io' = IoAt("write", 0, 0, "none", "decode")
          BY <1>1, <2>5, <3>4 DEF AckReserve
        <4>2. io' \in IoOf /\ io'.pc = "write"
          BY <1>0, <4>1 DEF IoOf, IoAt
        <4>3. OutputIsArmed' /\ PathsOK' /\ Held' = 0
          BY <3>1, <3>4, <4>2 DEF OutputIsArmed, PathsOK, Held
        <4>4. debt + io.len = (buffered + io.len) + Queued + Promised + 0
          BY <1>0, <3>3
        <4>5. buffered' \in 0 .. HardLimit
          BY <1>0, <3>1, <3>2, <3>3, <4>1
        <4>6. debt' = buffered' + Queued' + Promised + 0
          BY <1>0, <2>1, <3>1, <4>1, <4>4, HandlerFrame
        <4> QED BY <1>0, <2>1, <3>1, <3>2, <4>2, <4>3, <4>5, <4>6, HandlerFrame, IoStepTo
      <3>5. CASE state # "connected"
        <4>1. buffered' = buffered /\ io' = [io EXCEPT !.pc = "load", !.caller = "decode"]
          BY <1>1, <2>5, <3>5 DEF AckReserve
        <4>2. io' \in IoOf /\ io'.pc = "load" /\ io'.len = io.len
          BY <1>0, <4>1 DEF IoOf
        <4>3. OutputIsArmed' /\ PathsOK' /\ Held' = io.len
          BY <3>1, <3>5, <4>1, <4>2, Parts DEF OutputIsArmed, PathsOK, Held
        <4>4. debt + io.len = buffered + Queued + Promised + io.len
          BY <1>0, <3>3
        <4>5. debt' = buffered' + Queued' + Promised + io.len
          BY <1>0, <2>1, <3>1, <4>1, <4>4, HandlerFrame
        <4> QED BY <1>0, <2>1, <3>1, <3>2, <4>1, <4>2, <4>3, <4>5, HandlerFrame, IoStepTo
      <3> QED BY <3>4, <3>5
    <2> QED BY <2>3, <2>4, <2>5
  <1>2. CASE AckRelease
    <2>1. /\ io.pc = "load" /\ io' = Release(io.len, "return", io.caller)
          /\ UNCHANGED <<debt, tasks, state, buffered, armed, quiet, peer_eof,
                         removal, base, peer, unread>>
      BY <1>2 DEF AckRelease, IoOnly, socket, shared
    <2>2. Held = io.len /\ state # "connected"
      BY <2>1, Parts DEF Held, PathsOK
    <2>3. io.len \in 0 .. debt
      BY <2>2, Account
    <2>4. /\ io' \in IoOf
          /\ \/ io'.pc = "release" /\ io'.len = io.len /\ io'.cur = debt /\ io'.then = "return"
             \/ io'.pc \in {"idle", "decode"} /\ io.len = 0
      <3> DEFINE len == io.len
                 caller == io.caller
      <3>1. len \in 0 .. debt /\ caller \in {"none"} \cup Callers
            /\ io' = Release(len, "return", caller)
        BY <1>0, <2>1, <2>3
      <3> HIDE DEF len, caller
      <3>2. /\ io' \in IoOf
            /\ \/ io'.pc = "release" /\ io'.len = len /\ io'.cur = debt /\ io'.then = "return"
               \/ io'.pc \in {"idle", "decode"} /\ len = 0
        BY <1>0, <3>1, ReleaseFacts
      <3> QED BY <3>2 DEF len
    <2>5. OutputIsArmed' /\ PathsOK' /\ Held' = io.len
      BY <2>1, <2>2, <2>4, Parts DEF OutputIsArmed, PathsOK, Held
    <2>6. io'.pc = "release" => io'.len <= io'.cur
      BY <2>3, <2>4
    <2>7. debt' = buffered' + Queued' + Promised + io.len
      BY <1>0, <2>1, <2>2, HandlerFrame, Parts
    <2> QED BY <1>0, <2>1, <2>4, <2>5, <2>6, <2>7, HandlerFrame, IoStepTo
  <1> QED BY <1>1, <1>2

\* write_to_socket: what the socket takes leaves the buffer and is released.
LEMMA WriteKeeps ==
    ASSUME ConnInv, (\E n \in 1 .. HardLimit : WriteSome(n)) \/ WriteEnds \/ WriteFails
    PROVE  ConnInv'
  <1>0. /\ io \in IoOf /\ quiet \in BOOLEAN /\ debt \in 0 .. HardLimit
        /\ buffered \in 0 .. HardLimit /\ state \in States
        /\ io.caller \in Callers \cup {"none"} /\ io.caller \in {"none"} \cup Callers
        /\ io.pc = "write" /\ Held = 0
    BY Parts DEF Callers, OthersOK, States, IoOf, WriteSome, WriteEnds, WriteFails, Held
  <1>1. ASSUME NEW n \in 1 .. HardLimit, WriteSome(n)
        PROVE  ConnInv'
    <2>1. /\ n \in 1 .. buffered /\ buffered' = buffered - n
          /\ io' = Release(n, "write", io.caller)
          /\ UNCHANGED <<debt, tasks, state, armed, quiet, peer_eof, removal, base, peer, unread>>
      BY <1>1 DEF WriteSome, IoOnly, socket, shared
    <2>2. /\ buffered \in Nat /\ Queued \in Nat /\ Promised \in Nat /\ debt \in Nat
          /\ debt = buffered + Queued + Promised + 0
      BY <1>0, Account
    <2>3. n \in 0 .. debt /\ n # 0
      BY <2>1, <2>2
    <2>4. io' \in IoOf /\ io'.pc = "release" /\ io'.len = n /\ io'.cur = debt /\ io'.then = "write"
      BY <1>0, <2>1, <2>3, ReleaseFacts, ZenonT(60)
    <2>5. OutputIsArmed' /\ PathsOK' /\ Held' = n
      BY <2>1, <2>4, Parts DEF OutputIsArmed, PathsOK, Held
    <2>6. debt = (buffered - n) + Queued + Promised + n /\ buffered' \in 0 .. HardLimit
      <3>1. \A b, q, p \in Nat : \A k \in 1 .. b : b + q + p + 0 = (b - k) + q + p + k
        OBVIOUS
      <3>2. debt = (buffered - n) + Queued + Promised + n
        BY <2>1, <2>2, <3>1
      <3>3. buffered - n \in 0 .. HardLimit
        BY <2>1, Account
      <3> QED BY <2>1, <3>2, <3>3
    <2>7. debt' = buffered' + Queued' + Promised + n
      BY <1>0, <2>1, <2>6, HandlerFrame
    <2>8. io'.pc = "release" => io'.len <= io'.cur
      BY <2>3, <2>4
    <2> QED BY <1>0, <2>1, <2>4, <2>5, <2>6, <2>7, <2>8, HandlerFrame, IoStepTo
  <1>2. CASE WriteEnds
    <2>1. UNCHANGED <<debt, tasks, base, peer_eof, quiet, removal, peer, unread>>
      BY <1>2 DEF WriteEnds, IoOnly, socket, shared
    <2>2. CASE EventEnds(io.events)
      BY <1>0, <2>1, <2>2, EventEndsKeeps
    <2>3. CASE Rearm(io.caller)
      BY <1>0, <2>1, <2>3, RearmKeeps
    <2> QED BY <1>2, <2>2, <2>3 DEF WriteEnds
  <1>3. CASE WriteFails
    <2>1. /\ HandleClose(io.caller, buffered)
          /\ UNCHANGED <<debt, tasks, armed, quiet, peer_eof, removal, base, peer, unread>>
      BY <1>3 DEF WriteFails, IoOnly, socket, shared
    <2> QED BY <1>0, <2>1, HandlerFrame, CloseKeeps
  <1> QED BY <1>1, <1>2, <1>3

\* release_write_bytes, and the close callback.
LEMMA ReleaseKeeps ==
    ASSUME ConnInv, ReleaseWriteBytes \/ CloseCallback
    PROVE  ConnInv'
  <1>0. /\ io \in IoOf /\ quiet \in BOOLEAN /\ debt \in 0 .. HardLimit
        /\ buffered \in 0 .. HardLimit /\ state \in States
        /\ io.caller \in {"none"} \cup Callers /\ HardLimit \in Nat /\ 0 \in 0 .. HardLimit
        /\ io.len \in Nat /\ io.cur \in Nat
    BY Parts, Account DEF Callers, OthersOK, States, IoOf
  <1>1. CASE ReleaseWriteBytes
    <2>1. /\ io.pc = "release"
          /\ UNCHANGED <<tasks, state, buffered, armed, quiet, peer_eof, removal, base, peer, unread>>
      BY <1>1 DEF ReleaseWriteBytes, IoOnly, socket
    <2>2. /\ Held = io.len /\ io.len <= io.cur /\ io.then \in {"write", "notify", "return"}
          /\ io.then \in {"notify", "return"} => state # "connected"
      BY <2>1, Parts DEF Held, PathsOK, IoOf
    <2>3. /\ buffered \in Nat /\ Queued \in Nat /\ Promised \in Nat /\ debt \in Nat
          /\ debt = buffered + Queued + Promised + io.len
      BY <2>2, Account
    <2>4. CASE debt # io.cur
      <3>1. io' = [io EXCEPT !.cur = debt] /\ UNCHANGED debt
        BY <1>0, <1>1, <2>2, <2>4 DEF ReleaseWriteBytes
      <3>2. /\ io' \in IoOf /\ io'.pc = "release" /\ io'.len = io.len /\ io'.cur = debt
            /\ io'.then = io.then
        BY <1>0, <2>1, <3>1 DEF IoOf
      <3>3. OutputIsArmed' /\ PathsOK' /\ Held' = io.len
        BY <2>1, <2>2, <3>2, Parts DEF OutputIsArmed, PathsOK, Held
      <3>4. io'.pc = "release" => io'.len <= io'.cur
        BY <1>0, <2>3, <3>2
      <3>5. debt' = buffered' + Queued' + Promised + io.len
        BY <1>0, <2>1, <2>3, <3>1, HandlerFrame
      <3> QED BY <1>0, <2>1, <3>1, <3>2, <3>3, <3>4, <3>5, HandlerFrame, IoStepTo
    <2>5. CASE debt = io.cur
      <3>1. debt' = debt - io.len /\ io' = AfterRelease
        BY <1>0, <1>1, <2>2, <2>5 DEF ReleaseWriteBytes
      <3>2. /\ io' \in IoOf
            /\ \/ io'.pc = "write"
               \/ io'.pc \in {"notify", "idle", "decode"} /\ state # "connected"
        <4>1. CASE io.then = "write"
          <5>1. io' = IoAt("write", 0, 0, "none", io.caller)
            BY <3>1, <4>1 DEF AfterRelease
          <5> QED BY <1>0, <5>1 DEF IoAt, IoOf, Callers
        <4>2. CASE io.then = "notify"
          <5>1. io' = IoAt("notify", 0, 0, "none", io.caller)
            BY <3>1, <4>2 DEF AfterRelease, Release
          <5> QED BY <1>0, <2>2, <4>2, <5>1 DEF IoAt, IoOf, Callers
        <4>3. CASE io.then = "return"
          <5>1. io' = Back(io.caller)
            BY <3>1, <4>3 DEF AfterRelease
          <5> QED BY <1>0, <2>2, <4>3, <5>1, BackFacts
        <4> QED BY <2>2, <4>1, <4>2, <4>3
      <3>3. OutputIsArmed' /\ PathsOK' /\ Held' = 0
        BY <2>1, <3>2, Parts DEF OutputIsArmed, PathsOK, Held
      <3>4. debt - io.len = buffered + Queued + Promised + 0 /\ debt' \in 0 .. HardLimit
        BY <1>0, <2>3, <3>1
      <3>5. debt' = buffered' + Queued' + Promised + 0
        BY <1>0, <2>1, <3>1, <3>4, HandlerFrame
      <3> QED BY <1>0, <2>1, <3>2, <3>3, <3>4, <3>5, HandlerFrame, IoStepTo
    <2> QED BY <2>4, <2>5
  <1>2. CASE CloseCallback
    <2>1. /\ io.pc = "notify" /\ io' = Back(io.caller)
          /\ removal' = IF removal = "no" THEN "posted" ELSE removal
          /\ UNCHANGED <<debt, tasks, state, buffered, armed, quiet, peer_eof, base, peer, unread>>
      BY <1>2 DEF CloseCallback, socket, shared
    <2>2. Held = 0 /\ state # "connected"
      BY <2>1, Parts DEF Held, PathsOK
    <2>3. io' \in IoOf /\ io'.pc \in {"idle", "decode"}
      BY <1>0, <2>1, BackFacts
    <2>4. OutputIsArmed' /\ PathsOK' /\ Held' = 0 /\ Promised' = Promised
      BY <2>1, <2>2, <2>3, Parts DEF OutputIsArmed, PathsOK, Held, Promised
    <2>5. OthersOK' /\ tasks' \in Seq(TaskOf) /\ OnlySendsCarry' /\ Queued' = Queued
      BY <2>1, Parts DEF OthersOK, OnlySendsCarry, Queued
    <2> QED BY <1>0, <2>1, <2>2, <2>3, <2>4, <2>5, Parts, PartsNext
  <1> QED BY <1>1, <1>2

-----------------------------------------------------------------------------
(* The theorems. *)

\* The connection starts with nothing promised.
LEMMA ConnInit == Init => ConnInv
  <1> SUFFICES ASSUME Init PROVE ConnInv
    OBVIOUS
  <1>1. /\ tasks = <<Task("established", 0)>> /\ io = IoIdle /\ base = BaseIdle
        /\ debt = 0 /\ buffered = 0 /\ state = "connecting"
    BY DEF Init
  <1>2. Task("established", 0) \in TaskOf /\ Task("established", 0).len = 0
    BY DEF Task, TaskOf
  <1>3. <<>> \in Seq(TaskOf) /\ tasks = Append(<<>>, Task("established", 0))
        /\ tasks \in Seq(TaskOf) /\ \A i \in 1 .. Len(tasks) : tasks[i] = Task("established", 0)
    BY <1>1, <1>2
  <1>4. Queued = 0
    <2>1. Bytes(Append(<<>>, Task("established", 0))) = Bytes(<<>>) + 0
      BY <1>2, <1>3, BytesAppend
    <2> QED BY <1>3, <2>1, BytesEmpty DEF Queued
  <1>5. OnlySendsCarry /\ OthersOK /\ OutputIsArmed /\ PathsOK
    <2>1. OnlySendsCarry
      BY <1>2, <1>3 DEF OnlySendsCarry
    <2>2. OthersOK
      BY DEF Init, OthersOK
    <2>3. OutputIsArmed /\ PathsOK
      BY <1>1 DEF OutputIsArmed, PathsOK, IoIdle
    <2> QED BY <2>1, <2>2, <2>3
  <1>6. 0 \in 0 .. HardLimit
    BY ConnectionAssumption
  <1>7. io \in IoOf /\ base \in BaseOf
    BY <1>1, <1>6, IdleIsIo DEF BaseIdle, BaseOf
  <1>8. Held = 0 /\ Promised = 0 /\ io.pc = "idle"
    BY <1>1 DEF Held, Promised, IoIdle, BaseIdle
  <1> QED BY <1>1, <1>3, <1>4, <1>5, <1>6, <1>7, <1>8, Parts

\* Every step of the two threads, the peer and the clock keeps the invariant.
LEMMA ConnNext == ConnInv /\ [Next]_vars => ConnInv'
  <1> SUFFICES ASSUME ConnInv, [Next]_vars PROVE ConnInv'
    OBVIOUS
  <1>1. CASE Continue
    BY <1>1, DecodeKeeps, AckKeeps, WriteKeeps, ReleaseKeeps DEF Continue
  <1>2. CASE PeerSends \/ PeerCloses \/ TimePasses \/ UNCHANGED vars
    <2>1. UNCHANGED <<debt, buffered, state, armed, base, io, tasks, removal, peer_eof>>
      BY <1>2 DEF PeerSends, PeerCloses, TimePasses, vars, shared, socket
    <2>2. OthersOK'
      BY <1>2, <2>1, Parts DEF PeerSends, PeerCloses, TimePasses, vars, socket, OthersOK
    <2>3. tasks' \in Seq(TaskOf) /\ OnlySendsCarry' /\ Queued' = Queued
      BY <2>1, Parts DEF OnlySendsCarry, Queued
    <2> QED BY <2>1, <2>2, <2>3, NothingKeeps
  <1> QED BY <1>1, <1>2, RunTaskKeeps, RunEventKeeps, BaseStepKeeps DEF Next

\* Every state a connection reaches is in ConnInv, for every size, mark and limit.
THEOREM ConnInvariance == Spec => []ConnInv
  BY ConnInit, ConnNext, PTL DEF Spec

(***************************************************************************)
(* The debt, the buffer and every load and compare-and-swap of the debt    *)
(* stay within WRITE_HARD_LIMIT, whatever the sizes of the frames and the  *)
(* limits are (Connection::reserve_write_bytes).                           *)
(***************************************************************************)
THEOREM TypeCorrect == Spec => []TypeOK
  BY ConnInvariance, PTL DEF ConnInv

(***************************************************************************)
(* No interleaving of reserve_write_bytes and release_write_bytes makes    *)
(* pending_write_bytes_ differ from the bytes that are promised, and       *)
(* release_write_bytes never meets the error it logs.                      *)
(***************************************************************************)
THEOREM DebtAlwaysExact == Spec => []DebtIsExact
  BY ConnInvariance, PTL DEF ConnInv

(***************************************************************************)
(* A connection that is up is never left unarmed by the I/O thread, nor    *)
(* without EPOLLOUT while output waits (send_in_loop, handle_event).       *)
(***************************************************************************)
THEOREM OutputAlwaysArmed == Spec => []OutputIsArmed
  BY ConnInvariance, PTL DEF ConnInv
=============================================================================
