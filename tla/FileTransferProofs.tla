-------------------------- MODULE FileTransferProofs --------------------------
(***************************************************************************)
(* What holds of FileTransfer for any sockets, names, sizes and bounds, with *)
(* machine-checked proofs.                                                 *)
(***************************************************************************)
EXTENDS FileTransfer, FiniteSetTheorems, TLAPS

USE DEF Nil, NoKey, connVars, taskVars

-----------------------------------------------------------------------------
(* Sequences, and the list of connections *)

(* The elements of a sequence one element longer. *)
LEMMA RangeOfAppend ==
  ASSUME NEW T, NEW q \in Seq(T), NEW e \in T
  PROVE  Append(q, e) \in Seq(T) /\ Range(Append(q, e)) = Range(q) \cup {e}
<1>1. DOMAIN Append(q, e) = 1 .. Len(q) + 1 /\ DOMAIN q = 1 .. Len(q) /\ Len(q) \in Nat
  OBVIOUS
<1>2. \A i \in 1 .. Len(q) : Append(q, e)[i] = q[i]
  OBVIOUS
<1>3. Append(q, e)[Len(q) + 1] = e
  OBVIOUS
<1>4. Append(q, e) \in Seq(T)
  OBVIOUS
<1>5. Range(q) \cup {e} \subseteq Range(Append(q, e))
  BY <1>1, <1>2, <1>3 DEF Range
<1>6. Range(Append(q, e)) \subseteq Range(q) \cup {e}
  <2>1. \A i \in 1 .. Len(q) + 1 : i \in 1 .. Len(q) \/ i = Len(q) + 1
    BY <1>1
  <2> QED BY <1>1, <1>2, <1>3, <2>1 DEF Range
<1> QED BY <1>4, <1>5, <1>6

(* Dropping the head adds no element. *)
LEMMA RangeOfTail ==
  ASSUME NEW T, NEW q \in Seq(T), q # <<>>
  PROVE  /\ Tail(q) \in Seq(T) /\ Range(Tail(q)) \subseteq Range(q)
         /\ Head(q) \in T /\ Head(q) \in Range(q)
  BY DEF Range

(* The elements of two sequences joined. *)
LEMMA RangeOfConcat ==
  ASSUME NEW T, NEW q \in Seq(T), NEW r \in Seq(T)
  PROVE  q \o r \in Seq(T) /\ Range(q \o r) = Range(q) \cup Range(r)
<1> DEFINE m == Len(q)
           n == Len(r)
<1>1. /\ DOMAIN (q \o r) = 1 .. m + n /\ m \in Nat /\ n \in Nat
      /\ DOMAIN q = 1 .. m /\ DOMAIN r = 1 .. n
  OBVIOUS
<1>2. \A i \in 1 .. m : (q \o r)[i] = q[i]
  OBVIOUS
<1>3. \A i \in 1 .. n : (q \o r)[m + i] = r[i]
  OBVIOUS
<1>4. q \o r \in Seq(T)
  OBVIOUS
<1> HIDE DEF m, n
<1>5. Range(q) \cup Range(r) \subseteq Range(q \o r)
  <2>1. \A i \in 1 .. m : i \in 1 .. m + n
    BY <1>1
  <2>2. \A i \in 1 .. n : m + i \in 1 .. m + n
    BY <1>1
  <2> QED BY <1>1, <1>2, <1>3, <2>1, <2>2 DEF Range
<1>6. Range(q \o r) \subseteq Range(q) \cup Range(r)
  <2>1. \A i \in 1 .. m + n : i \in 1 .. m \/ (i - m \in 1 .. n /\ m + (i - m) = i)
    BY <1>1
  <2> QED BY <1>1, <1>2, <1>3, <2>1 DEF Range
<1> QED BY <1>4, <1>5, <1>6

(* The elements of a sequence have its type. *)
LEMMA RangeInType ==
  ASSUME NEW T, NEW q \in Seq(T)
  PROVE  Range(q) \subseteq T
  BY DEF Range

(* Removing a socket leaves a list of some of the sockets. *)
LEMMA RemoveKeepsType ==
  ASSUME NEW T, NEW socks \in Seq(T), NEW s
  PROVE  /\ RemoveConnBySocket(socks, s) \in Seq(T)
         /\ Range(RemoveConnBySocket(socks, s)) \subseteq Range(socks)
<1> DEFINE k == GetConnBySocket(socks, s)
<1>1. CASE k = Nil
  BY <1>1 DEF RemoveConnBySocket
<1>2. CASE k # Nil
  <2>1. k \in DOMAIN socks
    BY <1>2 DEF GetConnBySocket, First
  <2>2. Len(socks) \in Nat /\ Len(socks) >= 1
    BY <2>1
  <2> DEFINE rest == [i \in 1 .. Len(socks) - 1 |-> IF i < k THEN socks[i] ELSE socks[i + 1]]
  <2>3. RemoveConnBySocket(socks, s) = rest
    BY <1>2 DEF RemoveConnBySocket
  <2>4. \A i \in 1 .. Len(socks) - 1 : rest[i] \in Range(socks)
    BY <2>1, <2>2 DEF Range
  <2>5. rest \in Seq(T)
    BY <2>2, <2>4, RangeInType
  <2> QED BY <2>3, <2>4, <2>5 DEF Range
<1> QED BY <1>1, <1>2

(* A part of a sequence is a sequence of some of its elements. *)
LEMMA RangeOfSubSeq ==
  ASSUME NEW T, NEW q \in Seq(T), NEW i \in Nat, NEW j \in Nat, 1 <= i, j <= Len(q)
  PROVE  SubSeq(q, i, j) \in Seq(T)
  OBVIOUS

(* A sequence of elements of a set is one of elements of a larger set. *)
LEMMA SeqGrows ==
  ASSUME NEW S, NEW T, S \subseteq T, NEW q \in Seq(S)
  PROVE  q \in Seq(T)
  OBVIOUS

(* Every set of positions that is not empty has a least one. *)
LEMMA LeastPosition ==
  ASSUME NEW n \in Nat, NEW K \in SUBSET (1 .. n), K # {}
  PROVE  \E i \in K : \A j \in K : i <= j
<1> DEFINE Up == {1 .. i : i \in K}
<1>1. Up \subseteq FiniteSubsetsOf(Nat)
  <2>1. \A i \in K : i \in Int /\ 1 .. i \subseteq Nat
    OBVIOUS
  <2>2. \A i \in K : IsFiniteSet(1 .. i)
    BY <2>1, FS_Interval
  <2> QED BY <2>1, <2>2 DEF FiniteSubsetsOf
<1>2. Up # {}
  OBVIOUS
<1>3. \E u \in Up : \A v \in Up : <<v, u>> \notin StrictSubsetOrdering(Nat)
  BY <1>1, <1>2, FS_StrictSubsetOrderingWellFounded, WFMin
<1>4. PICK i \in K : \A v \in Up : <<v, 1 .. i>> \notin StrictSubsetOrdering(Nat)
  BY <1>3
<1>5. ASSUME NEW j \in K PROVE i <= j
  <2>1. SUFFICES ASSUME j < i PROVE FALSE
    BY <1>5
  <2>2. 1 .. j \subseteq 1 .. i /\ i \in 1 .. i /\ i \notin 1 .. j
    BY <2>1
  <2>3. 1 .. j \in SUBSET Nat /\ 1 .. i \in SUBSET Nat
    OBVIOUS
  <2>4. <<1 .. j, 1 .. i>> \in StrictSubsetOrdering(Nat)
    BY <2>2, <2>3 DEF StrictSubsetOrdering
  <2> QED BY <1>4, <2>4
<1> QED BY <1>5

(* If every connection has its key, the one picked is one of the list. *)
LEMMA PickOfKeyed ==
  ASSUME NEW items, NEW n \in Nat, n # 0, DOMAIN items = 1 .. n,
         \A i \in 1 .. n : items[i].key # NoKey, NEW purpose
  PROVE  GetConnByPurpose(items, purpose) \in 1 .. n
<1> DEFINE keyed  == {i \in DOMAIN items : items[i].key # NoKey}
           wanted == {i \in DOMAIN items : items[i].purpose = purpose}
<1>1. keyed = 1 .. n
  OBVIOUS
<1>2. CASE keyed \cap wanted # {}
  <2>1. First(keyed \cap wanted) \in keyed \cap wanted
    <3>1. \E i \in keyed \cap wanted : \A j \in keyed \cap wanted : i <= j
      BY <1>1, <1>2, LeastPosition
    <3> QED BY <3>1 DEF First
  <2> QED BY <1>1, <1>2, <2>1 DEF GetConnByPurpose
<1>3. CASE keyed \cap wanted = {}
  <2>1. n \in 1 .. n /\ \A j \in 1 .. n : j <= n
    OBVIOUS
  <2>2. Last(1 .. n) \in 1 .. n
    BY <2>1 DEF Last
  <2>3. GetConnByPurpose(items, purpose) = Last(keyed)
    BY <1>1, <1>3, <2>1 DEF GetConnByPurpose
  <2> QED BY <1>1, <2>2, <2>3
<1> QED BY <1>2, <1>3

-----------------------------------------------------------------------------
(* Partial functions *)

(* A partial function from S to T is a function from some elements of S to T. *)
LEMMA PartialDef ==
  ASSUME NEW S, NEW T, NEW f
  PROVE  f \in Partial(S, T) <=> DOMAIN f \in SUBSET S /\ f \in [DOMAIN f -> T]
  BY DEF Partial

(* A partial function stays one when its range grows. *)
LEMMA PartialGrows ==
  ASSUME NEW S, NEW T, NEW U, T \subseteq U, NEW f \in Partial(S, T)
  PROVE  f \in Partial(S, U)
  BY DEF Partial

(* The empty function is partial. *)
LEMMA PartialEmpty == \A S, T : <<>> \in Partial(S, T)
<1>1. DOMAIN <<>> = {}
  OBVIOUS
<1>2. \A T : <<>> \in [{} -> T]
  OBVIOUS
<1> QED BY <1>1, <1>2 DEF Partial

(* What a function becomes when a value is put in it or taken out. *)
LEMMA PutEffect ==
  ASSUME NEW S, NEW T, NEW f, NEW k, NEW v, f \in Partial(S, T), k \in S, v \in T
  PROVE  /\ Put(f, k, v) \in Partial(S, T)
         /\ \A j \in DOMAIN Put(f, k, v) :
              \/ j = k /\ Put(f, k, v)[j] = v
              \/ j \in DOMAIN f /\ Put(f, k, v)[j] = f[j]
<1>1. DOMAIN f \in SUBSET S /\ f \in [DOMAIN f -> T]
  BY PartialDef
<1>2. DOMAIN Put(f, k, v) = DOMAIN f \cup {k}
  BY DEF Put
<1>3. Put(f, k, v) \in [DOMAIN f \cup {k} -> T]
  BY <1>1 DEF Put
<1>4. Put(f, k, v) \in Partial(S, T)
  BY <1>1, <1>2, <1>3, PartialDef
<1>5. ASSUME NEW j \in DOMAIN Put(f, k, v)
      PROVE  \/ j = k /\ Put(f, k, v)[j] = v
             \/ j \in DOMAIN f /\ Put(f, k, v)[j] = f[j]
  <2>1. j \in DOMAIN f \cup {k}
    BY <1>2, <1>5
  <2>2. Put(f, k, v)[j] = IF j = k THEN v ELSE f[j]
    BY <2>1 DEF Put
  <2> QED BY <2>1, <2>2
<1> QED BY <1>4, <1>5

(* A function with an argument taken out has the values it had at the others. *)
LEMMA WithoutEffect ==
  ASSUME NEW S, NEW T, NEW f \in Partial(S, T), NEW k
  PROVE  /\ Without(f, k) \in Partial(S, T)
         /\ \A j \in DOMAIN Without(f, k) : j \in DOMAIN f /\ Without(f, k)[j] = f[j]
<1>1. DOMAIN f \in SUBSET S /\ f \in [DOMAIN f -> T]
  BY PartialDef
<1>2. DOMAIN Without(f, k) = DOMAIN f \ {k}
  BY DEF Without
<1>3. Without(f, k) \in [DOMAIN f \ {k} -> T]
  BY <1>1 DEF Without
<1>4. Without(f, k) \in Partial(S, T)
  BY <1>1, <1>2, <1>3, PartialDef
<1> QED BY <1>2, <1>4 DEF Without

(* A value of a partial function may be replaced by another. *)
LEMMA PartialExcept ==
  ASSUME NEW S, NEW T, NEW f \in Partial(S, T), NEW k, NEW v \in T
  PROVE  /\ [f EXCEPT ![k] = v] \in Partial(S, T)
         /\ DOMAIN [f EXCEPT ![k] = v] = DOMAIN f
         /\ \A j \in DOMAIN f : [f EXCEPT ![k] = v][j] = IF j = k THEN v ELSE f[j]
<1>1. DOMAIN f \in SUBSET S /\ f \in [DOMAIN f -> T]
  BY PartialDef
<1>2. [f EXCEPT ![k] = v] \in [DOMAIN f -> T]
  BY <1>1
<1> QED BY <1>1, <1>2, PartialDef

(* A value of a partial function is in its range, and its argument in its domain. *)
LEMMA PartialValue ==
  ASSUME NEW S, NEW T, NEW f \in Partial(S, T), NEW k \in DOMAIN f
  PROVE  f[k] \in T /\ k \in S
  BY PartialDef

-----------------------------------------------------------------------------
(* The wires *)

WireT  == [Peer -> [Sock -> Seq(Cells)]]
TaskT  == [Peer -> Partial(Names, Task)]
QueueT == [Peer -> Seq(Queued)]

(* Nothing comes on a wire but these cells, written by p to s. *)
Gains(before, after, p, s, cells) ==
  \A q \in Peer, t \in Sock :
    Range(after[q][t]) \subseteq
      Range(before[q][t]) \cup (IF q = Other(p) /\ t = s THEN Range(cells) ELSE {})

(* The other device is a device, and another one. *)
LEMMA OtherPeer == \A p \in Peer : Other(p) \in Peer /\ Other(p) # p /\ Other(Other(p)) = p
  BY DevicesDiffer DEF Peer, Other

(* The empty sequence has no elements. *)
LEMMA RangeOfEmpty == Range(<<>>) = {}
  BY DEF Range

(* Taking the head of a wire puts nothing on any. *)
LEMMA TakenEffect ==
  ASSUME TypeOK, NEW p \in Peer, NEW s \in Sock, wire[p][s] # <<>>
  PROVE  /\ Taken(p, s) \in WireT
         /\ Gains(wire, Taken(p, s), p, s, <<>>)
         /\ Head(wire[p][s]) \in Cells /\ Head(wire[p][s]) \in Range(wire[p][s])
<1>1. wire \in WireT /\ wire[p][s] \in Seq(Cells)
  BY DEF TypeOK, WireT
<1>2. /\ Tail(wire[p][s]) \in Seq(Cells)
      /\ Range(Tail(wire[p][s])) \subseteq Range(wire[p][s])
      /\ Head(wire[p][s]) \in Cells /\ Head(wire[p][s]) \in Range(wire[p][s])
  BY <1>1, RangeOfTail
<1>3. Taken(p, s) \in WireT
  BY <1>1, <1>2 DEF WireT, Taken
<1>4. \A q \in Peer, t \in Sock :
        Taken(p, s)[q][t] = IF q = p /\ t = s THEN Tail(wire[p][s]) ELSE wire[q][t]
  BY <1>1 DEF WireT, Taken
<1>5. Gains(wire, Taken(p, s), p, s, <<>>)
  BY <1>2, <1>4 DEF Gains
<1> QED BY <1>2, <1>3, <1>5

(* A wire written to has these cells more, and no other wire has. *)
LEMMA JoinedEffect ==
  ASSUME NEW w \in WireT, NEW p \in Peer, NEW s \in Sock, NEW cells \in Seq(Cells),
         NEW w2, w2 = [w EXCEPT ![Other(p)][s] = @ \o cells]
  PROVE  w2 \in WireT /\ Gains(w, w2, p, s, cells)
<1> DEFINE o == Other(p)
<1>1. o \in Peer /\ w[o][s] \in Seq(Cells)
  BY OtherPeer DEF WireT
<1>2. /\ w[o][s] \o cells \in Seq(Cells)
      /\ Range(w[o][s] \o cells) = Range(w[o][s]) \cup Range(cells)
  BY <1>1, RangeOfConcat
<1>3. w2 \in WireT
  BY <1>1, <1>2 DEF WireT
<1>4. \A q \in Peer, t \in Sock :
        w2[q][t] = IF q = o /\ t = s THEN w[o][s] \o cells ELSE w[q][t]
  BY <1>1 DEF WireT
<1>5. Gains(w, w2, p, s, cells)
  BY <1>2, <1>4 DEF Gains
<1> QED BY <1>3, <1>5

(* A write that reaches the other end, or is lost, puts at most these cells on the wire. *)
LEMMA WroteEffect ==
  ASSUME NEW w \in WireT, NEW p \in Peer, NEW s \in Sock, NEW cells \in Seq(Cells)
  PROVE  Wrote(w, p, s, cells) \in WireT /\ Gains(w, Wrote(w, p, s, cells), p, s, cells)
<1>1. CASE Gone(p, s) \/ Deleted(Other(p), s)
  <2>1. Wrote(w, p, s, cells) = w
    BY <1>1 DEF Wrote
  <2> QED BY <2>1 DEF Gains
<1>2. CASE ~(Gone(p, s) \/ Deleted(Other(p), s))
  <2>1. Wrote(w, p, s, cells) = [w EXCEPT ![Other(p)][s] = @ \o cells]
    BY <1>2 DEF Wrote
  <2> QED BY <2>1, JoinedEffect
<1> QED BY <1>1, <1>2

(* A deletion empties a wire. *)
LEMMA DeleteEffect ==
  ASSUME TypeOK, NEW w \in WireT, NEW p \in Peer, NEW s \in Sock, Delete(p, s, w),
         NEW cells, NEW q \in Peer, NEW t, Gains(wire, w, q, t, cells)
  PROVE  /\ table' \in [Peer -> Seq(Sock)]
         /\ wire' \in WireT /\ Gains(wire, wire', q, t, cells)
<1>1. table' \in [Peer -> Seq(Sock)]
  <2>1. table[p] \in Seq(Sock)
    BY DEF TypeOK
  <2>2. RemoveConnBySocket(table[p], s) \in Seq(Sock)
    BY <2>1, RemoveKeepsType
  <2> QED BY <2>2 DEF TypeOK, Delete
<1>2. wire' \in WireT
  BY DEF Delete, WireT
<1>3. \A r \in Peer, u \in Sock : wire'[r][u] = w[r][u] \/ wire'[r][u] = <<>>
  BY DEF Delete, WireT
<1>4. \A r \in Peer, u \in Sock : Range(wire'[r][u]) \subseteq Range(w[r][u])
  <2> TAKE r \in Peer, u \in Sock
  <2>1. CASE wire'[r][u] = w[r][u]
    BY <2>1
  <2>2. CASE wire'[r][u] = <<>>
    BY <2>2, RangeOfEmpty
  <2> QED BY <1>3, <2>1, <2>2
<1>5. Gains(wire, wire', q, t, cells)
  BY <1>4 DEF Gains
<1> QED BY <1>1, <1>2, <1>5

(* The Reader's answer, whether it goes out or fails, puts at most these cells on    *)
(* the wire.                                                                       *)
LEMMA ReplyEffect ==
  ASSUME TypeOK, NEW p \in Peer, NEW s \in Sock, wire[p][s] # <<>>,
         NEW cells \in Seq(Cells),
         Reply(p, s, cells) \/ ReplyFailsAfter(p, s, cells)
  PROVE  /\ table' \in [Peer -> Seq(Sock)]
         /\ closed' \in [Peer -> SUBSET Sock]
         /\ wire' \in WireT /\ Gains(wire, wire', p, s, cells)
<1>0. wire \in WireT
  BY DEF TypeOK, WireT
<1>1. CASE Reply(p, s, cells)
  <2>1. /\ Taken(p, s) \in WireT /\ Gains(wire, Taken(p, s), p, s, <<>>)
    BY TakenEffect
  <2>2. wire' \in WireT /\ Gains(Taken(p, s), wire', p, s, cells)
    BY <1>1, <2>1, WroteEffect DEF Reply
  <2>3. Gains(wire, wire', p, s, cells)
    BY <2>1, <2>2, RangeOfEmpty DEF Gains
  <2> QED BY <1>1, <2>2, <2>3 DEF Reply, TypeOK
<1>2. CASE ReplyFailsAfter(p, s, cells)
  <2> DEFINE w == IF Deleted(Other(p), s)
                  THEN wire ELSE [wire EXCEPT ![Other(p)][s] = @ \o cells]
  <2>1. w \in WireT /\ Gains(wire, w, p, s, cells)
    <3>1. CASE Deleted(Other(p), s)
      BY <1>0, <3>1 DEF Gains
    <3>2. CASE ~Deleted(Other(p), s)
      BY <1>0, <3>2, JoinedEffect
    <3> QED BY <3>1, <3>2
  <2>2. Delete(p, s, w)
    BY <1>2 DEF ReplyFailsAfter
  <2> HIDE DEF w
  <2>3. /\ table' \in [Peer -> Seq(Sock)]
        /\ wire' \in WireT /\ Gains(wire, wire', p, s, cells)
    BY <2>1, <2>2, DeleteEffect
  <2>4. closed' \in [Peer -> SUBSET Sock]
    BY <1>2 DEF ReplyFailsAfter, TypeOK
  <2> QED BY <2>3, <2>4
<1> QED BY <1>1, <1>2

-----------------------------------------------------------------------------
(* Tasks, queue entries and picked connections *)

File  == [from : Peer, name : Names, size : Sizes]
DiskT == [Peer -> Partial(Names, Partial(Piece, Transfer))]
WalkT == [Peer -> [Thread -> Walk]]

(* If every variable but sent is typed after a step that announces no file, TypeOK holds. *)
LEMMA TypeFromParts ==
  ASSUME TypeOK, sent' = sent,
         pending' \in TaskT, task' \in TaskT, disk' \in DiskT,
         table' \in [Peer -> Seq(Sock)], ever' \in [Peer -> SUBSET Sock],
         filed' \in [Peer -> SUBSET Sock], reading' \in [Peer -> SUBSET Sock],
         closed' \in [Peer -> SUBSET Sock], cut' \subseteq Sock,
         wire' \in WireT, sq' \in QueueT, walk' \in WalkT,
         merged' \subseteq Transfer, finished' \subseteq Transfer, net' \in Nat
  PROVE  TypeOK'
<1>1. /\ Transfer' = Transfer /\ Task' = Task /\ Cells' = Cells
      /\ Queued' = Queued /\ Walk' = Walk
  BY DEF Transfer, Task, Cells, Queued, Walk, NoWalk
<1> QED BY <1>1 DEF TypeOK, TaskT, DiskT, WireT, QueueT, WalkT

(* The variables before a step, in the same words. *)
LEMMA TypeParts ==
  ASSUME TypeOK
  PROVE  /\ pending \in TaskT /\ task \in TaskT /\ disk \in DiskT
         /\ wire \in WireT /\ sq \in QueueT /\ walk \in WalkT
         /\ sent \in Seq(File) /\ \A t \in Transfer : sent[t] \in File
<1>1. sent \in Seq(File)
  BY DEF TypeOK, File
<1>2. \A t \in Transfer : sent[t] \in File
  BY <1>1 DEF Transfer
<1> QED BY <1>1, <1>2 DEF TypeOK, TaskT, DiskT, WireT, QueueT, WalkT

(* A task of a sender, and of a receiver, is a task. *)
LEMMA TaskFields ==
  ASSUME NEW tk \in Task
  PROVE  /\ tk.way \in {"send", "receive"} /\ tk.of \in Transfer
         /\ tk.status \in {0, 1, 4} /\ tk.done \in SUBSET Piece
         /\ tk.content \in Partial(Piece, Transfer)
  BY DEF Task

(* The task META makes at the receiver is a task. *)
LEMMA ReceiveTaskType == ASSUME NEW t \in Transfer PROVE ReceiveTask(t) \in Task
  BY PartialEmpty DEF ReceiveTask, Task

(* A task put in place of one, or changed. *)
LEMMA TaskReplaced ==
  ASSUME task \in TaskT, NEW p \in Peer, NEW n \in DOMAIN task[p], NEW tk \in Task,
         task' = [task EXCEPT ![p][n] = tk]
  PROVE  /\ task' \in TaskT
         /\ \A q \in Peer : \A m \in DOMAIN task'[q] :
              \/ q = p /\ m = n /\ task'[q][m] = tk
              \/ m \in DOMAIN task[q] /\ task'[q][m] = task[q][m]
<1>1. task[p] \in Partial(Names, Task)
  BY DEF TaskT
<1> DEFINE f == [task[p] EXCEPT ![n] = tk]
<1>2. /\ f \in Partial(Names, Task) /\ DOMAIN f = DOMAIN task[p]
      /\ \A m \in DOMAIN task[p] : f[m] = IF m = n THEN tk ELSE task[p][m]
  BY <1>1, PartialExcept
<1>3. task' = [task EXCEPT ![p] = f]
  BY DEF TaskT
<1> HIDE DEF f
<1> QED BY <1>2, <1>3 DEF TaskT

(* A task put in the map of p under a name: every other task stays. *)
LEMMA TaskPut ==
  ASSUME task \in TaskT, NEW p \in Peer, NEW n \in Names, NEW tk \in Task,
         task' = [task EXCEPT ![p] = Put(@, n, tk)]
  PROVE  /\ task' \in TaskT
         /\ \A q \in Peer : \A m \in DOMAIN task'[q] :
              \/ q = p /\ m = n /\ task'[q][m] = tk
              \/ m \in DOMAIN task[q] /\ task'[q][m] = task[q][m]
<1>1. task[p] \in Partial(Names, Task)
  BY DEF TaskT
<1> DEFINE f == Put(task[p], n, tk)
<1>2. /\ f \in Partial(Names, Task)
      /\ \A m \in DOMAIN f :
           \/ m = n /\ f[m] = tk
           \/ m \in DOMAIN task[p] /\ f[m] = task[p][m]
  BY <1>1, PutEffect
<1>3. task' = [task EXCEPT ![p] = f]
  BY DEF TaskT
<1> HIDE DEF f
<1> QED BY <1>2, <1>3 DEF TaskT

(* A task taken out of the map of p: every other task stays. *)
LEMMA TaskRemoved ==
  ASSUME task \in TaskT, NEW p \in Peer, NEW n,
         task' = [task EXCEPT ![p] = Without(@, n)]
  PROVE  /\ task' \in TaskT
         /\ \A q \in Peer : \A m \in DOMAIN task'[q] :
              m \in DOMAIN task[q] /\ task'[q][m] = task[q][m]
<1>1. task[p] \in Partial(Names, Task)
  BY DEF TaskT
<1> DEFINE f == Without(task[p], n)
<1>2. /\ f \in Partial(Names, Task)
      /\ \A m \in DOMAIN f : m \in DOMAIN task[p] /\ f[m] = task[p][m]
  BY <1>1, WithoutEffect
<1>3. task' = [task EXCEPT ![p] = f]
  BY DEF TaskT
<1> HIDE DEF f
<1> QED BY <1>2, <1>3 DEF TaskT

(* A stopped task is a task of the same transfer and direction. *)
LEMMA StoppedType ==
  ASSUME NEW tasks \in Partial(Names, Task)
  PROVE  /\ Stopped(tasks) \in Partial(Names, Task)
         /\ DOMAIN Stopped(tasks) = DOMAIN tasks
         /\ \A m \in DOMAIN tasks :
              Stopped(tasks)[m].way = tasks[m].way /\ Stopped(tasks)[m].of = tasks[m].of
<1>1. DOMAIN tasks \in SUBSET Names /\ \A m \in DOMAIN tasks : tasks[m] \in Task
  BY PartialDef
<1>2. \A m \in DOMAIN tasks :
        /\ [tasks[m] EXCEPT !.status = 0] \in Task
        /\ [tasks[m] EXCEPT !.status = 0].way = tasks[m].way
        /\ [tasks[m] EXCEPT !.status = 0].of = tasks[m].of
  BY <1>1 DEF Task
<1>3. DOMAIN Stopped(tasks) = DOMAIN tasks
  BY DEF Stopped
<1>4. Stopped(tasks) \in [DOMAIN tasks -> Task]
  BY <1>2 DEF Stopped
<1>5. Stopped(tasks) \in Partial(Names, Task)
  BY <1>1, <1>3, <1>4, PartialDef
<1> QED BY <1>2, <1>3, <1>5 DEF Stopped

(* Some pieces of a task are numbered contents. *)
LEMMA PiecesType ==
  ASSUME NEW tk \in Task, NEW D, D \subseteq DOMAIN tk.content
  PROVE  [i \in D |-> tk.content[i]] \in Partial(Piece, Transfer)
<1>1. tk.content \in Partial(Piece, Transfer)
  BY TaskFields
<1>2. DOMAIN tk.content \in SUBSET Piece /\ tk.content \in [DOMAIN tk.content -> Transfer]
  BY <1>1, PartialDef
<1> DEFINE f == [i \in D |-> tk.content[i]]
<1>3. DOMAIN f = D /\ f \in [D -> Transfer]
  BY <1>2
<1> HIDE DEF f
<1>4. f \in Partial(Piece, Transfer)
  BY <1>2, <1>3, PartialDef
<1> QED BY <1>4 DEF f

(* The entries queued for the pieces of a file are entries of type DATA of that name. *)
LEMMA DataEntriesType ==
  ASSUME NEW s \in Sock, NEW n \in Names, NEW pieces \in Partial(Piece, Transfer)
  PROVE  /\ DataEntries(s, n, pieces) \in Seq(Queued)
         /\ \A e \in Range(DataEntries(s, n, pieces)) : e.type = "DATA" /\ e.name = n
<1> DEFINE e == Entry(s, "DATA", n, 0, pieces)
<1>1. e \in Queued /\ e.type = "DATA" /\ e.name = n
  BY DEF Queued, Entry
<1> HIDE DEF e
<1>2. <<e>> \in Seq(Queued) /\ Range(<<e>>) = {e}
  BY <1>1 DEF Range
<1>3. <<>> \in Seq(Queued)
  OBVIOUS
<1>4. DataEntries(s, n, pieces) \in {<<>>, <<e>>}
  BY DEF DataEntries, e
<1> QED BY <1>1, <1>2, <1>3, <1>4, RangeOfEmpty

(* The pieces tryResend sends again are numbered contents. *)
LEMMA UnackedType == ASSUME NEW tk \in Task PROVE Unacked(tk) \in Partial(Piece, Transfer)
<1>1. ((1 .. Size(tk)) \ tk.done) \cap DOMAIN tk.content \subseteq DOMAIN tk.content
  OBVIOUS
<1> QED BY <1>1, PiecesType DEF Unacked

(* The pieces READY makes the sender queue are numbered contents. *)
LEMMA EveryPieceType ==
  ASSUME NEW tk \in Task PROVE EveryPiece(tk) \in Partial(Piece, Transfer)
<1>1. {k \in 1 .. Size(tk) : 1 .. k \subseteq DOMAIN tk.content} \subseteq DOMAIN tk.content
  OBVIOUS
<1> QED BY <1>1, PiecesType DEF EveryPiece

(* More entries at the end of the queue of p. *)
LEMMA QueueJoined ==
  ASSUME sq \in QueueT, NEW p \in Peer, NEW entries \in Seq(Queued),
         sq' = [sq EXCEPT ![p] = @ \o entries]
  PROVE  /\ sq' \in QueueT
         /\ \A q \in Peer : Range(sq'[q]) \subseteq
              Range(sq[q]) \cup (IF q = p THEN Range(entries) ELSE {})
<1>1. sq[p] \in Seq(Queued)
  BY DEF QueueT
<1>2. /\ sq[p] \o entries \in Seq(Queued)
      /\ Range(sq[p] \o entries) = Range(sq[p]) \cup Range(entries)
  BY <1>1, RangeOfConcat
<1> QED BY <1>2 DEF QueueT

(* One entry more at the end of the queue of p. *)
LEMMA QueueAppended ==
  ASSUME sq \in QueueT, NEW p \in Peer, NEW e \in Queued,
         sq' = [sq EXCEPT ![p] = Append(@, e)]
  PROVE  /\ sq' \in QueueT
         /\ \A q \in Peer : Range(sq'[q]) \subseteq
              Range(sq[q]) \cup (IF q = p THEN {e} ELSE {})
<1>1. sq[p] \in Seq(Queued)
  BY DEF QueueT
<1>2. /\ Append(sq[p], e) \in Seq(Queued)
      /\ Range(Append(sq[p], e)) = Range(sq[p]) \cup {e}
  BY <1>1, RangeOfAppend
<1> QED BY <1>2 DEF QueueT

(* The connection picked for files is one of the list. *)
LEMMA PickType ==
  ASSUME NEW marked, NEW socks \in Seq(Sock), socks # <<>>
  PROVE  socks[PickIn(socks, marked)] \in Sock
<1> DEFINE items == [i \in DOMAIN socks |->
                       [purpose |-> IF socks[i] \in marked THEN FILE ELSE TEXT,
                        status |-> 1, key |-> 1]]
           n == Len(socks)
<1>1. n \in Nat /\ n # 0 /\ DOMAIN socks = 1 .. n /\ \A i \in 1 .. n : socks[i] \in Sock
  OBVIOUS
<1>2. DOMAIN items = 1 .. n /\ \A i \in 1 .. n : items[i].key # NoKey
  BY <1>1 DEF NoKey
<1> HIDE DEF items, n
<1>3. GetConnByPurpose(items, FILE) \in 1 .. n
  BY <1>1, <1>2, PickOfKeyed
<1> QED BY <1>1, <1>3 DEF PickIn, items

LEMMA FileConnType ==
  ASSUME NEW p \in Peer, NEW socks \in Seq(Sock), socks # <<>>
  PROVE  FileConn(p, socks) \in Sock
BY PickType DEF FileConn

-----------------------------------------------------------------------------
(* Every action keeps the types *)

(* A new file is one more transfer, and what was typed stays typed. *)
LEMMA TypesGrow ==
  ASSUME TypeOK, NEW file \in File, sent' = Append(sent, file)
  PROVE  /\ sent' \in Seq(File)
         /\ Transfer' = Transfer \cup {Len(sent) + 1} /\ Len(sent) + 1 \notin Transfer
         /\ \A t \in Transfer : sent'[t] = sent[t]
         /\ sent'[Len(sent) + 1] = file
         /\ Partial(Piece, Transfer) \subseteq Partial(Piece, Transfer')
         /\ Task \subseteq Task' /\ Cells \subseteq Cells' /\ Queued \subseteq Queued'
<1>1. sent \in Seq(File)
  BY TypeParts
<1>2. /\ sent' \in Seq(File) /\ Len(sent) \in Nat
      /\ DOMAIN sent = 1 .. Len(sent) /\ DOMAIN sent' = 1 .. Len(sent) + 1
      /\ \A t \in 1 .. Len(sent) : sent'[t] = sent[t]
      /\ sent'[Len(sent) + 1] = file
  BY <1>1
<1>3. Transfer' = Transfer \cup {Len(sent) + 1} /\ Len(sent) + 1 \notin Transfer
  BY <1>2 DEF Transfer
<1>4. Partial(Piece, Transfer) \subseteq Partial(Piece, Transfer')
  BY <1>3, PartialGrows
<1>5. Task \subseteq Task'
  BY <1>3, <1>4 DEF Task
<1>6. Cells \subseteq Cells'
  BY <1>3 DEF Cells
<1>7. Queued \subseteq Queued'
  BY <1>3, <1>4 DEF Queued
<1> QED BY <1>2, <1>3, <1>4, <1>5, <1>6, <1>7 DEF Transfer

(* A new task of a sender has all the pieces of its file. *)
LEMMA SendTaskType ==
  ASSUME NEW t, NEW size \in Sizes, NEW status \in {0, 4}, t \in Transfer'
  PROVE  SendTask(t, size, status) \in Task'
<1> DEFINE content == [i \in 1 .. size |-> t]
<1>1. 1 .. size \subseteq Piece
  BY DEF Piece
<1>2. DOMAIN content \in SUBSET Piece /\ content \in [DOMAIN content -> Transfer']
  BY <1>1
<1> HIDE DEF content
<1>3. content \in Partial(Piece, Transfer')
  BY <1>2, PartialDef
<1>4. SendTask(t, size, status) =
        [way |-> "send", of |-> t, status |-> status, done |-> {}, content |-> content]
  BY DEF SendTask, content
<1> QED BY <1>3, <1>4 DEF Task

(* handleFileMessageSend keeps the types, the set of transfers growing by one. *)
LEMMA AnnounceType ==
  ASSUME TypeOK, NEW p \in Peer, NEW name \in Names, NEW size \in Sizes,
         Announce(p, name, size)
  PROVE  TypeOK'
<1> DEFINE t    == Len(sent) + 1
           file == [from |-> p, name |-> name, size |-> size]
<1>1. file \in File /\ sent' = Append(sent, file)
  BY DEF Announce, File
<1>2. /\ sent' \in Seq(File) /\ Transfer' = Transfer \cup {t}
      /\ Partial(Piece, Transfer) \subseteq Partial(Piece, Transfer')
      /\ Task \subseteq Task' /\ Cells \subseteq Cells' /\ Queued \subseteq Queued'
  BY <1>1, TypesGrow
<1>3. t \in Transfer'
  BY <1>2
<1> HIDE DEF t, file
<1>4. \A status \in {0, 4} : SendTask(t, size, status) \in Task'
  BY <1>3, SendTaskType
<1>5. task' \in TaskT'
  <2>1. task' = task /\ \A q \in Peer : task[q] \in Partial(Names, Task)
    BY TypeParts DEF Announce, TaskT
  <2>2. \A q \in Peer : task[q] \in Partial(Names, Task')
    BY <1>2, <2>1, PartialGrows
  <2> QED BY <2>1, <2>2, TypeParts DEF TaskT
<1>6. disk' \in DiskT'
  <2>1. disk' = disk /\ \A q \in Peer : disk[q] \in Partial(Names, Partial(Piece, Transfer))
    BY TypeParts DEF Announce, DiskT
  <2>2. \A q \in Peer : disk[q] \in Partial(Names, Partial(Piece, Transfer'))
    BY <1>2, <2>1, PartialGrows
  <2> QED BY <2>1, <2>2, TypeParts DEF DiskT
<1>7. wire' \in WireT'
  <2>1. wire' = wire /\ \A q \in Peer, s \in Sock : wire[q][s] \in Seq(Cells)
    BY TypeParts DEF Announce, WireT
  <2>2. \A q \in Peer, s \in Sock : wire[q][s] \in Seq(Cells')
    BY <1>2, <2>1, SeqGrows
  <2> QED BY <2>1, <2>2, TypeParts DEF WireT
<1>8. pending' \in TaskT'
  <2>1. \A q \in Peer : pending[q] \in Partial(Names, Task')
    <3>1. \A q \in Peer : pending[q] \in Partial(Names, Task)
      BY TypeParts DEF TaskT
    <3> QED BY <1>2, <3>1, PartialGrows
  <2>2. PICK status \in {0, 4} :
          pending' = [pending EXCEPT ![p] = Put(@, name, SendTask(t, size, status))]
    BY DEF Announce, t
  <2>3. Put(pending[p], name, SendTask(t, size, status)) \in Partial(Names, Task')
    BY <1>4, <2>1, PutEffect
  <2>4. pending' \in [Peer -> Partial(Names, Task')]
    BY <2>1, <2>2, <2>3, TypeParts DEF TaskT
  <2> QED BY <2>4 DEF TaskT
<1>9. sq' \in QueueT'
  <2>1. \A q \in Peer : sq[q] \in Seq(Queued')
    <3>1. \A q \in Peer : sq[q] \in Seq(Queued)
      BY TypeParts DEF QueueT
    <3> QED BY <1>2, <3>1, SeqGrows
  <2>2. CASE sq' = sq
    BY <2>1, <2>2, TypeParts DEF QueueT
  <2>3. CASE /\ table[p] # <<>>
             /\ sq' = [sq EXCEPT ![p] =
                         Append(@, MetaEntry(FileConn(p, table[p]), name, t))]
    <3>1. FileConn(p, table[p]) \in Sock
      BY <2>3, FileConnType DEF TypeOK
    <3>2. MetaEntry(FileConn(p, table[p]), name, t) \in Queued'
      BY <1>3, <3>1 DEF MetaEntry, Entry, Queued
    <3>3. Append(sq[p], MetaEntry(FileConn(p, table[p]), name, t)) \in Seq(Queued')
      BY <2>1, <3>2, RangeOfAppend
    <3>4. sq' \in [Peer -> Seq(Queued')]
      BY <2>1, <2>3, <3>3, TypeParts DEF QueueT
    <3> QED BY <3>4 DEF QueueT
  <2> QED BY <2>2, <2>3 DEF Announce, t
<1>10. /\ UNCHANGED <<connVars, walk, net, merged, finished>>
       /\ Walk' = Walk /\ merged \subseteq Transfer' /\ finished \subseteq Transfer'
  BY <1>2 DEF Announce, TypeOK, Walk, NoWalk
<1> QED BY <1>2, <1>5, <1>6, <1>7, <1>8, <1>9, <1>10
        DEF TypeOK, TaskT, DiskT, WireT, QueueT, File

(* Putting the announced task in senderFileMap keeps the types. *)
LEMMA RegisterType ==
  ASSUME TypeOK, NEW p \in Peer, Register(p)
  PROVE  TypeOK'
<1>1. pending[p] \in Partial(Names, Task) /\ task[p] \in Partial(Names, Task)
  BY TypeParts DEF TaskT
<1> DEFINE both == [n \in DOMAIN task[p] \cup DOMAIN pending[p] |->
                      IF n \in DOMAIN pending[p] THEN pending[p][n] ELSE task[p][n]]
<1>2. both \in Partial(Names, Task)
  <2>1. /\ DOMAIN pending[p] \in SUBSET Names /\ DOMAIN task[p] \in SUBSET Names
        /\ \A n \in DOMAIN pending[p] : pending[p][n] \in Task
        /\ \A n \in DOMAIN task[p] : task[p][n] \in Task
    BY <1>1, PartialDef
  <2>2. DOMAIN both \in SUBSET Names /\ both \in [DOMAIN both -> Task]
    BY <2>1
  <2> HIDE DEF both
  <2> QED BY <2>2, PartialDef
<1>3. task' = [task EXCEPT ![p] = both]
  BY DEF Register
<1> HIDE DEF both
<1>4. task' \in TaskT
  BY <1>2, <1>3, TypeParts DEF TaskT
<1>5. pending' \in TaskT
  <2>1. <<>> \in Partial(Names, Task)
    BY PartialEmpty
  <2> QED BY <2>1, TypeParts DEF Register, TaskT
<1>6. UNCHANGED <<sent, disk, merged, finished, connVars, wire, sq, walk, net>>
  BY DEF Register
<1> QED BY <1>4, <1>5, <1>6, TypeFromParts, TypeParts DEF TypeOK

(* A walk that begins or goes on is a walk. *)
LEMMA StartWalkType ==
  ASSUME TypeOK, NEW p \in Peer, NEW thread \in Thread, NEW s \in Sock, StartWalk(p, thread, s)
  PROVE  walk' \in WalkT
<1>1. [sock |-> s, todo |-> Names] \in Walk
  BY DEF Walk
<1> QED BY <1>1, TypeParts DEF StartWalk, WalkT

(* A walk that has passed a task is still a walk. *)
LEMMA WalkedType ==
  ASSUME TypeOK, NEW p \in Peer, NEW thread \in Thread, NEW n \in walk[p][thread].todo,
         Walked(p, thread, n) \/ walk' = [walk EXCEPT ![p][thread] = NoWalk]
  PROVE  walk' \in WalkT /\ walk[p][thread].sock \in Sock /\ n \in Names
<1>1. walk[p][thread] \in Walk
  BY TypeParts DEF WalkT
<1>2. /\ walk[p][thread] \in [sock : Sock, todo : SUBSET Names]
      /\ walk[p][thread].sock \in Sock /\ n \in Names
  BY <1>1 DEF Walk, NoWalk
<1>3. /\ NoWalk \in Walk
      /\ [sock |-> walk[p][thread].sock, todo |-> walk[p][thread].todo \ {n}] \in Walk
  BY <1>2 DEF Walk
<1>4. CASE Walked(p, thread, n)
  <2> DEFINE next == IF walk[p][thread].todo = {n}
                     THEN NoWalk
                     ELSE [sock |-> walk[p][thread].sock, todo |-> walk[p][thread].todo \ {n}]
  <2>1. next \in Walk
    BY <1>3
  <2>2. walk' = [walk EXCEPT ![p][thread] = next]
    BY <1>4 DEF Walked
  <2> HIDE DEF next
  <2>3. walk \in [Peer -> [Thread -> Walk]]
    BY TypeParts DEF WalkT
  <2>4. walk' \in [Peer -> [Thread -> Walk]]
    BY <2>1, <2>2, <2>3
  <2> QED BY <1>2, <2>4 DEF WalkT
<1>5. CASE walk' = [walk EXCEPT ![p][thread] = NoWalk]
  <2>1. walk' \in WalkT
    BY <1>3, <1>5, TypeParts DEF WalkT
  <2> QED BY <1>2, <2>1
<1> QED BY <1>4, <1>5

(* A connection that gets its key, and the walk that starts then, keep the types. *)
LEMMA EstablishType ==
  ASSUME TypeOK, NEW p \in Peer, NEW s \in Sock, Establish(p, s)
  PROVE  TypeOK'
<1>1. table[p] \in Seq(Sock)
  BY DEF TypeOK
<1>2. PICK files \in SUBSET {s}, i \in 0 .. Len(table[p]) :
        LET socks == SubSeq(table[p], 1, i) \o <<s>> \o SubSeq(table[p], i + 1, Len(table[p]))
        IN  /\ filed' = [filed EXCEPT ![p] = @ \cup files]
            /\ table' = [table EXCEPT ![p] = socks]
            /\ StartWalk(p, "Reader", socks[PickIn(socks, filed[p] \cup files)])
  BY DEF Establish
<1> DEFINE socks == SubSeq(table[p], 1, i) \o <<s>> \o SubSeq(table[p], i + 1, Len(table[p]))
<1>3. socks \in Seq(Sock) /\ socks # <<>>
  <2>1. i \in Nat /\ Len(table[p]) \in Nat /\ i <= Len(table[p])
    BY <1>1
  <2>2. SubSeq(table[p], 1, i) \in Seq(Sock)
    BY <1>1, <2>1, RangeOfSubSeq
  <2>3. SubSeq(table[p], i + 1, Len(table[p])) \in Seq(Sock)
    BY <1>1, <2>1, RangeOfSubSeq
  <2>4. <<s>> \in Seq(Sock) /\ <<s>> # <<>>
    OBVIOUS
  <2> DEFINE left  == SubSeq(table[p], 1, i)
             right == SubSeq(table[p], i + 1, Len(table[p]))
  <2>5. left \in Seq(Sock) /\ right \in Seq(Sock)
    BY <2>2, <2>3
  <2>6. socks = (left \o <<s>>) \o right
    BY DEF left, right, socks
  <2> HIDE DEF left, right
  <2>7. left \o <<s>> \in Seq(Sock) /\ Len(left \o <<s>>) > 0
    BY <2>5
  <2>8. (left \o <<s>>) \o right \in Seq(Sock) /\ Len((left \o <<s>>) \o right) > 0
    BY <2>5, <2>7
  <2> HIDE DEF socks
  <2>9. socks \in Seq(Sock) /\ Len(socks) > 0
    BY <2>6, <2>8
  <2> QED BY <2>9
<1> DEFINE conn == socks[PickIn(socks, filed[p] \cup files)]
<1>4. /\ table' = [table EXCEPT ![p] = socks] /\ StartWalk(p, "Reader", conn)
      /\ filed' = [filed EXCEPT ![p] = @ \cup files]
  BY <1>2
<1> HIDE DEF socks
<1>5. walk' \in WalkT
  <2>1. conn \in Sock /\ "Reader" \in Thread
    BY <1>3, PickType DEF Thread
  <2> QED BY <1>4, <2>1, StartWalkType
<1>6. ever' \in [Peer -> SUBSET Sock] /\ reading' \in [Peer -> SUBSET Sock]
  <2>1. /\ ever' = [ever EXCEPT ![p] = @ \cup {s}]
        /\ reading' = [reading EXCEPT ![p] = @ \cup {s}]
    BY DEF Establish
  <2> QED BY <2>1 DEF TypeOK
<1>8. table' \in [Peer -> Seq(Sock)] /\ filed' \in [Peer -> SUBSET Sock]
  BY <1>3, <1>4 DEF TypeOK
<1>7. UNCHANGED <<taskVars, closed, cut, wire, sq, net>>
  BY DEF Establish
<1> QED BY <1>5, <1>6, <1>7, <1>8, TypeFromParts, TypeParts DEF TypeOK

(* A broken circuit keeps the types. *)
LEMMA CutCircuitType ==
  ASSUME TypeOK, NEW s \in Sock, CutCircuit(s)
  PROVE  TypeOK'
<1>1. /\ cut' \subseteq Sock
      /\ UNCHANGED <<taskVars, table, ever, filed, reading, closed, wire, sq, walk, net>>
  BY DEF CutCircuit, TypeOK
<1> QED BY <1>1, TypeFromParts, TypeParts DEF TypeOK

(* Every task after the step is one of before, perhaps stopped or continued, unless    *)
(* it is the one named.                                                              *)
SameTask(a, b) == a.way = b.way /\ a.of = b.of
OldTasksBut(p, n) ==
  \A q \in Peer : \A m \in DOMAIN task'[q] :
    \/ q = p /\ m = n
    \/ m \in DOMAIN task[q] /\ SameTask(task'[q][m], task[q][m])
OldTasks ==
  \A q \in Peer : \A m \in DOMAIN task'[q] :
    m \in DOMAIN task[q] /\ SameTask(task'[q][m], task[q][m])

(* A reading thread that ends stops tasks but replaces none, and puts nothing on a wire or in a queue. *)
LEMMA StopsReadingEffect ==
  ASSUME TypeOK, NEW p \in Peer, NEW s \in Sock, NEW forFiles, StopsReading(p, s, forFiles)
  PROVE  TypeOK' /\ OldTasks /\ Gains(wire, wire', p, s, <<>>)
<1>1. task' \in TaskT /\ OldTasks
  <2>1. CASE task' = [task EXCEPT ![p] = Stopped(@)]
    <3>1. task[p] \in Partial(Names, Task)
      BY TypeParts DEF TaskT
    <3>2. /\ Stopped(task[p]) \in Partial(Names, Task)
          /\ DOMAIN Stopped(task[p]) = DOMAIN task[p]
          /\ \A m \in DOMAIN task[p] : SameTask(Stopped(task[p])[m], task[p][m])
      BY <3>1, StoppedType DEF SameTask
    <3> QED BY <2>1, <3>2, TypeParts DEF TaskT, OldTasks, SameTask
  <2>2. CASE task' = task
    BY <2>2, TypeParts DEF OldTasks, SameTask
  <2> QED BY <2>1, <2>2 DEF StopsReading
<1>2. wire \in WireT /\ Gains(wire, wire, p, s, <<>>)
  BY TypeParts DEF Gains
<1>3. table' \in [Peer -> Seq(Sock)] /\ wire' \in WireT /\ Gains(wire, wire', p, s, <<>>)
  BY <1>2, DeleteEffect DEF StopsReading
<1>4. /\ closed' \in [Peer -> SUBSET Sock] /\ reading' \in [Peer -> SUBSET Sock]
      /\ UNCHANGED <<sent, pending, disk, merged, finished, ever, filed, cut, sq, walk, net>>
  BY DEF StopsReading, TypeOK
<1> QED BY <1>1, <1>3, <1>4, TypeFromParts, TypeParts DEF TypeOK

(* A cell read by two threads is lost to both. *)
LEMMA ReadsTornEffect ==
  ASSUME TypeOK, NEW p \in Peer, NEW s \in Sock, ReadsTorn(p, s)
  PROVE  TypeOK' /\ OldTasks /\ Gains(wire, wire', p, s, <<>>)
<1>1. wire' \in WireT /\ Gains(wire, wire', p, s, <<>>)
  BY TakenEffect DEF ReadsTorn
<1>2. UNCHANGED <<taskVars, connVars, sq, walk, net>>
  BY DEF ReadsTorn
<1>3. OldTasks
  BY <1>2, TypeParts DEF OldTasks, SameTask, taskVars
<1> QED BY <1>1, <1>2, <1>3, TypeFromParts, TypeParts DEF TypeOK

(* What the Writer takes leaves entries like those that were queued. *)
SameEntry(e, f) == e.type = f.type /\ e.name = f.name /\ e.of = f.of
OldEntries ==
  \A q \in Peer : \A e \in Range(sq'[q]) : \E f \in Range(sq[q]) : SameEntry(e, f)

(* What the Writer leaves in a queue was there before, perhaps with fewer pieces. *)
LEMMA RestEffect ==
  ASSUME TypeOK, NEW p \in Peer, sq[p] # <<>>, NEW i \in {0} \cup DOMAIN Head(sq[p]).pieces,
         NextPiece(Head(sq[p]), i), sq' = [sq EXCEPT ![p] = Rest(p, i)]
  PROVE  sq' \in QueueT /\ OldEntries
<1> DEFINE e == Head(sq[p])
<1>1. /\ sq[p] \in Seq(Queued) /\ e \in Queued /\ e \in Range(sq[p]) /\ e = sq[p][1]
      /\ Tail(sq[p]) \in Seq(Queued) /\ Range(Tail(sq[p])) \subseteq Range(sq[p])
      /\ Len(sq[p]) \in Nat /\ 1 <= Len(sq[p])
  <2>1. sq[p] \in Seq(Queued)
    BY TypeParts DEF QueueT
  <2> QED BY <2>1, RangeOfTail
<1>2. Rest(p, i) \in Seq(Queued) /\ \A g \in Range(Rest(p, i)) : \E f \in Range(sq[p]) : SameEntry(g, f)
  <2>1. CASE DOMAIN e.pieces \subseteq {i}
    BY <1>1, <2>1 DEF Rest, SameEntry
  <2>2. CASE ~(DOMAIN e.pieces \subseteq {i})
    <3> DEFINE less == [e EXCEPT !.pieces = Without(e.pieces, i)]
               rest == [sq[p] EXCEPT ![1] = less]
    <3>1. e.pieces # <<>>
      BY <2>2
    <3>2. e \in [sock : Sock, type : {"DATA"}, name : Names, of : {0},
                 pieces : Partial(Piece, Transfer)]
      BY <1>1, <3>1 DEF Queued
    <3>3. Without(e.pieces, i) \in Partial(Piece, Transfer)
      BY <3>2, WithoutEffect
    <3>4. less \in Queued /\ SameEntry(less, e)
      BY <3>2, <3>3 DEF Queued, SameEntry
    <3>5. Rest(p, i) = rest
      BY <1>1, <2>2 DEF Rest
    <3> HIDE DEF less, e
    <3>6. /\ rest \in Seq(Queued) /\ Len(rest) = Len(sq[p])
          /\ \A j \in 1 .. Len(sq[p]) : rest[j] = IF j = 1 THEN less ELSE sq[p][j]
      BY <1>1, <3>4
    <3> HIDE DEF rest
    <3>7. \A g \in Range(rest) : g = less \/ g \in Range(sq[p])
      BY <1>1, <3>6 DEF Range
    <3>8. \A g \in Range(rest) : \E f \in Range(sq[p]) : SameEntry(g, f)
      BY <1>1, <3>4, <3>7 DEF SameEntry
    <3> QED BY <3>5, <3>6, <3>8
  <2> QED BY <2>1, <2>2
<1>3. \A q \in Peer : sq'[q] = IF q = p THEN Rest(p, i) ELSE sq[q]
  BY TypeParts DEF QueueT
<1>4. sq' \in QueueT
  BY <1>2, TypeParts DEF QueueT
<1>5. OldEntries
  BY <1>2, <1>3 DEF OldEntries, SameEntry
<1> QED BY <1>4, <1>5

(* A cell is like the entry it comes from. *)
LEMMA CellsOfType ==
  ASSUME NEW e \in Queued, NEW i \in {0} \cup DOMAIN e.pieces, NextPiece(e, i)
  PROVE  /\ CellsOf(e, i) \in Seq(Cells)
         /\ \A c \in Range(CellsOf(e, i)) :
              /\ c.type = e.type /\ c.name = e.name /\ c.type \in {"META", "DATA"}
              /\ c.type = "META" => c.of = e.of
<1>1. CASE e.type = "META"
  <2> DEFINE c == Cell("META", e.name, 0, e.of)
  <2>1. CellsOf(e, i) = <<c>>
    BY <1>1 DEF CellsOf
  <2>2. c \in Cells /\ c.type = "META" /\ c.name = e.name /\ c.of = e.of
    BY <1>1 DEF Queued, Cells, Cell
  <2> HIDE DEF c
  <2>3. <<c>> \in Seq(Cells) /\ Range(<<c>>) = {c}
    BY <2>2 DEF Range
  <2> QED BY <1>1, <2>1, <2>2, <2>3
<1>2. CASE e.type = "DATA"
  <2> DEFINE c == Cell("DATA", e.name, i, e.pieces[i])
  <2>1. CellsOf(e, i) = <<c>>
    BY <1>2 DEF CellsOf
  <2>2. e.pieces \in Partial(Piece, Transfer) /\ i \in DOMAIN e.pieces /\ e.name \in Names
    BY <1>2 DEF Queued, NextPiece
  <2>3. i \in Piece /\ e.pieces[i] \in Transfer
    BY <2>2, PartialValue
  <2>4. c \in Cells /\ c.type = "DATA" /\ c.name = e.name
    BY <2>2, <2>3 DEF Cells, Cell
  <2> HIDE DEF c
  <2>5. <<c>> \in Seq(Cells) /\ Range(<<c>>) = {c}
    BY <2>4 DEF Range
  <2> QED BY <1>2, <2>1, <2>4, <2>5
<1>3. CASE e.type \notin {"META", "DATA"}
  <2>1. CellsOf(e, i) = <<>>
    BY <1>3 DEF CellsOf
  <2> QED BY <2>1, RangeOfEmpty
<1> QED BY <1>1, <1>2, <1>3

(* A written cell was queued; the Writer changes no task. *)
LEMMA WriteEffect ==
  ASSUME TypeOK, NEW p \in Peer, Write(p)
  PROVE  /\ TypeOK' /\ OldEntries
         /\ \E e \in Range(sq[p]), s \in Sock, cells \in Seq(Cells) :
              /\ Gains(wire, wire', p, s, cells)
              /\ \A c \in Range(cells) :
                   /\ c.type = e.type /\ c.name = e.name /\ c.type \in {"META", "DATA"}
                   /\ c.type = "META" => c.of = e.of
<1> DEFINE e == Head(sq[p])
<1>1. sq[p] # <<>> /\ sq[p] \in Seq(Queued) /\ wire \in WireT
  BY TypeParts DEF Write, QueueT
<1>2. e \in Queued /\ e \in Range(sq[p]) /\ e.sock \in Sock
  <2>1. e \in Queued /\ e \in Range(sq[p])
    BY <1>1, RangeOfTail
  <2> QED BY <2>1 DEF Queued
<1>3. PICK i \in {0} \cup DOMAIN e.pieces :
        /\ NextPiece(e, i)
        /\ sq' = [sq EXCEPT ![p] = Rest(p, i)]
        /\ wire' = Wrote(wire, p, e.sock, CellsOf(e, i))
  BY DEF Write
<1>4. sq' \in QueueT /\ OldEntries
  BY <1>1, <1>3, RestEffect
<1> HIDE DEF e
<1>5. /\ CellsOf(e, i) \in Seq(Cells)
      /\ \A c \in Range(CellsOf(e, i)) :
           /\ c.type = e.type /\ c.name = e.name /\ c.type \in {"META", "DATA"}
           /\ c.type = "META" => c.of = e.of
  BY <1>2, <1>3, CellsOfType
<1>6. wire' \in WireT /\ Gains(wire, wire', p, e.sock, CellsOf(e, i))
  BY <1>1, <1>2, <1>3, <1>5, WroteEffect
<1>7. UNCHANGED <<taskVars, connVars, walk, net>>
  BY DEF Write
<1>8. TypeOK'
  BY <1>4, <1>6, <1>7, TypeFromParts, TypeParts DEF TypeOK
<1> QED BY <1>2, <1>4, <1>5, <1>6, <1>8

(* A failed write drops the cell and deletes the connection, no more. *)
LEMMA WriteFailsEffect ==
  ASSUME TypeOK, NEW p \in Peer, WriteFails(p)
  PROVE  /\ TypeOK' /\ OldEntries
         /\ \E s \in Sock : Gains(wire, wire', p, s, <<>>)
<1> DEFINE e == Head(sq[p])
<1>1. sq[p] # <<>> /\ sq[p] \in Seq(Queued) /\ wire \in WireT
  BY TypeParts DEF WriteFails, QueueT
<1>2. e.sock \in Sock
  <2>1. e \in Queued
    BY <1>1, RangeOfTail
  <2> QED BY <2>1 DEF Queued
<1>3. PICK i \in {0} \cup DOMAIN e.pieces :
        NextPiece(e, i) /\ sq' = [sq EXCEPT ![p] = Rest(p, i)]
  BY DEF WriteFails
<1>4. sq' \in QueueT /\ OldEntries
  BY <1>1, <1>3, RestEffect
<1>5. Delete(p, e.sock, wire)
  BY DEF WriteFails
<1> HIDE DEF e
<1>6. Gains(wire, wire, p, e.sock, <<>>)
  BY DEF Gains
<1>7. table' \in [Peer -> Seq(Sock)] /\ wire' \in WireT /\ Gains(wire, wire', p, e.sock, <<>>)
  BY <1>1, <1>2, <1>5, <1>6, DeleteEffect
<1>8. UNCHANGED <<taskVars, ever, filed, reading, closed, cut, walk, net>>
  BY DEF WriteFails
<1>9. TypeOK'
  BY <1>4, <1>7, <1>8, TypeFromParts, TypeParts DEF TypeOK
<1> QED BY <1>2, <1>4, <1>7, <1>9

(* An entry queued by resending is of a file that is being sent. *)
ResendEntry(p, n, e) ==
  /\ e.type \in {"META", "DATA"} /\ e.name = n
  /\ e.type = "META" => e.of = task[p][n].of

(* One task of tryResend: what is queued is its META or its own pieces. *)
LEMMA WalkStepEffect ==
  ASSUME TypeOK, NEW p \in Peer, NEW thread \in Thread, WalkStep(p, thread)
  PROVE  /\ TypeOK' /\ OldTasks
         /\ \A q \in Peer : \A e \in Range(sq'[q]) :
              \/ e \in Range(sq[q])
              \/ /\ q = p
                 /\ \E n \in DOMAIN task[p] : task[p][n].way = "send" /\ ResendEntry(p, n, e)
<1>1. UNCHANGED <<sent, pending, disk, merged, finished, connVars, wire, net>>
  BY DEF WalkStep
<1>2. PICK n \in walk[p][thread].todo :
        CASE n \in DOMAIN task[p] /\ task[p][n].way = "send" ->
               Resend(p, thread, n) /\ Walked(p, thread, n)
          [] n \in DOMAIN task[p] /\ task[p][n].way = "receive" /\ task[p][n].status = 0 ->
               walk' = [walk EXCEPT ![p][thread] = NoWalk] /\ UNCHANGED <<sq, task>>
          [] OTHER -> Walked(p, thread, n) /\ UNCHANGED <<sq, task>>
  BY DEF WalkStep
<1>3. \/ /\ n \in DOMAIN task[p] /\ task[p][n].way = "send"
         /\ Resend(p, thread, n) /\ Walked(p, thread, n)
      \/ /\ Walked(p, thread, n) \/ walk' = [walk EXCEPT ![p][thread] = NoWalk]
         /\ UNCHANGED <<sq, task>>
  BY <1>2
<1>4. walk' \in WalkT /\ walk[p][thread].sock \in Sock /\ n \in Names
  BY <1>3, WalkedType
<1>5. CASE UNCHANGED <<sq, task>>
  <2>1. TypeOK'
    BY <1>1, <1>4, <1>5, TypeFromParts, TypeParts DEF TypeOK
  <2>2. OldTasks
    BY <1>5 DEF OldTasks, SameTask
  <2> QED BY <1>5, <2>1, <2>2
<1>6. CASE /\ n \in DOMAIN task[p] /\ task[p][n].way = "send"
           /\ Resend(p, thread, n)
  <2> DEFINE tk == task[p][n]
             s  == walk[p][thread].sock
  <2>1. tk \in Task
    <3>1. task[p] \in Partial(Names, Task)
      BY TypeParts DEF TaskT
    <3> QED BY <1>6, <3>1, PartialValue
  <2>2. CASE tk.status = 4
    <3> DEFINE e == MetaEntry(s, n, tk.of)
    <3>1. sq' = [sq EXCEPT ![p] = Append(@, e)] /\ task' = task
      BY <1>6, <2>2 DEF Resend
    <3>2. e \in Queued /\ ResendEntry(p, n, e)
      BY <1>4, <2>1, TaskFields DEF MetaEntry, Entry, Queued, ResendEntry
    <3> HIDE DEF e
    <3>3. /\ sq' \in QueueT
          /\ \A q \in Peer : Range(sq'[q]) \subseteq
               Range(sq[q]) \cup (IF q = p THEN {e} ELSE {})
      <4>1. sq \in QueueT /\ e \in Queued
        BY <3>2, TypeParts
      <4> QED BY <3>1, <4>1, QueueAppended
    <3>4. sq' \in QueueT /\ task' \in TaskT
      BY <3>1, <3>3, TypeParts
    <3>5. TypeOK'
      BY <1>1, <1>4, <3>4, TypeFromParts, TypeParts DEF TypeOK
    <3>6. OldTasks
      BY <3>1 DEF OldTasks, SameTask
    <3> QED BY <1>6, <3>2, <3>3, <3>5, <3>6
  <2>3. CASE tk.status # 4
    <3> DEFINE entries == DataEntries(s, n, Unacked(tk))
               new     == [tk EXCEPT !.status = 1]
    <3>1. sq' = [sq EXCEPT ![p] = @ \o entries] /\ task' = [task EXCEPT ![p][n] = new]
      BY <1>6, <2>3, TypeParts DEF Resend, TaskT
    <3>2. /\ entries \in Seq(Queued)
          /\ \A e \in Range(entries) : e.type = "DATA" /\ e.name = n
      BY <1>4, <2>1, UnackedType, DataEntriesType
    <3>3. new \in Task /\ SameTask(new, tk)
      BY <2>1 DEF Task, SameTask
    <3> HIDE DEF entries, new
    <3>4. \A e \in Range(entries) : ResendEntry(p, n, e)
      BY <3>2 DEF ResendEntry
    <3>5. /\ sq' \in QueueT
          /\ \A q \in Peer : Range(sq'[q]) \subseteq
               Range(sq[q]) \cup (IF q = p THEN Range(entries) ELSE {})
      BY <3>1, <3>2, QueueJoined, TypeParts
    <3>6. /\ task' \in TaskT
          /\ \A q \in Peer : \A m \in DOMAIN task'[q] :
               \/ q = p /\ m = n /\ task'[q][m] = new
               \/ m \in DOMAIN task[q] /\ task'[q][m] = task[q][m]
      <4>1. task \in TaskT /\ n \in DOMAIN task[p] /\ new \in Task
        BY <1>6, <3>3, TypeParts
      <4> QED BY <3>1, <4>1, TaskReplaced
    <3>7. TypeOK'
      <4>1. sq' \in QueueT /\ task' \in TaskT
        BY <3>5, <3>6
      <4> QED BY <1>1, <1>4, <4>1, TypeFromParts, TypeParts DEF TypeOK
    <3>8. OldTasks
      BY <1>6, <3>3, <3>6 DEF OldTasks, SameTask
    <3> QED BY <1>6, <3>4, <3>5, <3>7, <3>8
  <2> QED BY <2>2, <2>3
<1> QED BY <1>3, <1>5, <1>6

(* The walk of the status checker keeps the types. *)
LEMMA StatusResendType ==
  ASSUME TypeOK, NEW p \in Peer, StatusResend(p)
  PROVE  TypeOK'
<1>1. FileConn(p, table[p]) \in Sock /\ "Status" \in Thread
  BY FileConnType DEF StatusResend, TypeOK, Thread
<1>2. walk' \in WalkT
  BY <1>1, StartWalkType DEF StatusResend
<1>3. net' \in Nat /\ UNCHANGED <<taskVars, connVars, wire, sq>>
  BY DEF StatusResend, TypeOK
<1> QED BY <1>2, <1>3, TypeFromParts, TypeParts DEF TypeOK

(* A walk after a second handshake keeps the types. *)
LEMMA RecordAgainType ==
  ASSUME TypeOK, NEW p \in Peer, NEW s \in Sock, RecordAgain(p, s)
  PROVE  TypeOK'
<1>1. FileConn(p, table[p]) \in Sock /\ "Reader" \in Thread
  BY FileConnType DEF RecordAgain, TypeOK, Thread
<1>2. walk' \in WalkT
  BY <1>1, StartWalkType DEF RecordAgain
<1>3. net' \in Nat /\ UNCHANGED <<taskVars, connVars, wire, sq>>
  BY DEF RecordAgain, TypeOK
<1> QED BY <1>2, <1>3, TypeFromParts, TypeParts DEF TypeOK

(* The cell the Reader takes. *)
LEMMA TakesCell ==
  ASSUME TypeOK, NEW p \in Peer, NEW s \in Sock, NEW type, Takes(p, s, type)
  PROVE  /\ wire[p][s] # <<>> /\ Head(wire[p][s]) \in Cells
         /\ Head(wire[p][s]) \in Range(wire[p][s]) /\ Head(wire[p][s]).type = type
         /\ Head(wire[p][s]).name \in Names
         /\ type \in {"META", "DATA"} => Head(wire[p][s]).of \in Transfer
         /\ type \in {"DATA", "ACK"} => Head(wire[p][s]).piece \in Piece
<1> DEFINE c == Head(wire[p][s])
<1>1. wire[p][s] # <<>> /\ c.type = type
  BY DEF Takes
<1>2. c \in Cells /\ c \in Range(wire[p][s])
  BY <1>1, TakenEffect
<1>3. /\ c.name \in Names
      /\ c.type \in {"META", "DATA"} => c.of \in Transfer
      /\ c.type \in {"DATA", "ACK"} => c.piece \in Piece
  BY <1>2 DEF Cells
<1> QED BY <1>1, <1>2, <1>3

(* A cell that has no meaning changes a wire only. *)
LEMMA DropEffect ==
  ASSUME TypeOK, NEW p \in Peer, NEW s \in Sock, NEW type, Takes(p, s, type), Drop(p, s)
  PROVE  /\ wire' \in WireT /\ Gains(wire, wire', p, s, <<>>)
         /\ UNCHANGED <<task, disk, merged, finished, table, closed, sq>>
<1>1. wire[p][s] # <<>>
  BY DEF Takes
<1> QED BY <1>1, TakenEffect DEF Drop

(* Marking a connection for files keeps the set of marked ones typed. *)
LEMMA MarkType ==
  ASSUME TypeOK, NEW p \in Peer, NEW s \in Sock, Mark(p, s)
  PROVE  filed' \in [Peer -> SUBSET Sock]
  BY DEF TypeOK, Mark

(* META: at most one task is put in the map, and READY alone goes out. *)
LEMMA HandleMetaEffect ==
  ASSUME TypeOK, NEW p \in Peer, NEW s \in Sock, HandleMeta(p, s)
  PROVE  LET c == Head(wire[p][s])
         IN  /\ TypeOK' /\ OldTasksBut(p, c.name)
             /\ c \in Range(wire[p][s]) /\ c.type = "META" /\ c.of \in Transfer
             /\ Gains(wire, wire', p, s, <<Cell("READY", c.name, 0, 0)>>)
             /\ c.name \in DOMAIN task'[p] =>
                  \/ task'[p][c.name] = ReceiveTask(c.of)
                  \/ c.name \in DOMAIN task[p] /\ task'[p][c.name] = task[p][c.name]
<1> DEFINE c     == Head(wire[p][s])
           ready == Cell("READY", c.name, 0, 0)
<1>1. /\ c \in Cells /\ c \in Range(wire[p][s]) /\ c.type = "META"
      /\ c.of \in Transfer /\ c.name \in Names /\ wire[p][s] # <<>>
  BY TakesCell DEF HandleMeta
<1>2. <<ready>> \in Seq(Cells) /\ <<>> \in Seq(Cells)
  <2>1. ready \in Cells
    BY <1>1 DEF Cells, Cell
  <2> QED BY <2>1
<1>3. UNCHANGED <<sent, pending, disk, merged, finished, ever, reading, cut, sq, walk, net>>
  BY DEF HandleMeta
<1>4. filed' \in [Peer -> SUBSET Sock]
  BY MarkType DEF HandleMeta
<1>5. \/ /\ Reply(p, s, <<ready>>)
         /\ task' = [task EXCEPT ![p] = Put(@, c.name, ReceiveTask(c.of))]
      \/ ReplyFailsAfter(p, s, <<>>) /\ task' = task
  BY DEF HandleMeta, ReplyFails
<1> HIDE DEF c, ready
<1>6. /\ table' \in [Peer -> Seq(Sock)] /\ closed' \in [Peer -> SUBSET Sock]
      /\ wire' \in WireT /\ Gains(wire, wire', p, s, <<ready>>)
  <2>1. Range(<<>>) \subseteq Range(<<ready>>)
    BY RangeOfEmpty
  <2>2. CASE Reply(p, s, <<ready>>)
    BY <1>1, <1>2, <2>2, ReplyEffect
  <2>3. CASE ReplyFailsAfter(p, s, <<>>)
    <3>1. /\ table' \in [Peer -> Seq(Sock)] /\ closed' \in [Peer -> SUBSET Sock]
          /\ wire' \in WireT /\ Gains(wire, wire', p, s, <<>>)
      BY <1>1, <1>2, <2>3, ReplyEffect
    <3> QED BY <2>1, <3>1 DEF Gains
  <2> QED BY <1>5, <2>2, <2>3
<1>7. /\ task' \in TaskT /\ OldTasksBut(p, c.name)
      /\ c.name \in DOMAIN task'[p] =>
           \/ task'[p][c.name] = ReceiveTask(c.of)
           \/ c.name \in DOMAIN task[p] /\ task'[p][c.name] = task[p][c.name]
  <2>1. CASE task' = task
    BY <2>1, TypeParts DEF OldTasksBut, SameTask
  <2>2. CASE task' = [task EXCEPT ![p] = Put(@, c.name, ReceiveTask(c.of))]
    <3>1. ReceiveTask(c.of) \in Task
      BY <1>1, ReceiveTaskType
    <3>2. /\ task' \in TaskT
          /\ \A q \in Peer : \A m \in DOMAIN task'[q] :
               \/ q = p /\ m = c.name /\ task'[q][m] = ReceiveTask(c.of)
               \/ m \in DOMAIN task[q] /\ task'[q][m] = task[q][m]
      BY <1>1, <2>2, <3>1, TaskPut, TypeParts
    <3> QED BY <3>2 DEF OldTasksBut, SameTask
  <2> QED BY <1>5, <2>1, <2>2
<1>8. TypeOK'
  BY <1>3, <1>4, <1>6, <1>7, TypeFromParts, TypeParts DEF TypeOK
<1> QED BY <1>1, <1>6, <1>7, <1>8 DEF c, ready

(* READY: tasks keep their transfer and direction, and only pieces of the file it names are queued. *)
LEMMA HandleReadyEffect ==
  ASSUME TypeOK, NEW p \in Peer, NEW s \in Sock, HandleReady(p, s)
  PROVE  LET c == Head(wire[p][s])
         IN  /\ TypeOK' /\ OldTasks /\ Gains(wire, wire', p, s, <<>>)
             /\ c \in Range(wire[p][s]) /\ c.type = "READY"
             /\ \A q \in Peer : \A e \in Range(sq'[q]) :
                  \/ e \in Range(sq[q])
                  \/ q = p /\ e.type = "DATA" /\ e.name = c.name
<1> DEFINE c == Head(wire[p][s])
           n == c.name
<1>1. /\ c \in Range(wire[p][s]) /\ c.type = "READY" /\ n \in Names /\ wire[p][s] # <<>>
      /\ Takes(p, s, "READY")
  BY TakesCell DEF HandleReady
<1>2. UNCHANGED <<sent, pending, ever, reading, cut, walk, net>>
  BY DEF HandleReady
<1>3. filed' \in [Peer -> SUBSET Sock]
  BY MarkType DEF HandleReady
<1>4. CASE n \notin DOMAIN task[p]
  <2>1. Drop(p, s)
    BY <1>4 DEF HandleReady
  <2>2. /\ wire' \in WireT /\ Gains(wire, wire', p, s, <<>>)
        /\ UNCHANGED <<task, disk, merged, finished, table, closed, sq>>
    BY <1>1, <2>1, DropEffect
  <2>3. TypeOK'
    BY <1>2, <1>3, <2>2, TypeFromParts, TypeParts DEF TypeOK
  <2>4. OldTasks
    BY <2>2 DEF OldTasks, SameTask
  <2> QED BY <1>1, <2>2, <2>3, <2>4
<1>5. CASE n \in DOMAIN task[p]
  <2> DEFINE entries == DataEntries(s, n, EveryPiece(task[p][n]))
             new     == [task[p][n] EXCEPT !.status = 1]
  <2>1. /\ sq' = [sq EXCEPT ![p] = @ \o entries]
        /\ task' = [task EXCEPT ![p][n].status = 1]
        /\ wire' = Taken(p, s)
        /\ UNCHANGED <<disk, merged, finished, table, closed>>
    BY <1>5 DEF HandleReady
  <2>2. task[p][n] \in Task
    <3>1. task[p] \in Partial(Names, Task)
      BY TypeParts DEF TaskT
    <3> QED BY <1>5, <3>1, PartialValue
  <2>3. new \in Task /\ SameTask(new, task[p][n])
    BY <2>2 DEF Task, SameTask
  <2>4. task' = [task EXCEPT ![p][n] = new]
    BY <2>1
  <2>5. EveryPiece(task[p][n]) \in Partial(Piece, Transfer)
    BY <2>2, EveryPieceType
  <2>6. /\ entries \in Seq(Queued)
        /\ \A e \in Range(entries) : e.type = "DATA" /\ e.name = n
    BY <1>1, <2>5, DataEntriesType
  <2> HIDE DEF entries, new, c, n
  <2>7. /\ sq' \in QueueT
        /\ \A q \in Peer : Range(sq'[q]) \subseteq
             Range(sq[q]) \cup (IF q = p THEN Range(entries) ELSE {})
    <3>1. sq \in QueueT
      BY TypeParts
    <3> QED BY <2>1, <2>6, <3>1, QueueJoined
  <2>8. /\ task' \in TaskT
        /\ \A q \in Peer : \A m \in DOMAIN task'[q] :
             \/ q = p /\ m = n /\ task'[q][m] = new
             \/ m \in DOMAIN task[q] /\ task'[q][m] = task[q][m]
    <3>1. task \in TaskT
      BY TypeParts
    <3> QED BY <1>5, <2>3, <2>4, <3>1, TaskReplaced
  <2>9. wire' \in WireT /\ Gains(wire, wire', p, s, <<>>)
    BY <1>1, <2>1, TakenEffect
  <2>10. TypeOK'
    <3>1. sq' \in QueueT /\ task' \in TaskT /\ wire' \in WireT
      BY <2>7, <2>8, <2>9
    <3>2. UNCHANGED <<disk, merged, finished, table, closed>>
      BY <2>1
    <3> QED BY <1>2, <1>3, <3>1, <3>2, TypeFromParts, TypeParts DEF TypeOK
  <2>11. OldTasks
    BY <1>5, <2>3, <2>8 DEF OldTasks, SameTask
  <2> QED BY <1>1, <2>6, <2>7, <2>9, <2>10, <2>11 DEF c, n
<1> QED BY <1>4, <1>5

(* A piece received is stored in its task, and a file put together has pieces. *)
LEMMA ReceivedType ==
  ASSUME NEW tk \in Task, NEW c, c.piece \in Piece, c.of \in Transfer
  PROVE  Received(tk, c) \in Task /\ SameTask(Received(tk, c), tk)
<1>1. Put(tk.content, c.piece, c.of) \in Partial(Piece, Transfer)
  BY TaskFields, PutEffect
<1> QED BY <1>1, TaskFields DEF Received, Task, SameTask

(* A file put together, over one that may be there already, has numbered contents. *)
LEMMA MergedIntoType ==
  ASSUME NEW tk \in Task, NEW file \in Partial(Piece, Transfer)
  PROVE  MergedInto(file, tk) \in Partial(Piece, Transfer)
<1> DEFINE inOrder == {k \in 1 .. Cardinality(DOMAIN tk.content) :
                         1 .. k \subseteq DOMAIN tk.content}
           f == [k \in DOMAIN file \cup inOrder |->
                   IF k \in inOrder THEN tk.content[k] ELSE file[k]]
<1>1. tk.content \in Partial(Piece, Transfer)
  BY TaskFields
<1>2. /\ DOMAIN tk.content \in SUBSET Piece /\ DOMAIN file \in SUBSET Piece
      /\ \A k \in DOMAIN tk.content : tk.content[k] \in Transfer
      /\ \A k \in DOMAIN file : file[k] \in Transfer
  BY <1>1, PartialDef
<1>3. \A k \in inOrder : k \in DOMAIN tk.content
  OBVIOUS
<1>4. MergedInto(file, tk) = f
  BY DEF MergedInto
<1> HIDE DEF inOrder
<1>5. DOMAIN f \in SUBSET Piece /\ f \in [DOMAIN f -> Transfer]
  BY <1>2, <1>3
<1> HIDE DEF f
<1> QED BY <1>4, <1>5, PartialDef

(* DATA: the piece goes to the task of its name; DONE goes out only when the file was put together. *)
LEMMA HandlePieceEffect ==
  ASSUME TypeOK, NEW p \in Peer, NEW s \in Sock, HandlePiece(p, s)
  PROVE  LET c == Head(wire[p][s])
         IN  /\ TypeOK' /\ OldTasks
             /\ c \in Range(wire[p][s]) /\ c.type = "DATA"
             /\ merged \subseteq merged' /\ finished' = finished
             /\ \/ Gains(wire, wire', p, s, <<Cell("ACK", c.name, c.piece, 0)>>)
                \/ /\ Gains(wire, wire', p, s, <<Cell("ACK", c.name, c.piece, 0),
                                                 Cell("DONE", c.name, 0, 0)>>)
                   /\ c.name \in DOMAIN task[p]
                   /\ task[p][c.name].way = "receive" => task[p][c.name].of \in merged'
<1> DEFINE c    == Head(wire[p][s])
           n    == c.name
           ack  == Cell("ACK", n, c.piece, 0)
           done == Cell("DONE", n, 0, 0)
           now  == Received(task[p][n], c)
<1>1. /\ c \in Range(wire[p][s]) /\ c.type = "DATA" /\ n \in Names /\ wire[p][s] # <<>>
      /\ c.piece \in Piece /\ c.of \in Transfer /\ Takes(p, s, "DATA")
  BY TakesCell DEF HandlePiece
<1>2. UNCHANGED <<sent, pending, ever, filed, reading, cut, walk, net>>
  BY DEF HandlePiece
<1>3. CASE n \notin DOMAIN task[p]
  <2>1. Drop(p, s)
    BY <1>3 DEF HandlePiece
  <2>2. /\ wire' \in WireT /\ Gains(wire, wire', p, s, <<>>)
        /\ UNCHANGED <<task, disk, merged, finished, table, closed, sq>>
    BY <1>1, <2>1, DropEffect
  <2>3. TypeOK'
    BY <1>2, <2>2, TypeFromParts, TypeParts DEF TypeOK
  <2>4. OldTasks
    BY <2>2 DEF OldTasks, SameTask
  <2>5. Gains(wire, wire', p, s, <<ack>>)
    BY <2>2, RangeOfEmpty DEF Gains
  <2> QED BY <1>1, <2>2, <2>3, <2>4, <2>5
<1>4. CASE n \in DOMAIN task[p]
  <2>1. task[p][n] \in Task
    <3>1. task[p] \in Partial(Names, Task)
      BY TypeParts DEF TaskT
    <3> QED BY <1>4, <3>1, PartialValue
  <2>2. now \in Task /\ SameTask(now, task[p][n])
    BY <1>1, <2>1, ReceivedType
  <2>3. /\ disk' = IF Complete(now)
                   THEN [disk EXCEPT ![p] = Put(@, n, MergedInto(FileOf(p, n), now))]
                   ELSE disk
        /\ merged' = IF Whole(p, n, now) /\ now.way = "receive"
                     THEN merged \cup {now.of} ELSE merged
        /\ UNCHANGED <<finished, sq>>
        /\ \/ /\ ~Whole(p, n, now)
              /\ Reply(p, s, <<ack>>)
              /\ task' = [task EXCEPT ![p][n] = now]
           \/ /\ Whole(p, n, now)
              /\ Reply(p, s, <<ack, done>>)
              /\ task' = [task EXCEPT ![p] = Without(@, n)]
           \/ /\ \/ ReplyFailsAfter(p, s, <<>>)
                 \/ ReplyFailsAfter(p, s, <<ack>>)
              /\ task' = [task EXCEPT ![p][n] = [now EXCEPT !.status = 0]]
    BY <1>4 DEF HandlePiece, ReplyFails
  <2>4. ack \in Cells /\ done \in Cells
    BY <1>1 DEF Cells, Cell
  <2> HIDE DEF now, ack, done, c, n
  <2>5. disk' \in DiskT
    <3>1. \A q \in Peer : disk[q] \in Partial(Names, Partial(Piece, Transfer))
      BY TypeParts DEF DiskT
    <3>2. FileOf(p, n) \in Partial(Piece, Transfer)
      BY <3>1, PartialValue, PartialEmpty DEF FileOf
    <3>3. MergedInto(FileOf(p, n), now) \in Partial(Piece, Transfer)
      BY <2>2, <3>2, MergedIntoType
    <3>4. Put(disk[p], n, MergedInto(FileOf(p, n), now))
            \in Partial(Names, Partial(Piece, Transfer))
      BY <1>1, <3>1, <3>3, PutEffect
    <3>5. disk \in [Peer -> Partial(Names, Partial(Piece, Transfer))]
      BY TypeParts DEF DiskT
    <3>6. disk' \in [Peer -> Partial(Names, Partial(Piece, Transfer))]
      BY <2>3, <3>4, <3>5
    <3> QED BY <3>6 DEF DiskT
  <2>6. /\ merged' \subseteq Transfer /\ merged \subseteq merged'
        /\ Whole(p, n, now) /\ now.way = "receive" => now.of \in merged'
    BY <2>2, <2>3, TaskFields DEF TypeOK
  <2>7. task' \in TaskT /\ OldTasks
    <3>1. task \in TaskT
      BY TypeParts
    <3>2. ASSUME NEW new \in Task, SameTask(new, task[p][n]),
                 task' = [task EXCEPT ![p][n] = new]
          PROVE  task' \in TaskT /\ OldTasks
      <4>1. /\ task' \in TaskT
            /\ \A q \in Peer : \A m \in DOMAIN task'[q] :
                 \/ q = p /\ m = n /\ task'[q][m] = new
                 \/ m \in DOMAIN task[q] /\ task'[q][m] = task[q][m]
        BY <1>4, <3>1, <3>2, TaskReplaced
      <4> QED BY <1>4, <3>2, <4>1 DEF OldTasks, SameTask
    <3>3. [now EXCEPT !.status = 0] \in Task /\ SameTask([now EXCEPT !.status = 0], task[p][n])
      BY <2>2 DEF Task, SameTask
    <3>4. CASE task' = [task EXCEPT ![p] = Without(@, n)]
      <4>1. /\ task' \in TaskT
            /\ \A q \in Peer : \A m \in DOMAIN task'[q] :
                 m \in DOMAIN task[q] /\ task'[q][m] = task[q][m]
        BY <3>1, <3>4, TaskRemoved
      <4> QED BY <4>1 DEF OldTasks, SameTask
    <3> QED BY <2>2, <2>3, <3>2, <3>3, <3>4
  <2>8. /\ <<>> \in Seq(Cells) /\ <<ack>> \in Seq(Cells) /\ <<ack, done>> \in Seq(Cells)
        /\ Range(<<>>) \subseteq Range(<<ack>>)
    BY <2>4, RangeOfEmpty
  <2>9. CASE ~Whole(p, n, now) /\ Reply(p, s, <<ack>>)
    <3>1. /\ table' \in [Peer -> Seq(Sock)] /\ closed' \in [Peer -> SUBSET Sock]
          /\ wire' \in WireT /\ Gains(wire, wire', p, s, <<ack>>)
      BY <1>1, <2>8, <2>9, ReplyEffect
    <3>2. TypeOK'
      BY <1>2, <2>3, <2>5, <2>6, <2>7, <3>1, TypeFromParts, TypeParts DEF TypeOK
    <3> QED BY <1>1, <2>3, <2>6, <2>7, <3>1, <3>2 DEF c, n, ack
  <2>10. CASE Whole(p, n, now) /\ Reply(p, s, <<ack, done>>)
    <3>1. /\ table' \in [Peer -> Seq(Sock)] /\ closed' \in [Peer -> SUBSET Sock]
          /\ wire' \in WireT /\ Gains(wire, wire', p, s, <<ack, done>>)
      BY <1>1, <2>8, <2>10, ReplyEffect
    <3>2. TypeOK'
      BY <1>2, <2>3, <2>5, <2>6, <2>7, <3>1, TypeFromParts, TypeParts DEF TypeOK
    <3>3. task[p][n].way = "receive" => task[p][n].of \in merged'
      BY <2>2, <2>6, <2>10 DEF SameTask
    <3> QED BY <1>1, <1>4, <2>3, <2>6, <2>7, <3>1, <3>2, <3>3 DEF c, n, ack, done
  <2>11. CASE ReplyFailsAfter(p, s, <<>>) \/ ReplyFailsAfter(p, s, <<ack>>)
    <3>1. /\ table' \in [Peer -> Seq(Sock)] /\ closed' \in [Peer -> SUBSET Sock]
          /\ wire' \in WireT
          /\ Gains(wire, wire', p, s, <<ack>>) \/ Gains(wire, wire', p, s, <<>>)
      BY <1>1, <2>8, <2>11, ReplyEffect
    <3>2. Gains(wire, wire', p, s, <<ack>>)
      BY <2>8, <3>1 DEF Gains
    <3>3. TypeOK'
      BY <1>2, <2>3, <2>5, <2>6, <2>7, <3>1, TypeFromParts, TypeParts DEF TypeOK
    <3> QED BY <1>1, <2>3, <2>6, <2>7, <3>2, <3>3 DEF c, n, ack
  <2> QED BY <2>3, <2>9, <2>10, <2>11
<1> QED BY <1>3, <1>4

(* DONE: the task it names ends and is taken out of the map. *)
LEMMA HandleDoneEffect ==
  ASSUME TypeOK, NEW p \in Peer, NEW s \in Sock, HandleDone(p, s)
  PROVE  LET c == Head(wire[p][s])
         IN  /\ TypeOK' /\ OldTasks /\ Gains(wire, wire', p, s, <<>>)
             /\ c \in Range(wire[p][s]) /\ c.type = "DONE"
             /\ \/ finished' = finished
                \/ /\ c.name \in DOMAIN task[p] /\ task[p][c.name].way = "send"
                   /\ finished' = finished \cup {task[p][c.name].of}
<1> DEFINE c == Head(wire[p][s])
           n == c.name
<1>1. c \in Range(wire[p][s]) /\ c.type = "DONE" /\ wire[p][s] # <<>> /\ Takes(p, s, "DONE")
  BY TakesCell DEF HandleDone
<1>2. UNCHANGED <<sent, pending, ever, filed, reading, cut, walk, net>>
  BY DEF HandleDone
<1>3. CASE n \notin DOMAIN task[p]
  <2>1. Drop(p, s)
    BY <1>3 DEF HandleDone
  <2>2. /\ wire' \in WireT /\ Gains(wire, wire', p, s, <<>>)
        /\ UNCHANGED <<task, disk, merged, finished, table, closed, sq>>
    BY <1>1, <2>1, DropEffect
  <2>3. TypeOK'
    BY <1>2, <2>2, TypeFromParts, TypeParts DEF TypeOK
  <2>4. OldTasks
    BY <2>2 DEF OldTasks, SameTask
  <2> QED BY <1>1, <2>2, <2>3, <2>4
<1>4. CASE n \in DOMAIN task[p]
  <2>1. /\ task' = [task EXCEPT ![p] = Without(@, n)]
        /\ finished' = IF task[p][n].way = "send"
                       THEN finished \cup {task[p][n].of} ELSE finished
        /\ wire' = Taken(p, s)
        /\ UNCHANGED <<disk, merged, table, closed, sq>>
    BY <1>4 DEF HandleDone
  <2>2. task[p][n].of \in Transfer
    <3>1. task[p] \in Partial(Names, Task)
      BY TypeParts DEF TaskT
    <3> QED BY <1>4, <3>1, PartialValue, TaskFields
  <2> HIDE DEF c, n
  <2>3. /\ task' \in TaskT
        /\ \A q \in Peer : \A m \in DOMAIN task'[q] :
             m \in DOMAIN task[q] /\ task'[q][m] = task[q][m]
    <3>1. task \in TaskT
      BY TypeParts
    <3> QED BY <2>1, <3>1, TaskRemoved
  <2>4. OldTasks
    BY <2>3 DEF OldTasks, SameTask
  <2>5. wire' \in WireT /\ Gains(wire, wire', p, s, <<>>)
    BY <1>1, <2>1, TakenEffect
  <2>6. finished' \subseteq Transfer
    BY <2>1, <2>2 DEF TypeOK
  <2>7. TypeOK'
    <3>1. task' \in TaskT /\ wire' \in WireT
      BY <2>3, <2>5
    <3>2. UNCHANGED <<disk, merged, table, closed, sq>>
      BY <2>1
    <3> QED BY <1>2, <2>6, <3>1, <3>2, TypeFromParts, TypeParts DEF TypeOK
  <2> QED BY <1>1, <1>4, <2>1, <2>4, <2>5, <2>7 DEF c, n
<1> QED BY <1>3, <1>4

(* An acknowledgement changes the pieces and the status of the task it names. *)
LEMMA HandleAckEffect ==
  ASSUME TypeOK, NEW p \in Peer, NEW s \in Sock, HandleAck(p, s)
  PROVE  /\ TypeOK' /\ OldTasks /\ Gains(wire, wire', p, s, <<>>)
         /\ \A q \in Peer : \A e \in Range(sq'[q]) :
              e \in Range(sq[q]) \/ e.type = "FILL"
<1> DEFINE c == Head(wire[p][s])
           n == c.name
<1>1. /\ c.piece \in Piece /\ n \in Names /\ wire[p][s] # <<>> /\ Takes(p, s, "ACK")
  BY TakesCell DEF HandleAck
<1>2. UNCHANGED <<sent, pending, ever, filed, reading, cut, walk, net>>
  BY DEF HandleAck
<1>3. CASE n \notin DOMAIN task[p]
  <2>1. Drop(p, s)
    BY <1>3 DEF HandleAck
  <2>2. /\ wire' \in WireT /\ Gains(wire, wire', p, s, <<>>)
        /\ UNCHANGED <<task, disk, merged, finished, table, closed, sq>>
    BY <1>1, <2>1, DropEffect
  <2>3. TypeOK'
    BY <1>2, <2>2, TypeFromParts, TypeParts DEF TypeOK
  <2>4. OldTasks
    BY <2>2 DEF OldTasks, SameTask
  <2> QED BY <2>2, <2>3, <2>4
<1>4. CASE n \in DOMAIN task[p]
  <2> DEFINE new == [task[p][n] EXCEPT !.done = @ \cup {c.piece}, !.status = 1]
             e   == Entry(s, "FILL", n, 0, <<>>)
  <2>1. /\ task' = [task EXCEPT ![p][n].done = @ \cup {c.piece}, ![p][n].status = 1]
        /\ sq' = [sq EXCEPT ![p] = Append(@, e)]
        /\ wire' = Taken(p, s)
        /\ UNCHANGED <<disk, merged, finished, table, closed>>
    BY <1>4 DEF HandleAck
  <2>2. task \in TaskT /\ sq \in QueueT
    BY TypeParts
  <2>3. task[p][n] \in Task
    <3>1. task[p] \in Partial(Names, Task)
      BY <2>2 DEF TaskT
    <3> QED BY <1>4, <3>1, PartialValue
  <2>4. new \in Task /\ SameTask(new, task[p][n])
    BY <1>1, <2>3 DEF Task, SameTask
  <2>5. task' = [task EXCEPT ![p][n] = new]
    BY <1>4, <2>1, <2>2 DEF TaskT
  <2>6. e \in Queued /\ e.type = "FILL"
    BY <1>1 DEF Queued, Entry
  <2> HIDE DEF new, e, c, n
  <2>7. /\ sq' \in QueueT
        /\ \A q \in Peer : Range(sq'[q]) \subseteq
             Range(sq[q]) \cup (IF q = p THEN {e} ELSE {})
    BY <2>1, <2>2, <2>6, QueueAppended
  <2>8. /\ task' \in TaskT
        /\ \A q \in Peer : \A m \in DOMAIN task'[q] :
             \/ q = p /\ m = n /\ task'[q][m] = new
             \/ m \in DOMAIN task[q] /\ task'[q][m] = task[q][m]
    BY <1>4, <2>2, <2>4, <2>5, TaskReplaced
  <2>9. wire' \in WireT /\ Gains(wire, wire', p, s, <<>>)
    BY <1>1, <2>1, TakenEffect
  <2>10. TypeOK'
    <3>1. sq' \in QueueT /\ task' \in TaskT /\ wire' \in WireT
      BY <2>7, <2>8, <2>9
    <3>2. UNCHANGED <<disk, merged, finished, table, closed>>
      BY <2>1
    <3> QED BY <1>2, <3>1, <3>2, TypeFromParts, TypeParts DEF TypeOK
  <2>11. OldTasks
    BY <1>4, <2>4, <2>8 DEF OldTasks, SameTask
  <2> QED BY <2>6, <2>7, <2>9, <2>10, <2>11
<1> QED BY <1>3, <1>4

(* The initial state is typed. *)
LEMMA TypeInit == Init => TypeOK
<1> SUFFICES ASSUME Init PROVE TypeOK
  OBVIOUS
<1>1. \A S, T : <<>> \in Partial(S, T)
  BY PartialEmpty
<1>2. \A S : <<>> \in Seq(S)
  OBVIOUS
<1>3. NoWalk \in Walk
  BY DEF Walk
<1>4. 0 \in Nat
  OBVIOUS
<1> QED BY <1>1, <1>2, <1>3, <1>4 DEF Init, TypeOK

(* Every step keeps the types. *)
LEMMA TypeStep == TypeOK /\ [Next]_vars => TypeOK'
<1> SUFFICES ASSUME TypeOK, [Next]_vars PROVE TypeOK'
  OBVIOUS
<1>1. ASSUME NEW p \in Peer, UserStep(p) PROVE TypeOK'
  BY <1>1, AnnounceType DEF UserStep
<1>2. ASSUME NEW p \in Peer, Register(p) PROVE TypeOK'
  BY <1>2, RegisterType
<1>3. ASSUME NEW p \in Peer, ReaderStep(p) PROVE TypeOK'
  <2>1. CASE WalkStep(p, "Reader")
    BY <2>1, WalkStepEffect DEF Thread
  <2>2. ASSUME NEW s \in Sock, HandleMeta(p, s) PROVE TypeOK'
    BY <2>2, HandleMetaEffect
  <2>3. ASSUME NEW s \in Sock, HandleReady(p, s) PROVE TypeOK'
    BY <2>3, HandleReadyEffect
  <2>4. ASSUME NEW s \in Sock, HandlePiece(p, s) PROVE TypeOK'
    BY <2>4, HandlePieceEffect
  <2>5. ASSUME NEW s \in Sock, HandleDone(p, s) PROVE TypeOK'
    BY <2>5, HandleDoneEffect
  <2>6. ASSUME NEW s \in Sock, HandleAck(p, s) PROVE TypeOK'
    BY <2>6, HandleAckEffect
  <2> QED BY <1>3, <2>1, <2>2, <2>3, <2>4, <2>5, <2>6 DEF ReaderStep
<1>4. ASSUME NEW p \in Peer, Write(p) \/ WriteFails(p) PROVE TypeOK'
  BY <1>4, WriteEffect, WriteFailsEffect
<1>5. ASSUME NEW p \in Peer, StatusResend(p) \/ WalkStep(p, "Status") PROVE TypeOK'
  <2>1. CASE StatusResend(p)
    BY <2>1, StatusResendType
  <2> QED BY <1>5, <2>1, WalkStepEffect DEF Thread
<1>6. ASSUME NEW p \in Peer, NEW s \in Sock,
             \/ Establish(p, s) \/ RecordAgain(p, s) \/ ReadsTorn(p, s)
             \/ ReadsTooSoon(p, s) \/ ReaderStops(p, s)
      PROVE  TypeOK'
  <2>1. CASE ReadsTooSoon(p, s) \/ ReaderStops(p, s)
    BY <2>1, StopsReadingEffect DEF ReadsTooSoon, ReaderStops
  <2> QED BY <1>6, <2>1, EstablishType, RecordAgainType, ReadsTornEffect
<1>7. ASSUME NEW s \in Sock, CutCircuit(s) PROVE TypeOK'
  BY <1>7, CutCircuitType
<1>8. CASE UNCHANGED vars
  <2>1. UNCHANGED <<sent, pending, task, disk, merged, finished, table, ever, filed, reading,
                    closed, cut, wire, sq, walk, net>>
    BY <1>8 DEF vars
  <2> QED BY <2>1, TypeFromParts, TypeParts DEF TypeOK
<1> QED BY <1>1, <1>2, <1>3, <1>4, <1>5, <1>6, <1>7, <1>8 DEF Next

(* Every variable of FileTransfer keeps its type: a DATA cell or a queued run of pieces   *)
(* names pieces of a file that was announced, and a walk in progress has a connection.    *)
THEOREM TypeCorrect == Spec => []TypeOK
<1>1. Init => TypeOK
  BY TypeInit
<1>2. TypeOK /\ [Next]_vars => TypeOK'
  BY TypeStep
<1> QED BY <1>1, <1>2, PTL DEF Spec

-----------------------------------------------------------------------------
(* DONE is only for files that were received                                 *)
(*                                                                         *)
(* Tasks and cells go by the name of a file.  If no name is used twice, what  *)
(* goes by a name is of the one transfer of that name: in the right direction, *)
(* and a DONE of that name means that this transfer was put together.         *)

TaskOk(p, n, tk) ==
  /\ tk.of \in Transfer /\ sent[tk.of].name = n
  /\ tk.way = "send" => From(tk.of) = p
  /\ tk.way = "receive" => From(tk.of) # p

EntryOk(p, e) ==
  e.type \in {"META", "DATA"} =>
    \E t \in Transfer : /\ sent[t].name = e.name /\ From(t) = p
                        /\ e.type = "META" => e.of = t

(* c on its way to p, when done are the transfers put together. *)
CellOk(p, c, done) ==
  \E t \in Transfer :
    /\ sent[t].name = c.name
    /\ c.type \in {"META", "DATA"} => From(t) # p
    /\ c.type = "META" => c.of = t
    /\ c.type = "READY" => From(t) = p
    /\ c.type = "DONE" => t \in done

NamesDiffer == \A t, u \in Transfer : sent[t].name = sent[u].name => t = u
TasksOk     == \A p \in Peer : \A n \in DOMAIN task[p] : TaskOk(p, n, task[p][n])
PendingOk   == \A p \in Peer : \A n \in DOMAIN pending[p] : TaskOk(p, n, pending[p][n])
WiresOk     == \A p \in Peer, s \in Sock : \A c \in Range(wire[p][s]) : CellOk(p, c, merged)
QueuesOk    == \A p \in Peer : \A e \in Range(sq[p]) : EntryOk(p, e)

FileInv == /\ TypeOK /\ NamesDiffer /\ TasksOk /\ PendingOk /\ WiresOk /\ QueuesOk
           /\ DoneMeansReceived

(* What a step has to show: what is new in tables, queues and on wires is in order.  *)
TasksStayOk  == \A q \in Peer : \A m \in DOMAIN task'[q] : TaskOk(q, m, task'[q][m])
WiresStayOk  == \A q \in Peer, t \in Sock : \A c \in Range(wire'[q][t]) : CellOk(q, c, merged')
QueuesStayOk == \A q \in Peer : \A e \in Range(sq'[q]) : EntryOk(q, e)

(* The invariant from its parts, after a step that announces nothing and registers nothing. *)
LEMMA FileInvFromParts ==
  ASSUME FileInv, TypeOK', UNCHANGED <<sent, pending>>,
         TasksStayOk, WiresStayOk, QueuesStayOk, finished' \subseteq merged'
  PROVE  FileInv'
<1>1. NamesDiffer' /\ PendingOk'
  BY DEF FileInv, NamesDiffer, PendingOk, TaskOk, From, Transfer
<1>2. TasksOk'
  BY DEF TasksStayOk, TasksOk, TaskOk, From, Transfer
<1>3. WiresOk'
  BY DEF WiresStayOk, WiresOk, CellOk, From, Transfer
<1>4. QueuesOk'
  BY DEF QueuesStayOk, QueuesOk, EntryOk, From, Transfer
<1> QED BY <1>1, <1>2, <1>3, <1>4 DEF FileInv, DoneMeansReceived

(* Tasks of before, perhaps stopped, stay in order. *)
LEMMA OldTasksOk ==
  ASSUME FileInv, OldTasks
  PROVE  TasksStayOk
  BY DEF FileInv, OldTasks, SameTask, TasksStayOk, TasksOk, TaskOk

(* So do wires that gain cells in order, and wires that gain none. *)
LEMMA GainsOk ==
  ASSUME FileInv, NEW p \in Peer, NEW s, NEW cells, Gains(wire, wire', p, s, cells),
         merged \subseteq merged', \A c \in Range(cells) : CellOk(Other(p), c, merged')
  PROVE  WiresStayOk
<1> SUFFICES ASSUME NEW q \in Peer, NEW t \in Sock, NEW c \in Range(wire'[q][t])
             PROVE  CellOk(q, c, merged')
  BY DEF WiresStayOk
<1>1. c \in Range(wire[q][t]) \/ (q = Other(p) /\ c \in Range(cells))
  BY DEF Gains
<1>2. CASE c \in Range(wire[q][t])
  <2>1. CellOk(q, c, merged)
    BY <1>2 DEF FileInv, WiresOk
  <2> QED BY <2>1 DEF CellOk
<1> QED BY <1>1, <1>2

(* Wires that gain no cell stay right. *)
LEMMA GainsNothingOk ==
  ASSUME FileInv, NEW p \in Peer, NEW s, Gains(wire, wire', p, s, <<>>),
         merged \subseteq merged'
  PROVE  WiresStayOk
  BY GainsOk, RangeOfEmpty

(* Queues that gain no entry stay right. *)
LEMMA OldEntriesOk ==
  ASSUME FileInv, OldEntries
  PROVE  QueuesStayOk
  BY DEF FileInv, OldEntries, SameEntry, QueuesStayOk, QueuesOk, EntryOk

(* A step that leaves them alone keeps them in order. *)
LEMMA StayOk ==
  ASSUME FileInv
  PROVE  /\ task' = task => TasksStayOk
         /\ UNCHANGED <<wire, merged>> => WiresStayOk
         /\ sq' = sq => QueuesStayOk
  BY DEF FileInv, TasksStayOk, TasksOk, WiresStayOk, WiresOk, QueuesStayOk, QueuesOk

(* A new file has a new name, so nothing said of the older ones changes. *)
LEMMA AnnounceKeeps ==
  ASSUME FileInv, ~ReuseNames, NEW p \in Peer, NEW name \in Names, NEW size \in Sizes,
         Announce(p, name, size)
  PROVE  FileInv'
<1> DEFINE t    == Len(sent) + 1
           file == [from |-> p, name |-> name, size |-> size]
<1>1. file \in File /\ sent' = Append(sent, file) /\ file.name = name /\ file.from = p
  BY DEF Announce, File
<1>2. /\ Transfer' = Transfer \cup {t} /\ t \notin Transfer
      /\ \A u \in Transfer : sent'[u] = sent[u]
      /\ sent'[t].name = name /\ sent'[t].from = p
  BY <1>1, TypesGrow DEF FileInv
<1>3. \A u \in Transfer : sent[u].name # name
  BY DEF Announce
<1>4. TypeOK'
  BY AnnounceType DEF FileInv
<1>5. UNCHANGED <<task, wire, merged, finished>>
  BY DEF Announce
<1>6. pending' = [pending EXCEPT ![p] = Put(@, name, SendTask(t, size, 4))] \/
      pending' = [pending EXCEPT ![p] = Put(@, name, SendTask(t, size, 0))]
  BY DEF Announce
<1>7. \/ sq' = sq
      \/ \E s \in Sock : sq' = [sq EXCEPT ![p] = Append(@, MetaEntry(s, name, t))]
  <2>1. table[p] \in Seq(Sock)
    BY DEF FileInv, TypeOK
  <2> QED BY <2>1, FileConnType DEF Announce
<1> HIDE DEF t, file
<1>8. NamesDiffer'
  BY <1>2, <1>3 DEF FileInv, NamesDiffer
<1>9. TasksOk'
  BY <1>2, <1>5 DEF FileInv, TasksOk, TaskOk, From
<1>10. WiresOk'
  <2> SUFFICES ASSUME NEW q \in Peer, NEW s \in Sock, NEW c \in Range(wire[q][s])
               PROVE  CellOk(q, c, merged)'
    BY <1>5 DEF WiresOk
  <2>1. CellOk(q, c, merged)
    BY DEF FileInv, WiresOk
  <2> QED BY <1>2, <1>5, <2>1 DEF CellOk, From
<1>11. PendingOk'
  <2>1. PICK status \in {0, 4} :
          pending' = [pending EXCEPT ![p] = Put(@, name, SendTask(t, size, status))]
    BY <1>6
  <2> DEFINE new == SendTask(t, size, status)
  <2>2. new.of = t /\ new.way = "send"
    BY DEF SendTask
  <2>3. \A q \in Peer : \A n \in DOMAIN pending'[q] :
          \/ q = p /\ n = name /\ pending'[q][n] = new
          \/ n \in DOMAIN pending[q] /\ pending'[q][n] = pending[q][n]
    <3>1. pending \in TaskT
      BY TypeParts DEF FileInv
    <3> HIDE DEF new
    <3> QED BY <2>1, <3>1 DEF TaskT, Put, new
  <2> HIDE DEF new
  <2> QED BY <1>2, <2>2, <2>3 DEF FileInv, PendingOk, TaskOk, From
<1>12. QueuesOk'
  <2>1. ASSUME NEW q \in Peer, NEW e, EntryOk(q, e) PROVE EntryOk(q, e)'
    BY <1>2, <2>1 DEF EntryOk, From
  <2>2. CASE sq' = sq
    BY <2>1, <2>2 DEF FileInv, QueuesOk
  <2>3. ASSUME NEW s \in Sock, sq' = [sq EXCEPT ![p] = Append(@, MetaEntry(s, name, t))]
        PROVE  QueuesOk'
    <3>1. PICK e \in {MetaEntry(s, name, t)} : TRUE
      OBVIOUS
    <3>2. EntryOk(p, e)'
      <4>1. e.name = name /\ e.of = t
        BY <3>1 DEF MetaEntry, Entry
      <4> QED BY <1>2, <4>1 DEF EntryOk, From
    <3>3. \A q \in Peer : Range(sq'[q]) \subseteq Range(sq[q]) \cup (IF q = p THEN {e} ELSE {})
      <4>1. sq \in [Peer -> Seq(Queued)] /\ sq[p] \in Seq(Queued \cup {e})
        <5>1. sq \in [Peer -> Seq(Queued)]
          BY TypeParts DEF FileInv, QueueT
        <5>2. sq[p] \in Seq(Queued)
          BY <5>1
        <5> QED BY <5>1, <5>2, SeqGrows
      <4>2. Range(Append(sq[p], e)) = Range(sq[p]) \cup {e}
        BY <4>1, RangeOfAppend
      <4>3. \A q \in Peer : sq'[q] = IF q = p THEN Append(sq[p], e) ELSE sq[q]
        BY <2>3, <3>1, <4>1
      <4> QED BY <4>2, <4>3
    <3> QED BY <2>1, <3>2, <3>3 DEF FileInv, QueuesOk
  <2> QED BY <1>7, <2>2, <2>3
<1>13. DoneMeansReceived'
  BY <1>5 DEF FileInv, DoneMeansReceived
<1> QED BY <1>4, <1>8, <1>9, <1>10, <1>11, <1>12, <1>13 DEF FileInv

(* The task put in the map was right while it was pending. *)
LEMMA RegisterKeeps ==
  ASSUME FileInv, NEW p \in Peer, Register(p)
  PROVE  FileInv'
<1>1. TypeOK'
  BY RegisterType DEF FileInv
<1>2. UNCHANGED <<sent, merged, finished, wire, sq>>
  BY DEF Register
<1>3. task \in TaskT /\ pending \in TaskT
  BY TypeParts DEF FileInv
<1>4. TasksOk'
  <2>1. \A q \in Peer : \A m \in DOMAIN task'[q] :
          \/ m \in DOMAIN task[q] /\ task'[q][m] = task[q][m]
          \/ m \in DOMAIN pending[q] /\ task'[q][m] = pending[q][m]
    BY <1>3 DEF Register, TaskT
  <2> QED BY <1>2, <2>1 DEF FileInv, TasksOk, PendingOk, TaskOk, From, Transfer
<1>5. PendingOk'
  <2>1. \A q \in Peer : pending'[q] = IF q = p THEN <<>> ELSE pending[q]
    BY <1>3 DEF Register, TaskT
  <2>2. DOMAIN <<>> = {}
    OBVIOUS
  <2> QED BY <1>2, <2>1, <2>2 DEF FileInv, PendingOk, TaskOk, From, Transfer
<1>6. NamesDiffer' /\ WiresOk' /\ QueuesOk' /\ DoneMeansReceived'
  BY <1>2 DEF FileInv, NamesDiffer, WiresOk, QueuesOk, DoneMeansReceived, CellOk, EntryOk,
              From, Transfer
<1> QED BY <1>1, <1>4, <1>5, <1>6 DEF FileInv

(* Steps that touch neither tasks nor queues, nor put anything on a wire. *)
LEMMA QuietKeeps ==
  ASSUME FileInv, TypeOK', UNCHANGED <<sent, pending, task, sq, wire, merged, finished>>
  PROVE  FileInv'
<1>1. TasksStayOk /\ WiresStayOk /\ QueuesStayOk
  BY StayOk
<1> QED BY <1>1, FileInvFromParts DEF FileInv, DoneMeansReceived

(* Stopped tasks are tasks of the same transfers. *)
LEMMA ReadsKeeps ==
  ASSUME FileInv, NEW p \in Peer, NEW s \in Sock,
         ReaderStops(p, s) \/ ReadsTooSoon(p, s) \/ ReadsTorn(p, s)
  PROVE  FileInv'
<1>1. TypeOK' /\ OldTasks /\ Gains(wire, wire', p, s, <<>>)
  <2>1. CASE ReadsTorn(p, s)
    BY <2>1, ReadsTornEffect DEF FileInv
  <2> QED BY <2>1, StopsReadingEffect DEF ReaderStops, ReadsTooSoon, FileInv
<1>2. UNCHANGED <<sent, pending, merged, finished, sq>>
  BY DEF ReaderStops, ReadsTooSoon, StopsReading, ReadsTorn, taskVars
<1>3. TasksStayOk /\ WiresStayOk /\ QueuesStayOk
  BY <1>1, <1>2, OldTasksOk, GainsNothingOk, StayOk
<1> QED BY <1>1, <1>2, <1>3, FileInvFromParts DEF FileInv, DoneMeansReceived

(* A cell is right because the entry it was made from was. *)
LEMMA WriteKeeps ==
  ASSUME FileInv, NEW p \in Peer, Write(p)
  PROVE  FileInv'
<1>1. TypeOK' /\ OldEntries
  BY WriteEffect DEF FileInv
<1>2. PICK e \in Range(sq[p]), s \in Sock, cells \in Seq(Cells) :
        /\ Gains(wire, wire', p, s, cells)
        /\ \A c \in Range(cells) :
             /\ c.type = e.type /\ c.name = e.name /\ c.type \in {"META", "DATA"}
             /\ c.type = "META" => c.of = e.of
  BY WriteEffect DEF FileInv
<1>3. UNCHANGED <<sent, pending, task, merged, finished>>
  BY DEF Write
<1>4. \A c \in Range(cells) : CellOk(Other(p), c, merged')
  <2> TAKE c \in Range(cells)
  <2>1. EntryOk(p, e) /\ e.type \in {"META", "DATA"}
    BY <1>2 DEF FileInv, QueuesOk
  <2>2. PICK t \in Transfer : /\ sent[t].name = e.name /\ From(t) = p
                              /\ e.type = "META" => e.of = t
    BY <2>1 DEF EntryOk
  <2>3. From(t) # Other(p)
    BY <2>2, OtherPeer
  <2> QED BY <1>2, <2>1, <2>2, <2>3 DEF CellOk
<1>5. TasksStayOk /\ QueuesStayOk
  BY <1>1, <1>3, StayOk, OldEntriesOk
<1>6. WiresStayOk
  BY <1>2, <1>3, <1>4, GainsOk
<1> QED BY <1>1, <1>3, <1>5, <1>6, FileInvFromParts DEF FileInv, DoneMeansReceived

(* A deleted connection leaves nothing behind that could be wrong. *)
LEMMA WriteFailsKeeps ==
  ASSUME FileInv, NEW p \in Peer, WriteFails(p)
  PROVE  FileInv'
<1>1. TypeOK' /\ OldEntries
  BY WriteFailsEffect DEF FileInv
<1>2. PICK s \in Sock : Gains(wire, wire', p, s, <<>>)
  BY WriteFailsEffect DEF FileInv
<1>3. UNCHANGED <<sent, pending, task, merged, finished>>
  BY DEF WriteFails
<1>4. TasksStayOk /\ WiresStayOk /\ QueuesStayOk
  BY <1>1, <1>2, <1>3, StayOk, OldEntriesOk, GainsNothingOk
<1> QED BY <1>1, <1>3, <1>4, FileInvFromParts DEF FileInv, DoneMeansReceived

(* What is sent again is what the task holds. *)
LEMMA WalkStepKeeps ==
  ASSUME FileInv, NEW p \in Peer, NEW thread \in Thread, WalkStep(p, thread)
  PROVE  FileInv'
<1>1. /\ TypeOK' /\ OldTasks
      /\ \A q \in Peer : \A e \in Range(sq'[q]) :
           \/ e \in Range(sq[q])
           \/ /\ q = p
              /\ \E n \in DOMAIN task[p] : task[p][n].way = "send" /\ ResendEntry(p, n, e)
  BY WalkStepEffect DEF FileInv
<1>2. UNCHANGED <<sent, pending, wire, merged, finished>>
  BY DEF WalkStep
<1>3. QueuesStayOk
  <2> SUFFICES ASSUME NEW q \in Peer, NEW e \in Range(sq'[q]) PROVE EntryOk(q, e)
    BY DEF QueuesStayOk
  <2>1. CASE e \in Range(sq[q])
    BY <2>1 DEF FileInv, QueuesOk
  <2>2. ASSUME q = p, NEW n \in DOMAIN task[p], task[p][n].way = "send", ResendEntry(p, n, e)
        PROVE  EntryOk(q, e)
    <3>1. TaskOk(p, n, task[p][n])
      BY DEF FileInv, TasksOk
    <3> QED BY <2>2, <3>1 DEF TaskOk, ResendEntry, EntryOk
  <2> QED BY <1>1, <2>1, <2>2
<1>4. TasksStayOk /\ WiresStayOk
  BY <1>1, <1>2, OldTasksOk, StayOk
<1> QED BY <1>1, <1>2, <1>3, <1>4, FileInvFromParts DEF FileInv, DoneMeansReceived

(* META makes a task of the transfer it announces, and READY tells its sender so. *)
LEMMA HandleMetaKeeps ==
  ASSUME FileInv, NEW p \in Peer, NEW s \in Sock, HandleMeta(p, s)
  PROVE  FileInv'
<1> DEFINE c     == Head(wire[p][s])
           ready == Cell("READY", c.name, 0, 0)
<1>1. /\ TypeOK' /\ OldTasksBut(p, c.name)
      /\ c \in Range(wire[p][s]) /\ c.type = "META" /\ c.of \in Transfer
      /\ Gains(wire, wire', p, s, <<ready>>)
      /\ c.name \in DOMAIN task'[p] =>
           \/ task'[p][c.name] = ReceiveTask(c.of)
           \/ c.name \in DOMAIN task[p] /\ task'[p][c.name] = task[p][c.name]
  BY HandleMetaEffect DEF FileInv
<1>2. UNCHANGED <<sent, pending, merged, finished, sq>>
  BY DEF HandleMeta
<1>3. CellOk(p, c, merged)
  BY <1>1 DEF FileInv, WiresOk
<1>4. ready.type = "READY" /\ ready.name = c.name
  BY DEF Cell
<1> HIDE DEF c, ready
<1>5. /\ sent[c.of].name = c.name /\ From(c.of) # p
  BY <1>1, <1>3 DEF CellOk
<1>6. From(c.of) = Other(p)
  <2>1. From(c.of) \in Peer
    BY <1>1, TypeParts DEF FileInv, From, File
  <2> QED BY <1>5, <2>1 DEF Peer, Other
<1>7. \A d \in Range(<<ready>>) : CellOk(Other(p), d, merged')
  <2>1. CellOk(Other(p), ready, merged')
    BY <1>1, <1>4, <1>5, <1>6 DEF CellOk
  <2> QED BY <2>1 DEF Range
<1>8. WiresStayOk
  BY <1>1, <1>2, <1>7, GainsOk
<1>9. TasksStayOk
  <2> SUFFICES ASSUME NEW q \in Peer, NEW m \in DOMAIN task'[q]
               PROVE  TaskOk(q, m, task'[q][m])
    BY DEF TasksStayOk
  <2>1. CASE m \in DOMAIN task[q] /\ SameTask(task'[q][m], task[q][m])
    BY <2>1 DEF FileInv, TasksOk, TaskOk, SameTask
  <2>2. CASE q = p /\ m = c.name
    <3>1. TaskOk(p, c.name, ReceiveTask(c.of))
      BY <1>1, <1>5 DEF TaskOk, ReceiveTask
    <3> QED BY <1>1, <2>2, <3>1 DEF FileInv, TasksOk
  <2> QED BY <1>1, <2>1, <2>2 DEF OldTasksBut
<1>10. QueuesStayOk
  BY <1>2, StayOk
<1> QED BY <1>1, <1>2, <1>8, <1>9, <1>10, FileInvFromParts DEF FileInv, DoneMeansReceived

(* The pieces queued are those of the transfer that was announced under the name. *)
LEMMA HandleReadyKeeps ==
  ASSUME FileInv, NEW p \in Peer, NEW s \in Sock, HandleReady(p, s)
  PROVE  FileInv'
<1> DEFINE c == Head(wire[p][s])
<1>1. /\ TypeOK' /\ OldTasks /\ Gains(wire, wire', p, s, <<>>)
      /\ c \in Range(wire[p][s]) /\ c.type = "READY"
      /\ \A q \in Peer : \A e \in Range(sq'[q]) :
           \/ e \in Range(sq[q])
           \/ q = p /\ e.type = "DATA" /\ e.name = c.name
  BY HandleReadyEffect DEF FileInv
<1>2. UNCHANGED <<sent, pending, merged, finished>>
  BY DEF HandleReady, Drop
<1>3. CellOk(p, c, merged)
  BY <1>1 DEF FileInv, WiresOk
<1> HIDE DEF c
<1>4. QueuesStayOk
  <2> SUFFICES ASSUME NEW q \in Peer, NEW e \in Range(sq'[q]) PROVE EntryOk(q, e)
    BY DEF QueuesStayOk
  <2>1. CASE e \in Range(sq[q])
    BY <2>1 DEF FileInv, QueuesOk
  <2>2. CASE q = p /\ e.type = "DATA" /\ e.name = c.name
    BY <1>1, <1>3, <2>2 DEF CellOk, EntryOk
  <2> QED BY <1>1, <2>1, <2>2
<1>5. TasksStayOk /\ WiresStayOk
  BY <1>1, <1>2, OldTasksOk, GainsNothingOk
<1> QED BY <1>1, <1>2, <1>4, <1>5, FileInvFromParts DEF FileInv, DoneMeansReceived

(* DONE goes out only when the transfer its name stands for has been put together. *)
LEMMA HandlePieceKeeps ==
  ASSUME FileInv, NEW p \in Peer, NEW s \in Sock, HandlePiece(p, s)
  PROVE  FileInv'
<1> DEFINE c    == Head(wire[p][s])
           ack  == Cell("ACK", c.name, c.piece, 0)
           done == Cell("DONE", c.name, 0, 0)
<1>1. /\ TypeOK' /\ OldTasks /\ c \in Range(wire[p][s]) /\ c.type = "DATA"
      /\ merged \subseteq merged' /\ finished' = finished
      /\ \/ Gains(wire, wire', p, s, <<ack>>)
         \/ /\ Gains(wire, wire', p, s, <<ack, done>>)
            /\ c.name \in DOMAIN task[p]
            /\ task[p][c.name].way = "receive" => task[p][c.name].of \in merged'
  BY HandlePieceEffect DEF FileInv
<1>2. UNCHANGED <<sent, pending, sq>>
  BY DEF HandlePiece, Drop
<1>3. PICK t \in Transfer : sent[t].name = c.name /\ From(t) # p
  BY <1>1 DEF FileInv, WiresOk, CellOk
<1>4. ack.type = "ACK" /\ ack.name = c.name /\ done.type = "DONE" /\ done.name = c.name
  BY DEF Cell
<1> HIDE DEF c, ack, done
<1>5. CellOk(Other(p), ack, merged')
  BY <1>3, <1>4 DEF CellOk
<1>6. WiresStayOk
  <2>1. CASE Gains(wire, wire', p, s, <<ack>>)
    <3>1. \A d \in Range(<<ack>>) : CellOk(Other(p), d, merged')
      BY <1>5 DEF Range
    <3> QED BY <1>1, <2>1, <3>1, GainsOk
  <2>2. CASE /\ Gains(wire, wire', p, s, <<ack, done>>)
             /\ c.name \in DOMAIN task[p]
             /\ task[p][c.name].way = "receive" => task[p][c.name].of \in merged'
    <3> DEFINE tk == task[p][c.name]
    <3>1. TaskOk(p, c.name, tk)
      BY <2>2 DEF FileInv, TasksOk
    <3>2. tk.of = t
      BY <1>3, <3>1 DEF FileInv, NamesDiffer, TaskOk
    <3>3. tk.way \in {"send", "receive"}
      <4>1. task[p] \in Partial(Names, Task)
        BY TypeParts DEF FileInv, TaskT
      <4> QED BY <2>2, <4>1, PartialValue, TaskFields
    <3>4. tk.way = "receive"
      BY <1>3, <3>1, <3>2, <3>3 DEF TaskOk
    <3>5. t \in merged'
      BY <2>2, <3>2, <3>4
    <3>6. CellOk(Other(p), done, merged')
      BY <1>3, <1>4, <3>5 DEF CellOk
    <3>7. \A d \in Range(<<ack, done>>) : CellOk(Other(p), d, merged')
      BY <1>5, <3>6 DEF Range
    <3> QED BY <1>1, <2>2, <3>7, GainsOk
  <2> QED BY <1>1, <2>1, <2>2
<1>7. TasksStayOk /\ QueuesStayOk
  BY <1>1, <1>2, OldTasksOk, StayOk
<1>8. finished' \subseteq merged'
  BY <1>1 DEF FileInv, DoneMeansReceived
<1> QED BY <1>1, <1>2, <1>6, <1>7, <1>8, FileInvFromParts

(* The task DONE ends is of the transfer its name stands for. *)
LEMMA HandleDoneKeeps ==
  ASSUME FileInv, NEW p \in Peer, NEW s \in Sock, HandleDone(p, s)
  PROVE  FileInv'
<1> DEFINE c == Head(wire[p][s])
<1>1. /\ TypeOK' /\ OldTasks /\ Gains(wire, wire', p, s, <<>>)
      /\ c \in Range(wire[p][s]) /\ c.type = "DONE"
      /\ \/ finished' = finished
         \/ /\ c.name \in DOMAIN task[p] /\ task[p][c.name].way = "send"
            /\ finished' = finished \cup {task[p][c.name].of}
  BY HandleDoneEffect DEF FileInv
<1>2. UNCHANGED <<sent, pending, merged, sq>>
  BY DEF HandleDone, Drop
<1> HIDE DEF c
<1>7. CellOk(p, c, merged)
  BY <1>1 DEF FileInv, WiresOk
<1>3. PICK t \in merged : t \in Transfer /\ sent[t].name = c.name
  BY <1>1, <1>7 DEF CellOk
<1>4. ASSUME c.name \in DOMAIN task[p] PROVE task[p][c.name].of = t
  <2>1. TaskOk(p, c.name, task[p][c.name])
    BY <1>4 DEF FileInv, TasksOk
  <2> QED BY <1>3, <2>1 DEF FileInv, NamesDiffer, TaskOk
<1>5. finished' \subseteq merged'
  BY <1>1, <1>2, <1>3, <1>4 DEF FileInv, DoneMeansReceived
<1>6. TasksStayOk /\ WiresStayOk /\ QueuesStayOk
  BY <1>1, <1>2, OldTasksOk, GainsNothingOk, StayOk
<1> QED BY <1>1, <1>2, <1>5, <1>6, FileInvFromParts

(* An acknowledgement neither begins nor ends a transfer. *)
LEMMA HandleAckKeeps ==
  ASSUME FileInv, NEW p \in Peer, NEW s \in Sock, HandleAck(p, s)
  PROVE  FileInv'
<1>1. /\ TypeOK' /\ OldTasks /\ Gains(wire, wire', p, s, <<>>)
      /\ \A q \in Peer : \A e \in Range(sq'[q]) :
           e \in Range(sq[q]) \/ e.type = "FILL"
  BY HandleAckEffect DEF FileInv
<1>2. UNCHANGED <<sent, pending, merged, finished>>
  BY DEF HandleAck, Drop
<1>3. QueuesStayOk
  <2>1. \A q \in Peer : \A e : e.type = "FILL" => EntryOk(q, e)
    BY DEF EntryOk
  <2> QED BY <1>1, <2>1 DEF QueuesStayOk, FileInv, QueuesOk
<1>4. TasksStayOk /\ WiresStayOk
  BY <1>1, <1>2, OldTasksOk, GainsNothingOk
<1> QED BY <1>1, <1>2, <1>3, <1>4, FileInvFromParts DEF FileInv, DoneMeansReceived

(* Nothing is announced in the initial state. *)
LEMMA FileInit == Init => FileInv
<1> SUFFICES ASSUME Init PROVE FileInv
  OBVIOUS
<1>1. TypeOK
  BY TypeInit
<1>2. DOMAIN <<>> = {} /\ Range(<<>>) = {}
  BY RangeOfEmpty
<1>3. Transfer = {} /\ merged = {} /\ finished = {}
  BY <1>2 DEF Init, Transfer
<1>4. \A p \in Peer : /\ task[p] = <<>> /\ pending[p] = <<>> /\ sq[p] = <<>>
                      /\ \A s \in Sock : wire[p][s] = <<>>
  BY DEF Init
<1>5. NamesDiffer /\ DoneMeansReceived
  BY <1>3 DEF NamesDiffer, DoneMeansReceived
<1>6. TasksOk /\ PendingOk /\ WiresOk /\ QueuesOk
  BY <1>2, <1>4 DEF TasksOk, PendingOk, WiresOk, QueuesOk
<1> QED BY <1>1, <1>5, <1>6 DEF FileInv

(* Every step keeps the invariant. *)
LEMMA FileStep ==
  ASSUME ~ReuseNames
  PROVE  FileInv /\ [Next]_vars => FileInv'
<1> SUFFICES ASSUME FileInv, [Next]_vars PROVE FileInv'
  OBVIOUS
<1>1. ASSUME NEW p \in Peer, UserStep(p) PROVE FileInv'
  BY <1>1, AnnounceKeeps DEF UserStep
<1>2. ASSUME NEW p \in Peer, Register(p) PROVE FileInv'
  BY <1>2, RegisterKeeps
<1>3. ASSUME NEW p \in Peer, ReaderStep(p) PROVE FileInv'
  <2>1. CASE WalkStep(p, "Reader")
    BY <2>1, WalkStepKeeps DEF Thread
  <2>2. ASSUME NEW s \in Sock, HandleMeta(p, s) PROVE FileInv'
    BY <2>2, HandleMetaKeeps
  <2>3. ASSUME NEW s \in Sock, HandleReady(p, s) PROVE FileInv'
    BY <2>3, HandleReadyKeeps
  <2>4. ASSUME NEW s \in Sock, HandlePiece(p, s) PROVE FileInv'
    BY <2>4, HandlePieceKeeps
  <2>5. ASSUME NEW s \in Sock, HandleDone(p, s) PROVE FileInv'
    BY <2>5, HandleDoneKeeps
  <2>6. ASSUME NEW s \in Sock, HandleAck(p, s) PROVE FileInv'
    BY <2>6, HandleAckKeeps
  <2> QED BY <1>3, <2>1, <2>2, <2>3, <2>4, <2>5, <2>6 DEF ReaderStep
<1>4. ASSUME NEW p \in Peer, Write(p) \/ WriteFails(p) PROVE FileInv'
  BY <1>4, WriteKeeps, WriteFailsKeeps
<1>5. ASSUME NEW p \in Peer, WalkStep(p, "Status") PROVE FileInv'
  BY <1>5, WalkStepKeeps DEF Thread
<1>6. ASSUME NEW p \in Peer, NEW s \in Sock,
             ReaderStops(p, s) \/ ReadsTooSoon(p, s) \/ ReadsTorn(p, s)
      PROVE  FileInv'
  BY <1>6, ReadsKeeps
<1>7. CASE UNCHANGED <<sent, pending, task, sq, wire, merged, finished>>
  <2>1. TypeOK'
    BY TypeStep DEF FileInv
  <2> QED BY <1>7, <2>1, QuietKeeps
<1>8. ASSUME \/ \E p \in Peer : \/ StatusResend(p)
                             \/ \E s \in Sock : Establish(p, s) \/ RecordAgain(p, s)
             \/ \E s \in Sock : CutCircuit(s)
             \/ UNCHANGED vars
      PROVE  UNCHANGED <<sent, pending, task, sq, wire, merged, finished>>
  BY <1>8 DEF StatusResend, Establish, RecordAgain, CutCircuit, vars, taskVars
<1> QED BY <1>1, <1>2, <1>3, <1>4, <1>5, <1>6, <1>7, <1>8 DEF Next

(* If no name is used for two files, a file DONE ended at its sender has been put together  *)
(* whole by its receiver (receiveFileDone, receiveAllFileShards), over any number of        *)
(* connections, whatever breaks, is lost or is sent again.                                 *)
THEOREM FinishedFilesAreReceived ==
  ASSUME ~ReuseNames
  PROVE  Spec => []DoneMeansReceived
<1>1. Init => FileInv
  BY FileInit
<1>2. FileInv /\ [Next]_vars => FileInv'
  BY FileStep
<1>3. FileInv => DoneMeansReceived
  BY DEF FileInv
<1> QED BY <1>1, <1>2, <1>3, PTL DEF Spec

-----------------------------------------------------------------------------
(* The two promises of the transfer of files: a piece its sender counts as    *)
(* acknowledged is stored at the receiver (AckedIsStored), and the whole       *)
(* protocol is an implementation of FileTransferAbs (KeepsPromise).            *)
(*                                                                         *)
(* Both are proved for names used once and for files announced over a          *)
(* connection.  A file that waited for one is announced by every walk that     *)
(* finds it waiting; the second announcement makes the receiver begin anew,    *)
(* with the pieces it had given up, and neither promise holds (README).        *)

(* What a task holds.  A sending task has its own content whole, and is only of a   *)
(* file that was announced; a receiving one has exactly the pieces it is said to    *)
(* have, each its own, and if it has all of them the file was put together.         *)
TaskRight(tk) ==
  /\ tk.way = "send" => /\ tk.status # 4
                        /\ tk.content = [i \in 1 .. Size(tk) |-> tk.of]
                        /\ tk.done \subseteq Stored(tk.of)
  /\ tk.way = "receive" => /\ tk.done = DOMAIN tk.content
                           /\ DOMAIN tk.content \subseteq 1 .. Size(tk)
                           /\ \A i \in DOMAIN tk.content : tk.content[i] = tk.of
                           /\ tk.done = 1 .. Size(tk) /\ Size(tk) # 0 => tk.of \in merged

(* A task not yet registered is as handleFileMessageSend made it, and the only one   *)
(* under its name.                                                                *)
PendingRight(p, n) ==
  /\ n \notin DOMAIN task[p]
  /\ pending[p][n] = SendTask(pending[p][n].of, Size(pending[p][n]), 0)

(* The pieces of an entry of sendQueue are pieces of the file it names.             *)
EntryRight(e) ==
  e.type = "DATA" =>
    \A i \in DOMAIN e.pieces : /\ sent[e.pieces[i]].name = e.name
                               /\ i \in 1 .. sent[e.pieces[i]].size

(* So is the piece of a cell; and an acknowledgement on its way to p is of a piece   *)
(* of p's file, which its receiver stores.                                         *)
CellRight(p, c) ==
  /\ c.type = "DATA" => sent[c.of].name = c.name /\ c.piece \in 1 .. sent[c.of].size
  /\ c.type = "ACK" =>
       \E t \in Transfer : sent[t].name = c.name /\ From(t) = p /\ c.piece \in Stored(t)

(* A file on the disk is no longer than the file of that name.                     *)
FileRight(n, file) ==
  \E t \in Transfer : sent[t].name = n /\ DOMAIN file \subseteq 1 .. sent[t].size

TasksRight  == \A p \in Peer : \A n \in DOMAIN task[p] : TaskRight(task[p][n])
PendingsRight == \A p \in Peer : \A n \in DOMAIN pending[p] : PendingRight(p, n)
QueuesRight == \A p \in Peer : \A e \in Range(sq[p]) : EntryRight(e)
WiresRight  == \A p \in Peer, s \in Sock : \A c \in Range(wire[p][s]) : CellRight(p, c)
DisksRight  == \A p \in Peer : \A n \in DOMAIN disk[p] : FileRight(n, disk[p][n])

(* Where t is announced in a queue or on a wire.                                   *)
Metas(seq, t) == {k \in DOMAIN seq : seq[k].type = "META" /\ seq[k].of = t}
Once(seq, t) == \A j, k \in Metas(seq, t) : j = k
None(seq, t) == Metas(seq, t) = {}

(* A file is announced once: its META is in the sendQueue or on one wire, and when    *)
(* the receiver has its task, or had it, there is none left.                        *)
AnnouncedOnce(t) ==
  /\ Once(sq[From(t)], t)
  /\ \A s \in Sock : /\ Once(wire[To(t)][s], t)
                     /\ None(sq[From(t)], t) \/ None(wire[To(t)][s], t)
  /\ \A r, s \in Sock : r = s \/ None(wire[To(t)][r], t) \/ None(wire[To(t)][s], t)
  /\ t \in merged \/ Receiving(t) =>
       None(sq[From(t)], t) /\ \A s \in Sock : None(wire[To(t)][s], t)

PromiseInv == /\ FileInv /\ TasksRight /\ PendingsRight /\ QueuesRight /\ WiresRight
              /\ DisksRight /\ \A t \in Transfer : AnnouncedOnce(t)

-----------------------------------------------------------------------------
(* What does not announce                                                    *)

(* t is not announced in new if it was not in old, and not twice; no file is.        *)
ShrinksFor(t, new, old) == /\ Once(old, t) => Once(new, t)
                           /\ None(old, t) => None(new, t)
Shrinks(new, old) == \A t : ShrinksFor(t, new, old)
WiresShrink(new, old)  == \A p \in Peer, s \in Sock : Shrinks(new[p][s], old[p][s])
QueuesShrink(new, old) == \A p \in Peer : Shrinks(new[p], old[p])

(* The cell taken from a wire, or the entry from sendQueue, announces nothing more.  *)
LEMMA TailShrinks ==
  ASSUME NEW S, NEW q \in Seq(S), q # <<>>
  PROVE  Shrinks(Tail(q), q)
<1>1. Len(q) \in Nat \ {0} /\ DOMAIN q = 1 .. Len(q) /\ DOMAIN Tail(q) = 1 .. Len(q) - 1
  OBVIOUS
<1>2. \A k \in DOMAIN Tail(q) : k + 1 \in DOMAIN q /\ Tail(q)[k] = q[k + 1]
  BY <1>1
<1>3. \A t : \A k \in Metas(Tail(q), t) : k \in Int /\ k + 1 \in Metas(q, t)
  BY <1>1, <1>2 DEF Metas
<1> QED BY <1>3 DEF Shrinks, ShrinksFor, Once, None

(* Nor does a wire that was emptied, or one as it was.                               *)
LEMMA EmptyShrinks == \A q : Shrinks(<<>>, q) /\ Shrinks(q, q)
BY DEF Shrinks, ShrinksFor, Once, None, Metas

(* Cells and entries that are not META announce nothing.                             *)
LEMMA JoinShrinksFor ==
  ASSUME NEW S, NEW q \in Seq(S), NEW r \in Seq(S), NEW t,
         \A e \in Range(r) : e.type = "META" => e.of # t
  PROVE  ShrinksFor(t, q \o r, q)
<1>1. \A k \in DOMAIN (q \o r) :
        \/ k \in DOMAIN q /\ (q \o r)[k] = q[k]
        \/ k - Len(q) \in DOMAIN r /\ (q \o r)[k] = r[k - Len(q)]
  OBVIOUS
<1>2. \A k \in DOMAIN r : r[k].type = "META" => r[k].of # t
  BY DEF Range
<1>3. Metas(q \o r, t) \subseteq Metas(q, t)
  BY <1>1, <1>2 DEF Metas
<1> QED BY <1>3 DEF ShrinksFor, Once, None

LEMMA JoinShrinks ==
  ASSUME NEW S, NEW q \in Seq(S), NEW r \in Seq(S), \A e \in Range(r) : e.type # "META"
  PROVE  Shrinks(q \o r, q)
BY JoinShrinksFor DEF Shrinks

LEMMA ShrinksOn ==
  ASSUME NEW a, NEW b, NEW c, Shrinks(a, b), Shrinks(b, c)
  PROVE  Shrinks(a, c)
BY DEF Shrinks, ShrinksFor

(* What p writes, takes or answers on a connection announces nothing if no cell is a  *)
(* META, and neither does deleting a connection.                                     *)
LEMMA JoinedShrinks ==
  ASSUME NEW w \in WireT, NEW p \in Peer, NEW s \in Sock, NEW cells \in Seq(Cells),
         \A c \in Range(cells) : c.type # "META"
  PROVE  WiresShrink([w EXCEPT ![Other(p)][s] = @ \o cells], w)
<1> DEFINE w2 == [w EXCEPT ![Other(p)][s] = @ \o cells]
<1> SUFFICES ASSUME NEW q \in Peer, NEW r \in Sock PROVE Shrinks(w2[q][r], w[q][r])
  BY DEF WiresShrink
<1>1. w2[q][r] = IF q = Other(p) /\ r = s THEN w[q][r] \o cells ELSE w[q][r]
  BY OtherPeer DEF WireT
<1>2. w[q][r] \in Seq(Cells)
  BY DEF WireT
<1> QED BY <1>1, <1>2, JoinShrinks, EmptyShrinks

LEMMA WroteShrinks ==
  ASSUME NEW w \in WireT, NEW p \in Peer, NEW s \in Sock, NEW cells \in Seq(Cells),
         \A c \in Range(cells) : c.type # "META"
  PROVE  WiresShrink(Wrote(w, p, s, cells), w)
BY JoinedShrinks, EmptyShrinks DEF Wrote, WiresShrink

LEMMA TakenShrinks ==
  ASSUME TypeOK, NEW p \in Peer, NEW s \in Sock, wire[p][s] # <<>>
  PROVE  WiresShrink(Taken(p, s), wire)
<1> SUFFICES ASSUME NEW q \in Peer, NEW r \in Sock PROVE Shrinks(Taken(p, s)[q][r], wire[q][r])
  BY DEF WiresShrink
<1>1. wire \in WireT /\ wire[q][r] \in Seq(Cells)
  BY TypeParts DEF WireT
<1>2. Taken(p, s)[q][r] = IF q = p /\ r = s THEN Tail(wire[q][r]) ELSE wire[q][r]
  BY <1>1 DEF Taken, WireT
<1> QED BY <1>1, <1>2, TailShrinks, EmptyShrinks

LEMMA DeleteShrinks ==
  ASSUME NEW w \in WireT, NEW p \in Peer, NEW s \in Sock, Delete(p, s, w), WiresShrink(w, wire)
  PROVE  WiresShrink(wire', wire)
<1> SUFFICES ASSUME NEW q \in Peer, NEW r \in Sock PROVE Shrinks(wire'[q][r], wire[q][r])
  BY DEF WiresShrink
<1>1. wire'[q][r] = IF q = p /\ r = s THEN <<>> ELSE w[q][r]
  BY DEF Delete, WireT
<1> QED BY <1>1, EmptyShrinks DEF WiresShrink

LEMMA ReplyShrinks ==
  ASSUME TypeOK, NEW p \in Peer, NEW s \in Sock, wire[p][s] # <<>>, NEW cells \in Seq(Cells),
         \A c \in Range(cells) : c.type # "META",
         Reply(p, s, cells) \/ ReplyFailsAfter(p, s, cells)
  PROVE  WiresShrink(wire', wire)
<1>1. wire \in WireT /\ Taken(p, s) \in WireT
  BY TypeParts, TakenEffect
<1>2. CASE Reply(p, s, cells)
  <2>1. WiresShrink(wire', Taken(p, s)) /\ WiresShrink(Taken(p, s), wire)
    BY <1>1, <1>2, WroteShrinks, TakenShrinks DEF Reply
  <2> QED BY <2>1, ShrinksOn DEF WiresShrink
<1>3. CASE ReplyFailsAfter(p, s, cells)
  <2> DEFINE w == IF Deleted(Other(p), s) THEN wire
                  ELSE [wire EXCEPT ![Other(p)][s] = @ \o cells]
  <2>1. Delete(p, s, w)
    BY <1>3 DEF ReplyFailsAfter
  <2>2. w \in WireT
    BY <1>1, JoinedEffect
  <2>3. WiresShrink(w, wire)
    BY <1>1, JoinedShrinks, EmptyShrinks DEF WiresShrink
  <2> HIDE DEF w
  <2> QED BY <2>1, <2>2, <2>3, DeleteShrinks
<1> QED BY <1>2, <1>3

-----------------------------------------------------------------------------
(* Steps the promise does not see                                            *)

(* A task keeps what it holds: only its status changes, and never back to "not started". *)
SameHeld(a, b) == /\ SameTask(a, b) /\ a.done = b.done /\ a.content = b.content
                  /\ a.status = b.status \/ a.status # 4
TasksKeep == \A q \in Peer : /\ DOMAIN task'[q] = DOMAIN task[q]
                             /\ \A m \in DOMAIN task[q] : SameHeld(task'[q][m], task[q][m])

(* What is stored and what is acknowledged is as it was.                             *)
Unseen == /\ UNCHANGED <<sent, merged, finished>>
          /\ \A t \in Transfer : Stored(t)' = Stored(t) /\ Acked(t)' = Acked(t)

(* The devices and the transfer of a task.                                           *)
LEMMA EndsOfTransfer ==
  ASSUME FileInv, NEW t \in Transfer
  PROVE  /\ sent[t].name \in Names /\ sent[t].size \in Nat
         /\ From(t) \in Peer /\ To(t) \in Peer /\ To(t) = Other(From(t)) /\ To(t) # From(t)
<1>1. sent[t] \in File
  BY TypeParts DEF FileInv
<1>2. From(t) \in Peer /\ sent[t].name \in Names /\ sent[t].size \in Nat
  BY <1>1, SizesAreNat DEF File, From
<1> QED BY <1>2, OtherPeer DEF From, To

LEMMA TasksKeepUnseen ==
  ASSUME FileInv, TasksKeep, UNCHANGED <<sent, merged, finished>>
  PROVE  /\ \A t \in Transfer : Receiving(t)' = Receiving(t) /\ Sending(t)' = Sending(t)
         /\ Unseen
<1> SUFFICES ASSUME NEW t \in Transfer
             PROVE  /\ Receiving(t)' = Receiving(t) /\ Sending(t)' = Sending(t)
                    /\ Stored(t)' = Stored(t) /\ Acked(t)' = Acked(t)
  BY DEF Unseen
<1>1. From(t) \in Peer /\ To(t) \in Peer /\ From(t)' = From(t) /\ To(t)' = To(t)
  BY EndsOfTransfer DEF From, To
<1>2. Receiving(t)' = Receiving(t) /\ Sending(t)' = Sending(t)
  BY <1>1 DEF Receiving, Sending, TasksKeep, SameHeld, SameTask
<1>3. Receiving(t) => ReceiverTask(t)'.content = ReceiverTask(t).content
  BY <1>1 DEF Receiving, ReceiverTask, TasksKeep, SameHeld
<1>4. Sending(t) => SenderTask(t)'.done = SenderTask(t).done
  BY <1>1 DEF Sending, SenderTask, TasksKeep, SameHeld
<1>5. Stored(t)' = Stored(t)
  BY <1>2, <1>3 DEF Stored
<1>6. Acked(t)' = Acked(t)
  BY <1>2, <1>4 DEF Acked
<1> QED BY <1>2, <1>5, <1>6

LEMMA TasksKeepRight ==
  ASSUME FileInv, TasksRight, TasksKeep, Unseen
  PROVE  TasksRight'
<1> SUFFICES ASSUME NEW q \in Peer, NEW m \in DOMAIN task[q] PROVE TaskRight(task[q][m])'
  BY DEF TasksRight, TasksKeep
<1> DEFINE old == task[q][m]
<1>1. TaskRight(old) /\ SameHeld(task'[q][m], old) /\ old.of \in Transfer
  BY DEF TasksRight, TasksKeep, FileInv, TasksOk, TaskOk
<1>2. PICK t \in Transfer : t = old.of /\ t = task'[q][m].of
  BY <1>1 DEF SameHeld, SameTask
<1>3. Stored(t)' = Stored(t) /\ sent' = sent /\ merged' = merged
  BY DEF Unseen
<1>4. old.done \subseteq Stored(t) <=> task'[q][m].done \subseteq Stored(t)'
  BY <1>1, <1>3 DEF SameHeld
<1>5. Stored(t) = Stored(old.of) /\ Stored(t)' = Stored(old.of)'
  BY <1>2
<1> QED BY <1>1, <1>2, <1>3, <1>4, <1>5 DEF TaskRight, SameHeld, SameTask, Size

(* The tasks as they are keep what they hold.                                        *)
LEMMA UnchangedTasksKeep == task' = task => TasksKeep
BY DEF TasksKeep, SameHeld, SameTask

(* The cells on the wires stay right while nothing stored is lost.                    *)
LEMMA WiresStayRight ==
  ASSUME WiresRight, sent' = sent, \A t \in Transfer : Stored(t) \subseteq Stored(t)',
         NEW p, NEW s, NEW cells, Gains(wire, wire', p, s, cells),
         \A c \in Range(cells) : CellRight(Other(p), c)'
  PROVE  WiresRight'
<1> SUFFICES ASSUME NEW q \in Peer, NEW r \in Sock, NEW c \in Range(wire'[q][r])
             PROVE  CellRight(q, c)'
  BY DEF WiresRight
<1>1. CASE c \in Range(wire[q][r])
  <2>1. CellRight(q, c)
    BY <1>1 DEF WiresRight
  <2> QED BY <2>1 DEF CellRight, From, Transfer
<1>2. CASE q = Other(p) /\ c \in Range(cells)
  BY <1>2
<1> QED BY <1>1, <1>2 DEF Gains

(* The entries of the queues stay right if the new ones are.                          *)
LEMMA QueuesStayRight ==
  ASSUME QueuesRight, sent' = sent,
         \A q \in Peer : \A e \in Range(sq'[q]) : e \in Range(sq[q]) \/ EntryRight(e)
  PROVE  QueuesRight'
<1>1. ASSUME NEW q \in Peer, NEW e \in Range(sq'[q]) PROVE EntryRight(e)'
  BY DEF QueuesRight, EntryRight
<1> QED BY <1>1 DEF QueuesRight

(* A file is announced once when nothing announces it again and no task is made for it.  *)
LEMMA ShrinkForKeepsOnce ==
  ASSUME FileInv, NEW t \in Transfer, AnnouncedOnce(t), sent'[t] = sent[t],
         \A p \in Peer : ShrinksFor(t, sq'[p], sq[p]),
         \A p \in Peer, s \in Sock : ShrinksFor(t, wire'[p][s], wire[p][s]),
         t \in merged' \/ Receiving(t)' => t \in merged \/ Receiving(t)
  PROVE  AnnouncedOnce(t)'
<1>1. From(t) \in Peer /\ To(t) \in Peer /\ From(t)' = From(t) /\ To(t)' = To(t)
  BY EndsOfTransfer DEF From, To
<1>2. /\ Once(sq[From(t)], t) => Once(sq'[From(t)], t)
      /\ None(sq[From(t)], t) => None(sq'[From(t)], t)
  BY <1>1 DEF ShrinksFor
<1>3. \A s \in Sock : /\ Once(wire[To(t)][s], t) => Once(wire'[To(t)][s], t)
                      /\ None(wire[To(t)][s], t) => None(wire'[To(t)][s], t)
  BY <1>1 DEF ShrinksFor
<1> QED BY <1>1, <1>2, <1>3 DEF AnnouncedOnce

LEMMA ShrinkKeepsOnce ==
  ASSUME FileInv, sent' = sent, QueuesShrink(sq', sq), WiresShrink(wire', wire),
         NEW t \in Transfer, AnnouncedOnce(t),
         t \in merged' \/ Receiving(t)' => t \in merged \/ Receiving(t)
  PROVE  AnnouncedOnce(t)'
BY ShrinkForKeepsOnce DEF QueuesShrink, WiresShrink, Shrinks

LEMMA UnchangedShrinks ==
  /\ sq' = sq => QueuesShrink(sq', sq)
  /\ wire' = wire => WiresShrink(wire', wire)
BY EmptyShrinks DEF QueuesShrink, WiresShrink

(* A step that leaves every task what it holds, writes what is right and announces   *)
(* nothing twice keeps the invariant, and the promise does not see it.                *)
LEMMA UnseenKeeps ==
  ASSUME PromiseInv, FileInv', UNCHANGED <<sent, pending, disk, merged, finished>>,
         TasksKeep, QueuesRight', \A t \in Transfer : AnnouncedOnce(t)',
         NEW p, NEW s, NEW cells, Gains(wire, wire', p, s, cells),
         \A c \in Range(cells) : CellRight(Other(p), c)
  PROVE  PromiseInv' /\ Unseen
<1>1. Unseen
  BY TasksKeepUnseen DEF PromiseInv
<1>2. TasksRight'
  BY <1>1, TasksKeepRight DEF PromiseInv
<1>3. PendingsRight'
  BY DEF PromiseInv, PendingsRight, PendingRight, TasksKeep, Size
<1>4. \A c \in Range(cells) : CellRight(Other(p), c)'
  BY <1>1 DEF Unseen, CellRight, From, Transfer
<1>5. WiresRight'
  BY <1>1, <1>4, WiresStayRight DEF PromiseInv, Unseen
<1>6. DisksRight'
  BY DEF PromiseInv, DisksRight, FileRight, Transfer
<1>7. \A t \in Transfer' : AnnouncedOnce(t)'
  BY DEF Transfer
<1> QED BY <1>1, <1>2, <1>3, <1>5, <1>6, <1>7 DEF PromiseInv

(* Connections come and go without touching tasks, queues or wires.                   *)
LEMMA QuietPromise ==
  ASSUME PromiseInv, FileInv',
         UNCHANGED <<sent, pending, task, disk, sq, wire, merged, finished>>
  PROVE  PromiseInv' /\ Unseen
<1>1. Gains(wire, wire', A, 0, <<>>) /\ \A c \in Range(<<>>) : CellRight(Other(A), c)
  BY RangeOfEmpty DEF Gains
<1>2. TasksKeep
  BY UnchangedTasksKeep
<1>3. QueuesRight'
  BY QueuesStayRight DEF PromiseInv
<1>4. QueuesShrink(sq', sq) /\ WiresShrink(wire', wire)
  BY UnchangedShrinks
<1>5. ASSUME NEW t \in Transfer PROVE AnnouncedOnce(t)'
  <2>1. Receiving(t)' = Receiving(t)
    BY <1>2, TasksKeepUnseen DEF PromiseInv
  <2> QED BY <1>4, <2>1, ShrinkKeepsOnce DEF PromiseInv
<1> HIDE DEF PromiseInv
<1> QED BY <1>1, <1>2, <1>3, <1>5, UnseenKeeps

(* The same with tasks that keep what they hold, and queues and wires that announce    *)
(* nothing more.                                                                     *)
LEMMA ShrinkPromise ==
  ASSUME PromiseInv, FileInv', UNCHANGED <<sent, pending, disk, merged, finished>>,
         TasksKeep, QueuesRight', QueuesShrink(sq', sq), WiresShrink(wire', wire),
         NEW p, NEW s, NEW cells, Gains(wire, wire', p, s, cells),
         \A c \in Range(cells) : CellRight(Other(p), c)
  PROVE  PromiseInv' /\ Unseen
<1>1. ASSUME NEW t \in Transfer PROVE AnnouncedOnce(t)'
  <2>1. Receiving(t)' = Receiving(t)
    BY TasksKeepUnseen DEF PromiseInv
  <2> QED BY <2>1, ShrinkKeepsOnce DEF PromiseInv
<1> QED BY <1>1, UnseenKeeps

LEMMA StopsReadingPromise ==
  ASSUME PromiseInv, FileInv', NEW p \in Peer, NEW s \in Sock, NEW forFiles,
         StopsReading(p, s, forFiles)
  PROVE  PromiseInv' /\ Unseen
<1>1. TypeOK /\ UNCHANGED <<sent, pending, disk, merged, finished, sq>>
  BY DEF StopsReading, PromiseInv, FileInv
<1>2. TasksKeep
  <2>1. CASE task' = [task EXCEPT ![p] = Stopped(@)]
    <3>1. task \in TaskT /\ task[p] \in Partial(Names, Task)
      BY <1>1, TypeParts DEF TaskT
    <3>2. \A q \in Peer : task'[q] = IF q = p THEN Stopped(task[p]) ELSE task[q]
      BY <2>1, <3>1 DEF TaskT
    <3>3. DOMAIN Stopped(task[p]) = DOMAIN task[p]
      BY DEF Stopped
    <3>4. ASSUME NEW m \in DOMAIN task[p] PROVE SameHeld(Stopped(task[p])[m], task[p][m])
      <4>1. task[p][m] \in Task
        BY <3>1, PartialValue
      <4> QED BY <4>1 DEF Stopped, SameHeld, SameTask, Task
    <3>5. \A q \in Peer : \A m \in DOMAIN task[q] : SameHeld(task[q][m], task[q][m])
      BY DEF SameHeld, SameTask
    <3> QED BY <3>2, <3>3, <3>4, <3>5 DEF TasksKeep
  <2> QED BY <2>1, UnchangedTasksKeep DEF StopsReading
<1>3. WiresShrink(wire', wire)
  BY <1>1, DeleteShrinks, UnchangedShrinks, TypeParts, EmptyShrinks DEF StopsReading, WiresShrink
<1>4. Gains(wire, wire', p, s, <<>>) /\ \A c \in Range(<<>>) : CellRight(Other(p), c)
  BY <1>1, StopsReadingEffect, RangeOfEmpty
<1>5. QueuesRight' /\ QueuesShrink(sq', sq)
  BY <1>1, QueuesStayRight, UnchangedShrinks DEF PromiseInv
<1> QED BY <1>1, <1>2, <1>3, <1>4, <1>5, ShrinkPromise

(* What the Writer leaves of a run of pieces is still of the file the entry names.    *)
LEMMA RestPromise ==
  ASSUME TypeOK, QueuesRight, sent' = sent, NEW p \in Peer, sq[p] # <<>>, NEW i,
         sq' = [sq EXCEPT ![p] = Rest(p, i)]
  PROVE  QueuesRight' /\ QueuesShrink(sq', sq)
<1> DEFINE q == sq[p]
           e == Head(q)
           less == [e EXCEPT !.pieces = Without(@, i)]
<1>1. /\ q \in Seq(Queued) /\ Len(q) \in Nat \ {0} /\ e = q[1] /\ e \in Queued /\ e \in Range(q)
      /\ \A r \in Peer : sq'[r] = IF r = p THEN Rest(p, i) ELSE sq[r]
  <2>1. sq \in QueueT /\ q \in Seq(Queued)
    BY TypeParts DEF QueueT
  <2>2. Len(q) \in Nat \ {0} /\ e = q[1] /\ e \in Queued /\ 1 \in DOMAIN q
    BY <2>1
  <2> QED BY <2>1, <2>2 DEF QueueT, Range
<1>2. \/ Rest(p, i) = Tail(q)
      \/ Rest(p, i) = [q EXCEPT ![1] = less]
  BY <1>1 DEF Rest
<1>3. EntryRight(less)
  <2>1. EntryRight(e)
    BY <1>1 DEF QueuesRight
  <2>2. less.type = e.type /\ less.name = e.name /\ less.pieces = Without(e.pieces, i)
    BY <1>1 DEF Queued
  <2> QED BY <2>1, <2>2 DEF EntryRight, Without
<1>4. CASE Rest(p, i) = Tail(q)
  <2>1. Range(Tail(q)) \subseteq Range(q)
    BY <1>1 DEF Range
  <2>2. Shrinks(Tail(q), q)
    BY <1>1, TailShrinks
  <2> QED BY <1>1, <1>4, <2>1, <2>2, QueuesStayRight, EmptyShrinks DEF QueuesShrink
<1>5. CASE Rest(p, i) = [q EXCEPT ![1] = less]
  <2> DEFINE rest == [q EXCEPT ![1] = less]
  <2>1. DOMAIN rest = DOMAIN q /\ \A k \in DOMAIN q : rest[k] = IF k = 1 THEN less ELSE q[k]
    BY <1>1
  <2>2. \A x \in Range(rest) : x \in Range(q) \/ x = less
    BY <2>1 DEF Range
  <2>3. less.type = e.type /\ less.of = e.of
    BY <1>1 DEF Queued
  <2>4. \A t : Metas(rest, t) = Metas(q, t)
    BY <1>1, <2>1, <2>3 DEF Metas
  <2>5. Shrinks(rest, q)
    BY <2>4 DEF Shrinks, ShrinksFor, Once, None
  <2>6. \A r \in Peer : sq'[r] = IF r = p THEN rest ELSE sq[r]
    BY <1>1, <1>5
  <2> HIDE DEF rest, less
  <2>7. QueuesRight'
    BY <1>3, <2>2, <2>6, QueuesStayRight
  <2> QED BY <2>5, <2>6, <2>7, EmptyShrinks DEF QueuesShrink
<1> QED BY <1>2, <1>4, <1>5

LEMMA WriteFailsPromise ==
  ASSUME PromiseInv, FileInv', NEW p \in Peer, WriteFails(p)
  PROVE  PromiseInv' /\ Unseen
<1> DEFINE e == Head(sq[p])
<1>1. TypeOK /\ UNCHANGED <<sent, pending, task, disk, merged, finished>>
  BY DEF WriteFails, taskVars, PromiseInv, FileInv
<1>2. e \in Queued /\ e.sock \in Sock
  BY <1>1, TypeParts DEF QueueT, Queued, WriteFails
<1>3. PICK i \in {0} \cup DOMAIN e.pieces : sq' = [sq EXCEPT ![p] = Rest(p, i)]
  BY DEF WriteFails
<1>4. QueuesRight' /\ QueuesShrink(sq', sq)
  <2>1. sq[p] # <<>>
    BY DEF WriteFails
  <2> QED BY <1>1, <1>3, <2>1, RestPromise DEF PromiseInv
<1>5. WiresShrink(wire', wire)
  BY <1>1, <1>2, DeleteShrinks, TypeParts, EmptyShrinks DEF WriteFails, WiresShrink
<1>6. PICK s \in Sock : Gains(wire, wire', p, s, <<>>)
  BY <1>1, WriteFailsEffect
<1>7. \A c \in Range(<<>>) : CellRight(Other(p), c)
  BY RangeOfEmpty
<1>8. TasksKeep
  BY <1>1, UnchangedTasksKeep
<1> QED BY <1>1, <1>4, <1>5, <1>6, <1>7, <1>8, ShrinkPromise

(* The cell the Writer makes of an entry is right, and announces what the entry does. *)
LEMMA CellsOfRight ==
  ASSUME FileInv, QueuesRight, NEW p \in Peer, NEW e \in Range(sq[p]), e \in Queued,
         NEW i \in {0} \cup DOMAIN e.pieces, NextPiece(e, i)
  PROVE  /\ \A c \in Range(CellsOf(e, i)) : CellRight(Other(p), c)
         /\ e.type # "META" => \A c \in Range(CellsOf(e, i)) : c.type # "META"
         /\ e.type = "META" => CellsOf(e, i) = <<Cell("META", e.name, 0, e.of)>>
<1>1. CASE e.type = "META"
  <2>1. CellsOf(e, i) = <<Cell("META", e.name, 0, e.of)>>
    BY <1>1 DEF CellsOf
  <2>2. \A c \in Range(CellsOf(e, i)) : c.type = "META"
    BY <2>1 DEF Range, Cell
  <2> QED BY <1>1, <2>1, <2>2 DEF CellRight
<1>2. CASE e.type = "DATA"
  <2>1. CellsOf(e, i) = <<Cell("DATA", e.name, i, e.pieces[i])>>
    BY <1>2 DEF CellsOf
  <2>2. \A c \in Range(CellsOf(e, i)) :
          c.type = "DATA" /\ c.name = e.name /\ c.piece = i /\ c.of = e.pieces[i]
    BY <2>1 DEF Range, Cell
  <2>3. i \in DOMAIN e.pieces /\ EntryRight(e)
    BY <1>2 DEF NextPiece, QueuesRight
  <2> QED BY <1>2, <2>2, <2>3 DEF CellRight, EntryRight
<1>3. CASE e.type \notin {"META", "DATA"}
  <2>1. CellsOf(e, i) = <<>>
    BY <1>3 DEF CellsOf
  <2> QED BY <1>3, <2>1, RangeOfEmpty
<1> QED BY <1>1, <1>2, <1>3

(* One cell more comes after the others.                                             *)
LEMMA JoinDomain ==
  ASSUME NEW S, NEW q \in Seq(S), NEW r \in Seq(S)
  PROVE  DOMAIN (q \o r) = 1 .. Len(q) + Len(r) /\ Len(q) \in Nat
OBVIOUS

LEMMA JoinOne ==
  ASSUME NEW S, NEW q \in Seq(S), NEW r \in Seq(S), Len(r) = 1
  PROVE  \A k \in DOMAIN (q \o r) :
           (k \in DOMAIN q /\ (q \o r)[k] = q[k]) \/ k = Len(q) + 1
<1>1. DOMAIN (q \o r) = 1 .. Len(q) + 1 /\ Len(q) \in Nat
  BY JoinDomain
<1>2. DOMAIN q = 1 .. Len(q) /\ \A k \in 1 .. Len(q) : (q \o r)[k] = q[k]
  OBVIOUS
<1>3. \A k \in 1 .. Len(q) + 1 : k \in 1 .. Len(q) \/ k = Len(q) + 1
  BY <1>1
<1> QED BY <1>1, <1>2, <1>3

(* META leaves the queue for one wire of the other device: it is announced once all   *)
(* the same.                                                                         *)
LEMMA MetaMoves ==
  ASSUME FileInv, NEW t \in Transfer, AnnouncedOnce(t), UNCHANGED <<sent, merged>>,
         Receiving(t)' => Receiving(t), NEW s \in Sock, NEW cells \in Seq(Cells),
         sq[From(t)] # <<>>, Head(sq[From(t)]).type = "META", Head(sq[From(t)]).of = t,
         sq' = [sq EXCEPT ![From(t)] = Tail(@)],
         Len(cells) = 1,
         \/ wire' = wire
         \/ wire' = [wire EXCEPT ![To(t)][s] = @ \o cells]
  PROVE  AnnouncedOnce(t)'
<1> DEFINE p == From(t)
           q == To(t)
<1>1. /\ p \in Peer /\ q \in Peer /\ p' = p /\ q' = q
      /\ sq[p] \in Seq(Queued) /\ \A r \in Sock : wire[q][r] \in Seq(Cells)
  BY EndsOfTransfer, TypeParts DEF From, To, FileInv, QueueT, WireT
<1>2. /\ sq'[p] = Tail(sq[p])
      /\ \A r \in Sock : \/ wire'[q][r] = wire[q][r]
                         \/ r = s /\ wire'[q][r] = wire[q][r] \o cells
  <2>1. sq \in QueueT /\ wire \in WireT
    BY TypeParts DEF FileInv
  <2> HIDE DEF p, q
  <2>2. sq'[p] = Tail(sq[p])
    BY <1>1, <2>1 DEF p, QueueT
  <2>3. CASE wire' = wire
    BY <2>2, <2>3
  <2>4. CASE wire' = [wire EXCEPT ![q][s] = @ \o cells]
    <3>1. \A r \in Sock : wire'[q][r] = IF r = s THEN wire[q][r] \o cells ELSE wire[q][r]
      BY <1>1, <2>1, <2>4 DEF WireT
    <3> QED BY <2>2, <3>1
  <2> QED BY <2>3, <2>4 DEF q
<1>3. Len(sq[p]) \in Nat \ {0} /\ DOMAIN sq[p] = 1 .. Len(sq[p]) /\ 1 \in Metas(sq[p], t)
  BY <1>1 DEF Metas
<1>4. None(sq'[p], t)
  <2>1. \A k \in Metas(Tail(sq[p]), t) : k \in Nat \ {0} /\ k + 1 \in Metas(sq[p], t)
    BY <1>1, <1>3 DEF Metas
  <2>2. Once(sq[p], t)
    BY DEF AnnouncedOnce
  <2> QED BY <1>2, <1>3, <2>1, <2>2 DEF Once, None
<1>5. /\ \A r \in Sock : None(wire[q][r], t)
      /\ ~(t \in merged \/ Receiving(t))
  BY <1>3 DEF AnnouncedOnce, None
<1>6. \A r \in Sock : None(wire'[q][r], t) \/ r = s
  BY <1>2, <1>5
<1>7. \A r \in Sock : Once(wire'[q][r], t)
  <2> SUFFICES ASSUME NEW r \in Sock PROVE Once(wire'[q][r], t)
    OBVIOUS
  <2>1. CASE wire'[q][r] = wire[q][r]
    BY <1>5, <2>1 DEF Once, None
  <2>2. CASE wire'[q][r] = wire[q][r] \o cells
    <3>1. \A k \in DOMAIN (wire[q][r] \o cells) :
            \/ k \in DOMAIN wire[q][r] /\ (wire[q][r] \o cells)[k] = wire[q][r][k]
            \/ k = Len(wire[q][r]) + 1
      BY <1>1, JoinOne
    <3>2. Metas(wire[q][r] \o cells, t) \subseteq {Len(wire[q][r]) + 1}
      BY <1>5, <3>1 DEF Metas, None
    <3> QED BY <2>2, <3>2 DEF Once
  <2> QED BY <1>2, <2>1, <2>2
<1>8. ~(t \in merged' \/ Receiving(t)')
  BY <1>5
<1>9. Once(sq'[p], t)
  BY <1>4 DEF None, Once
<1> QED BY <1>1, <1>4, <1>6, <1>7, <1>8, <1>9 DEF AnnouncedOnce

LEMMA WritePromise ==
  ASSUME PromiseInv, FileInv', NEW p \in Peer, Write(p)
  PROVE  PromiseInv' /\ Unseen
<1> DEFINE e == Head(sq[p])
<1>1. /\ FileInv /\ TypeOK /\ UNCHANGED <<sent, pending, task, disk, merged, finished>>
      /\ sq[p] # <<>>
  BY DEF Write, taskVars, PromiseInv, FileInv
<1>2. /\ sq[p] \in Seq(Queued) /\ e \in Queued /\ e.sock \in Sock /\ e \in Range(sq[p])
      /\ wire \in WireT
  <2>1. sq[p] \in Seq(Queued) /\ wire \in WireT
    BY <1>1, TypeParts DEF QueueT
  <2>2. e \in Queued /\ e = sq[p][1] /\ 1 \in DOMAIN sq[p]
    BY <1>1, <2>1
  <2> QED BY <2>1, <2>2 DEF Queued, Range
<1>3. PICK i \in {0} \cup DOMAIN e.pieces :
        /\ NextPiece(e, i)
        /\ sq' = [sq EXCEPT ![p] = Rest(p, i)]
        /\ wire' = Wrote(wire, p, e.sock, CellsOf(e, i))
  BY DEF Write
<1> DEFINE s == e.sock
           cells == CellsOf(e, i)
<1>4. cells \in Seq(Cells)
  BY <1>2, <1>3, CellsOfType
<1>5. /\ \A c \in Range(cells) : CellRight(Other(p), c)
      /\ e.type # "META" => \A c \in Range(cells) : c.type # "META"
      /\ e.type = "META" => cells = <<Cell("META", e.name, 0, e.of)>>
  <2> HIDE DEF e
  <2> QED BY <1>1, <1>2, <1>3, CellsOfRight DEF PromiseInv
<1>6. Gains(wire, wire', p, s, cells)
  BY <1>2, <1>3, <1>4, WroteEffect
<1>7. QueuesRight' /\ QueuesShrink(sq', sq)
  BY <1>1, <1>3, RestPromise DEF PromiseInv
<1>8. TasksKeep
  BY <1>1, UnchangedTasksKeep
<1>9. CASE e.type # "META"
  <2>1. WiresShrink(wire', wire)
    BY <1>2, <1>3, <1>4, <1>5, <1>9, WroteShrinks
  <2> HIDE DEF cells, s, e
  <2> QED BY <1>1, <1>5, <1>6, <1>7, <1>8, <2>1, ShrinkPromise
<1>10. CASE e.type = "META"
  <2>1. ASSUME NEW t \in Transfer PROVE AnnouncedOnce(t)'
    <3>1. AnnouncedOnce(t) /\ Receiving(t)' = Receiving(t)
      BY <1>1, <1>8, TasksKeepUnseen DEF PromiseInv
    <3>2. \/ wire' = wire
          \/ wire' = [wire EXCEPT ![Other(p)][s] = @ \o cells]
      BY <1>3 DEF Wrote
    <3>3. CASE e.of = t
      <4>1. p = From(t)
        <5>1. EntryOk(p, e)
          BY <1>2 DEF PromiseInv, FileInv, QueuesOk
        <5> QED BY <1>10, <3>3, <5>1 DEF EntryOk
      <4>2. To(t) = Other(p)
        BY <4>1 DEF To, From
      <4>3. Rest(p, i) = Tail(sq[p])
        BY <1>2, <1>10 DEF Rest, Queued
      <4>4. sq' = [sq EXCEPT ![p] = Tail(@)]
        BY <1>3, <4>3
      <4>5. Len(cells) = 1
        BY <1>5, <1>10
      <4>6. sq[From(t)] # <<>> /\ sq' = [sq EXCEPT ![From(t)] = Tail(@)]
        BY <1>1, <4>1, <4>4
      <4>7. Head(sq[From(t)]).type = "META" /\ Head(sq[From(t)]).of = t
        BY <1>10, <3>3, <4>1
      <4>8. wire' = wire \/ wire' = [wire EXCEPT ![To(t)][s] = @ \o cells]
        BY <3>2, <4>2
      <4>9. FileInv /\ UNCHANGED <<sent, merged>> /\ s \in Sock
        BY <1>1, <1>2
      <4> HIDE DEF cells, s
      <4> QED BY <1>4, <3>1, <4>5, <4>6, <4>7, <4>8, <4>9, MetaMoves
    <3>4. CASE e.of # t
      <4>1. \A c \in Range(cells) : c.of # t
        BY <1>5, <1>10, <3>4 DEF Range, Cell
      <4>2. \A q \in Peer, r \in Sock : ShrinksFor(t, wire'[q][r], wire[q][r])
        <5> SUFFICES ASSUME NEW q \in Peer, NEW r \in Sock
                     PROVE  ShrinksFor(t, wire'[q][r], wire[q][r])
          OBVIOUS
        <5>1. wire[q][r] \in Seq(Cells)
          BY <1>2 DEF WireT
        <5> HIDE DEF cells, s, e
        <5>2. wire'[q][r] = wire[q][r] \/ wire'[q][r] = wire[q][r] \o cells
          <6>1. CASE wire' = wire
            BY <6>1
          <6>2. CASE wire' = [wire EXCEPT ![Other(p)][s] = @ \o cells]
            BY <1>2, <6>2, OtherPeer DEF WireT
          <6> QED BY <3>2, <6>1, <6>2
        <5>3. ShrinksFor(t, wire[q][r], wire[q][r])
          BY EmptyShrinks DEF Shrinks
        <5>4. ShrinksFor(t, wire[q][r] \o cells, wire[q][r])
          BY <1>4, <4>1, <5>1, JoinShrinksFor
        <5> QED BY <5>2, <5>3, <5>4
      <4>3. \A q \in Peer : ShrinksFor(t, sq'[q], sq[q])
        BY <1>7 DEF QueuesShrink, Shrinks
      <4> QED BY <1>1, <3>1, <4>2, <4>3, ShrinkForKeepsOnce
    <3> QED BY <3>3, <3>4
  <2> HIDE DEF cells, s, e
  <2> QED BY <1>1, <1>5, <1>6, <1>7, <1>8, <2>1, UnseenKeeps
<1> QED BY <1>9, <1>10

-----------------------------------------------------------------------------
(* Sending                                                                   *)

(* Pieces queued from a sending task are pieces of its file.                          *)
LEMMA DataEntriesRight ==
  ASSUME FileInv, TasksRight, NEW p \in Peer, NEW n \in DOMAIN task[p],
         task[p][n].way = "send", NEW s, NEW pieces,
         DOMAIN pieces \subseteq DOMAIN task[p][n].content,
         \A i \in DOMAIN pieces : pieces[i] = task[p][n].content[i]
  PROVE  \A e \in Range(DataEntries(s, n, pieces)) : EntryRight(e) /\ e.type = "DATA"
<1> DEFINE tk == task[p][n]
<1>1. TaskRight(tk) /\ TaskOk(p, n, tk)
  BY DEF TasksRight, FileInv, TasksOk
<1>2. \A i \in DOMAIN pieces : i \in 1 .. sent[tk.of].size /\ pieces[i] = tk.of
  BY <1>1 DEF TaskRight, Size
<1>3. sent[tk.of].name = n
  BY <1>1 DEF TaskOk
<1>4. ASSUME NEW e \in Range(DataEntries(s, n, pieces))
      PROVE  e.type = "DATA" /\ e.name = n /\ e.pieces = pieces
  BY <1>4 DEF DataEntries, Entry, Range
<1> QED BY <1>2, <1>3, <1>4 DEF EntryRight

(* A task that is continued keeps what it holds.                                      *)
LEMMA ContinuedKeeps ==
  ASSUME TypeOK, NEW p \in Peer, NEW n \in DOMAIN task[p],
         task' = [task EXCEPT ![p][n].status = 1]
  PROVE  TasksKeep
<1>1. task \in TaskT /\ task[p] \in Partial(Names, Task)
  BY TypeParts DEF TaskT
<1>2. \A q \in Peer : task'[q] = IF q = p THEN [task[p] EXCEPT ![n].status = 1] ELSE task[q]
  BY <1>1 DEF TaskT
<1>3. \A q \in Peer : \A m \in DOMAIN task[q] : SameHeld(task[q][m], task[q][m])
  BY DEF SameHeld, SameTask
<1>4. ASSUME NEW m \in DOMAIN task[p]
      PROVE  SameHeld([task[p] EXCEPT ![n].status = 1][m], task[p][m])
  <2>1. task[p][m] \in Task
    BY <1>1, PartialValue
  <2>2. [task[p] EXCEPT ![n].status = 1][m]
          = IF m = n THEN [task[p][m] EXCEPT !.status = 1] ELSE task[p][m]
    OBVIOUS
  <2> QED BY <2>1, <2>2 DEF SameHeld, SameTask, Task
<1>5. DOMAIN [task[p] EXCEPT ![n].status = 1] = DOMAIN task[p]
  OBVIOUS
<1> QED BY <1>2, <1>3, <1>4, <1>5 DEF TasksKeep

(* Entries that are not META announce nothing more.                                   *)
LEMMA QueueJoinedShrinks ==
  ASSUME sq \in QueueT, NEW p \in Peer, NEW entries \in Seq(Queued),
         \A e \in Range(entries) : e.type # "META",
         sq' = [sq EXCEPT ![p] = @ \o entries]
  PROVE  QueuesShrink(sq', sq)
<1> SUFFICES ASSUME NEW q \in Peer PROVE Shrinks(sq'[q], sq[q])
  BY DEF QueuesShrink
<1>1. sq[q] \in Seq(Queued) /\ sq'[q] = IF q = p THEN sq[q] \o entries ELSE sq[q]
  BY DEF QueueT
<1> QED BY <1>1, JoinShrinks, EmptyShrinks

(* Pieces queued to be sent, and their task continued: tryResend and sendFileShards.   *)
LEMMA ContinuePromise ==
  ASSUME PromiseInv, FileInv', UNCHANGED <<sent, pending, disk, merged, finished>>,
         NEW p \in Peer, NEW n \in DOMAIN task[p], n \in Names, task[p][n].way = "send",
         NEW s \in Sock, NEW pieces \in Partial(Piece, Transfer),
         DOMAIN pieces \subseteq DOMAIN task[p][n].content,
         \A i \in DOMAIN pieces : pieces[i] = task[p][n].content[i],
         task' = [task EXCEPT ![p][n].status = 1],
         sq' = [sq EXCEPT ![p] = @ \o DataEntries(s, n, pieces)],
         WiresShrink(wire', wire), NEW r, Gains(wire, wire', p, r, <<>>)
  PROVE  PromiseInv' /\ Unseen
<1> DEFINE entries == DataEntries(s, n, pieces)
<1>1. FileInv /\ TypeOK /\ TasksRight /\ QueuesRight /\ sq \in QueueT
  BY TypeParts DEF PromiseInv, FileInv
<1>2. /\ entries \in Seq(Queued)
      /\ \A e \in Range(entries) : EntryRight(e) /\ e.type # "META"
  BY <1>1, DataEntriesType, DataEntriesRight
<1>3. TasksKeep
  BY <1>1, ContinuedKeeps
<1> HIDE DEF entries
<1>4. QueuesShrink(sq', sq)
  BY <1>1, <1>2, QueueJoinedShrinks DEF entries
<1>5. \A q \in Peer : Range(sq'[q]) \subseteq
        Range(sq[q]) \cup (IF q = p THEN Range(entries) ELSE {})
  BY <1>1, <1>2, QueueJoined DEF entries
<1>6. QueuesRight'
  BY <1>1, <1>2, <1>5, QueuesStayRight
<1>7. \A c \in Range(<<>>) : CellRight(Other(p), c)
  BY RangeOfEmpty
<1> QED BY <1>3, <1>4, <1>6, <1>7, ShrinkPromise

LEMMA WalkStepPromise ==
  ASSUME PromiseInv, FileInv', NEW p \in Peer, NEW thread \in Thread, WalkStep(p, thread)
  PROVE  PromiseInv' /\ Unseen
<1>1. /\ FileInv /\ TypeOK
      /\ UNCHANGED <<sent, pending, disk, merged, finished, wire>>
  BY DEF WalkStep, PromiseInv, FileInv
<1>2. PICK n \in walk[p][thread].todo :
        CASE n \in DOMAIN task[p] /\ task[p][n].way = "send" ->
               Resend(p, thread, n) /\ Walked(p, thread, n)
          [] n \in DOMAIN task[p] /\ task[p][n].way = "receive" /\ task[p][n].status = 0 ->
               walk' = [walk EXCEPT ![p][thread] = NoWalk] /\ UNCHANGED <<sq, task>>
          [] OTHER -> Walked(p, thread, n) /\ UNCHANGED <<sq, task>>
  BY DEF WalkStep
<1>3. \/ /\ n \in DOMAIN task[p] /\ task[p][n].way = "send"
         /\ Resend(p, thread, n) /\ Walked(p, thread, n)
      \/ /\ Walked(p, thread, n) \/ walk' = [walk EXCEPT ![p][thread] = NoWalk]
         /\ UNCHANGED <<sq, task>>
  BY <1>2
<1>4. walk[p][thread].sock \in Sock /\ n \in Names
  BY <1>1, <1>3, WalkedType
<1>5. CASE UNCHANGED <<sq, task>>
  BY <1>1, <1>5, QuietPromise
<1>6. CASE n \in DOMAIN task[p] /\ task[p][n].way = "send" /\ Resend(p, thread, n)
  <2> DEFINE tk == task[p][n]
             pieces == Unacked(tk)
             s == walk[p][thread].sock
  <2>1. tk.status # 4
    BY <1>6 DEF PromiseInv, TasksRight, TaskRight
  <2>2. /\ sq' = [sq EXCEPT ![p] = @ \o DataEntries(s, n, pieces)]
        /\ task' = [task EXCEPT ![p][n].status = 1]
    BY <1>6, <2>1 DEF Resend
  <2>3. tk \in Task
    <3>1. task[p] \in Partial(Names, Task)
      BY <1>1, TypeParts DEF TaskT
    <3> QED BY <1>6, <3>1, PartialValue
  <2>4. /\ pieces \in Partial(Piece, Transfer)
        /\ DOMAIN pieces \subseteq DOMAIN tk.content
        /\ \A i \in DOMAIN pieces : pieces[i] = tk.content[i]
    BY <2>3, UnackedType DEF Unacked
  <2>5. WiresShrink(wire', wire) /\ Gains(wire, wire', p, s, <<>>)
    BY <1>1, UnchangedShrinks DEF Gains
  <2> HIDE DEF pieces, s
  <2> QED BY <1>1, <1>4, <1>6, <2>2, <2>4, <2>5, ContinuePromise DEF s
<1> QED BY <1>3, <1>5, <1>6

(* What p has under the name of one of its own files is that file's task.             *)
LEMMA OwnTask ==
  ASSUME FileInv, NEW p \in Peer, NEW n \in DOMAIN task[p],
         NEW t \in Transfer, sent[t].name = n
  PROVE  /\ task[p][n].of = t
         /\ task[p][n].way = "send" <=> From(t) = p
         /\ task[p][n].way = "receive" <=> From(t) # p
<1>1. TaskOk(p, n, task[p][n]) /\ task[p][n].of = t
  BY DEF FileInv, TasksOk, TaskOk, NamesDiffer
<1>2. task[p][n].way \in {"send", "receive"}
  <2>1. task[p] \in Partial(Names, Task)
    BY TypeParts DEF FileInv, TaskT
  <2>2. task[p][n] \in Task
    BY <2>1, PartialValue
  <2> QED BY <2>2 DEF Task
<1> QED BY <1>1, <1>2 DEF TaskOk

(* A cell that is dropped.                                                           *)
LEMMA DropPromise ==
  ASSUME PromiseInv, FileInv', NEW p \in Peer, NEW s \in Sock, NEW type, Takes(p, s, type),
         Drop(p, s), UNCHANGED <<sent, pending>>
  PROVE  PromiseInv' /\ Unseen
<1>1. TypeOK /\ wire[p][s] # <<>>
  BY DEF PromiseInv, FileInv, Takes
<1>2. UNCHANGED <<task, disk, merged, finished, sq>> /\ Gains(wire, wire', p, s, <<>>)
  BY <1>1, DropEffect
<1>3. WiresShrink(wire', wire)
  BY <1>1, TakenShrinks DEF Drop
<1>4. TasksKeep /\ QueuesShrink(sq', sq)
  BY <1>2, UnchangedTasksKeep, UnchangedShrinks
<1>5. QueuesRight'
  BY <1>2, QueuesStayRight DEF PromiseInv
<1>6. \A c \in Range(<<>>) : CellRight(Other(p), c)
  BY RangeOfEmpty
<1> QED BY <1>2, <1>3, <1>4, <1>5, <1>6, ShrinkPromise

LEMMA ReadsTornPromise ==
  ASSUME PromiseInv, FileInv', NEW p \in Peer, NEW s \in Sock, ReadsTorn(p, s)
  PROVE  PromiseInv' /\ Unseen
<1>1. TypeOK /\ wire[p][s] # <<>>
  BY DEF PromiseInv, FileInv, ReadsTorn
<1>2. UNCHANGED <<sent, pending, task, disk, sq, merged, finished>>
  BY DEF ReadsTorn, taskVars
<1>3. WiresShrink(wire', wire) /\ Gains(wire, wire', p, s, <<>>)
  BY <1>1, TakenShrinks, ReadsTornEffect DEF ReadsTorn
<1>4. TasksKeep /\ QueuesShrink(sq', sq)
  BY <1>2, UnchangedTasksKeep, UnchangedShrinks
<1>5. QueuesRight'
  BY <1>2, QueuesStayRight DEF PromiseInv
<1>6. \A c \in Range(<<>>) : CellRight(Other(p), c)
  BY RangeOfEmpty
<1> QED BY <1>2, <1>3, <1>4, <1>5, <1>6, ShrinkPromise

LEMMA HandleReadyPromise ==
  ASSUME PromiseInv, FileInv', NEW p \in Peer, NEW s \in Sock, HandleReady(p, s)
  PROVE  PromiseInv' /\ Unseen
<1> DEFINE c == Head(wire[p][s])
           n == c.name
<1>1. FileInv /\ TypeOK /\ Takes(p, s, "READY") /\ UNCHANGED <<sent, pending>>
  BY DEF HandleReady, PromiseInv, FileInv
<1>2. c \in Range(wire[p][s]) /\ c.type = "READY" /\ n \in Names /\ wire[p][s] # <<>>
  BY <1>1, TakesCell
<1>3. CASE n \notin DOMAIN task[p]
  <2>1. Drop(p, s)
    BY <1>3 DEF HandleReady
  <2> QED BY <1>1, <2>1, DropPromise
<1>4. CASE n \in DOMAIN task[p]
  <2> DEFINE tk == task[p][n]
             pieces == EveryPiece(tk)
  <2>1. /\ task' = [task EXCEPT ![p][n].status = 1]
        /\ sq' = [sq EXCEPT ![p] = @ \o DataEntries(s, n, pieces)]
        /\ wire' = Taken(p, s)
        /\ UNCHANGED <<disk, merged, finished>>
    BY <1>4 DEF HandleReady
  <2>2. PICK t \in Transfer : sent[t].name = n /\ From(t) = p
    BY <1>1, <1>2 DEF FileInv, WiresOk, CellOk
  <2>3. tk.way = "send"
    BY <1>1, <1>4, <2>2, OwnTask
  <2>4. tk \in Task
    <3>1. task[p] \in Partial(Names, Task)
      BY <1>1, TypeParts DEF TaskT
    <3> QED BY <1>4, <3>1, PartialValue
  <2>5. DOMAIN tk.content = 1 .. Size(tk) /\ Size(tk) \in Nat
    <3>1. tk.of = t /\ sent[t].size \in Nat
      BY <1>1, <1>4, <2>2, OwnTask, EndsOfTransfer
    <3>2. tk.content = [i \in 1 .. Size(tk) |-> tk.of]
      BY <1>4, <2>3 DEF PromiseInv, TasksRight, TaskRight
    <3> HIDE DEF tk
    <3> QED BY <3>1, <3>2 DEF Size
  <2>6. /\ pieces \in Partial(Piece, Transfer)
        /\ DOMAIN pieces \subseteq DOMAIN tk.content
        /\ \A i \in DOMAIN pieces : pieces[i] = tk.content[i]
    BY <2>4, <2>5, EveryPieceType DEF EveryPiece
  <2>7. WiresShrink(wire', wire) /\ Gains(wire, wire', p, s, <<>>)
    BY <1>1, <1>2, <2>1, TakenShrinks, TakenEffect
  <2> HIDE DEF pieces, c, n
  <2> QED BY <1>1, <1>2, <1>4, <2>1, <2>3, <2>6, <2>7, ContinuePromise DEF n, c
<1> QED BY <1>3, <1>4

(* The tasks are right if each, as it is after the step, is.                          *)
LEMMA TasksRightFrom ==
  ASSUME \A q \in Peer : \A m \in DOMAIN task'[q] : \A tk : tk = task'[q][m] => TaskRight(tk)'
  PROVE  TasksRight'
BY DEF TasksRight, TaskRight, Size

(* The task is put in the map: no task under its name is lost, and it counts nothing as  *)
(* acknowledged yet.                                                                  *)
LEMMA RegisterPromise ==
  ASSUME PromiseInv, FileInv', NEW p \in Peer, Register(p)
  PROVE  PromiseInv' /\ Unseen
<1>1. /\ FileInv /\ TypeOK /\ TasksRight /\ PendingsRight
      /\ UNCHANGED <<sent, disk, merged, finished, wire, sq>>
  BY DEF Register, PromiseInv, FileInv
<1>2. /\ \A q \in Peer : q # p => task'[q] = task[q] /\ pending'[q] = pending[q]
      /\ pending'[p] = <<>>
      /\ DOMAIN task'[p] = DOMAIN task[p] \cup DOMAIN pending[p]
      /\ \A n \in DOMAIN pending[p] : task'[p][n] = pending[p][n]
      /\ \A n \in DOMAIN task[p] \ DOMAIN pending[p] : task'[p][n] = task[p][n]
  BY <1>1, TypeParts DEF Register, TaskT
<1>3. \A n \in DOMAIN pending[p] :
        /\ n \notin DOMAIN task[p] /\ TaskOk(p, n, pending[p][n])
        /\ pending[p][n] = SendTask(pending[p][n].of, Size(pending[p][n]), 0)
  BY <1>1 DEF PendingsRight, PendingRight, FileInv, PendingOk
<1>4. \A n \in DOMAIN pending[p] :
        /\ pending[p][n].way = "send" /\ pending[p][n].done = {} /\ pending[p][n].status = 0
        /\ pending[p][n].content = [i \in 1 .. Size(pending[p][n]) |-> pending[p][n].of]
  <2>1. \A t, size : LET tk == SendTask(t, size, 0)
                     IN  /\ tk.way = "send" /\ tk.done = {} /\ tk.status = 0
                         /\ tk.content = [i \in 1 .. size |-> t]
    BY DEF SendTask
  <2> QED BY <1>3, <2>1
<1>5. ASSUME NEW t \in Transfer
      PROVE  Stored(t)' = Stored(t) /\ Acked(t)' = Acked(t) /\ Receiving(t)' = Receiving(t)
  <2>1. From(t) \in Peer /\ To(t) \in Peer /\ From(t)' = From(t) /\ To(t)' = To(t)
    BY <1>1, EndsOfTransfer DEF From, To
  <2>2. Receiving(t)' = Receiving(t)
    <3>1. CASE To(t) = p /\ sent[t].name \in DOMAIN pending[p]
      <4>1. ~Receiving(t) /\ task'[To(t)][sent[t].name].way = "send"
        <5>1. sent[t].name \notin DOMAIN task[p]
          BY <1>3, <3>1
        <5>2. task'[p][sent[t].name].way = "send"
          <6>1. task'[p][sent[t].name] = pending[p][sent[t].name]
            BY <1>2, <3>1
          <6>2. pending[p][sent[t].name].way = "send"
            BY <1>4, <3>1
          <6> QED BY <6>1, <6>2
        <5> QED BY <3>1, <5>1, <5>2 DEF Receiving
      <4> QED BY <1>1, <2>1, <4>1 DEF Receiving
    <3>2. CASE ~(To(t) = p /\ sent[t].name \in DOMAIN pending[p])
      <4>1. sent[t].name \in DOMAIN task'[To(t)] <=> sent[t].name \in DOMAIN task[To(t)]
        BY <1>2, <2>1, <3>2
      <4>2. sent[t].name \in DOMAIN task[To(t)] =>
              task'[To(t)][sent[t].name] = task[To(t)][sent[t].name]
        BY <1>2, <2>1, <3>2
      <4> QED BY <1>1, <2>1, <4>1, <4>2 DEF Receiving
    <3> QED BY <3>1, <3>2
  <2>3. Receiving(t) => ReceiverTask(t)' = ReceiverTask(t)
    BY <1>1, <1>2, <1>3, <2>1 DEF Receiving, ReceiverTask
  <2>4. \/ Sending(t)' = Sending(t) /\ (Sending(t) => SenderTask(t)' = SenderTask(t))
        \/ ~Sending(t) /\ Sending(t)' /\ SenderTask(t)'.done = {}
    <3>1. CASE From(t) = p /\ sent[t].name \in DOMAIN pending[p]
      <4> DEFINE n == sent[t].name
      <4>1. /\ ~Sending(t) /\ n \in DOMAIN task'[From(t)]
            /\ task'[From(t)][n] = pending[p][n]
        BY <1>2, <1>3, <3>1 DEF Sending
      <4>2. /\ pending[p][n].way = "send" /\ pending[p][n].done = {}
            /\ TaskOk(p, n, pending[p][n])
        BY <1>3, <1>4, <3>1
      <4>3. pending[p][n].of = t
        BY <1>1, <4>2 DEF TaskOk, FileInv, NamesDiffer
      <4> QED BY <1>1, <2>1, <4>1, <4>2, <4>3 DEF Sending, SenderTask
    <3>2. CASE ~(From(t) = p /\ sent[t].name \in DOMAIN pending[p])
      <4>1. sent[t].name \in DOMAIN task'[From(t)] <=> sent[t].name \in DOMAIN task[From(t)]
        BY <1>2, <2>1, <3>2
      <4>2. sent[t].name \in DOMAIN task[From(t)] =>
              task'[From(t)][sent[t].name] = task[From(t)][sent[t].name]
        BY <1>2, <2>1, <3>2
      <4> QED BY <1>1, <2>1, <4>1, <4>2 DEF Sending, SenderTask
    <3> QED BY <3>1, <3>2
  <2> QED BY <1>1, <2>2, <2>3, <2>4 DEF Stored, Acked
<1>6. Unseen
  BY <1>1, <1>5 DEF Unseen
<1>7. TasksRight'
  <2> SUFFICES ASSUME NEW q \in Peer, NEW m \in DOMAIN task'[q], NEW tk, tk = task'[q][m]
               PROVE  TaskRight(tk)'
    BY TasksRightFrom
  <2>1. CASE q = p /\ m \in DOMAIN pending[p]
    <3>1. tk = pending[p][m]
      BY <1>2, <2>1
    <3>2. /\ tk.way = "send" /\ tk.done = {} /\ tk.status = 0
          /\ tk.content = [i \in 1 .. Size(tk) |-> tk.of]
      BY <1>4, <2>1, <3>1
    <3> QED BY <1>1, <3>2 DEF TaskRight, Size
  <2>2. CASE ~(q = p /\ m \in DOMAIN pending[p])
    <3>1. m \in DOMAIN task[q] /\ tk = task[q][m]
      BY <1>2, <2>2
    <3>2. TaskRight(tk) /\ tk.of \in Transfer
      BY <1>1, <3>1 DEF TasksRight, FileInv, TasksOk, TaskOk
    <3>3. Stored(tk.of)' = Stored(tk.of)
      BY <1>5, <3>2
    <3> QED BY <1>1, <3>2, <3>3 DEF TaskRight, Size
  <2> QED BY <2>1, <2>2
<1>8. PendingsRight'
  <2> SUFFICES ASSUME NEW q \in Peer, NEW m \in DOMAIN pending'[q] PROVE PendingRight(q, m)'
    BY DEF PendingsRight
  <2>1. q # p /\ m \in DOMAIN pending[q]
    BY <1>2
  <2>2. PendingRight(q, m)
    BY <1>1, <2>1 DEF PendingsRight
  <2> QED BY <1>1, <1>2, <2>1, <2>2 DEF PendingRight, Size
<1>9. QueuesRight' /\ DisksRight'
  BY <1>1, QueuesStayRight DEF PromiseInv, DisksRight, FileRight, Transfer
<1>10. WiresRight'
  <2>1. Gains(wire, wire', A, 0, <<>>) /\ \A c \in Range(<<>>) : CellRight(Other(A), c)'
    BY <1>1, RangeOfEmpty DEF Gains
  <2> QED BY <1>1, <1>5, <2>1, WiresStayRight DEF PromiseInv
<1>11. \A t \in Transfer' : AnnouncedOnce(t)'
  <2> SUFFICES ASSUME NEW t \in Transfer PROVE AnnouncedOnce(t)'
    BY <1>1 DEF Transfer
  <2>1. QueuesShrink(sq', sq) /\ WiresShrink(wire', wire)
    BY <1>1, UnchangedShrinks
  <2> QED BY <1>1, <1>5, <2>1, ShrinkKeepsOnce DEF PromiseInv
<1> QED BY <1>6, <1>7, <1>8, <1>9, <1>10, <1>11 DEF PromiseInv

(* A file announced over a connection: nothing of it is stored or acknowledged yet, and *)
(* its META is the only one.                                                          *)
LEMMA AnnouncePromise ==
  ASSUME PromiseInv, FileInv', ~ReuseNames, ~Offline,
         NEW p \in Peer, NEW name \in Names, NEW size \in Sizes, Announce(p, name, size),
         NEW t, t = Len(sent) + 1
  PROVE  /\ PromiseInv'
         /\ Transfer' = Transfer \cup {t} /\ t \notin Transfer
         /\ \A u \in Transfer : Stored(u)' = Stored(u) /\ Acked(u)' = Acked(u)
         /\ Stored(t)' = {} /\ Acked(t)' = {}
<1> DEFINE file == [from |-> p, name |-> name, size |-> size]
<1>0. PICK e : e = MetaEntry(FileConn(p, table[p]), name, t)
  OBVIOUS
<1>1. /\ FileInv /\ TypeOK /\ pending[p] = <<>> /\ \A u \in Transfer : sent[u].name # name
      /\ UNCHANGED <<task, disk, merged, finished, wire>>
      /\ sent' = Append(sent, file) /\ table[p] # <<>>
      /\ pending' = [pending EXCEPT ![p] = Put(@, name, SendTask(t, size, 0))]
      /\ sq' = [sq EXCEPT ![p] = Append(@, e)]
  BY <1>0 DEF Announce, PromiseInv, FileInv
<1>2. file \in File /\ file.name = name /\ file.from = p /\ file.size = size
  BY DEF File
<1> HIDE DEF file
<1>3. /\ Transfer' = Transfer \cup {t} /\ t \notin Transfer
      /\ \A u \in Transfer : sent'[u] = sent[u]
      /\ sent'[t].name = name /\ sent'[t].from = p /\ sent'[t].size = size
  BY <1>1, <1>2, TypesGrow
<1> DEFINE entries == <<e>>
<1>4. /\ e.type = "META" /\ e.of = t /\ e.name = name
      /\ entries \in Seq({e}) /\ Range(entries) = {e}
  BY <1>0 DEF MetaEntry, Entry, Range
<1>5. /\ sq \in QueueT /\ \A q \in Peer : sq[q] \in Seq(Queued \cup {e})
      /\ \A q \in Peer : sq'[q] = IF q = p THEN Append(sq[p], e) ELSE sq[q]
  <2>1. sq \in QueueT
    BY <1>1, TypeParts
  <2>2. \A q \in Peer : sq[q] \in Seq(Queued \cup {e})
    BY <2>1, SeqGrows DEF QueueT
  <2> QED BY <1>1, <2>1, <2>2 DEF QueueT
<1>6. \A q \in Peer : \A n \in DOMAIN task[q] :
        task[q][n].of \in Transfer /\ task[q][n].of # t /\ n # name
  BY <1>1, <1>3 DEF FileInv, TasksOk, TaskOk
<1>7. ASSUME NEW u \in Transfer
      PROVE  /\ Stored(u)' = Stored(u) /\ Acked(u)' = Acked(u)
             /\ Receiving(u)' = Receiving(u) /\ From(u)' = From(u)
  BY <1>1, <1>3 DEF Stored, Acked, Receiving, Sending, ReceiverTask, SenderTask, From, To
<1>8. From(t)' = p /\ To(t)' = Other(p) /\ Other(p) \in Peer
  BY <1>3, OtherPeer DEF From, To
<1>9. ~Receiving(t)' /\ ~Sending(t)' /\ t \notin merged' /\ t \notin finished'
  <2>1. t \notin merged' /\ t \notin finished'
    BY <1>1, <1>3 DEF TypeOK
  <2>2. \A q \in Peer : name \notin DOMAIN task'[q]
    BY <1>1, <1>6
  <2>3. ~Receiving(t)'
    BY <1>3, <1>8, <2>2 DEF Receiving
  <2>4. ~Sending(t)'
    BY <1>3, <1>8, <2>2 DEF Sending
  <2> QED BY <2>1, <2>3, <2>4
<1>10. Stored(t)' = {} /\ Acked(t)' = {}
  BY <1>9 DEF Stored, Acked
<1>11. TasksRight'
  <2> SUFFICES ASSUME NEW q \in Peer, NEW m \in DOMAIN task'[q], NEW tk, tk = task'[q][m]
               PROVE  TaskRight(tk)'
    BY TasksRightFrom
  <2>1. TaskRight(tk) /\ tk.of \in Transfer
    BY <1>1, <1>6 DEF PromiseInv, TasksRight
  <2>2. Stored(tk.of)' = Stored(tk.of) /\ sent'[tk.of] = sent[tk.of]
    BY <1>3, <1>7, <2>1
  <2>3. Size(tk)' = Size(tk) /\ merged' = merged
    BY <1>1, <2>2 DEF Size
  <2> QED BY <2>1, <2>2, <2>3 DEF TaskRight
<1>12. DisksRight'
  BY <1>1, <1>3 DEF PromiseInv, DisksRight, FileRight, Transfer
<1>13. QueuesRight'
  <2>1. ASSUME NEW q \in Peer, NEW x \in Range(sq[q]) PROVE EntryRight(x)'
    <3>1. EntryRight(x)
      BY DEF PromiseInv, QueuesRight
    <3>2. x \in Queued
      BY <1>5 DEF QueueT, Range
    <3>3. x.type = "DATA" => \A i \in DOMAIN x.pieces : x.pieces[i] \in Transfer
      <4>1. x.type = "DATA" => x.pieces \in Partial(Piece, Transfer)
        BY <3>2 DEF Queued
      <4> QED BY <4>1, PartialValue
    <3> QED BY <1>3, <3>1, <3>3 DEF EntryRight
  <2>2. EntryRight(e)'
    BY <1>4 DEF EntryRight
  <2>3. Range(Append(sq[p], e)) = Range(sq[p]) \cup {e}
    BY <1>5, RangeOfAppend
  <2>4. ASSUME NEW q \in Peer, NEW x \in Range(sq'[q]) PROVE EntryRight(x)'
    BY <1>4, <1>5, <2>1, <2>3 DEF EntryRight
  <2> QED BY <2>4 DEF QueuesRight
<1>14. WiresRight'
  <2> SUFFICES ASSUME NEW q \in Peer, NEW s \in Sock, NEW c \in Range(wire[q][s])
               PROVE  CellRight(q, c)'
    BY <1>1 DEF WiresRight
  <2>1. CellRight(q, c)
    BY DEF PromiseInv, WiresRight
  <2>2. c \in Cells
    BY <1>1, TypeParts DEF WireT, Range
  <2>3. c.type = "DATA" => c.of \in Transfer
    BY <2>2 DEF Cells
  <2> QED BY <1>3, <1>7, <2>1, <2>3 DEF CellRight
<1>15. PendingsRight'
  <2> DEFINE new == SendTask(t, size, 0)
  <2>1. pending[p] = <<>> /\ pending' = [pending EXCEPT ![p] = Put(@, name, new)]
    BY <1>1
  <2>2. new.of = t
    BY DEF SendTask
  <2> HIDE DEF new
  <2>3. /\ \A q \in Peer : q # p => pending'[q] = pending[q]
        /\ DOMAIN pending'[p] = {name} /\ pending'[p][name] = new
    <3>1. pending \in TaskT
      BY <1>1, TypeParts
    <3>2. DOMAIN <<>> = {}
      OBVIOUS
    <3>3. pending'[p] = Put(<<>>, name, new)
      BY <2>1, <3>1 DEF TaskT
    <3>4. DOMAIN Put(<<>>, name, new) = {name} /\ Put(<<>>, name, new)[name] = new
      BY <3>2 DEF Put
    <3> QED BY <2>1, <3>1, <3>3, <3>4 DEF TaskT
  <2> SUFFICES ASSUME NEW q \in Peer, NEW m \in DOMAIN pending'[q] PROVE PendingRight(q, m)'
    BY DEF PendingsRight
  <2>4. CASE q = p
    <3>1. m = name /\ pending'[q][m] = new /\ m \notin DOMAIN task'[q]
      BY <1>1, <1>6, <2>3, <2>4
    <3>2. new.of = t /\ new = SendTask(t, size, 0) /\ sent'[t].size = size
      BY <1>3, <2>2 DEF new
    <3> QED BY <3>1, <3>2 DEF PendingRight, Size
  <2>5. CASE q # p
    <3>1. m \in DOMAIN pending[q] /\ pending'[q][m] = pending[q][m]
      BY <2>3, <2>5
    <3>2. PendingRight(q, m) /\ pending[q][m].of \in Transfer
      BY <1>1, <3>1 DEF PromiseInv, PendingsRight, FileInv, PendingOk, TaskOk
    <3>3. sent'[pending[q][m].of] = sent[pending[q][m].of]
      BY <1>3, <3>2
    <3> QED BY <1>1, <3>1, <3>2, <3>3 DEF PendingRight, Size
  <2> QED BY <2>4, <2>5
<1>16. ASSUME NEW u \in Transfer PROVE AnnouncedOnce(u)'
  <2>1. \A q \in Peer : ShrinksFor(u, sq'[q], sq[q])
    <3>1. Append(sq[p], e) = sq[p] \o entries
      BY <1>5
    <3>2. entries \in Seq(Queued \cup {e}) /\ \A x \in Range(entries) : x.of # u
      BY <1>3, <1>4, SeqGrows
    <3>3. ShrinksFor(u, Append(sq[p], e), sq[p])
      BY <1>5, <3>1, <3>2, JoinShrinksFor
    <3> QED BY <1>5, <3>3, EmptyShrinks DEF Shrinks
  <2>2. \A q \in Peer, s \in Sock : ShrinksFor(u, wire'[q][s], wire[q][s])
    BY <1>1, EmptyShrinks DEF Shrinks
  <2>3. AnnouncedOnce(u) /\ sent'[u] = sent[u] /\ merged' = merged
    BY <1>1, <1>3 DEF PromiseInv
  <2> QED BY <1>1, <1>7, <2>1, <2>2, <2>3, ShrinkForKeepsOnce
<1>17. AnnouncedOnce(t)'
  <2>1. \A s \in Sock : None(wire'[Other(p)][s], t)
    <3> SUFFICES ASSUME NEW s \in Sock, NEW k \in Metas(wire[Other(p)][s], t) PROVE FALSE
      BY <1>1 DEF None
    <3>1. wire[Other(p)][s][k] \in Range(wire[Other(p)][s])
      BY DEF Metas, Range
    <3>2. CellOk(Other(p), wire[Other(p)][s][k], merged)
      BY <1>1, <1>8, <3>1 DEF FileInv, WiresOk
    <3> QED BY <1>3, <3>2 DEF CellOk, Metas
  <2>2. Once(sq'[p], t)
    <3>1. ASSUME NEW k \in Metas(sq'[p], t) PROVE k = Len(sq[p]) + 1
      <4>1. CASE k \in DOMAIN sq[p] /\ sq'[p][k] = sq[p][k]
        <5>1. sq[p][k] \in Range(sq[p]) /\ sq[p][k].type = "META" /\ sq[p][k].of = t
          BY <4>1 DEF Metas, Range
        <5>2. EntryOk(p, sq[p][k])
          BY <1>1, <5>1 DEF FileInv, QueuesOk
        <5> QED BY <1>3, <5>1, <5>2 DEF EntryOk
      <4>2. sq'[p] = Append(sq[p], e) /\ sq[p] \in Seq(Queued \cup {e}) /\ k \in DOMAIN sq'[p]
        BY <1>5 DEF Metas
      <4>3. k \in DOMAIN Append(sq[p], e) =>
              \/ k \in DOMAIN sq[p] /\ Append(sq[p], e)[k] = sq[p][k]
              \/ k = Len(sq[p]) + 1
        BY <4>2
      <4> QED BY <4>1, <4>2, <4>3
    <3> QED BY <3>1 DEF Once
  <2> QED BY <1>8, <1>9, <2>1, <2>2 DEF AnnouncedOnce, Once, None
<1> HIDE DEF PromiseInv, FileInv
<1>18. \A u \in Transfer' : AnnouncedOnce(u)'
  BY <1>3, <1>16, <1>17
<1>19. PromiseInv'
  BY <1>11, <1>12, <1>13, <1>14, <1>15, <1>18 DEF PromiseInv
<1> QED BY <1>3, <1>7, <1>10, <1>19

-----------------------------------------------------------------------------
(* Receiving                                                                 *)

(* A META that is taken was the only one: no task was made for it, and now there is none. *)
LEMMA MetaTaken ==
  ASSUME FileInv, NEW p \in Peer, NEW s \in Sock, wire[p][s] # <<>>,
         Head(wire[p][s]).type = "META",
         NEW t \in Transfer, t = Head(wire[p][s]).of, AnnouncedOnce(t),
         UNCHANGED <<sent, sq>>, WiresShrink(wire', Taken(p, s))
  PROVE  /\ From(t) # p /\ To(t) = p /\ sent[t].name = Head(wire[p][s]).name
         /\ t \notin merged /\ ~Receiving(t)
         /\ AnnouncedOnce(t)'
<1> DEFINE w == wire[p][s]
<1>1. /\ w \in Seq(Cells) /\ w # <<>> /\ Len(w) \in Nat \ {0} /\ Head(w) = w[1]
      /\ DOMAIN w = 1 .. Len(w) /\ Head(w) \in Range(w) /\ wire \in WireT
  <2>1. w \in Seq(Cells) /\ wire \in WireT
    BY TypeParts DEF FileInv, WireT
  <2>2. Len(w) \in Nat \ {0} /\ Head(w) = w[1] /\ DOMAIN w = 1 .. Len(w)
    BY <2>1
  <2> QED BY <2>1, <2>2 DEF Range
<1>2. From(t) # p /\ To(t) = p /\ sent[t].name = Head(w).name
  <2>1. CellOk(p, Head(w), merged)
    BY <1>1 DEF FileInv, WiresOk
  <2>2. From(t) # p /\ sent[t].name = Head(w).name
    BY <2>1 DEF CellOk
  <2>3. From(t) \in Peer /\ To(t) = Other(From(t))
    BY EndsOfTransfer
  <2> QED BY <2>2, <2>3 DEF Other, Peer
<1>3. 1 \in Metas(w, t)
  BY <1>1 DEF Metas
<1>4. /\ t \notin merged /\ ~Receiving(t) /\ None(sq[From(t)], t)
      /\ \A r \in Sock : r # s => None(wire[p][r], t)
      /\ Once(w, t)
  BY <1>2, <1>3 DEF AnnouncedOnce, None
<1>5. None(Tail(w), t)
  <2>1. \A k \in Metas(Tail(w), t) : k \in Nat \ {0} /\ k + 1 \in Metas(w, t)
    BY <1>1 DEF Metas
  <2> QED BY <1>3, <1>4, <2>1 DEF None, Once
<1>6. \A r \in Sock : None(wire'[p][r], t)
  <2> SUFFICES ASSUME NEW r \in Sock PROVE None(wire'[p][r], t)
    OBVIOUS
  <2>1. Taken(p, s)[p][r] = IF r = s THEN Tail(w) ELSE wire[p][r]
    BY <1>1 DEF Taken, WireT
  <2>2. None(Taken(p, s)[p][r], t)
    BY <1>4, <1>5, <2>1
  <2> QED BY <2>2 DEF WiresShrink, Shrinks, ShrinksFor
<1>7. From(t)' = From(t) /\ To(t)' = p /\ sq' = sq
  BY <1>2 DEF From, To
<1> HIDE DEF w
<1>8. AnnouncedOnce(t)'
  BY <1>4, <1>6, <1>7 DEF AnnouncedOnce, None, Once
<1> QED BY <1>2, <1>4, <1>8 DEF w

LEMMA HandleMetaPromise ==
  ASSUME PromiseInv, FileInv', NEW p \in Peer, NEW s \in Sock, HandleMeta(p, s)
  PROVE  PromiseInv' /\ Unseen
<1>0. PICK c : c = Head(wire[p][s])
  OBVIOUS
<1> DEFINE cells == <<Cell("READY", c.name, 0, 0)>>
<1>1. /\ FileInv /\ TypeOK /\ Takes(p, s, "META")
      /\ UNCHANGED <<sent, pending, disk, merged, finished, sq>>
  BY DEF HandleMeta, PromiseInv, FileInv
<1>2. /\ wire[p][s] # <<>> /\ c \in Range(wire[p][s]) /\ c \in Cells /\ c.type = "META"
      /\ c.of \in Transfer /\ c.name \in Names
  BY <1>0, <1>1, TakesCell
<1>3. CASE ReplyFails(p, s) /\ UNCHANGED task
  <2>1. <<>> \in Seq(Cells) /\ Range(<<>>) = {}
    BY RangeOfEmpty
  <2>2. Gains(wire, wire', p, s, <<>>) /\ WiresShrink(wire', wire)
    BY <1>1, <1>2, <1>3, <2>1, ReplyEffect, ReplyShrinks DEF ReplyFails
  <2>3. TasksKeep /\ QueuesShrink(sq', sq)
    BY <1>1, <1>3, UnchangedTasksKeep, UnchangedShrinks
  <2>4. QueuesRight'
    BY <1>1, QueuesStayRight DEF PromiseInv
  <2> QED BY <1>1, <2>1, <2>2, <2>3, <2>4, ShrinkPromise
<1>4. CASE /\ Reply(p, s, cells)
           /\ task' = [task EXCEPT ![p] = Put(@, c.name, ReceiveTask(c.of))]
  <2>0. PICK t \in Transfer : t = c.of
    BY <1>2
  <2> DEFINE n   == c.name
             new == ReceiveTask(t)
  <2>1. cells \in Seq(Cells) /\ \A x \in Range(cells) : x.type = "READY"
    <3>1. Cell("READY", n, 0, 0) \in Cells
      BY <1>2 DEF Cells, Cell
    <3>2. Cell("READY", n, 0, 0).type = "READY"
      BY DEF Cell
    <3> QED BY <3>1, <3>2 DEF Range
  <2>2. /\ WiresShrink(wire', Taken(p, s)) /\ WiresShrink(wire', wire)
        /\ Gains(wire, wire', p, s, cells)
    <3>1. Taken(p, s) \in WireT
      BY <1>1, <1>2, TakenEffect
    <3>2. WiresShrink(wire', Taken(p, s))
      BY <1>4, <2>1, <3>1, WroteShrinks DEF Reply
    <3>3. WiresShrink(wire', wire) /\ Gains(wire, wire', p, s, cells)
      BY <1>1, <1>2, <1>4, <2>1, ReplyShrinks, ReplyEffect
    <3> QED BY <3>2, <3>3
  <2> HIDE DEF cells
  <2>3. /\ From(t) # p /\ To(t) = p /\ sent[t].name = n
        /\ t \notin merged /\ ~Receiving(t) /\ AnnouncedOnce(t)'
    BY <1>0, <1>1, <1>2, <2>0, <2>2, MetaTaken DEF PromiseInv
  <2>4. n \notin DOMAIN task[p]
    <3>1. SUFFICES ASSUME n \in DOMAIN task[p] PROVE FALSE
      OBVIOUS
    <3>2. task[p][n].of = t /\ task[p][n].way = "receive"
      BY <1>1, <2>3, <3>1, OwnTask
    <3> QED BY <2>3, <3>1, <3>2 DEF Receiving
  <2>5. n \notin DOMAIN pending[p]
    <3>1. SUFFICES ASSUME n \in DOMAIN pending[p] PROVE FALSE
      OBVIOUS
    <3>2. TaskOk(p, n, pending[p][n]) /\ PendingRight(p, n)
      BY <1>1, <3>1 DEF PromiseInv, PendingsRight, FileInv, PendingOk
    <3>3. \A u, k : SendTask(u, k, 0).way = "send"
      BY DEF SendTask
    <3>4. pending[p][n].way = "send"
      BY <3>2, <3>3 DEF PendingRight
    <3>5. pending[p][n].of = t
      BY <1>1, <2>3, <3>2 DEF TaskOk, FileInv, NamesDiffer
    <3> QED BY <2>3, <3>2, <3>4, <3>5 DEF TaskOk
  <2>6. new.way = "receive" /\ new.of = t /\ new.done = {} /\ DOMAIN new.content = {}
    BY DEF ReceiveTask
  <2>7. /\ \A q \in Peer : q # p => task'[q] = task[q]
        /\ DOMAIN task'[p] = DOMAIN task[p] \cup {n} /\ task'[p][n] = new
        /\ \A m \in DOMAIN task[p] : task'[p][m] = task[p][m]
    <3>1. task \in TaskT
      BY <1>1, TypeParts
    <3>2. /\ \A q \in Peer : q # p => task'[q] = task[q]
          /\ task'[p] = Put(task[p], n, new)
      BY <1>4, <2>0, <3>1 DEF TaskT
    <3> HIDE DEF new, n
    <3>3. /\ DOMAIN Put(task[p], n, new) = DOMAIN task[p] \cup {n}
          /\ Put(task[p], n, new)[n] = new
          /\ \A m \in DOMAIN task[p] : m # n => Put(task[p], n, new)[m] = task[p][m]
      BY DEF Put
    <3> QED BY <2>4, <3>2, <3>3
  <2> HIDE DEF new
  <2>8. ASSUME NEW u \in Transfer
        PROVE  /\ Stored(u)' = Stored(u) /\ Acked(u)' = Acked(u)
               /\ u # t => Receiving(u)' = Receiving(u)
    <3>1. /\ From(u)' = From(u) /\ To(u)' = To(u) /\ From(u) \in Peer /\ To(u) \in Peer
          /\ sent' = sent
      BY <1>1, EndsOfTransfer DEF From, To
    <3>2. CASE u = t
      <4>1. Receiving(t)' /\ DOMAIN ReceiverTask(t)'.content = {}
        BY <2>3, <2>6, <2>7, <3>1, <3>2 DEF Receiving, ReceiverTask
      <4>2. task'[From(t)] = task[From(t)]
        BY <2>3, <2>7, <3>1, <3>2
      <4>3. Acked(t)' = Acked(t)
        BY <1>1, <3>1, <3>2, <4>2 DEF Acked, Sending, SenderTask
      <4> QED BY <1>1, <2>3, <3>2, <4>1, <4>3 DEF Stored
    <3>3. CASE u # t
      <4>1. sent[u].name # n
        BY <1>1, <2>3, <3>3 DEF FileInv, NamesDiffer
      <4>2. \A q \in Peer :
              /\ sent[u].name \in DOMAIN task'[q] <=> sent[u].name \in DOMAIN task[q]
              /\ sent[u].name \in DOMAIN task[q] =>
                   task'[q][sent[u].name] = task[q][sent[u].name]
        BY <2>7, <4>1
      <4>3. /\ Receiving(u)' = Receiving(u)
            /\ Receiving(u) => ReceiverTask(u)' = ReceiverTask(u)
        BY <3>1, <4>2 DEF Receiving, ReceiverTask
      <4>4. /\ Sending(u)' = Sending(u)
            /\ Sending(u) => SenderTask(u)' = SenderTask(u)
        BY <3>1, <4>2 DEF Sending, SenderTask
      <4> QED BY <1>1, <4>3, <4>4 DEF Stored, Acked
    <3> QED BY <3>2, <3>3
  <2>9. Unseen
    BY <1>1, <2>8 DEF Unseen
  <2>10. TasksRight'
    <3> SUFFICES ASSUME NEW q \in Peer, NEW m \in DOMAIN task'[q], NEW tk, tk = task'[q][m]
                 PROVE  TaskRight(tk)'
      BY TasksRightFrom
    <3>1. CASE q = p /\ m = n
      <4>1. tk = new /\ Size(tk)' = sent[t].size /\ sent[t].size \in Nat
        BY <1>1, <2>6, <2>7, <3>1, EndsOfTransfer DEF Size
      <4>2. sent[t].size # 0 => 1 \in 1 .. sent[t].size
        BY <4>1
      <4> QED BY <2>6, <4>1, <4>2 DEF TaskRight
    <3>2. CASE ~(q = p /\ m = n)
      <4>1. m \in DOMAIN task[q] /\ tk = task[q][m]
        BY <2>7, <3>2
      <4>2. TaskRight(tk) /\ tk.of \in Transfer
        BY <1>1, <4>1 DEF PromiseInv, TasksRight, FileInv, TasksOk, TaskOk
      <4>3. Stored(tk.of)' = Stored(tk.of)
        BY <2>8, <4>2
      <4> QED BY <1>1, <4>2, <4>3 DEF TaskRight, Size
    <3> QED BY <3>1, <3>2
  <2>11. PendingsRight'
    <3> SUFFICES ASSUME NEW q \in Peer, NEW m \in DOMAIN pending[q] PROVE PendingRight(q, m)'
      BY <1>1 DEF PendingsRight
    <3>1. PendingRight(q, m) /\ m \notin DOMAIN task'[q]
      BY <2>5, <2>7 DEF PromiseInv, PendingsRight, PendingRight
    <3> QED BY <1>1, <3>1 DEF PendingRight, Size
  <2>12. QueuesRight' /\ DisksRight'
    BY <1>1, QueuesStayRight DEF PromiseInv, DisksRight, FileRight, Transfer
  <2>13. WiresRight'
    <3>1. \A x \in Range(cells) : CellRight(Other(p), x)'
      BY <2>1 DEF CellRight
    <3> QED BY <1>1, <2>2, <2>8, <3>1, WiresStayRight DEF PromiseInv
  <2>14. ASSUME NEW u \in Transfer PROVE AnnouncedOnce(u)'
    <3>1. CASE u # t
      <4>1. QueuesShrink(sq', sq)
        BY <1>1, UnchangedShrinks
      <4>2. u \in merged' \/ Receiving(u)' => u \in merged \/ Receiving(u)
        BY <1>1, <2>8, <3>1
      <4> QED BY <1>1, <2>2, <4>1, <4>2, ShrinkKeepsOnce DEF PromiseInv
    <3> QED BY <2>3, <3>1
  <2> HIDE DEF PromiseInv, n
  <2>15. \A u \in Transfer' : AnnouncedOnce(u)'
    BY <1>1, <2>14 DEF Transfer
  <2> QED BY <2>9, <2>10, <2>11, <2>12, <2>13, <2>15 DEF PromiseInv
<1> QED BY <1>0, <1>3, <1>4 DEF HandleMeta

(* A set of pieces is all of them when it has as many.                                *)
LEMMA AllPieces ==
  ASSUME NEW size \in Nat, NEW S, S \subseteq 1 .. size
  PROVE  Cardinality(S) = size <=> S = 1 .. size
<1>1. IsFiniteSet(1 .. size) /\ Cardinality(1 .. size) = size
  BY FS_Interval
<1>2. Cardinality(S) = Cardinality(1 .. size) => S = 1 .. size
  BY <1>1, FS_Subset
<1> QED BY <1>1, <1>2

(* What the file on the disk becomes.                                                *)
LEMMA MergedWhole ==
  ASSUME NEW size \in Nat, NEW t, NEW file, NEW now, DOMAIN file \subseteq 1 .. size,
         DOMAIN now.content = 1 .. size, \A i \in 1 .. size : now.content[i] = t
  PROVE  MergedInto(file, now) \in [1 .. size -> {t}]
<1>1. Cardinality(DOMAIN now.content) = size
  BY AllPieces
<1>2. \A k \in 1 .. size : 1 .. k \subseteq 1 .. size
  OBVIOUS
<1> DEFINE inOrder == {k \in 1 .. Cardinality(DOMAIN now.content) :
                         1 .. k \subseteq DOMAIN now.content}
<1>3. inOrder = 1 .. size /\ DOMAIN file \cup inOrder = 1 .. size
  BY <1>1, <1>2
<1>4. MergedInto(file, now) =
        [k \in DOMAIN file \cup inOrder |-> IF k \in inOrder THEN now.content[k] ELSE file[k]]
  BY DEF MergedInto
<1> HIDE DEF inOrder
<1> QED BY <1>3, <1>4

(* A receiving task with one piece more: what it has, and when the file is whole.      *)
LEMMA ReceivedFields ==
  ASSUME NEW tk \in Task, NEW c, NEW t, tk.of = t, tk.way = "receive", TaskRight(tk), c.of = t,
         sent[t].size \in Nat, c.piece \in 1 .. sent[t].size,
         NEW p, NEW n, DOMAIN FileOf(p, n) \subseteq 1 .. sent[t].size,
         NEW now, now = Received(tk, c)
  PROVE  /\ now.way = "receive" /\ now.of = t /\ now.status = 1
         /\ now.done = tk.done \cup {c.piece} /\ DOMAIN now.content = now.done
         /\ now.done \subseteq 1 .. sent[t].size
         /\ \A i \in now.done : now.content[i] = t
         /\ Complete(now) <=> now.done = 1 .. sent[t].size
         /\ Whole(p, n, now) <=> now.done = 1 .. sent[t].size
<1> DEFINE size == sent[t].size
<1>1. /\ now.way = "receive" /\ now.of = t /\ now.status = 1
      /\ now.done = tk.done \cup {c.piece}
      /\ now.content = Put(tk.content, c.piece, c.of)
  BY DEF Received, Task
<1>2. /\ tk.done = DOMAIN tk.content /\ DOMAIN tk.content \subseteq 1 .. size
      /\ \A i \in DOMAIN tk.content : tk.content[i] = t
  BY DEF TaskRight, Size
<1>3. /\ DOMAIN now.content = now.done /\ now.done \subseteq 1 .. size
      /\ \A i \in now.done : now.content[i] = t
  BY <1>1, <1>2 DEF Put
<1>4. Size(now) = size
  BY <1>1 DEF Size
<1>5. Complete(now) <=> now.done = 1 .. size
  BY <1>3, <1>4, AllPieces DEF Complete
<1>6. ASSUME now.done = 1 .. size PROVE Whole(p, n, now)
  <2>1. Cardinality(DOMAIN now.content) = size
    BY <1>3, <1>6, AllPieces
  <2>2. MergedInto(FileOf(p, n), now) = [k \in 1 .. size |-> t]
    <3>1. /\ size \in Nat /\ DOMAIN FileOf(p, n) \subseteq 1 .. size
          /\ DOMAIN now.content = 1 .. size /\ \A i \in 1 .. size : now.content[i] = t
      BY <1>3, <1>6
    <3> HIDE DEF size
    <3>2. MergedInto(FileOf(p, n), now) \in [1 .. size -> {t}]
      BY <3>1, MergedWhole
    <3> QED BY <3>2
  <2> QED BY <1>1, <1>3, <1>4, <1>5, <1>6, <2>1, <2>2 DEF Whole
<1>7. Whole(p, n, now) => Complete(now)
  BY DEF Whole
<1> QED BY <1>1, <1>3, <1>5, <1>6, <1>7

(* A file put together has no more pieces than the file of its name.                   *)
LEMMA MergedRight ==
  ASSUME NEW size \in Nat, NEW file, NEW now, DOMAIN file \subseteq 1 .. size,
         DOMAIN now.content \subseteq 1 .. size
  PROVE  DOMAIN MergedInto(file, now) \subseteq 1 .. size
<1> DEFINE inOrder == {k \in 1 .. Cardinality(DOMAIN now.content) :
                         1 .. k \subseteq DOMAIN now.content}
<1>1. inOrder \subseteq 1 .. size
  <2> SUFFICES ASSUME NEW k \in inOrder PROVE k \in 1 .. size
    OBVIOUS
  <2>1. IsFiniteSet(DOMAIN now.content)
    BY FS_Interval, FS_Subset
  <2>2. Cardinality(DOMAIN now.content) \in Nat
    BY <2>1, FS_CardinalityType
  <2>3. k \in Int /\ 1 <= k /\ 1 .. k \subseteq DOMAIN now.content
    BY <2>2
  <2>4. k \in 1 .. k
    BY <2>3
  <2> QED BY <2>3, <2>4
<1>2. DOMAIN MergedInto(file, now) = DOMAIN file \cup inOrder
  BY DEF MergedInto
<1> HIDE DEF inOrder
<1> QED BY <1>1, <1>2

(* Piece i of t is stored, and the file put together when it was the last.              *)
PieceStored(t, i) ==
  /\ UNCHANGED <<sent, finished>>
  /\ Stored(t)' = Stored(t) \cup {i}
  /\ merged' = IF Stored(t)' = 1 .. sent[t].size THEN merged \cup {t} ELSE merged
  /\ i \in Stored(t) => merged' = merged
  /\ \A u \in Transfer : /\ Acked(u)' = Acked(u)
                         /\ u # t => Stored(u)' = Stored(u)

(* What HandlePiece does to the task of the name: it has the piece, and goes only when   *)
(* the file is whole.                                                                 *)
PieceTask(p, n, now, whole) ==
  /\ \A q \in Peer : q # p => task'[q] = task[q]
  /\ DOMAIN task'[p] \subseteq DOMAIN task[p] /\ DOMAIN task[p] \ {n} \subseteq DOMAIN task'[p]
  /\ \A m \in DOMAIN task'[p] : m # n => task'[p][m] = task[p][m]
  /\ n \in DOMAIN task'[p] => /\ SameTask(task'[p][n], now)
                              /\ task'[p][n].done = now.done
                              /\ task'[p][n].content = now.content
  /\ n \in DOMAIN task'[p] \/ whole

LEMMA PieceTaskEffect ==
  ASSUME task \in TaskT, NEW p \in Peer, NEW n \in DOMAIN task[p], NEW now \in Task, NEW whole,
         \/ task' = [task EXCEPT ![p][n] = now]
         \/ whole /\ task' = [task EXCEPT ![p] = Without(@, n)]
         \/ task' = [task EXCEPT ![p][n] = [now EXCEPT !.status = 0]]
  PROVE  PieceTask(p, n, now, whole)
<1>1. ASSUME NEW tk, task' = [task EXCEPT ![p][n] = tk], SameTask(tk, now),
             tk.done = now.done, tk.content = now.content
      PROVE  PieceTask(p, n, now, whole)
  <2>1. /\ \A q \in Peer : q # p => task'[q] = task[q]
        /\ task'[p] = [task[p] EXCEPT ![n] = tk]
    BY <1>1 DEF TaskT
  <2>2. /\ DOMAIN task'[p] = DOMAIN task[p] /\ task'[p][n] = tk
        /\ \A m \in DOMAIN task'[p] : m # n => task'[p][m] = task[p][m]
    BY <2>1
  <2> QED BY <1>1, <2>1, <2>2 DEF PieceTask
<1>2. CASE task' = [task EXCEPT ![p][n] = now]
  BY <1>1, <1>2 DEF SameTask
<1>3. CASE task' = [task EXCEPT ![p][n] = [now EXCEPT !.status = 0]]
  <2> DEFINE tk == [now EXCEPT !.status = 0]
  <2>1. SameTask(tk, now) /\ tk.done = now.done /\ tk.content = now.content
    BY DEF SameTask, Task
  <2> HIDE DEF tk
  <2> QED BY <1>1, <1>3, <2>1 DEF tk
<1>4. CASE whole /\ task' = [task EXCEPT ![p] = Without(@, n)]
  <2>1. /\ \A q \in Peer : q # p => task'[q] = task[q]
        /\ task'[p] = Without(task[p], n)
    BY <1>4 DEF TaskT
  <2> QED BY <1>4, <2>1 DEF PieceTask, Without
<1> QED BY <1>2, <1>3, <1>4

(* The answers to a piece: its ACK, and DONE if the file is whole.                       *)
LEMMA HandlePieceAnswers ==
  ASSUME TypeOK, NEW p \in Peer, NEW s \in Sock, HandlePiece(p, s),
         NEW c, c = Head(wire[p][s]), c.name \in DOMAIN task[p]
  PROVE  /\ WiresShrink(wire', wire)
         /\ \E cells : /\ Gains(wire, wire', p, s, cells)
                       /\ \A x \in Range(cells) :
                            \/ x = Cell("ACK", c.name, c.piece, 0)
                            \/ x = Cell("DONE", c.name, 0, 0)
<1>1. Takes(p, s, "DATA")
  BY DEF HandlePiece
<1>2. wire[p][s] # <<>> /\ c.name \in Names /\ c.piece \in Piece
  BY <1>1, TakesCell
<1>3. PICK ack, done : ack = Cell("ACK", c.name, c.piece, 0) /\ done = Cell("DONE", c.name, 0, 0)
  OBVIOUS
<1>4. \/ Reply(p, s, <<ack>>)
      \/ Reply(p, s, <<ack, done>>)
      \/ ReplyFailsAfter(p, s, <<>>)
      \/ ReplyFailsAfter(p, s, <<ack>>)
  BY <1>3 DEF HandlePiece, ReplyFails
<1>5. /\ ack \in Cells /\ ack.type = "ACK"
      /\ done \in Cells /\ done.type = "DONE"
  BY <1>2, <1>3 DEF Cell, Cells
<1>6. PICK cells \in {<<>>, <<ack>>, <<ack, done>>} :
        Reply(p, s, cells) \/ ReplyFailsAfter(p, s, cells)
  BY <1>4
<1>7. cells \in Seq(Cells) /\ Range(cells) \subseteq {ack, done}
  <2>1. CASE cells = <<>>
    BY <2>1, RangeOfEmpty
  <2>2. CASE cells = <<ack>>
    BY <1>5, <2>2 DEF Range
  <2>3. CASE cells = <<ack, done>>
    <3>1. DOMAIN cells = 1 .. 2 /\ cells[1] = ack /\ cells[2] = done
      BY <2>3
    <3>2. cells \in Seq(Cells)
      BY <1>5, <2>3
    <3> QED BY <3>1, <3>2 DEF Range
  <2> QED BY <1>6, <2>1, <2>2, <2>3
<1>8. \A x \in Range(cells) : x.type # "META"
  BY <1>5, <1>7
<1>9. WiresShrink(wire', wire) /\ Gains(wire, wire', p, s, cells)
  BY <1>2, <1>6, <1>7, <1>8, ReplyShrinks, ReplyEffect
<1> QED BY <1>3, <1>7, <1>9

LEMMA HandlePiecePromise ==
  ASSUME PromiseInv, FileInv', NEW p \in Peer, NEW s \in Sock, HandlePiece(p, s)
  PROVE  /\ PromiseInv'
         /\ Unseen \/ \E t \in Transfer : \E i \in 1 .. sent[t].size : PieceStored(t, i)
<1>0. PICK c : c = Head(wire[p][s])
  OBVIOUS
<1>1. /\ FileInv /\ TypeOK /\ Takes(p, s, "DATA")
      /\ UNCHANGED <<sent, pending>>
  BY DEF HandlePiece, PromiseInv, FileInv
<1>2. /\ wire[p][s] # <<>> /\ c \in Range(wire[p][s]) /\ c.type = "DATA"
      /\ c.of \in Transfer /\ c.name \in Names /\ c.piece \in Piece
  BY <1>0, <1>1, TakesCell
<1>3. CASE c.name \notin DOMAIN task[p]
  <2>1. Drop(p, s)
    BY <1>0, <1>3 DEF HandlePiece
  <2> QED BY <1>1, <2>1, DropPromise
<1>4. CASE c.name \in DOMAIN task[p]
  <2>1. PICK t \in Transfer, n \in Names, i \in Piece : t = c.of /\ n = c.name /\ i = c.piece
    BY <1>2
  <2>2. /\ sent[t].name = n /\ From(t) # p /\ To(t) = p /\ Other(p) = From(t)
        /\ sent[t].size \in Nat /\ i \in 1 .. sent[t].size
    <3>1. CellRight(p, c) /\ CellOk(p, c, merged)
      BY <1>1, <1>2 DEF PromiseInv, WiresRight, FileInv, WiresOk
    <3>2. sent[t].name = n /\ i \in 1 .. sent[t].size
      BY <1>2, <2>1, <3>1 DEF CellRight
    <3>3. From(t) # p
      BY <1>1, <1>2, <2>1, <3>1, <3>2 DEF CellOk, FileInv, NamesDiffer
    <3>4. From(t) \in Peer /\ To(t) = Other(From(t)) /\ sent[t].size \in Nat
      BY <1>1, EndsOfTransfer
    <3> QED BY <3>2, <3>3, <3>4 DEF Other, Peer
  <2>3. PICK tk : tk = task[p][n]
    OBVIOUS
  <2>4. /\ n \in DOMAIN task[p] /\ tk.of = t /\ tk.way = "receive" /\ tk \in Task
        /\ TaskRight(tk)
    <3>1. task[p] \in Partial(Names, Task) /\ n \in DOMAIN task[p]
      BY <1>1, <1>4, <2>1, TypeParts DEF TaskT
    <3> QED BY <1>1, <2>2, <2>3, <3>1, PartialValue, OwnTask DEF PromiseInv, TasksRight
  <2>5. PICK now : now = Received(tk, c)
    OBVIOUS
  <2>6. now \in Task
    BY <1>2, <2>4, <2>5, ReceivedType
  <2>7. DOMAIN FileOf(p, n) \subseteq 1 .. sent[t].size
    <3>1. CASE n \in DOMAIN disk[p]
      <4>1. FileRight(n, disk[p][n])
        BY <3>1 DEF PromiseInv, DisksRight
      <4> QED BY <1>1, <2>2, <3>1, <4>1 DEF FileRight, FileOf, FileInv, NamesDiffer
    <3> QED BY <3>1 DEF FileOf
  <2> DEFINE all == 1 .. sent[t].size
  <2>8. /\ now.way = "receive" /\ now.of = t
        /\ now.done = tk.done \cup {i} /\ DOMAIN now.content = now.done
        /\ now.done \subseteq all /\ \A k \in now.done : now.content[k] = t
        /\ Complete(now) <=> now.done = all
        /\ Whole(p, n, now) <=> now.done = all
    BY <2>1, <2>2, <2>4, <2>5, <2>7, ReceivedFields
  <2>9. /\ disk' = IF Complete(now)
                   THEN [disk EXCEPT ![p] = Put(@, n, MergedInto(FileOf(p, n), now))] ELSE disk
        /\ merged' = IF Whole(p, n, now) /\ now.way = "receive"
                     THEN merged \cup {now.of} ELSE merged
        /\ UNCHANGED <<finished, sq>>
        /\ \/ task' = [task EXCEPT ![p][n] = now]
           \/ Whole(p, n, now) /\ task' = [task EXCEPT ![p] = Without(@, n)]
           \/ task' = [task EXCEPT ![p][n] = [now EXCEPT !.status = 0]]
    <3> HIDE DEF all
    <3> QED BY <1>0, <1>4, <2>1, <2>3, <2>5 DEF HandlePiece
  <2>10. merged' = IF now.done = all THEN merged \cup {t} ELSE merged
    BY <2>8, <2>9
  <2>11. PieceTask(p, n, now, now.done = all)
    <3>1. \A whole : \/ task' = [task EXCEPT ![p][n] = now]
                     \/ whole /\ task' = [task EXCEPT ![p] = Without(@, n)]
                     \/ task' = [task EXCEPT ![p][n] = [now EXCEPT !.status = 0]]
                     => PieceTask(p, n, now, whole)
      BY <1>1, <2>4, <2>6, PieceTaskEffect, TypeParts
    <3> QED BY <2>8, <2>9, <3>1
  <2> HIDE DEF all
  <2>12. /\ Stored(t)' = Stored(t) \cup {i}
         /\ merged' = IF Stored(t)' = all THEN merged \cup {t} ELSE merged
         /\ i \in Stored(t) => merged' = merged
         /\ Receiving(t)' => Receiving(t)
    <3>1. Receiving(t) /\ ReceiverTask(t) = tk /\ To(t)' = p /\ sent' = sent
      BY <1>1, <2>2, <2>3, <2>4 DEF Receiving, ReceiverTask, To
    <3>2. tk.done = DOMAIN tk.content /\ (tk.done = all => t \in merged) /\ i \in all
      <4>1. sent[t].size # 0
        BY <2>2
      <4> QED BY <2>2, <2>4, <4>1 DEF TaskRight, Size, all
    <3>3. CASE t \in merged
      <4>1. Stored(t) = all /\ Stored(t)' = all
        BY <1>1, <2>10, <3>3 DEF Stored, all
      <4> QED BY <2>10, <3>1, <3>2, <3>3, <4>1
    <3>4. CASE t \notin merged /\ now.done = all
      <4>1. Stored(t) = tk.done
        BY <3>1, <3>2, <3>4 DEF Stored
      <4>2. Stored(t)' = all
        BY <1>1, <2>10, <3>4 DEF Stored, all
      <4> QED BY <2>8, <2>10, <3>1, <3>2, <3>4, <4>1, <4>2
    <3>5. CASE t \notin merged /\ now.done # all
      <4>1. Stored(t) = tk.done /\ t \notin merged'
        BY <2>10, <3>1, <3>2, <3>5 DEF Stored
      <4>2. /\ n \in DOMAIN task'[p] /\ SameTask(task'[p][n], now)
            /\ task'[p][n].content = now.content
        BY <2>11, <3>5 DEF PieceTask
      <4>3. Receiving(t)' /\ ReceiverTask(t)'.content = now.content
        BY <2>2, <2>8, <3>1, <4>2 DEF Receiving, ReceiverTask, SameTask
      <4>4. Stored(t)' = now.done
        BY <2>8, <4>1, <4>3 DEF Stored
      <4> QED BY <2>8, <2>10, <3>1, <3>5, <4>1, <4>4
    <3> QED BY <3>3, <3>4, <3>5
  <2>13. ASSUME NEW u \in Transfer
         PROVE  /\ Acked(u)' = Acked(u)
                /\ u # t => Stored(u)' = Stored(u) /\ Receiving(u)' = Receiving(u)
    <3>1. /\ From(u)' = From(u) /\ To(u)' = To(u) /\ From(u) \in Peer /\ To(u) \in Peer
          /\ sent' = sent /\ finished' = finished
      BY <1>1, <2>9, EndsOfTransfer DEF From, To
    <3>2. u # t => sent[u].name # n
      BY <1>1, <2>2 DEF FileInv, NamesDiffer
    <3>3. \A q \in Peer : q # p \/ u # t =>
            /\ sent[u].name \in DOMAIN task'[q] <=> sent[u].name \in DOMAIN task[q]
            /\ sent[u].name \in DOMAIN task'[q] =>
                 task'[q][sent[u].name] = task[q][sent[u].name]
      BY <2>11, <3>2 DEF PieceTask
    <3>4. From(u) # p \/ u # t
      BY <2>2
    <3>5. /\ Sending(u)' = Sending(u)
          /\ Sending(u)' => SenderTask(u)' = SenderTask(u)
      BY <3>1, <3>3, <3>4 DEF Sending, SenderTask
    <3>6. u # t => /\ Receiving(u)' = Receiving(u)
                   /\ Receiving(u)' => ReceiverTask(u)' = ReceiverTask(u)
      BY <3>1, <3>3 DEF Receiving, ReceiverTask
    <3>7. u # t => (u \in merged' <=> u \in merged)
      BY <2>10
    <3> QED BY <3>1, <3>5, <3>6, <3>7 DEF Stored, Acked
  <2>14. PieceStored(t, i)
    BY <1>1, <2>9, <2>12, <2>13 DEF PieceStored, all
  <2>15. \A u \in Transfer : Stored(u) \subseteq Stored(u)'
    BY <2>12, <2>13
  <2>16. TasksRight'
    <3> SUFFICES ASSUME NEW q \in Peer, NEW m \in DOMAIN task'[q], NEW x, x = task'[q][m]
                 PROVE  TaskRight(x)'
      BY TasksRightFrom
    <3>1. CASE q = p /\ m = n
      <4>1. x.way = "receive" /\ x.of = t /\ x.done = now.done /\ x.content = now.content
        BY <2>8, <2>11, <3>1 DEF PieceTask, SameTask
      <4>2. Size(x)' = sent[t].size
        BY <1>1, <4>1 DEF Size
      <4>3. now.done = all => t \in merged'
        BY <2>10
      <4> QED BY <2>8, <4>1, <4>2, <4>3 DEF TaskRight, all
    <3>2. CASE ~(q = p /\ m = n)
      <4>1. m \in DOMAIN task[q] /\ x = task[q][m]
        BY <2>11, <3>2 DEF PieceTask
      <4>2. TaskRight(x) /\ x.of \in Transfer
        BY <1>1, <4>1 DEF PromiseInv, TasksRight, FileInv, TasksOk, TaskOk
      <4>3. Stored(x.of) \subseteq Stored(x.of)' /\ merged \subseteq merged'
        BY <2>10, <2>15, <4>2
      <4> QED BY <1>1, <4>2, <4>3 DEF TaskRight, Size
    <3> QED BY <3>1, <3>2
  <2>17. PendingsRight'
    <3> SUFFICES ASSUME NEW q \in Peer, NEW m \in DOMAIN pending[q] PROVE PendingRight(q, m)'
      BY <1>1 DEF PendingsRight
    <3>1. PendingRight(q, m) /\ m \notin DOMAIN task'[q]
      BY <2>11 DEF PromiseInv, PendingsRight, PendingRight, PieceTask
    <3> QED BY <1>1, <3>1 DEF PendingRight, Size
  <2>18. QueuesRight'
    BY <1>1, <2>9, QueuesStayRight DEF PromiseInv
  <2>19. WiresShrink(wire', wire) /\ WiresRight'
    <3>1. PICK cells : /\ Gains(wire, wire', p, s, cells)
                       /\ \A x \in Range(cells) : \/ x = Cell("ACK", n, i, 0)
                                                  \/ x = Cell("DONE", n, 0, 0)
      BY <1>0, <1>1, <1>4, <2>1, HandlePieceAnswers
    <3>2. i \in Stored(t)' /\ From(t)' = Other(p) /\ t \in Transfer' /\ sent'[t].name = n
      BY <1>1, <2>2, <2>12 DEF From, Transfer
    <3>3. \A x \in Range(cells) : CellRight(Other(p), x)'
      <4>1. ASSUME NEW x, x = Cell("ACK", n, i, 0) PROVE CellRight(Other(p), x)'
        <5>1. x.type = "ACK" /\ x.name = n /\ x.piece = i
          BY <4>1 DEF Cell
        <5> QED BY <3>2, <5>1 DEF CellRight
      <4>2. ASSUME NEW x, x = Cell("DONE", n, 0, 0) PROVE CellRight(Other(p), x)'
        <5>1. x.type = "DONE"
          BY <4>2 DEF Cell
        <5> QED BY <5>1 DEF CellRight
      <4> QED BY <3>1, <4>1, <4>2
    <3>4. WiresRight'
      BY <1>1, <2>15, <3>1, <3>3, WiresStayRight DEF PromiseInv
    <3> QED BY <1>0, <1>1, <1>4, <3>4, HandlePieceAnswers
  <2>20. DisksRight'
    <3>1. DOMAIN MergedInto(FileOf(p, n), now) \subseteq all
      BY <2>2, <2>7, <2>8, MergedRight DEF all
    <3>2. FileRight(n, MergedInto(FileOf(p, n), now))
      BY <2>2, <3>1 DEF FileRight, all
    <3>3. PICK file : file = MergedInto(FileOf(p, n), now)
      OBVIOUS
    <3>4. \A q \in Peer : \A m \in DOMAIN disk'[q] :
            \/ m = n /\ disk'[q][m] = file
            \/ m \in DOMAIN disk[q] /\ disk'[q][m] = disk[q][m]
      <4>1. disk \in DiskT /\ (disk' = disk \/ disk' = [disk EXCEPT ![p] = Put(@, n, file)])
        BY <1>1, <2>9, <3>3, TypeParts
      <4> QED BY <4>1 DEF DiskT, Put
    <3> SUFFICES ASSUME NEW q \in Peer, NEW m \in DOMAIN disk'[q], NEW f, f = disk'[q][m]
                 PROVE  FileRight(m, f)'
      BY DEF DisksRight, FileRight
    <3>5. FileRight(m, f)
      BY <3>2, <3>3, <3>4 DEF PromiseInv, DisksRight
    <3> QED BY <1>1, <3>5 DEF FileRight, Transfer
  <2>21. ASSUME NEW u \in Transfer PROVE AnnouncedOnce(u)'
    <3>1. QueuesShrink(sq', sq)
      BY <2>9, UnchangedShrinks
    <3>2. u \in merged' \/ Receiving(u)' => u \in merged \/ Receiving(u)
      <4>1. Receiving(t)
        BY <2>2, <2>3, <2>4 DEF Receiving
      <4> QED BY <2>10, <2>13, <4>1
    <3> QED BY <1>1, <2>19, <3>1, <3>2, ShrinkKeepsOnce DEF PromiseInv
  <2>22. \A u \in Transfer' : AnnouncedOnce(u)'
    BY <1>1, <2>21 DEF Transfer
  <2> HIDE DEF PromiseInv
  <2>23. PromiseInv'
    BY <2>16, <2>17, <2>18, <2>19, <2>20, <2>22 DEF PromiseInv
  <2> QED BY <2>2, <2>14, <2>23
<1> QED BY <1>3, <1>4

(* The sender learns that its file is done, or drops the task of one it received: that     *)
(* file was put together, so nothing stored is lost with the task.                       *)
LEMMA HandleDonePromise ==
  ASSUME PromiseInv, FileInv', NEW p \in Peer, NEW s \in Sock, HandleDone(p, s)
  PROVE  /\ PromiseInv'
         /\ \/ Unseen
            \/ \E t \in merged : /\ finished' = finished \cup {t} /\ UNCHANGED <<sent, merged>>
                                 /\ Acked(t)' = 1 .. sent[t].size
                                 /\ \A u \in Transfer : /\ Stored(u)' = Stored(u)
                                                        /\ u # t => Acked(u)' = Acked(u)
<1>0. PICK c : c = Head(wire[p][s])
  OBVIOUS
<1>1. FileInv /\ TypeOK /\ Takes(p, s, "DONE") /\ UNCHANGED <<sent, pending>>
  BY DEF HandleDone, PromiseInv, FileInv
<1>2. /\ wire[p][s] # <<>> /\ c \in Range(wire[p][s]) /\ c.type = "DONE" /\ c.name \in Names
  BY <1>0, <1>1, TakesCell
<1>3. CASE c.name \notin DOMAIN task[p]
  <2>1. Drop(p, s)
    BY <1>0, <1>3 DEF HandleDone
  <2> QED BY <1>1, <2>1, DropPromise
<1>4. CASE c.name \in DOMAIN task[p]
  <2>1. PICK n \in Names, t \in Transfer : n = c.name /\ sent[t].name = n /\ t \in merged
    <3>1. CellOk(p, c, merged)
      BY <1>1, <1>2 DEF FileInv, WiresOk
    <3> QED BY <1>2, <3>1 DEF CellOk
  <2>2. /\ task[p][n].of = t /\ n \in DOMAIN task[p]
        /\ task[p][n].way = "send" <=> From(t) = p
    BY <1>1, <1>4, <2>1, OwnTask
  <2>3. /\ task' = [task EXCEPT ![p] = Without(@, n)]
        /\ finished' = IF task[p][n].way = "send" THEN finished \cup {t} ELSE finished
        /\ wire' = Taken(p, s) /\ UNCHANGED <<disk, merged, sq>>
    BY <1>0, <1>4, <2>1, <2>2 DEF HandleDone
  <2>4. /\ \A q \in Peer : q # p => task'[q] = task[q]
        /\ DOMAIN task'[p] = DOMAIN task[p] \ {n}
        /\ \A m \in DOMAIN task'[p] : task'[p][m] = task[p][m]
    <3>1. task \in TaskT
      BY <1>1, TypeParts
    <3>2. /\ \A q \in Peer : q # p => task'[q] = task[q]
          /\ task'[p] = Without(task[p], n)
      BY <2>3, <3>1 DEF TaskT
    <3> QED BY <3>2 DEF Without
  <2>5. ASSUME NEW u \in Transfer
        PROVE  /\ Stored(u)' = Stored(u) /\ (Receiving(u)' => Receiving(u))
               /\ u # t => Acked(u)' = Acked(u)
    <3>1. /\ From(u)' = From(u) /\ To(u)' = To(u) /\ From(u) \in Peer /\ To(u) \in Peer
          /\ sent' = sent
      BY <1>1, EndsOfTransfer DEF From, To
    <3>2. u # t => sent[u].name # n
      BY <1>1, <2>1 DEF FileInv, NamesDiffer
    <3>3. \A q \in Peer :
            /\ sent[u].name \in DOMAIN task'[q] =>
                 /\ sent[u].name \in DOMAIN task[q]
                 /\ task'[q][sent[u].name] = task[q][sent[u].name]
            /\ u # t /\ sent[u].name \in DOMAIN task[q] => sent[u].name \in DOMAIN task'[q]
      BY <2>4, <3>2
    <3>4. Receiving(u)' => Receiving(u)
      BY <3>1, <3>3 DEF Receiving
    <3>5. CASE u = t
      BY <2>1, <2>3, <3>1, <3>4, <3>5 DEF Stored
    <3>6. CASE u # t
      <4>1. Receiving(u)' = Receiving(u) /\ (Receiving(u)' => ReceiverTask(u)' = ReceiverTask(u))
        BY <3>1, <3>3, <3>6 DEF Receiving, ReceiverTask
      <4>2. Sending(u)' = Sending(u) /\ (Sending(u)' => SenderTask(u)' = SenderTask(u))
        BY <3>1, <3>3, <3>6 DEF Sending, SenderTask
      <4>3. (u \in finished' <=> u \in finished) /\ merged' = merged
        BY <2>3, <3>6
      <4> QED BY <3>1, <3>4, <4>1, <4>2, <4>3 DEF Stored, Acked
    <3> QED BY <3>5, <3>6
  <2>6. TasksRight'
    <3> SUFFICES ASSUME NEW q \in Peer, NEW m \in DOMAIN task'[q], NEW x, x = task'[q][m]
                 PROVE  TaskRight(x)'
      BY TasksRightFrom
    <3>1. m \in DOMAIN task[q] /\ x = task[q][m]
      BY <2>4
    <3>2. TaskRight(x) /\ x.of \in Transfer
      BY <1>1, <3>1 DEF PromiseInv, TasksRight, FileInv, TasksOk, TaskOk
    <3>3. Stored(x.of)' = Stored(x.of)
      BY <2>5, <3>2
    <3> QED BY <1>1, <2>3, <3>2, <3>3 DEF TaskRight, Size
  <2>7. PendingsRight'
    <3> SUFFICES ASSUME NEW q \in Peer, NEW m \in DOMAIN pending[q] PROVE PendingRight(q, m)'
      BY <1>1 DEF PendingsRight
    <3>1. PendingRight(q, m) /\ m \notin DOMAIN task'[q]
      BY <2>4 DEF PromiseInv, PendingsRight, PendingRight
    <3> QED BY <1>1, <3>1 DEF PendingRight, Size
  <2>8. QueuesRight' /\ DisksRight'
    BY <1>1, <2>3, QueuesStayRight DEF PromiseInv, DisksRight, FileRight, Transfer
  <2>9. WiresRight' /\ WiresShrink(wire', wire)
    <3>1. WiresShrink(wire', wire) /\ Gains(wire, wire', p, s, <<>>)
      BY <1>1, <1>2, <2>3, TakenShrinks, TakenEffect
    <3>2. \A x \in Range(<<>>) : CellRight(Other(p), x)'
      BY RangeOfEmpty
    <3> QED BY <1>1, <2>5, <3>1, <3>2, WiresStayRight DEF PromiseInv
  <2>10. ASSUME NEW u \in Transfer PROVE AnnouncedOnce(u)'
    <3>1. QueuesShrink(sq', sq)
      BY <2>3, UnchangedShrinks
    <3>2. u \in merged' \/ Receiving(u)' => u \in merged \/ Receiving(u)
      BY <2>3, <2>5
    <3> QED BY <1>1, <2>9, <3>1, <3>2, ShrinkKeepsOnce DEF PromiseInv
  <2>11. \A u \in Transfer' : AnnouncedOnce(u)'
    BY <1>1, <2>10 DEF Transfer
  <2> HIDE DEF PromiseInv
  <2>12. PromiseInv'
    BY <2>6, <2>7, <2>8, <2>9, <2>11 DEF PromiseInv
  <2>13. CASE task[p][n].way = "send"
    <3>1. finished' = finished \cup {t}
      BY <2>3, <2>13
    <3>2. Acked(t)' = 1 .. sent[t].size
      BY <1>1, <3>1 DEF Acked
    <3> QED BY <1>1, <2>1, <2>3, <2>5, <2>12, <3>1, <3>2
  <2>14. CASE task[p][n].way # "send"
    <3>1. finished' = finished /\ From(t) # p
      BY <2>2, <2>3, <2>14
    <3>2. Acked(t)' = Acked(t)
      <4>1. From(t)' = From(t) /\ From(t) \in Peer /\ sent' = sent
        BY <1>1, EndsOfTransfer DEF From
      <4>2. task'[From(t)] = task[From(t)]
        BY <2>4, <3>1, <4>1
      <4> QED BY <3>1, <4>1, <4>2 DEF Acked, Sending, SenderTask
    <3>3. Unseen
      BY <1>1, <2>3, <2>5, <3>1, <3>2 DEF Unseen
    <3> QED BY <2>12, <3>3
  <2> QED BY <2>13, <2>14
<1> QED BY <1>3, <1>4

(* An acknowledgement counts a piece its receiver stores.                                *)
LEMMA HandleAckPromise ==
  ASSUME PromiseInv, FileInv', NEW p \in Peer, NEW s \in Sock, HandleAck(p, s)
  PROVE  /\ PromiseInv'
         /\ \/ Unseen
            \/ \E t \in Transfer : \E i \in Stored(t) :
                 /\ UNCHANGED <<sent, merged, finished>>
                 /\ Acked(t)' = Acked(t) \cup {i}
                 /\ \A u \in Transfer : /\ Stored(u)' = Stored(u)
                                        /\ u # t => Acked(u)' = Acked(u)
<1>0. PICK c : c = Head(wire[p][s])
  OBVIOUS
<1>1. FileInv /\ TypeOK /\ Takes(p, s, "ACK") /\ UNCHANGED <<sent, pending>>
  BY DEF HandleAck, PromiseInv, FileInv
<1>2. /\ wire[p][s] # <<>> /\ c \in Range(wire[p][s]) /\ c.type = "ACK"
      /\ c.name \in Names /\ c.piece \in Piece
  BY <1>0, <1>1, TakesCell
<1>3. CASE c.name \notin DOMAIN task[p]
  <2>1. Drop(p, s)
    BY <1>0, <1>3 DEF HandleAck
  <2> QED BY <1>1, <2>1, DropPromise
<1>4. CASE c.name \in DOMAIN task[p]
  <2>1. PICK n \in Names, t \in Transfer, i \in Piece :
               /\ n = c.name /\ sent[t].name = n /\ From(t) = p
               /\ i = c.piece /\ i \in Stored(t)
    <3>1. CellRight(p, c)
      BY <1>1, <1>2 DEF PromiseInv, WiresRight
    <3> QED BY <1>2, <3>1 DEF CellRight
  <2>2. PICK tk : tk = task[p][n]
    OBVIOUS
  <2>3. n \in DOMAIN task[p] /\ tk.of = t /\ tk.way = "send" /\ tk \in Task /\ TaskRight(tk)
    <3>1. task[p] \in Partial(Names, Task) /\ n \in DOMAIN task[p]
      BY <1>1, <1>4, <2>1, TypeParts DEF TaskT
    <3> QED BY <1>1, <2>1, <2>2, <3>1, PartialValue, OwnTask DEF PromiseInv, TasksRight
  <2>4. PICK new : new = [tk EXCEPT !.done = @ \cup {i}, !.status = 1]
    OBVIOUS
  <2>5. PICK fill : fill = Entry(s, "FILL", n, 0, <<>>)
    OBVIOUS
  <2>6. /\ task' = [task EXCEPT ![p][n] = new]
        /\ sq' = [sq EXCEPT ![p] = Append(@, fill)]
        /\ wire' = Taken(p, s) /\ UNCHANGED <<disk, merged, finished>>
    <3>1. task' = [task EXCEPT ![p][n].done = @ \cup {i}, ![p][n].status = 1]
      BY <1>0, <1>4, <2>1 DEF HandleAck
    <3>2. task' = [task EXCEPT ![p][n] = new]
      <4>1. task \in TaskT
        BY <1>1, TypeParts
      <4> QED BY <2>2, <2>4, <3>1, <4>1 DEF TaskT
    <3> QED BY <1>0, <1>4, <2>1, <2>5, <3>2 DEF HandleAck
  <2>7. /\ new.way = "send" /\ new.of = t /\ new.status = 1 /\ new.content = tk.content
        /\ new.done = tk.done \cup {i}
    BY <2>3, <2>4 DEF Task
  <2>8. /\ \A q \in Peer : q # p => task'[q] = task[q]
        /\ DOMAIN task'[p] = DOMAIN task[p] /\ task'[p][n] = new
        /\ \A m \in DOMAIN task[p] : m # n => task'[p][m] = task[p][m]
    <3>1. task \in TaskT
      BY <1>1, TypeParts
    <3>2. /\ \A q \in Peer : q # p => task'[q] = task[q]
          /\ task'[p] = [task[p] EXCEPT ![n] = new]
      BY <2>6, <3>1 DEF TaskT
    <3> QED BY <2>3, <3>2
  <2>9. ASSUME NEW u \in Transfer
        PROVE  /\ Stored(u)' = Stored(u) /\ Receiving(u)' = Receiving(u)
               /\ u # t => Acked(u)' = Acked(u)
    <3>1. /\ From(u)' = From(u) /\ To(u)' = To(u) /\ From(u) \in Peer /\ To(u) \in Peer
          /\ To(u) # From(u) /\ sent' = sent
      BY <1>1, EndsOfTransfer DEF From, To
    <3>2. u # t => sent[u].name # n
      BY <1>1, <2>1 DEF FileInv, NamesDiffer
    <3>3. \A q \in Peer : q # p \/ u # t =>
            /\ sent[u].name \in DOMAIN task'[q] <=> sent[u].name \in DOMAIN task[q]
            /\ sent[u].name \in DOMAIN task[q] =>
                 task'[q][sent[u].name] = task[q][sent[u].name]
      BY <2>8, <3>2
    <3>4. To(u) # p \/ u # t
      BY <2>1, <3>1
    <3>5. Receiving(u)' = Receiving(u) /\ (Receiving(u) => ReceiverTask(u)' = ReceiverTask(u))
      BY <3>1, <3>3, <3>4 DEF Receiving, ReceiverTask
    <3>6. u # t =>
            Sending(u)' = Sending(u) /\ (Sending(u) => SenderTask(u)' = SenderTask(u))
      BY <3>1, <3>3 DEF Sending, SenderTask
    <3> QED BY <2>6, <3>1, <3>5, <3>6 DEF Stored, Acked
  <2>10. Acked(t)' = Acked(t) \cup {i}
    <3>1. /\ Sending(t) /\ SenderTask(t).done = tk.done
          /\ Sending(t)' /\ SenderTask(t)'.done = tk.done \cup {i}
      <4>1. From(t)' = p /\ sent' = sent /\ p \in Peer
        BY <1>1, <2>1 DEF From
      <4> QED BY <2>1, <2>2, <2>3, <2>7, <2>8, <4>1 DEF Sending, SenderTask
    <3>2. CASE t \in finished
      <4>1. t \in merged
        BY <1>1, <3>2 DEF FileInv, DoneMeansReceived
      <4>2. i \in 1 .. sent[t].size
        BY <2>1, <4>1 DEF Stored
      <4> QED BY <1>1, <2>6, <3>2, <4>2 DEF Acked
    <3>3. CASE t \notin finished
      BY <2>6, <3>1, <3>3 DEF Acked
    <3> QED BY <3>2, <3>3
  <2>11. TasksRight'
    <3> SUFFICES ASSUME NEW q \in Peer, NEW m \in DOMAIN task'[q], NEW x, x = task'[q][m]
                 PROVE  TaskRight(x)'
      BY TasksRightFrom
    <3>1. CASE q = p /\ m = n
      <4>1. /\ x.way = "send" /\ x.of = t /\ x.status = 1
            /\ x.content = tk.content /\ x.done = tk.done \cup {i}
        BY <2>7, <2>8, <3>1
      <4>2. Size(x)' = Size(tk) /\ Stored(x.of)' = Stored(t)
        BY <1>1, <2>3, <2>9, <4>1 DEF Size
      <4>3. /\ tk.content = [k \in 1 .. Size(tk) |-> tk.of]
            /\ tk.done \subseteq Stored(tk.of)
        BY <2>3 DEF TaskRight
      <4>4. x.content = [k \in 1 .. Size(x)' |-> x.of]
        BY <2>3, <4>1, <4>2, <4>3
      <4>5. x.done \subseteq Stored(x.of)'
        BY <2>1, <2>3, <4>1, <4>2, <4>3
      <4> QED BY <4>1, <4>4, <4>5 DEF TaskRight
    <3>2. CASE ~(q = p /\ m = n)
      <4>1. m \in DOMAIN task[q] /\ x = task[q][m]
        BY <2>8, <3>2
      <4>2. TaskRight(x) /\ x.of \in Transfer
        BY <1>1, <4>1 DEF PromiseInv, TasksRight, FileInv, TasksOk, TaskOk
      <4>3. Stored(x.of)' = Stored(x.of)
        BY <2>9, <4>2
      <4> QED BY <1>1, <2>6, <4>2, <4>3 DEF TaskRight, Size
    <3> QED BY <3>1, <3>2
  <2>12. PendingsRight'
    <3> SUFFICES ASSUME NEW q \in Peer, NEW m \in DOMAIN pending[q] PROVE PendingRight(q, m)'
      BY <1>1 DEF PendingsRight
    <3>1. PendingRight(q, m) /\ m \notin DOMAIN task'[q]
      BY <2>8 DEF PromiseInv, PendingsRight, PendingRight
    <3> QED BY <1>1, <3>1 DEF PendingRight, Size
  <2>13. DisksRight'
    BY <1>1, <2>6 DEF PromiseInv, DisksRight, FileRight, Transfer
  <2>14. fill \in Queued /\ fill.type = "FILL"
    BY <2>5 DEF Entry, Queued
  <2>15. QueuesRight' /\ QueuesShrink(sq', sq)
    <3>1. sq \in QueueT
      BY <1>1, TypeParts
    <3>2. \A q \in Peer : Range(sq'[q]) \subseteq Range(sq[q]) \cup (IF q = p THEN {fill} ELSE {})
      BY <2>6, <2>14, <3>1, QueueAppended
    <3>3. QueuesRight'
      BY <1>1, <2>14, <3>2, QueuesStayRight DEF PromiseInv, EntryRight
    <3>4. <<fill>> \in Seq(Queued) /\ \A e \in Range(<<fill>>) : e.type # "META"
      BY <2>14 DEF Range
    <3>5. Append(sq[p], fill) = sq[p] \o <<fill>>
      BY <2>14, <3>1 DEF QueueT
    <3>6. sq' = [sq EXCEPT ![p] = @ \o <<fill>>]
      BY <2>6, <3>5
    <3> QED BY <3>1, <3>3, <3>4, <3>6, QueueJoinedShrinks
  <2>16. WiresRight' /\ WiresShrink(wire', wire)
    <3>1. WiresShrink(wire', wire) /\ Gains(wire, wire', p, s, <<>>)
      BY <1>1, <1>2, <2>6, TakenShrinks, TakenEffect
    <3>2. \A x \in Range(<<>>) : CellRight(Other(p), x)'
      BY RangeOfEmpty
    <3> QED BY <1>1, <2>9, <3>1, <3>2, WiresStayRight DEF PromiseInv
  <2>17. ASSUME NEW u \in Transfer PROVE AnnouncedOnce(u)'
    BY <1>1, <2>6, <2>9, <2>15, <2>16, ShrinkKeepsOnce DEF PromiseInv
  <2>18. \A u \in Transfer' : AnnouncedOnce(u)'
    BY <1>1, <2>17 DEF Transfer
  <2> HIDE DEF PromiseInv
  <2>19. PromiseInv'
    BY <2>11, <2>12, <2>13, <2>15, <2>16, <2>18 DEF PromiseInv
  <2> QED BY <1>1, <2>1, <2>6, <2>9, <2>10, <2>19
<1> QED BY <1>3, <1>4

-----------------------------------------------------------------------------
(* The promise, step by step                                                 *)

StoredNow == [t \in Transfer |-> Stored(t)]
AckedNow  == [t \in Transfer |-> Acked(t)]

(* A step the protocol takes without storing, acknowledging or finishing anything.        *)
LEMMA UnseenStutters == Unseen => UNCHANGED Promise!vars
<1> SUFFICES ASSUME Unseen PROVE UNCHANGED Promise!vars
  OBVIOUS
<1>1. Transfer' = Transfer /\ sent' = sent /\ merged' = merged /\ finished' = finished
  BY DEF Unseen, Transfer
<1>2. StoredNow' = StoredNow
  BY <1>1 DEF Unseen, StoredNow
<1>3. AckedNow' = AckedNow
  BY <1>1 DEF Unseen, AckedNow
<1> QED BY <1>1, <1>2, <1>3 DEF Promise!vars, StoredNow, AckedNow

(* A piece that comes is stored, or was.                                                *)
LEMMA PieceKeepsPromise ==
  ASSUME NEW t \in Transfer, NEW i \in 1 .. sent[t].size, PieceStored(t, i)
  PROVE  [Promise!Next]_(Promise!vars)
<1>1. Transfer' = Transfer /\ sent' = sent /\ finished' = finished
  BY DEF PieceStored, Transfer
<1>2. AckedNow' = AckedNow
  BY <1>1 DEF PieceStored, AckedNow
<1>3. CASE i \in Stored(t)
  <2>1. \A u \in Transfer : Stored(u)' = Stored(u)
    BY <1>3 DEF PieceStored
  <2>2. StoredNow' = StoredNow /\ merged' = merged
    BY <1>1, <1>3, <2>1 DEF PieceStored, StoredNow
  <2> QED BY <1>1, <1>2, <2>2 DEF Promise!vars, StoredNow, AckedNow
<1>4. CASE i \notin Stored(t)
  <2>1. StoredNow' = [StoredNow EXCEPT ![t] = @ \cup {i}]
    BY <1>1 DEF PieceStored, StoredNow
  <2>2. StoredNow[t] = Stored(t) /\ StoredNow'[t] = Stored(t)'
    BY <1>1 DEF StoredNow
  <2>3. merged' = IF StoredNow'[t] = 1 .. sent[t].size THEN merged \cup {t} ELSE merged
    BY <2>2 DEF PieceStored
  <2>4. Promise!Store(t, i)
    BY <1>1, <1>2, <1>4, <2>1, <2>2, <2>3 DEF Promise!Store, Promise!Pieces, StoredNow, AckedNow
  <2>5. Promise!Next
    BY <2>4 DEF Promise!Next, Promise!Pieces, Transfer
  <2> QED BY <2>5
<1> QED BY <1>3, <1>4

(* The sender counts a piece.                                                            *)
LEMMA AckKeepsPromise ==
  ASSUME NEW t \in Transfer, NEW i \in 1 .. sent[t].size, i \in Stored(t),
         UNCHANGED <<sent, merged, finished>>, Acked(t)' = Acked(t) \cup {i},
         \A u \in Transfer : Stored(u)' = Stored(u) /\ (u # t => Acked(u)' = Acked(u))
  PROVE  Promise!Next
<1>1. Transfer' = Transfer
  BY DEF Transfer
<1>2. StoredNow' = StoredNow /\ StoredNow[t] = Stored(t)
  BY <1>1 DEF StoredNow
<1>3. AckedNow' = [AckedNow EXCEPT ![t] = @ \cup {i}]
  BY <1>1 DEF AckedNow
<1>4. Promise!Acknowledge(t, i)
  BY <1>1, <1>2, <1>3 DEF Promise!Acknowledge, StoredNow, AckedNow
<1> QED BY <1>4 DEF Promise!Next, Promise!Pieces, Transfer

(* The sender knows that its file is whole.                                              *)
LEMMA DoneKeepsPromise ==
  ASSUME NEW t \in Transfer, t \in merged, finished' = finished \cup {t},
         UNCHANGED <<sent, merged>>, Acked(t)' = 1 .. sent[t].size,
         \A u \in Transfer : Stored(u)' = Stored(u) /\ (u # t => Acked(u)' = Acked(u))
  PROVE  Promise!Next
<1>1. Transfer' = Transfer
  BY DEF Transfer
<1>2. StoredNow' = StoredNow
  BY <1>1 DEF StoredNow
<1>3. AckedNow' = [AckedNow EXCEPT ![t] = 1 .. sent[t].size]
  BY <1>1 DEF AckedNow
<1>4. Promise!Finish(t)
  BY <1>1, <1>2, <1>3 DEF Promise!Finish, Promise!Pieces, StoredNow, AckedNow
<1> QED BY <1>4 DEF Promise!Next, Transfer

(* A file is announced.                                                                  *)
LEMMA AnnounceKeepsPromise ==
  ASSUME NEW p \in Peer, NEW name \in Names, NEW size \in Sizes, Announce(p, name, size),
         TypeOK, NEW t, t = Len(sent) + 1,
         \A u \in Transfer : Stored(u)' = Stored(u) /\ Acked(u)' = Acked(u),
         Stored(t)' = {}, Acked(t)' = {}
  PROVE  Promise!Next
<1>1. PICK file \in [from : Peer, name : Names, size : Sizes] : sent' = Append(sent, file)
  BY DEF Announce
<1>2. /\ sent \in Seq(File) /\ Len(sent) \in Nat /\ Transfer = 1 .. Len(sent)
      /\ Transfer' = Transfer \cup {t} /\ t \notin Transfer
  BY <1>1, TypeParts, TypesGrow DEF File, Transfer
<1>3. StoredNow' = Append(StoredNow, {})
  BY <1>2 DEF StoredNow
<1>4. AckedNow' = Append(AckedNow, {})
  BY <1>2 DEF AckedNow
<1>5. UNCHANGED <<merged, finished>>
  BY DEF Announce
<1>6. Promise!Announce(file)
  BY <1>1, <1>3, <1>4, <1>5 DEF Promise!Announce, StoredNow, AckedNow
<1> QED BY <1>6 DEF Promise!Next

-----------------------------------------------------------------------------
(* The invariant, and what follows from it                                   *)

LEMMA PromiseInit == Init => PromiseInv
<1> SUFFICES ASSUME Init PROVE PromiseInv
  OBVIOUS
<1>1. FileInv
  BY FileInit
<1>2. DOMAIN <<>> = {} /\ Range(<<>>) = {}
  BY RangeOfEmpty
<1>3. Transfer = {}
  BY <1>2 DEF Init, Transfer
<1>4. TasksRight /\ PendingsRight /\ DisksRight
  BY <1>2 DEF Init, TasksRight, PendingsRight, DisksRight
<1>5. QueuesRight /\ WiresRight
  BY <1>2 DEF Init, QueuesRight, WiresRight
<1> QED BY <1>1, <1>3, <1>4, <1>5 DEF PromiseInv

(* Only pieces of the file are stored.                                                    *)
LEMMA StoredIsOfFile ==
  ASSUME PromiseInv, NEW t \in Transfer
  PROVE  Stored(t) \subseteq 1 .. sent[t].size
<1>1. FileInv /\ To(t) \in Peer
  BY EndsOfTransfer DEF PromiseInv
<1>2. CASE t \notin merged /\ Receiving(t)
  <2>1. /\ TaskRight(ReceiverTask(t)) /\ ReceiverTask(t).way = "receive"
        /\ ReceiverTask(t).of = t
    BY <1>1, <1>2 DEF PromiseInv, TasksRight, Receiving, ReceiverTask
  <2> QED BY <1>2, <2>1 DEF TaskRight, Stored, Size
<1> QED BY <1>2 DEF Stored

(* Every step keeps the invariant, and is a step of the promise or one it does not see.     *)
LEMMA PromiseStep ==
  ASSUME ~ReuseNames, ~Offline, PromiseInv, [Next]_vars
  PROVE  PromiseInv' /\ [Promise!Next]_(Promise!vars)
<1> DEFINE Goal == PromiseInv' /\ [Promise!Next]_(Promise!vars)
<1>1. FileInv /\ TypeOK /\ FileInv'
  BY FileStep DEF PromiseInv, FileInv
<1>2. ASSUME PromiseInv', Unseen PROVE Goal
  BY <1>2, UnseenStutters
<1> HIDE DEF PromiseInv
<1>3. ASSUME NEW p \in Peer, UserStep(p) PROVE Goal
  <2>1. PICK name \in Names, size \in Sizes : Announce(p, name, size)
    BY <1>3 DEF UserStep
  <2>2. PICK t : t = Len(sent) + 1
    OBVIOUS
  <2>3. /\ PromiseInv'
        /\ \A u \in Transfer : Stored(u)' = Stored(u) /\ Acked(u)' = Acked(u)
        /\ Stored(t)' = {} /\ Acked(t)' = {}
    BY <1>1, <2>1, <2>2, AnnouncePromise
  <2> QED BY <1>1, <2>1, <2>2, <2>3, AnnounceKeepsPromise
<1>4. ASSUME NEW p \in Peer, Register(p) PROVE Goal
  BY <1>1, <1>2, <1>4, RegisterPromise
<1>5. ASSUME NEW p \in Peer, NEW thread \in Thread, WalkStep(p, thread) PROVE Goal
  BY <1>1, <1>2, <1>5, WalkStepPromise
<1>6. ASSUME NEW p \in Peer, Write(p) \/ WriteFails(p) PROVE Goal
  BY <1>1, <1>2, <1>6, WritePromise, WriteFailsPromise
<1>7. ASSUME NEW p \in Peer, NEW s \in Sock,
             \/ HandleMeta(p, s) \/ HandleReady(p, s)
             \/ ReaderStops(p, s) \/ ReadsTooSoon(p, s) \/ ReadsTorn(p, s)
      PROVE  Goal
  <2>1. CASE ReaderStops(p, s) \/ ReadsTooSoon(p, s)
    BY <1>1, <1>2, <2>1, StopsReadingPromise DEF ReaderStops, ReadsTooSoon
  <2> QED BY <1>1, <1>2, <1>7, <2>1, HandleMetaPromise, HandleReadyPromise, ReadsTornPromise
<1>8. ASSUME NEW p \in Peer, NEW s \in Sock, HandlePiece(p, s) PROVE Goal
  <2>1. /\ PromiseInv'
        /\ Unseen \/ \E t \in Transfer : \E i \in 1 .. sent[t].size : PieceStored(t, i)
    BY <1>1, <1>8, HandlePiecePromise
  <2> QED BY <1>2, <2>1, PieceKeepsPromise
<1>9. ASSUME NEW p \in Peer, NEW s \in Sock, HandleDone(p, s) PROVE Goal
  <2>1. /\ PromiseInv'
        /\ \/ Unseen
           \/ \E t \in merged : /\ finished' = finished \cup {t} /\ UNCHANGED <<sent, merged>>
                                /\ Acked(t)' = 1 .. sent[t].size
                                /\ \A u \in Transfer : /\ Stored(u)' = Stored(u)
                                                       /\ u # t => Acked(u)' = Acked(u)
    BY <1>1, <1>9, HandleDonePromise
  <2>2. merged \subseteq Transfer
    BY <1>1 DEF TypeOK
  <2> QED BY <1>2, <2>1, <2>2, DoneKeepsPromise
<1>10. ASSUME NEW p \in Peer, NEW s \in Sock, HandleAck(p, s) PROVE Goal
  <2>1. /\ PromiseInv'
        /\ \/ Unseen
           \/ \E t \in Transfer : \E i \in Stored(t) :
                /\ UNCHANGED <<sent, merged, finished>>
                /\ Acked(t)' = Acked(t) \cup {i}
                /\ \A u \in Transfer : /\ Stored(u)' = Stored(u)
                                       /\ u # t => Acked(u)' = Acked(u)
    BY <1>1, <1>10, HandleAckPromise
  <2>2. ASSUME NEW t \in Transfer PROVE Stored(t) \subseteq 1 .. sent[t].size
    BY StoredIsOfFile, <2>2
  <2> QED BY <1>2, <2>1, <2>2, AckKeepsPromise
<1>11. ASSUME UNCHANGED <<sent, pending, task, disk, sq, wire, merged, finished>> PROVE Goal
  BY <1>1, <1>2, <1>11, QuietPromise
<1>12. ASSUME \/ \E p \in Peer : \/ StatusResend(p)
                              \/ \E s \in Sock : Establish(p, s) \/ RecordAgain(p, s)
              \/ \E s \in Sock : CutCircuit(s)
              \/ UNCHANGED vars
       PROVE  UNCHANGED <<sent, pending, task, disk, sq, wire, merged, finished>>
  BY <1>12 DEF StatusResend, Establish, RecordAgain, CutCircuit, vars, taskVars
<1> HIDE DEF Goal
<1>13. ASSUME NEW p \in Peer, ReaderStep(p) PROVE Goal
  BY <1>5, <1>7, <1>8, <1>9, <1>10, <1>13 DEF ReaderStep, Thread
<1>14. ASSUME NEW p \in Peer, WalkStep(p, "Status") PROVE Goal
  BY <1>5, <1>14 DEF Thread
<1>15. Goal
  BY <1>3, <1>4, <1>6, <1>7, <1>11, <1>12, <1>13, <1>14 DEF Next
<1> QED BY <1>15 DEF Goal

(* If no name is used twice and no file waits for a connection, a piece its sender counts   *)
(* as acknowledged (receiveFileAck, receiveFileDone), and will not send again, is stored at *)
(* the receiver: through lost answers, repeated pieces and any number of connections.       *)
THEOREM AcknowledgedIsStored ==
  ASSUME ~ReuseNames, ~Offline
  PROVE  Spec => []AckedIsStored
<1>1. Init => PromiseInv
  BY PromiseInit
<1>2. PromiseInv /\ [Next]_vars => PromiseInv'
  BY PromiseStep
<1>3. PromiseInv => AckedIsStored
  <2> SUFFICES ASSUME PromiseInv, NEW t \in Transfer PROVE Acked(t) \subseteq Stored(t)
    BY DEF AckedIsStored
  <2>1. FileInv /\ From(t) \in Peer
    BY EndsOfTransfer DEF PromiseInv
  <2>2. CASE t \in finished
    BY <2>1, <2>2 DEF Acked, Stored, FileInv, DoneMeansReceived
  <2>3. CASE t \notin finished /\ Sending(t)
    <3>1. TaskRight(SenderTask(t)) /\ SenderTask(t).way = "send" /\ SenderTask(t).of = t
      BY <2>1, <2>3 DEF PromiseInv, TasksRight, Sending, SenderTask
    <3> QED BY <2>3, <3>1 DEF TaskRight, Acked
  <2> QED BY <2>2, <2>3 DEF Acked
<1> QED BY <1>1, <1>2, <1>3, PTL DEF Spec

(* Under the same assumptions the whole protocol, with its connections, queues, cells and   *)
(* threads, implements FileTransferAbs: what is stored is never lost again, a piece is       *)
(* acknowledged only when it is stored, and a file is done only when it is whole.            *)
THEOREM ImplementsPromise ==
  ASSUME ~ReuseNames, ~Offline
  PROVE  Spec => KeepsPromise
<1>1. Init => PromiseInv
  BY PromiseInit
<1>2. PromiseInv /\ [Next]_vars => PromiseInv' /\ [Promise!Next]_(Promise!vars)
  BY PromiseStep
<1>3. Init => Promise!Init
  <2> SUFFICES ASSUME Init PROVE Promise!Init
    OBVIOUS
  <2>1. sent = <<>> /\ merged = {} /\ finished = {} /\ Transfer = {}
    BY DEF Init, Transfer
  <2> QED BY <2>1 DEF Promise!Init
<1> QED BY <1>1, <1>2, <1>3, PTL DEF Spec, KeepsPromise, Promise!Spec
=============================================================================
