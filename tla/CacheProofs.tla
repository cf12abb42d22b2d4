----------------------------- MODULE CacheProofs -----------------------------
(***************************************************************************)
(* What pdnsd's lock of the cache guarantees for any number of threads:    *)
(* its counters count, it excludes, and its wake-ups suffice; and what the *)
(* cache guarantees for any names, answers, commands and files: its list   *)
(* and its ledger are right, an entry does not contradict itself, and what *)
(* it serves is fresh.                                                     *)
(*                                                                         *)
(* The lock.  Every step of a thread changes the place of that thread, and *)
(* at most wakes others (MovesTo).  Being woken leaves a thread among the  *)
(* readers or the writers that wait, so each counter changes by the one    *)
(* thread.                                                                 *)
(*                                                                         *)
(* The cache.  Its operations take the cache as one record and return it;  *)
(* a record is Good when its entries are cents and its list holds what may *)
(* be purged, each once, in whatever order.  Each operation is shown to    *)
(* take a good record to a good one, so that each step does.  The walks    *)
(* over the list, the types and the file are recursive functions: their    *)
(* lemmas say how they go from one element to the next, and UpTo is the    *)
(* induction over the places.                                              *)
(*                                                                         *)
(* The ledger.  A record is Booked when it is Good, its size and number    *)
(* are the sums over its entries, and each entry counts what it holds.     *)
(* The lemmas about an operation repeat, for the numbers, what the lemmas  *)
(* above say of the entries and the list.                                  *)
(***************************************************************************)
EXTENDS CacheLock, DnsCache, FiniteSetTheorems, WellFoundedInduction, TLAPS

-----------------------------------------------------------------------------
(* The lock *)

(* A place, or where a signal takes a thread from there. *)
Same(x, y) == y = x \/ (x \in Asleep /\ y = WakesTo[x])

(* Thread t went to place q, and some threads may have been signalled. *)
MovesTo(at, t, q) == /\ at \in [Thread -> Place]
                     /\ Same(q, at[t])
                     /\ \A u \in Thread \ {t} : Same(pc[u], at[u])

(* How many threads are at one of the places, if at says where each is. *)
CountIn(at, places) == Cardinality({u \in Thread : at[u] \in places})

(* The places that the counters of the lock count. *)
RPend == {"rAsleep", "rAwake"}
WPend == {"wAsleep", "wAwake", "tAsleep", "tAwake"}

-----------------------------------------------------------------------------
(* Counting threads *)

(* The number of members of a part of the threads is a natural number, and 0 only if *)
(* the part is empty.                                                                *)
LEMMA CountOf ==
  ASSUME NEW S \in SUBSET Thread
  PROVE  /\ IsFiniteSet(S) /\ Cardinality(S) \in Nat
         /\ Cardinality(S) = 0 <=> S = {}
<1>1. IsFiniteSet(S)
  BY ThreadsFinite, FS_Subset
<1> QED BY <1>1, FS_CardinalityType, FS_EmptySet

(* Two parts that differ in one thread at most. *)
LEMMA CountMove ==
  ASSUME NEW A \in SUBSET Thread, NEW B \in SUBSET Thread, NEW t,
         A \ {t} = B \ {t}
  PROVE  Cardinality(B) = Cardinality(A) + (IF t \in B THEN 1 ELSE 0) - (IF t \in A THEN 1 ELSE 0)
<1>1. /\ IsFiniteSet(A) /\ Cardinality(A) \in Nat
      /\ IsFiniteSet(B) /\ Cardinality(B) \in Nat
  BY CountOf
<1>2. Cardinality(A \ {t}) = IF t \in A THEN Cardinality(A) - 1 ELSE Cardinality(A)
  BY <1>1, FS_RemoveElement
<1>3. Cardinality(B \ {t}) = IF t \in B THEN Cardinality(B) - 1 ELSE Cardinality(B)
  BY <1>1, FS_RemoveElement
<1>4. Cardinality(A \ {t}) = Cardinality(B \ {t})
  OBVIOUS
<1> QED BY <1>1, <1>2, <1>3, <1>4

(* A signal keeps a thread among those that wait to read, or to write. *)
LEMMA SameKeeps ==
  ASSUME NEW x, NEW y, Same(x, y)
  PROVE  /\ y \in RPend <=> x \in RPend
         /\ y \in WPend <=> x \in WPend
         /\ y = "reading" <=> x = "reading"
         /\ y = "writing" <=> x = "writing"
         /\ y = "yielded" <=> x = "yielded"
         /\ y = "out" <=> x = "out"
         /\ y \in {"tAsleep", "tAwake"} <=> x \in {"tAsleep", "tAwake"}
         /\ y \in {"wAsleep", "wAwake"} <=> x \in {"wAsleep", "wAwake"}
         /\ y \in Asleep => y = x
         /\ x \in Awake => y = x
  BY DEF Same, Asleep, Awake, WakesTo, RPend, WPend

(* What a move does to the three counts. *)
LEMMA MoveCounts ==
  ASSUME TypeOK, NEW t \in Thread, NEW q, NEW at, MovesTo(at, t, q),
         NEW places \in {{"reading"}, RPend, WPend}
  PROVE  CountIn(at, places) = CountIn(pc, places) + (IF q \in places THEN 1 ELSE 0)
                                                   - (IF pc[t] \in places THEN 1 ELSE 0)
<1> DEFINE A == {u \in Thread : pc[u] \in places}
           B == {u \in Thread : at[u] \in places}
<1>1. \A u \in Thread \ {t} : at[u] \in places <=> pc[u] \in places
  BY SameKeeps DEF MovesTo
<1>2. at[t] \in places <=> q \in places
  BY SameKeeps DEF MovesTo
<1>3. A \ {t} = B \ {t} /\ A \in SUBSET Thread /\ B \in SUBSET Thread
  BY <1>1
<1>4. t \in B <=> q \in places
  BY <1>2
<1>5. t \in A <=> pc[t] \in places
  OBVIOUS
<1> HIDE DEF A, B
<1>6. Cardinality(B) = Cardinality(A) + (IF t \in B THEN 1 ELSE 0) - (IF t \in A THEN 1 ELSE 0)
  BY <1>3, CountMove
<1>7. CountIn(at, places) = Cardinality(B) /\ CountIn(pc, places) = Cardinality(A)
  BY DEF CountIn, A, B
<1> QED BY <1>4, <1>5, <1>6, <1>7

(* The counts are natural numbers. *)
LEMMA CountNat ==
  ASSUME NEW at, NEW places
  PROVE  CountIn(at, places) \in Nat
<1>1. {u \in Thread : at[u] \in places} \in SUBSET Thread
  OBVIOUS
<1> QED BY <1>1, CountOf DEF CountIn

(* The counts of the module, in these terms. *)
LEMMA CountersRead ==
  ASSUME CountersCount
  PROVE  /\ cache_r_lock = CountIn(pc, {"reading"}) + Holds({"saving"})
         /\ r_pend = CountIn(pc, RPend) /\ rw_pend = CountIn(pc, WPend)
  BY DEF CountersCount, Count, CountIn, RPend, WPend

-----------------------------------------------------------------------------
(* Every step of a thread is a move *)

(* One thread put elsewhere. *)
LEMMA PutMoves ==
  ASSUME TypeOK, NEW t \in Thread, NEW q \in Place
  PROVE  MovesTo([pc EXCEPT ![t] = q], t, q)
  BY DEF TypeOK, MovesTo, Same

(* The same, with a writer woken if there is one. *)
LEMMA SignalMoves ==
  ASSUME TypeOK, NEW t \in Thread, NEW q \in Place \ Asleep,
         NEW at \in SignalWriter([pc EXCEPT ![t] = q])
  PROVE  MovesTo(at, t, q)
<1> DEFINE put == [pc EXCEPT ![t] = q]
<1>1. put \in [Thread -> Place] /\ put[t] = q /\ \A u \in Thread \ {t} : put[u] = pc[u]
  BY DEF TypeOK
<1> HIDE DEF put
<1>2. CASE Signalled(put) = {}
  <2>1. at = put
    BY <1>2 DEF SignalWriter, put
  <2> QED BY <1>1, <2>1 DEF MovesTo, Same
<1>3. CASE Signalled(put) # {}
  <2>1. at \in Signalled(put)
    BY <1>3 DEF SignalWriter, put
  <2>2. PICK w \in Thread : put[w] \in WriterAsleep /\ at = [put EXCEPT ![w] = WakesTo[put[w]]]
    BY <2>1 DEF Signalled
  <2>3. w # t /\ put[w] \in Asleep /\ WakesTo[put[w]] \in Place
    BY <1>1, <2>2 DEF WriterAsleep, Asleep, WakesTo, Place, Awake
  <2>4. at \in [Thread -> Place] /\ at[t] = q
    BY <1>1, <2>2, <2>3
  <2>5. \A u \in Thread \ {t} : at[u] = pc[u] \/ (pc[u] \in Asleep /\ at[u] = WakesTo[pc[u]])
    BY <1>1, <2>2, <2>3
  <2> QED BY <2>4, <2>5 DEF MovesTo, Same
<1> QED BY <1>2, <1>3

(* The same, with all readers that sleep woken. *)
LEMMA BroadcastMoves ==
  ASSUME TypeOK, NEW t \in Thread, NEW q \in Place \ Asleep
  PROVE  MovesTo(Broadcast([pc EXCEPT ![t] = q]), t, q)
<1> DEFINE put == [pc EXCEPT ![t] = q]
           at == Broadcast(put)
<1>1. put \in [Thread -> Place] /\ put[t] = q /\ \A u \in Thread \ {t} : put[u] = pc[u]
  BY DEF TypeOK
<1> HIDE DEF put
<1>2. \A u \in Thread : at[u] = IF put[u] = "rAsleep" THEN "rAwake" ELSE put[u]
  BY DEF Broadcast
<1>3. at \in [Thread -> Place]
  <2>1. "rAwake" \in Place
    BY DEF Place, Awake
  <2> QED BY <1>1, <2>1 DEF Broadcast
<1> HIDE DEF at
<1>4. at[t] = q
  BY <1>1, <1>2 DEF Asleep
<1>5. \A u \in Thread \ {t} : Same(pc[u], at[u])
  BY <1>1, <1>2 DEF Same, Asleep, WakesTo
<1>6. MovesTo(at, t, q)
  BY <1>3, <1>4, <1>5 DEF MovesTo, Same
<1> QED BY <1>6 DEF at, put

-----------------------------------------------------------------------------
(* The inductive invariant: the counters count, the flag says whether a writer or the *)
(* main thread is inside, and these exclude the others.                               *)
LockHeld == cache_w_lock = (Writers # {} \/ MainHolds)
LockInv     == TypeOK /\ CountersCount /\ LockHeld /\ Exclusion

(* The change of a count when t goes to q. *)
Change(t, q, places) == (IF q \in places THEN 1 ELSE 0) - (IF pc[t] \in places THEN 1 ELSE 0)

(* The step takes t to q: the counters follow, and t becomes a writer only when nobody  *)
(* is inside, a reader only when no writer is.                                          *)
StepTo(t, q) ==
  /\ MovesTo(pc', t, q) /\ exit' = exit
  /\ uses' \in [Thread -> Nat] /\ r_susp' \in BOOLEAN
  /\ cache_r_lock' = cache_r_lock + Change(t, q, {"reading"})
  /\ r_pend' = r_pend + Change(t, q, RPend)
  /\ rw_pend' = rw_pend + Change(t, q, WPend)
  /\ \/ pc[t] # "writing" /\ q # "writing" /\ cache_w_lock' = cache_w_lock
        /\ (q = "reading" => ~cache_w_lock)
     \/ pc[t] = "writing" /\ q \notin {"reading", "writing"} /\ cache_w_lock' = FALSE
     \/ pc[t] # "writing" /\ q = "writing" /\ cache_w_lock' = TRUE
        /\ ~cache_w_lock /\ cache_r_lock = 0

(* With the counter of readers at 0 nobody reads; the main thread does not either. *)
LEMMA NoReaders ==
  ASSUME LockInv, cache_r_lock = 0
  PROVE  Readers = {} /\ exit # "saving"
<1>1. CountIn(pc, {"reading"}) \in Nat
  BY CountNat
<1>2. CountIn(pc, {"reading"}) = 0 /\ exit # "saving"
  BY <1>1, CountersRead DEF LockInv, Holds
<1>3. Cardinality(Readers) = 0
  <2>1. Readers = {u \in Thread : pc[u] \in {"reading"}}
    BY DEF Readers
  <2> QED BY <1>2, <2>1 DEF CountIn
<1>4. Readers \in SUBSET Thread
  BY DEF Readers
<1> QED BY <1>2, <1>3, <1>4, CountOf

(* A step of a thread keeps the counters right. *)
LEMMA StepCounts ==
  ASSUME LockInv, NEW t \in Thread, NEW q, StepTo(t, q)
  PROVE  CountersCount'
<1>1. MovesTo(pc', t, q)
  BY DEF StepTo
<1>2. TypeOK
  BY DEF LockInv
<1>3. ASSUME NEW places \in {{"reading"}, RPend, WPend}
      PROVE  CountIn(pc', places) = CountIn(pc, places) + Change(t, q, places)
  <2>1. CountIn(pc', places) = CountIn(pc, places) + (IF q \in places THEN 1 ELSE 0)
                                                   - (IF pc[t] \in places THEN 1 ELSE 0)
    BY <1>1, <1>2, <1>3, MoveCounts
  <2> QED BY <2>1, CountNat DEF Change
<1>4. \A places : CountIn(pc, places) \in Nat
  BY CountNat
<1>5. /\ cache_r_lock = CountIn(pc, {"reading"}) + Holds({"saving"})
      /\ r_pend = CountIn(pc, RPend) /\ rw_pend = CountIn(pc, WPend)
  BY CountersRead DEF LockInv
<1>6. Holds({"saving"})' = Holds({"saving"}) /\ Holds({"saving"}) \in Nat
  BY DEF StepTo, Holds
<1>7. \A places : Change(t, q, places) \in Int
  BY DEF Change
<1>8. /\ cache_r_lock' = CountIn(pc', {"reading"}) + Holds({"saving"})'
      /\ r_pend' = CountIn(pc', RPend) /\ rw_pend' = CountIn(pc', WPend)
  BY <1>3, <1>4, <1>5, <1>6, <1>7 DEF StepTo
<1> QED BY <1>8 DEF CountersCount, Count, CountIn, RPend, WPend

(* A step of a thread keeps the exclusion. *)
LEMMA StepExcludes ==
  ASSUME LockInv, NEW t \in Thread, NEW q, StepTo(t, q)
  PROVE  LockHeld' /\ Exclusion'
<1>1. /\ \A u \in Thread \ {t} : pc'[u] = "writing" <=> pc[u] = "writing"
      /\ \A u \in Thread \ {t} : pc'[u] = "reading" <=> pc[u] = "reading"
      /\ pc'[t] = "writing" <=> q = "writing"
      /\ pc'[t] = "reading" <=> q = "reading"
  BY SameKeeps DEF StepTo, MovesTo
<1>2. exit' = exit /\ MainHolds' = MainHolds
  BY DEF StepTo, MainHolds
<1>3. LockHeld /\ Exclusion /\ cache_w_lock \in BOOLEAN
  BY DEF LockInv, TypeOK
<1>4. CASE /\ pc[t] # "writing" /\ q # "writing" /\ cache_w_lock' = cache_w_lock
           /\ q = "reading" => ~cache_w_lock
  <2>1. Writers' = Writers
    BY <1>1, <1>4 DEF Writers
  <2>2. Readers' \subseteq Readers \cup {t} /\ (Readers' \subseteq Readers \/ ~cache_w_lock)
    BY <1>1, <1>4 DEF Readers
  <2> QED BY <1>2, <1>3, <1>4, <2>1, <2>2 DEF LockHeld, Exclusion
<1>5. CASE pc[t] = "writing" /\ q \notin {"reading", "writing"} /\ cache_w_lock' = FALSE
  <2>1. t \in Writers /\ Writers' = {} /\ ~MainHolds
    BY <1>1, <1>3, <1>5 DEF Writers, Exclusion
  <2> QED BY <1>2, <1>3, <1>5, <2>1 DEF LockHeld, Exclusion
<1>6. CASE /\ pc[t] # "writing" /\ q = "writing" /\ cache_w_lock' = TRUE
           /\ ~cache_w_lock /\ cache_r_lock = 0
  <2>1. Writers = {} /\ ~MainHolds
    BY <1>3, <1>6 DEF LockHeld
  <2>2. Readers = {} /\ exit # "saving"
    BY <1>6, NoReaders
  <2>3. Writers' = {t}
    BY <1>1, <1>6, <2>1 DEF Writers
  <2>4. Readers' = {}
    BY <1>1, <1>6, <2>2 DEF Readers
  <2> QED BY <1>2, <1>6, <2>1, <2>2, <2>3, <2>4 DEF LockHeld, Exclusion
<1> QED BY <1>4, <1>5, <1>6 DEF StepTo

(* A step of a thread keeps the invariant. *)
LEMMA StepKeeps ==
  ASSUME LockInv, NEW t \in Thread, NEW q, StepTo(t, q)
  PROVE  LockInv'
<1>1. CountersCount' /\ LockHeld' /\ Exclusion'
  BY StepCounts, StepExcludes
<1>2. cache_r_lock' \in Nat /\ r_pend' \in Nat /\ rw_pend' \in Nat
  <2>1. \A places : CountIn(pc', places) \in Nat
    BY CountNat
  <2>2. Holds({"saving"})' \in Nat
    BY DEF Holds
  <2>3. /\ cache_r_lock' = CountIn(pc', {"reading"}) + Holds({"saving"})'
        /\ r_pend' = CountIn(pc', RPend) /\ rw_pend' = CountIn(pc', WPend)
    BY <1>1 DEF CountersCount, Count, CountIn, RPend, WPend
  <2> QED BY <2>1, <2>2, <2>3
<1>3. cache_w_lock' \in BOOLEAN
  BY DEF StepTo, LockInv, TypeOK
<1>4. TypeOK'
  BY <1>2, <1>3 DEF StepTo, MovesTo, LockInv, TypeOK
<1> QED BY <1>1, <1>4 DEF LockInv

-----------------------------------------------------------------------------
(* Every action of a thread is such a step *)

(* lock_cache_r, from outside with one more pending or again after a wake-up. *)
LEMMA TestReadSteps ==
  ASSUME LockInv, NEW t \in Thread, NEW pending,
         \/ pc[t] = "out" /\ pending = r_pend + 1
         \/ pc[t] = "rAwake" /\ pending = r_pend,
         TestRead(t, pending), uses' \in [Thread -> Nat], exit' = exit
  PROVE  \E q \in {"rAsleep", "reading"} : StepTo(t, q)
<1>1. TypeOK /\ rw_pend \in Nat /\ r_pend \in Nat /\ pending \in Nat /\ cache_r_lock \in Nat
  BY DEF LockInv, TypeOK
<1>2. r_susp' \in BOOLEAN
  BY <1>1 DEF TestRead, TypeOK, SuspThresh
<1>3. CASE pc' = [pc EXCEPT ![t] = "rAsleep"] /\ r_pend' = pending /\ UNCHANGED cache_r_lock
  <2>1. MovesTo(pc', t, "rAsleep")
    BY <1>1, <1>3, PutMoves DEF Place, Asleep
  <2> QED BY <1>1, <1>2, <1>3, <2>1 DEF StepTo, Change, RPend, WPend, TestRead
<1>4. CASE /\ ~cache_w_lock /\ pc' = [pc EXCEPT ![t] = "reading"]
           /\ r_pend' = pending - 1 /\ cache_r_lock' = cache_r_lock + 1
  <2>1. MovesTo(pc', t, "reading")
    BY <1>1, <1>4, PutMoves DEF Place
  <2> QED BY <1>1, <1>2, <1>4, <2>1 DEF StepTo, Change, RPend, WPend, TestRead
<1> QED BY <1>3, <1>4 DEF TestRead

(* lock_cache_rw and its variants, from outside or again after a wake-up. *)
LEMMA TestWriteSteps ==
  ASSUME LockInv, NEW t \in Thread, NEW pending, NEW asleep \in WriterAsleep,
         \/ pc[t] \in {"out", "yielded"} /\ pending = rw_pend + 1
         \/ pc[t] \in {"wAwake", "tAwake"} /\ pending = rw_pend,
         TestWrite(t, pending, asleep), uses' \in [Thread -> Nat], exit' = exit
  PROVE  \E q \in {asleep, "writing"} : StepTo(t, q)
<1>1. TypeOK /\ rw_pend \in Nat /\ r_pend \in Nat /\ pending \in Nat /\ cache_r_lock \in Nat
  BY DEF LockInv, TypeOK
<1>2. r_susp' \in BOOLEAN /\ r_pend' = r_pend /\ cache_r_lock' = cache_r_lock
  BY <1>1 DEF TestWrite, TypeOK
<1>3. CASE pc' = [pc EXCEPT ![t] = asleep] /\ rw_pend' = pending /\ UNCHANGED cache_w_lock
  <2>1. MovesTo(pc', t, asleep)
    BY <1>1, <1>3, PutMoves DEF Place, Asleep, WriterAsleep
  <2> QED BY <1>1, <1>2, <1>3, <2>1 DEF StepTo, Change, RPend, WPend, WriterAsleep
<1>4. CASE /\ ~cache_w_lock /\ cache_r_lock = 0 /\ pc' = [pc EXCEPT ![t] = "writing"]
           /\ rw_pend' = pending - 1 /\ cache_w_lock' = TRUE
  <2>1. MovesTo(pc', t, "writing")
    BY <1>1, <1>4, PutMoves DEF Place
  <2>2. /\ Change(t, "writing", {"reading"}) = 0 /\ Change(t, "writing", RPend) = 0
        /\ rw_pend' = rw_pend + Change(t, "writing", WPend)
    BY <1>1, <1>4 DEF Change, RPend, WPend
  <2>3. pc[t] # "writing"
    OBVIOUS
  <2>4. StepTo(t, "writing")
    BY <1>1, <1>2, <1>4, <2>1, <2>2, <2>3 DEF StepTo
  <2> QED BY <2>4
<1> QED BY <1>3, <1>4 DEF TestWrite

(* unlock_cache_r: by CountersCount the counter is not 0 then. *)
LEMMA UnlockRSteps ==
  ASSUME LockInv, NEW t \in Thread, UnlockR(t)
  PROVE  StepTo(t, "out")
<1>1. TypeOK /\ pc[t] = "reading" /\ uses' \in [Thread -> Nat] /\ r_susp' \in BOOLEAN
  BY DEF LockInv, TypeOK, UnlockR
<1>2. cache_r_lock # 0
  <2>1. t \in Readers
    BY <1>1 DEF Readers
  <2> QED BY <2>1, NoReaders
<1>3. MovesTo(pc', t, "out")
  <2>1. "out" \in Place \ Asleep
    BY DEF Place, Asleep
  <2> QED BY <1>1, <2>1, PutMoves, SignalMoves DEF UnlockR
<1> QED BY <1>1, <1>2, <1>3 DEF StepTo, Change, RPend, WPend, UnlockR, LockInv, TypeOK

(* unlock_cache_rw and the first half of yield_lock_cache_rw. *)
LEMMA GiveUpSteps ==
  ASSUME LockInv, NEW t \in Thread, NEW next \in {"out", "yielded"},
         pc[t] = "writing", GiveUp(t, next), uses' \in [Thread -> Nat], exit' = exit
  PROVE  StepTo(t, next)
<1>1. TypeOK
  BY DEF LockInv
<1>2. MovesTo(pc', t, next)
  <2>1. next \in Place \ Asleep
    BY DEF Place, Asleep
  <2> QED BY <1>1, <2>1, BroadcastMoves, SignalMoves DEF GiveUp
<1>3. /\ Change(t, next, {"reading"}) = 0 /\ Change(t, next, RPend) = 0
      /\ Change(t, next, WPend) = 0
  BY DEF Change, RPend, WPend
<1>4. /\ cache_w_lock' = FALSE /\ r_susp' = FALSE
      /\ cache_r_lock' = cache_r_lock /\ r_pend' = r_pend /\ rw_pend' = rw_pend
      /\ cache_r_lock \in Nat /\ r_pend \in Nat /\ rw_pend \in Nat
  BY <1>1 DEF GiveUp, TypeOK
<1>5. pc[t] = "writing" /\ next \notin {"reading", "writing"} /\ cache_w_lock' = FALSE
  BY <1>4
<1>6. r_susp' \in BOOLEAN
  BY <1>4
<1>7. /\ cache_r_lock' = cache_r_lock + Change(t, next, {"reading"})
      /\ r_pend' = r_pend + Change(t, next, RPend)
      /\ rw_pend' = rw_pend + Change(t, next, WPend)
  BY <1>3, <1>4
<1> QED BY <1>2, <1>5, <1>6, <1>7 DEF StepTo

(* The time of the control thread runs out. *)
LEMMA TimeOutSteps ==
  ASSUME LockInv, NEW t \in Thread, TimeOut(t)
  PROVE  StepTo(t, "out")
<1>1. TypeOK
  BY DEF LockInv
<1>2. MovesTo(pc', t, "out")
  BY <1>1, PutMoves DEF TimeOut, Place
<1> QED BY <1>1, <1>2 DEF StepTo, Change, RPend, WPend, TimeOut, TypeOK

(* A wake-up without a signal. *)
LEMMA SpuriousSteps ==
  ASSUME LockInv, NEW t \in Thread, Spurious(t)
  PROVE  StepTo(t, WakesTo[pc[t]])
<1>1. TypeOK
  BY DEF LockInv
<1>2. WakesTo[pc[t]] \in Place
  BY DEF Spurious, Asleep, WakesTo, Place, Awake
<1>3. MovesTo(pc', t, WakesTo[pc[t]])
  BY <1>1, <1>2, PutMoves DEF Spurious
<1> QED BY <1>1, <1>3 DEF StepTo, Change, RPend, WPend, Spurious, TypeOK, Asleep, WakesTo

(* Using the lock once more keeps the type of the counts of uses. *)
LEMMA UsesType ==
  ASSUME TypeOK, NEW t \in Thread, Uses(t)
  PROVE  uses' \in [Thread -> Nat]
  BY DEF TypeOK, Uses

(* The steps of the threads, each with where it leads. *)
ThreadNext(t) == Proceed(t) \/ LockR(t) \/ LockRW(t) \/ TimeOut(t) \/ Yield(t) \/ Spurious(t)
LEMMA ThreadSteps ==
  ASSUME LockInv, NEW t \in Thread, ThreadNext(t)
  PROVE  \E q : StepTo(t, q)
<1>1. TypeOK
  BY DEF LockInv
<1>2. CASE LockR(t)
  BY <1>1, <1>2, UsesType, TestReadSteps DEF LockR
<1>3. CASE RetryR(t)
  BY <1>1, <1>3, TestReadSteps DEF RetryR, TypeOK
<1>4. CASE LockRW(t)
  <2>1. PICK asleep \in WriterAsleep : TestWrite(t, rw_pend + 1, asleep)
    BY <1>4 DEF LockRW, WriterAsleep
  <2> QED BY <1>1, <1>4, <2>1, UsesType, TestWriteSteps DEF LockRW
<1>5. CASE RetryRW(t)
  <2>1. PICK asleep \in WriterAsleep : TestWrite(t, rw_pend, asleep)
    BY <1>5 DEF RetryRW, WriterAsleep
  <2> QED BY <1>1, <1>5, <2>1, TestWriteSteps DEF RetryRW, TypeOK
<1>6. CASE Relock(t)
  <2>1. "wAsleep" \in WriterAsleep
    BY DEF WriterAsleep
  <2> QED BY <1>1, <1>6, <2>1, TestWriteSteps DEF Relock, TypeOK
<1>7. CASE UnlockR(t)
  BY <1>7, UnlockRSteps
<1>8. CASE UnlockRW(t)
  BY <1>1, <1>8, GiveUpSteps DEF UnlockRW, TypeOK
<1>9. CASE Yield(t)
  BY <1>1, <1>9, UsesType, GiveUpSteps DEF Yield
<1>10. CASE TimeOut(t)
  BY <1>10, TimeOutSteps
<1>11. CASE Spurious(t)
  BY <1>11, SpuriousSteps
<1> QED BY <1>2, <1>3, <1>4, <1>5, <1>6, <1>7, <1>8, <1>9, <1>10, <1>11 DEF ThreadNext, Proceed

-----------------------------------------------------------------------------
(* The main thread at the end of the process *)

MainNext == Purge \/ Purged \/ Save \/ Saved \/ Destroy

(* The main thread changes no thread's place, nor who waits. *)
LEMMA MainKeeps ==
  ASSUME LockInv, MainNext
  PROVE  LockInv'
<1>1. TypeOK /\ LockHeld /\ Exclusion /\ CountersCount
  BY DEF LockInv
<1>2. /\ pc' = pc /\ uses' = uses /\ r_pend' = r_pend /\ rw_pend' = rw_pend /\ r_susp' = r_susp
      /\ Writers' = Writers /\ Readers' = Readers
      /\ \A places : Count(places)' = Count(places)
  BY DEF MainNext, Purge, Purged, Save, Saved, Destroy, SoftLockRW, Writers, Readers, Count
<1>3. Count({"reading"}) \in Nat
  BY CountNat DEF Count, CountIn
<1>4. ASSUME NEW from, NEW to \in {"purging", "destroyed"}, NEW otherwise \in {"saved", "failed"},
             from \in {"no", "saved"}, SoftLockRW(from, to, otherwise)
      PROVE  LockInv'
  <2>1. CASE ~cache_w_lock /\ cache_r_lock = 0 /\ cache_w_lock' = TRUE /\ exit' = to
    <3>1. Readers = {} /\ Writers = {}
      BY <2>1, <1>1, NoReaders DEF LockHeld
    <3>2. cache_r_lock' = cache_r_lock /\ exit = from
      BY <1>4 DEF SoftLockRW
    <3> QED BY <1>1, <1>2, <1>4, <2>1, <3>1, <3>2
            DEF LockInv, TypeOK, LockHeld, Exclusion, CountersCount, MainHolds, Holds, Leaving
  <2>2. CASE exit' = otherwise /\ UNCHANGED cache_w_lock
    <3>1. cache_r_lock' = cache_r_lock /\ exit = from
      BY <1>4 DEF SoftLockRW
    <3> QED BY <1>1, <1>2, <1>4, <2>2, <3>1
            DEF LockInv, TypeOK, LockHeld, Exclusion, CountersCount, MainHolds, Holds, Leaving
  <2> QED BY <1>4, <2>1, <2>2 DEF SoftLockRW
<1>5. CASE Purge
  BY <1>4, <1>5 DEF Purge
<1>6. CASE Destroy
  BY <1>4, <1>6 DEF Destroy
<1>7. CASE Purged
  BY <1>1, <1>2, <1>7 DEF Purged, LockInv, TypeOK, LockHeld, Exclusion, CountersCount, MainHolds,
                          Holds, Leaving
<1>8. CASE Save
  <2>1. CASE ~cache_w_lock /\ exit' = "saving" /\ cache_r_lock' = cache_r_lock + 1
    <3>1. cache_w_lock' = cache_w_lock /\ exit = "purged" /\ Writers = {}
      BY <1>1, <1>8, <2>1 DEF Save, LockHeld
    <3>2. ~MainHolds /\ ~MainHolds' /\ Holds({"saving"}) = 0 /\ Holds({"saving"})' = 1
      BY <2>1, <3>1 DEF MainHolds, Holds
    <3>3. TypeOK'
      BY <1>1, <1>2, <2>1, <3>1 DEF TypeOK, Leaving
    <3>4. CountersCount'
      <4>1. cache_r_lock' = Count({"reading"})' + Holds({"saving"})'
        BY <1>1, <1>2, <1>3, <2>1, <3>2 DEF CountersCount
      <4> QED BY <1>1, <1>2, <4>1 DEF CountersCount
    <3>5. LockHeld' /\ Exclusion'
      BY <1>1, <1>2, <2>1, <3>1, <3>2 DEF LockHeld, Exclusion
    <3> QED BY <3>3, <3>4, <3>5 DEF LockInv
  <2>2. CASE cache_w_lock /\ exit' = "saved" /\ UNCHANGED cache_r_lock
    BY <1>1, <1>2, <1>8, <2>2 DEF Save, LockInv, TypeOK, LockHeld, Exclusion, CountersCount, MainHolds,
                                  Holds, Leaving
  <2> QED BY <1>8, <2>1, <2>2 DEF Save
<1>9. CASE Saved
  BY <1>1, <1>2, <1>3, <1>9 DEF Saved, LockInv, TypeOK, LockHeld, Exclusion, CountersCount, MainHolds,
                          Holds, Leaving
<1> QED BY <1>5, <1>6, <1>7, <1>8, <1>9 DEF MainNext

(* The invariant holds at first and every step keeps it. *)
LEMMA InitIInv == Init => LockInv
<1> SUFFICES ASSUME Init PROVE LockInv
  OBVIOUS
<1>1. \A places : "out" \notin places => {t \in Thread : pc[t] \in places} = {}
  BY DEF Init
<1>2. /\ {t \in Thread : pc[t] \in {"reading"}} = {}
      /\ {t \in Thread : pc[t] \in {"rAsleep", "rAwake"}} = {}
      /\ {t \in Thread : pc[t] \in {"wAsleep", "wAwake", "tAsleep", "tAwake"}} = {}
  BY <1>1
<1>3. CountersCount
  BY <1>2, FS_EmptySet DEF Init, CountersCount, Count, Holds
<1>4. Writers = {} /\ ~MainHolds
  BY DEF Init, Writers, MainHolds
<1> QED BY <1>3, <1>4 DEF Init, LockInv, TypeOK, LockHeld, Exclusion, Place, Leaving

LEMMA NextIInv == LockInv /\ [Next]_vars => LockInv'
<1> SUFFICES ASSUME LockInv, [Next]_vars PROVE LockInv'
  OBVIOUS
<1>1. ASSUME NEW t \in Thread, ThreadNext(t) PROVE LockInv'
  BY <1>1, ThreadSteps, StepKeeps
<1>2. CASE MainNext
  BY <1>2, MainKeeps
<1>3. CASE UNCHANGED vars
  BY <1>3 DEF vars, LockInv, TypeOK, CountersCount, Count, Holds, LockHeld, Exclusion, Writers, Readers,
              MainHolds
<1> QED BY <1>1, <1>2, <1>3 DEF Next, ThreadNext, MainNext

(* The lock's counters count the threads they are named for, so that what the lock      *)
(* decides by is what the threads do (lock_cache_r ... unlock_cache_rw).                *)
THEOREM CacheLockCounts == Spec => []CountersCount
<1>1. LockInv => CountersCount
  BY DEF LockInv
<1> QED BY <1>1, InitIInv, NextIInv, PTL DEF Spec

(* The variables keep their types: no counter goes below 0.                             *)
THEOREM CacheLockType == Spec => []TypeOK
<1>1. LockInv => TypeOK
  BY DEF LockInv
<1> QED BY <1>1, InitIInv, NextIInv, PTL DEF Spec

(* A thread that writes, or the main thread purging or having destroyed the cache, is    *)
(* alone in it (lock_cache_rw, softlock_cache_rw).                                      *)
THEOREM CacheLockExcludes == Spec => []Exclusion
<1>1. LockInv => Exclusion
  BY DEF LockInv
<1> QED BY <1>1, InitIInv, NextIInv, PTL DEF Spec

-----------------------------------------------------------------------------
(* Waking up.  Why no thread sleeps at a free lock: readers that sleep while nobody      *)
(* writes are held back for a writer that does not give up (ReadersWait), and whoever    *)
(* is last to leave sees either such a writer, and wakes one, or readers that may go.    *)
SomeAt(places) == \E t \in Thread : pc[t] \in places
LastingWriter == {"wAsleep", "wAwake"}
WriterAwake   == {"wAwake", "tAwake"}

TimedWait    == \A t \in Thread : pc[t] \in {"tAsleep", "tAwake", "yielded"} => t \in Timed
Suspended    == r_susp => SomeAt(LastingWriter) \/ SomeAt({"writing"})
ReadersWait  == exit = "no" /\ SomeAt({"rAsleep"}) /\ ~SomeAt({"writing"}) => SomeAt(LastingWriter)
ReadersMayGo == SomeAt({"rAwake"}) /\ ~r_susp /\ rw_pend <= SuspThresh(r_pend)
SomeoneComes == exit = "no" /\ ~cache_w_lock /\ cache_r_lock = 0 /\ SomeAt(Asleep)
                  => SomeAt(WriterAwake) \/ ReadersMayGo
WInv == TimedWait /\ Suspended /\ ReadersWait /\ SomeoneComes

(* The numbers that the threshold is about. *)
LEMMA Threshold ==
  ASSUME NEW n \in Nat
  PROVE  SuspThresh(n) \in Nat /\ SuspThresh(n) >= 2 /\ SuspThresh(n + 1) >= SuspThresh(n)
  BY DEF SuspThresh

(* With two or more writers pending, one of them does not give up: only the control      *)
(* thread does.                                                                         *)
LEMMA ManyWriters ==
  ASSUME LockInv, TimedWait, rw_pend > 1
  PROVE  SomeAt(LastingWriter)
<1> DEFINE S == {u \in Thread : pc[u] \in WPend}
<1>1. S \in SUBSET Thread /\ Cardinality(S) = rw_pend
  BY CountersRead DEF LockInv, CountIn
<1> SUFFICES ASSUME ~SomeAt(LastingWriter) PROVE FALSE
  OBVIOUS
<1>2. \A u \in S : u \in Timed
  BY DEF SomeAt, LastingWriter, TimedWait, WPend
<1>3. \A u, v \in S : u = v
  BY <1>2, OneTimed
<1> HIDE DEF S
<1>4. S = {} \/ \E u : S = {u}
  BY <1>3
<1>5. Cardinality(S) = 0 \/ Cardinality(S) = 1
  BY <1>4, FS_EmptySet, FS_Singleton
<1> QED BY <1>1, <1>5

(* Pending readers are there, if they are counted. *)
LEMMA SomeReader ==
  ASSUME LockInv
  PROVE  SomeAt(RPend) <=> r_pend # 0
<1> DEFINE S == {u \in Thread : pc[u] \in RPend}
<1>1. S \in SUBSET Thread /\ Cardinality(S) = r_pend
  BY CountersRead DEF LockInv, CountIn
<1>2. Cardinality(S) = 0 <=> S = {}
  BY <1>1, CountOf
<1>3. SomeAt(RPend) <=> S # {}
  BY DEF SomeAt
<1> QED BY <1>1, <1>2, <1>3

(* Somebody writes exactly when the flag is set, before the end of the process. *)
LEMMA SomeWriter ==
  ASSUME LockInv, exit = "no"
  PROVE  SomeAt({"writing"}) <=> cache_w_lock
  BY DEF LockInv, LockHeld, MainHolds, Writers, SomeAt, TypeOK

(* Who stays where in a move: those who come, stay; those who sleep, slept. *)
LEMMA MoveStays ==
  ASSUME NEW t \in Thread, NEW q, MovesTo(pc', t, q),
         NEW P \in {LastingWriter, {"writing"}, WriterAwake, {"rAwake"}}, SomeAt(P), pc[t] \notin P \/ q \in P
  PROVE  SomeAt(P)'
<1>1. PICK u \in Thread : pc[u] \in P
  BY DEF SomeAt
<1>2. CASE u = t
  <2>1. pc'[u] \in P
    BY <1>1, <1>2, SameKeeps DEF MovesTo, LastingWriter, WriterAwake, Awake
  <2> QED BY <2>1 DEF SomeAt
<1>3. CASE u # t
  <2>1. pc'[u] \in P
    BY <1>1, <1>3, SameKeeps DEF MovesTo, LastingWriter, WriterAwake, Awake
  <2> QED BY <2>1 DEF SomeAt
<1> QED BY <1>2, <1>3

LEMMA MoveSlept ==
  ASSUME NEW t \in Thread, NEW q, MovesTo(pc', t, q), NEW P \in {Asleep, {"rAsleep"}, {"writing"}}, SomeAt(P)'
  PROVE  SomeAt(P) \/ q \in P
<1>1. PICK u \in Thread : pc'[u] \in P
  BY DEF SomeAt
<1>2. CASE u = t
  BY <1>1, <1>2, SameKeeps DEF MovesTo, Asleep
<1>3. CASE u # t
  <2>1. pc[u] \in P
    BY <1>1, <1>3, SameKeeps DEF MovesTo, Asleep
  <2> QED BY <2>1 DEF SomeAt
<1> QED BY <1>2, <1>3

(* A thread that has no time limit gets no place of one that has. *)
LEMMA MoveTimed ==
  ASSUME TimedWait, NEW t \in Thread, NEW q, MovesTo(pc', t, q),
         q \in {"tAsleep", "tAwake", "yielded"} => t \in Timed
  PROVE  TimedWait'
  BY SameKeeps DEF TimedWait, MovesTo

(* A reader that has to wait is held back for a writer that lasts, and does not take the  *)
(* place of the one that comes.                                                         *)
LEMMA TestReadWakes ==
  ASSUME LockInv, WInv, NEW t \in Thread, NEW pending,
         \/ pc[t] = "out" /\ pending = r_pend + 1
         \/ pc[t] = "rAwake" /\ pending = r_pend,
         TestRead(t, pending), exit' = exit
  PROVE  WInv'
<1>1. TypeOK /\ TimedWait /\ Suspended /\ ReadersWait /\ SomeoneComes
  BY DEF LockInv, WInv
<1>2. /\ rw_pend \in Nat /\ r_pend \in Nat /\ pending \in Nat /\ cache_r_lock \in Nat
      /\ cache_w_lock' = cache_w_lock /\ rw_pend' = rw_pend
  BY <1>1 DEF TypeOK, TestRead
<1>3. SuspThresh(pending) \in Nat /\ SuspThresh(pending) >= 2 /\ SuspThresh(r_pend) \in Nat
      /\ SuspThresh(pending) >= SuspThresh(r_pend)
  BY <1>2, Threshold
<1> DEFINE suspended == r_susp \/ rw_pend > SuspThresh(pending)
<1>4. r_susp' = suspended
  BY DEF TestRead
<1>5. suspended => SomeAt(LastingWriter) \/ SomeAt({"writing"})
  BY <1>1, <1>2, <1>3, ManyWriters DEF Suspended
<1>6. CASE /\ suspended \/ cache_w_lock
           /\ pc' = [pc EXCEPT ![t] = "rAsleep"] /\ r_pend' = pending /\ UNCHANGED cache_r_lock
  <2>1. MovesTo(pc', t, "rAsleep")
    BY <1>1, <1>6, PutMoves DEF Place, Asleep
  <2>2. pc[t] \notin LastingWriter /\ pc[t] \notin WriterAwake /\ pc[t] # "writing"
    BY DEF LastingWriter, WriterAwake
  <2>3. TimedWait'
    BY <1>1, <2>1, MoveTimed
  <2>4. SomeAt(LastingWriter) => SomeAt(LastingWriter)'
    BY <2>1, <2>2, MoveStays
  <2>5. SomeAt({"writing"}) <=> SomeAt({"writing"})'
    BY <2>1, <2>2, MoveStays, MoveSlept
  <2>6. Suspended'
    BY <1>4, <1>5, <2>4, <2>5 DEF Suspended
  <2>7. exit = "no" /\ ~SomeAt({"writing"}) => suspended
    BY <1>6, SomeWriter
  <2>8. ReadersWait'
    BY <1>5, <2>4, <2>5, <2>7 DEF ReadersWait
  <2>9. SomeoneComes'
    <3> SUFFICES ASSUME exit = "no", ~cache_w_lock, cache_r_lock = 0
                 PROVE  SomeAt(WriterAwake)'
      BY <1>2, <1>6 DEF SomeoneComes
    <3>1. SomeAt(LastingWriter)
      BY <1>5, <2>7, SomeWriter
    <3>2. PICK u \in Thread : pc[u] \in LastingWriter
      BY <3>1 DEF SomeAt
    <3>3. SomeAt(WriterAwake)
      <4>1. CASE pc[u] = "wAwake"
        BY <4>1 DEF SomeAt, WriterAwake
      <4>2. CASE pc[u] = "wAsleep"
        <5>1. SomeAt(Asleep)
          BY <4>2 DEF SomeAt, Asleep
        <5>2. SomeAt(WriterAwake) \/ ReadersMayGo
          BY <1>1, <5>1 DEF SomeoneComes
        <5>3. ~ReadersMayGo
          BY <1>2, <1>3, <2>7, SomeWriter, <1>6 DEF ReadersMayGo
        <5> QED BY <5>2, <5>3
      <4> QED BY <3>2, <4>1, <4>2 DEF LastingWriter
    <3> QED BY <2>1, <2>2, <3>3, MoveStays
  <2> QED BY <2>3, <2>6, <2>8, <2>9 DEF WInv
<1>7. CASE /\ ~suspended /\ ~cache_w_lock /\ pc' = [pc EXCEPT ![t] = "reading"]
           /\ r_pend' = pending - 1 /\ cache_r_lock' = cache_r_lock + 1
  <2>1. MovesTo(pc', t, "reading")
    BY <1>1, <1>7, PutMoves DEF Place
  <2>2. pc[t] \notin LastingWriter /\ pc[t] # "writing"
    BY DEF LastingWriter
  <2>3. TimedWait'
    BY <1>1, <2>1, MoveTimed
  <2>4. Suspended'
    BY <1>4, <1>7 DEF Suspended
  <2>5. SomeAt({"rAsleep"})' => SomeAt({"rAsleep"})
    BY <2>1, MoveSlept
  <2>6. SomeAt({"writing"}) => SomeAt({"writing"})'
    BY <2>1, <2>2, MoveStays
  <2>7. SomeAt(LastingWriter) => SomeAt(LastingWriter)'
    BY <2>1, <2>2, MoveStays
  <2>8. ReadersWait'
    BY <1>1, <2>5, <2>6, <2>7 DEF ReadersWait
  <2>9. SomeoneComes'
    BY <1>2, <1>7 DEF SomeoneComes
  <2> QED BY <2>3, <2>4, <2>8, <2>9 DEF WInv
<1> QED BY <1>6, <1>7 DEF TestRead

(* A writer that has to wait sees somebody inside, who will wake it. *)
LEMMA TestWriteWakes ==
  ASSUME LockInv, WInv, NEW t \in Thread, NEW pending, NEW asleep \in WriterAsleep,
         \/ pc[t] = "out" /\ (asleep = "tAsleep" => t \in Timed)
         \/ pc[t] \in {"wAwake", "yielded"} /\ asleep = "wAsleep"
         \/ pc[t] = "tAwake" /\ asleep = "tAsleep",
         TestWrite(t, pending, asleep), exit' = exit
  PROVE  WInv'
<1>1. TypeOK /\ TimedWait /\ Suspended /\ ReadersWait /\ SomeoneComes
  BY DEF LockInv, WInv
<1>2. r_susp' = r_susp /\ cache_r_lock' = cache_r_lock /\ cache_r_lock \in Nat
  BY <1>1 DEF TestWrite, TypeOK
<1>3. pc[t] # "writing"
  BY DEF WriterAsleep
<1>4. CASE /\ cache_w_lock \/ cache_r_lock > 0
           /\ pc' = [pc EXCEPT ![t] = asleep] /\ UNCHANGED cache_w_lock
  <2>1. MovesTo(pc', t, asleep)
    BY <1>1, <1>4, PutMoves DEF Place, Asleep, WriterAsleep
  <2>2. asleep = "tAsleep" => t \in Timed
    BY <1>1 DEF TimedWait
  <2>3. TimedWait'
    <3>1. asleep \in {"tAsleep", "tAwake", "yielded"} => t \in Timed
      BY <2>2 DEF WriterAsleep
    <3> QED BY <1>1, <2>1, <3>1, MoveTimed
  <2>4. pc[t] \notin LastingWriter \/ asleep \in LastingWriter
    BY DEF LastingWriter
  <2>5. SomeAt(LastingWriter) => SomeAt(LastingWriter)'
    BY <2>1, <2>4, MoveStays
  <2>6. SomeAt({"writing"}) => SomeAt({"writing"})'
    BY <1>3, <2>1, MoveStays
  <2>7. Suspended'
    BY <1>1, <1>2, <2>5, <2>6 DEF Suspended
  <2>8. SomeAt({"rAsleep"})' => SomeAt({"rAsleep"})
    BY <2>1, MoveSlept DEF WriterAsleep
  <2>9. ReadersWait'
    BY <1>1, <2>5, <2>6, <2>8 DEF ReadersWait
  <2>10. SomeoneComes'
    BY <1>2, <1>4 DEF SomeoneComes
  <2> QED BY <2>3, <2>7, <2>9, <2>10 DEF WInv
<1>5. CASE pc' = [pc EXCEPT ![t] = "writing"] /\ cache_w_lock' = TRUE
  <2>1. MovesTo(pc', t, "writing")
    BY <1>1, <1>5, PutMoves DEF Place
  <2>2. TimedWait'
    BY <1>1, <2>1, MoveTimed
  <2>3. SomeAt({"writing"})'
    BY <1>1, <1>5 DEF SomeAt, TypeOK
  <2> QED BY <1>5, <2>2, <2>3 DEF WInv, Suspended, ReadersWait, SomeoneComes
<1> QED BY <1>4, <1>5 DEF TestWrite

(* A signal leaves a writer awake, unless no writer slept. *)
LEMMA SignalWakes ==
  ASSUME TypeOK, NEW t \in Thread, NEW q \in Place \ Asleep,
         pc' \in SignalWriter([pc EXCEPT ![t] = q])
  PROVE  SomeAt(WriterAwake)' \/ \A u \in Thread : pc'[u] \notin WriterAsleep
<1> DEFINE put == [pc EXCEPT ![t] = q]
<1>1. put \in [Thread -> Place]
  BY DEF TypeOK
<1> HIDE DEF put
<1>2. CASE Signalled(put) = {}
  <2>1. pc' = put
    BY <1>2 DEF SignalWriter, put
  <2>2. \A u \in Thread : put[u] \notin WriterAsleep
    BY <1>2 DEF Signalled
  <2> QED BY <2>1, <2>2
<1>3. CASE Signalled(put) # {}
  <2>1. pc' \in Signalled(put)
    BY <1>3 DEF SignalWriter, put
  <2>2. PICK w \in Thread : put[w] \in WriterAsleep /\ pc' = [put EXCEPT ![w] = WakesTo[put[w]]]
    BY <2>1 DEF Signalled
  <2>3. pc'[w] \in WriterAwake
    BY <1>1, <2>2 DEF WriterAsleep, WriterAwake, WakesTo
  <2> QED BY <2>3 DEF SomeAt
<1> QED BY <1>2, <1>3

(* The last reader to leave wakes a writer; if readers sleep then, there is one. *)
LEMMA UnlockRWakes ==
  ASSUME LockInv, WInv, NEW t \in Thread, UnlockR(t)
  PROVE  WInv'
<1>1. TypeOK /\ TimedWait /\ Suspended /\ ReadersWait /\ SomeoneComes
  BY DEF LockInv, WInv
<1>2. MovesTo(pc', t, "out")
  BY UnlockRSteps DEF StepTo
<1>3. /\ pc[t] = "reading" /\ exit' = exit /\ r_susp' = r_susp /\ cache_w_lock' = cache_w_lock
      /\ "out" \in Place \ Asleep
  BY DEF UnlockR, Place, Asleep
<1>4. TimedWait'
  BY <1>1, <1>2, MoveTimed
<1>5. SomeAt(LastingWriter) => SomeAt(LastingWriter)'
  BY <1>2, <1>3, MoveStays DEF LastingWriter
<1>6. SomeAt({"writing"}) <=> SomeAt({"writing"})'
  BY <1>2, <1>3, MoveStays, MoveSlept
<1>7. Suspended'
  BY <1>1, <1>3, <1>5, <1>6 DEF Suspended
<1>8. SomeAt({"rAsleep"})' => SomeAt({"rAsleep"})
  BY <1>2, MoveSlept
<1>9. ReadersWait'
  BY <1>1, <1>3, <1>5, <1>6, <1>8 DEF ReadersWait
<1>10. SomeoneComes'
  <2> SUFFICES ASSUME exit = "no", ~cache_w_lock, cache_r_lock' = 0, SomeAt(Asleep)'
               PROVE  SomeAt(WriterAwake)'
    BY <1>3 DEF SomeoneComes
  <2>1. pc' \in SignalWriter([pc EXCEPT ![t] = "out"])
    BY DEF UnlockR
  <2>2. CASE \A u \in Thread : pc'[u] \notin WriterAsleep
    <3>1. SomeAt({"rAsleep"})'
      BY <2>2 DEF SomeAt, Asleep, WriterAsleep
    <3>2. ~SomeAt({"writing"})'
      BY <1>6, SomeWriter
    <3>3. SomeAt(LastingWriter)'
      BY <1>3, <1>9, <3>1, <3>2 DEF ReadersWait
    <3> QED BY <2>2, <3>3 DEF SomeAt, LastingWriter, WriterAsleep, WriterAwake
  <2> QED BY <1>1, <1>3, <2>1, <2>2, SignalWakes
<1> QED BY <1>4, <1>7, <1>9, <1>10 DEF WInv

(* The writer that leaves wakes a writer if no reader waits or too many writers do, and  *)
(* the readers otherwise.                                                               *)
LEMMA GiveUpWakes ==
  ASSUME LockInv, WInv, NEW t \in Thread, NEW next \in {"out", "yielded"},
         pc[t] = "writing", GiveUp(t, next), next = "yielded" => t \in Timed,
         uses' \in [Thread -> Nat], exit' = exit
  PROVE  WInv'
<1>1. TypeOK /\ TimedWait /\ r_pend \in Nat /\ rw_pend \in Nat /\ next \in Place \ Asleep
  BY DEF LockInv, WInv, TypeOK, Place, Asleep
<1>2. MovesTo(pc', t, next)
  BY GiveUpSteps DEF StepTo
<1>3. cache_w_lock' = FALSE /\ r_susp' = FALSE /\ r_pend' = r_pend /\ rw_pend' = rw_pend
  BY DEF GiveUp
<1>4. TimedWait'
  BY <1>1, <1>2, MoveTimed
<1>5. Suspended'
  BY <1>3 DEF Suspended
<1>6. SomeAt(LastingWriter) => SomeAt(LastingWriter)'
  BY <1>2, MoveStays DEF LastingWriter
<1>7. SuspThresh(r_pend) \in Nat /\ SuspThresh(r_pend) >= 2
  BY <1>1, Threshold
<1> DEFINE toWriters == r_pend = 0 \/ rw_pend > SuspThresh(r_pend)
<1>8. SomeAt({"rAsleep"})' => r_pend # 0
  <2> SUFFICES ASSUME SomeAt({"rAsleep"})' PROVE r_pend # 0
    OBVIOUS
  <2>1. SomeAt({"rAsleep"})
    BY <1>2, MoveSlept
  <2> QED BY <2>1, SomeReader DEF SomeAt, RPend
<1>9. CASE toWriters
  <2>1. pc' \in SignalWriter([pc EXCEPT ![t] = next])
    BY <1>9 DEF GiveUp
  <2>2. SomeAt({"rAsleep"})' => SomeAt(LastingWriter)'
    BY <1>1, <1>6, <1>7, <1>8, <1>9, ManyWriters
  <2>3. ReadersWait'
    BY <2>2 DEF ReadersWait
  <2>4. SomeAt(Asleep)' => SomeAt(WriterAwake)'
    <3>1. CASE \A u \in Thread : pc'[u] \notin WriterAsleep
      <4>1. SomeAt(Asleep)' => SomeAt({"rAsleep"})'
        BY <3>1 DEF SomeAt, Asleep, WriterAsleep
      <4>2. SomeAt(LastingWriter)' => SomeAt(WriterAwake)'
        BY <3>1 DEF SomeAt, LastingWriter, WriterAsleep, WriterAwake
      <4> QED BY <2>2, <4>1, <4>2
    <3> QED BY <1>1, <2>1, <3>1, SignalWakes
  <2>5. SomeoneComes'
    BY <2>4 DEF SomeoneComes
  <2> QED BY <1>4, <1>5, <2>3, <2>5 DEF WInv
<1>10. CASE ~toWriters
  <2>1. pc' = Broadcast([pc EXCEPT ![t] = next])
    BY <1>10 DEF GiveUp
  <2>2. \A u \in Thread : pc'[u] # "rAsleep"
    BY <1>1, <2>1 DEF Broadcast, TypeOK, Asleep
  <2>3. ReadersWait'
    BY <2>2 DEF ReadersWait, SomeAt
  <2>4. PICK u \in Thread : pc[u] \in RPend
    BY <1>10, SomeReader DEF SomeAt
  <2>5. pc'[u] = "rAwake"
    <3>1. u # t
      BY <2>4 DEF RPend
    <3>2. pc'[u] \in RPend
      BY <1>2, <2>4, <3>1, SameKeeps DEF MovesTo
    <3> QED BY <2>2, <3>2 DEF RPend
  <2>6. SomeAt({"rAwake"})'
    BY <2>5 DEF SomeAt
  <2>7. rw_pend' <= SuspThresh(r_pend)'
    BY <1>1, <1>3, <1>7, <1>10 DEF SuspThresh
  <2>8. ReadersMayGo'
    BY <1>3, <2>6, <2>7 DEF ReadersMayGo
  <2>9. SomeoneComes'
    BY <2>8 DEF SomeoneComes
  <2> QED BY <1>4, <1>5, <2>3, <2>9 DEF WInv
<1> QED BY <1>9, <1>10

(* The control thread gives up: whoever was to come still is. *)
LEMMA TimeOutWakes ==
  ASSUME LockInv, WInv, NEW t \in Thread, TimeOut(t)
  PROVE  WInv'
<1>1. TypeOK /\ TimedWait /\ Suspended /\ ReadersWait /\ SomeoneComes
  BY DEF LockInv, WInv
<1>2. MovesTo(pc', t, "out")
  BY TimeOutSteps DEF StepTo
<1>3. /\ pc[t] = "tAsleep" /\ exit' = exit /\ r_susp' = r_susp /\ cache_w_lock' = cache_w_lock
      /\ cache_r_lock' = cache_r_lock /\ r_pend' = r_pend /\ rw_pend' = rw_pend - 1
      /\ rw_pend \in Nat /\ r_pend \in Nat
  BY <1>1 DEF TimeOut, TypeOK
<1>4. TimedWait'
  BY <1>1, <1>2, MoveTimed
<1>5. /\ SomeAt(LastingWriter) => SomeAt(LastingWriter)'
      /\ SomeAt({"rAwake"}) => SomeAt({"rAwake"})'
      /\ SomeAt(WriterAwake) => SomeAt(WriterAwake)'
      /\ SomeAt({"writing"}) => SomeAt({"writing"})'
  BY <1>2, <1>3, MoveStays DEF LastingWriter, WriterAwake
<1>6. SomeAt({"rAsleep"})' => SomeAt({"rAsleep"})
  BY <1>2, MoveSlept
<1>7. SomeAt(Asleep)' => SomeAt(Asleep)
  BY <1>2, MoveSlept DEF Asleep
<1>8. ReadersMayGo => ReadersMayGo'
  <2> SUFFICES ASSUME ReadersMayGo PROVE ReadersMayGo'
    OBVIOUS
  <2>1. SuspThresh(r_pend)' = SuspThresh(r_pend) /\ SuspThresh(r_pend) \in Nat
    BY <1>3, Threshold DEF SuspThresh
  <2> QED BY <1>3, <1>5, <2>1 DEF ReadersMayGo
<1>9. Suspended' /\ ReadersWait' /\ SomeoneComes'
  BY <1>1, <1>3, <1>5, <1>6, <1>7, <1>8 DEF Suspended, ReadersWait, SomeoneComes
<1> QED BY <1>4, <1>9 DEF WInv

(* A wake-up without a signal adds one that comes. *)
LEMMA SpuriousWakes ==
  ASSUME LockInv, WInv, NEW t \in Thread, Spurious(t)
  PROVE  WInv'
<1> DEFINE q == WakesTo[pc[t]]
<1>1. TypeOK /\ TimedWait /\ Suspended /\ ReadersWait /\ SomeoneComes
  BY DEF LockInv, WInv
<1>2. MovesTo(pc', t, q)
  BY SpuriousSteps DEF StepTo
<1>3. /\ exit' = exit /\ r_susp' = r_susp /\ cache_w_lock' = cache_w_lock
      /\ cache_r_lock' = cache_r_lock /\ r_pend' = r_pend /\ rw_pend' = rw_pend
  BY DEF Spurious
<1>4. \/ pc[t] = "rAsleep" /\ q = "rAwake"
      \/ pc[t] = "wAsleep" /\ q = "wAwake"
      \/ pc[t] = "tAsleep" /\ q = "tAwake"
  BY DEF Spurious, Asleep, WakesTo
<1> HIDE DEF q
<1>5. TimedWait'
  <2>1. q \in {"tAsleep", "tAwake", "yielded"} => t \in Timed
    BY <1>1, <1>4 DEF TimedWait
  <2> QED BY <1>1, <1>2, <2>1, MoveTimed
<1>6. /\ pc[t] \notin LastingWriter \/ q \in LastingWriter
      /\ pc[t] \notin WriterAwake /\ pc[t] # "rAwake" /\ pc[t] # "writing"
      /\ q \notin Asleep /\ q # "rAsleep"
  BY <1>4 DEF LastingWriter, WriterAwake, Asleep
<1>7. SomeAt(LastingWriter) => SomeAt(LastingWriter)'
  BY <1>2, <1>6, MoveStays
<1>8. SomeAt({"rAwake"}) => SomeAt({"rAwake"})'
  BY <1>2, <1>6, MoveStays
<1>9. SomeAt(WriterAwake) => SomeAt(WriterAwake)'
  BY <1>2, <1>6, MoveStays
<1>10. SomeAt({"writing"}) => SomeAt({"writing"})'
  BY <1>2, <1>6, MoveStays
<1>11. SomeAt({"rAsleep"})' => SomeAt({"rAsleep"})
  BY <1>2, <1>6, MoveSlept
<1>12. SomeAt(Asleep)' => SomeAt(Asleep)
  BY <1>2, <1>6, MoveSlept
<1>13. ReadersMayGo => ReadersMayGo'
  BY <1>3, <1>8 DEF ReadersMayGo, SuspThresh
<1>14. Suspended' /\ ReadersWait' /\ SomeoneComes'
  BY <1>1, <1>3, <1>7, <1>9, <1>10, <1>11, <1>12, <1>13 DEF Suspended, ReadersWait, SomeoneComes
<1> QED BY <1>5, <1>14 DEF WInv

(* The main thread at the end wakes nobody, and nothing is promised any more. *)
LEMMA MainWakes ==
  ASSUME WInv, MainNext
  PROVE  WInv'
<1>1. pc' = pc /\ r_susp' = r_susp /\ exit' # "no"
  BY DEF MainNext, Purge, Purged, Save, Saved, Destroy, SoftLockRW
<1> QED BY <1>1 DEF WInv, TimedWait, Suspended, ReadersWait, SomeoneComes, SomeAt

LEMMA InitWInv == Init => WInv
  BY DEF Init, WInv, TimedWait, Suspended, ReadersWait, SomeoneComes, SomeAt, Asleep

LEMMA NextWInv == LockInv /\ WInv /\ [Next]_vars => WInv'
<1> SUFFICES ASSUME LockInv, WInv, [Next]_vars PROVE WInv'
  OBVIOUS
<1>1. TypeOK /\ TimedWait
  BY DEF LockInv, WInv
<1>2. ASSUME NEW t \in Thread, ThreadNext(t) PROVE WInv'
  <2>1. CASE LockR(t)
    BY <2>1, TestReadWakes DEF LockR
  <2>2. CASE RetryR(t)
    BY <2>2, TestReadWakes DEF RetryR
  <2>3. CASE LockRW(t)
    <3>1. PICK asleep \in IF t \in Timed THEN {"tAsleep"} ELSE {"wAsleep"} :
            TestWrite(t, rw_pend + 1, asleep)
      BY <2>3 DEF LockRW
    <3>2. asleep \in WriterAsleep /\ (asleep = "tAsleep" => t \in Timed)
      BY <3>1 DEF WriterAsleep
    <3> QED BY <2>3, <3>1, <3>2, TestWriteWakes DEF LockRW
  <2>4. CASE RetryRW(t)
    <3>1. "wAsleep" \in WriterAsleep /\ "tAsleep" \in WriterAsleep /\ exit' = exit
      BY <2>4 DEF WriterAsleep, RetryRW
    <3>2. CASE pc[t] = "wAwake" /\ TestWrite(t, rw_pend, "wAsleep")
      BY <3>1, <3>2, TestWriteWakes
    <3>3. CASE pc[t] = "tAwake" /\ TestWrite(t, rw_pend, "tAsleep")
      BY <3>1, <3>3, TestWriteWakes
    <3> QED BY <2>4, <3>2, <3>3 DEF RetryRW
  <2>5. CASE Relock(t)
    BY <2>5, TestWriteWakes DEF Relock, WriterAsleep
  <2>6. CASE UnlockR(t)
    BY <2>6, UnlockRWakes
  <2>7. CASE UnlockRW(t)
    BY <1>1, <2>7, GiveUpWakes DEF UnlockRW, TypeOK
  <2>8. CASE Yield(t)
    BY <1>1, <2>8, UsesType, GiveUpWakes DEF Yield
  <2>9. CASE TimeOut(t)
    BY <2>9, TimeOutWakes
  <2>10. CASE Spurious(t)
    BY <2>10, SpuriousWakes
  <2> QED BY <1>2, <2>1, <2>2, <2>3, <2>4, <2>5, <2>6, <2>7, <2>8, <2>9, <2>10 DEF ThreadNext, Proceed
<1>3. CASE MainNext
  BY <1>3, MainWakes
<1>4. CASE UNCHANGED vars
  BY <1>4 DEF vars, WInv, TimedWait, Suspended, ReadersWait, SomeoneComes, ReadersMayGo, SomeAt, SuspThresh
<1> QED BY <1>2, <1>3, <1>4 DEF Next, ThreadNext, MainNext

(* unlock_cache_r, unlock_cache_rw and yield_lock_cache_rw lose no wake-up: before the    *)
(* process ends, no thread sleeps at a free lock without another coming to take it.       *)
THEOREM CacheLockWakes == Spec => []NoLostWakeup
<1>1. WInv => NoLostWakeup
  BY DEF WInv, SomeoneComes, ReadersMayGo, NoLostWakeup, SomeAt, Awake, WriterAwake
<1> QED BY <1>1, InitIInv, NextIInv, InitWInv, NextWInv, PTL DEF Spec

(* lock_cache_r: suspended readers are always waiting for a writer that cannot give up,  *)
(* and that lifts the suspension when it leaves.                                        *)
THEOREM CacheLockSuspends == Spec => []SuspensionEnds
<1>1. LockInv /\ WInv => SuspensionEnds
  <2> SUFFICES ASSUME LockInv, WInv, r_susp PROVE cache_w_lock \/ SomeAt(LastingWriter)
    BY DEF SuspensionEnds, SomeAt, LastingWriter
  <2>1. SomeAt({"writing"}) => cache_w_lock
    BY DEF LockInv, LockHeld, Writers, SomeAt
  <2> QED BY <2>1 DEF WInv, Suspended
<1> QED BY <1>1, InitIInv, NextIInv, InitWInv, NextWInv, PTL DEF Spec

-----------------------------------------------------------------------------
(* The cache *)

(* The places in a sequence, what is at them, and that nothing is at two of them. *)
Members(l) == {l[i] : i \in 1..Len(l)}
Once(l)    == \A i, j \in 1..Len(l) : l[i] = l[j] => i = j

Element == Name \X Key

(* What the list must hold: the same as Purgeable, said of one element. *)
Listed(es, n, k) == /\ n \in DOMAIN es /\ ~es[n].local
                    /\ IF es[n].neg THEN k = Whole ELSE k \in DOMAIN es[n].rrs /\ ~es[n].rrs[k].local

(* A record of the cache; its entries; its list. *)
CacheFields == {"ent", "l", "size", "num", "sorted"}
Shape(c)    == DOMAIN c = CacheFields /\ c.sorted \in BOOLEAN
Entries(es) == DOMAIN es \subseteq Name /\ \A n \in DOMAIN es : IsCent(es[n])
ListOK(l, es) == /\ l \in Seq(Element) /\ Once(l)
                 /\ \A n \in Name, k \in Key : <<n, k>> \in Members(l) <=> Listed(es, n, k)
Good(c) == Shape(c) /\ Entries(c.ent) /\ ListOK(c.l, c.ent)

CacheInv == Good(Cache) /\ ctl \in Seq(Section) /\ purging \subseteq Name

-----------------------------------------------------------------------------
(* Induction *)

(* The order of the natural numbers is well founded.                                   *)
LEMMA NaturalOrder == \E R : IsWellFoundedOn(R, Nat) /\ \A m, n \in Nat : <<m, n>> \in R <=> m < n
<1>1. \A m, n \in Nat : <<m, n>> \in OpToRel(<, Nat) <=> m < n
  BY Zenon DEF OpToRel
<1> QED BY <1>1, NatLessThanWellFounded, Zenon

LEMMA LeastNatural ==
  ASSUME NEW S, S \subseteq Nat, S # {}
  PROVE  \E m \in S : \A n \in S : m <= n
<1>1. PICK R : IsWellFoundedOn(R, Nat) /\ \A m, n \in Nat : <<m, n>> \in R <=> m < n
  BY NaturalOrder
<1>2. PICK m \in S : \A n \in S : ~(<<n, m>> \in R)
  <2>1. \A r, s, t : IsWellFoundedOn(r, s) /\ t \subseteq s /\ t # {}
                       => \E x \in t : \A y \in t : ~(<<y, x>> \in r)
    BY WFMin, Zenon
  <2>2. IsWellFoundedOn(R, Nat)
    BY <1>1
  <2> QED BY <2>1, <2>2, Zenon
<1>3. ASSUME NEW n \in S PROVE m <= n
  <2>1. ~(n < m)
    BY <1>1, <1>2
  <2> QED BY <2>1
<1> QED BY <1>3

(* What holds at 0, and at each place after one where it holds, holds up to n.          *)
LEMMA UpTo ==
  ASSUME NEW n \in Nat, NEW G, 0 \in G, \A i \in 0..n : i \in G /\ i < n => i + 1 \in G
  PROVE  \A i \in 0..n : i \in G
<1> SUFFICES ASSUME (0..n) \ G # {} PROVE FALSE
  OBVIOUS
<1>1. PICK m \in (0..n) \ G : \A k \in (0..n) \ G : m <= k
  <2>1. (0..n) \ G \subseteq Nat
    OBVIOUS
  <2> QED BY <2>1, LeastNatural
<1>2. m - 1 \in 0..n /\ m - 1 < n /\ m - 1 \in G
  BY <1>1
<1> QED BY <1>1, <1>2

(* The smallest and the largest member of a set of positions.                           *)
LEMMA Extremes ==
  ASSUME NEW n \in Nat, NEW I, I \subseteq 1..n, I # {}
  PROVE  Min(I) \in I /\ Max(I) \in I
<1>1. \E x \in I : \A y \in I : x =< y
  <2>1. I \subseteq Nat
    OBVIOUS
  <2> QED BY <2>1, LeastNatural
<1>2. \E x \in I : \A y \in I : x >= y
  <2> DEFINE J == {n - x : x \in I}
  <2>1. J \subseteq Nat /\ J # {}
    <3>1. ASSUME NEW x \in I PROVE n - x \in Nat
      <4>1. x \in 1..n
        OBVIOUS
      <4> QED BY <4>1
    <3> QED BY <3>1
  <2> HIDE DEF J
  <2>2. PICK m \in J : \A k \in J : m <= k
    BY <2>1, LeastNatural
  <2>3. PICK x \in I : m = n - x
    BY <2>2 DEF J
  <2>4. ASSUME NEW y \in I PROVE x >= y
    <3>1. n - y \in J
      BY DEF J
    <3>2. n - x <= n - y
      BY <2>2, <2>3, <3>1
    <3>3. x \in 1..n /\ y \in 1..n
      OBVIOUS
    <3> QED BY <3>2, <3>3
  <2> QED BY <2>4
<1> QED BY <1>1, <1>2 DEF Min, Max

-----------------------------------------------------------------------------
(* Sequences *)

(* How Without goes through a sequence. *)
LEMMA WithoutWalk ==
  ASSUME NEW seq, NEW S, Len(seq) \in Nat
  PROVE  \E w : /\ Without(seq, S) = w[Len(seq)]
                /\ w[0] = <<>>
                /\ \A i \in 1..Len(seq) : w[i] = IF seq[i] \in S THEN w[i - 1] ELSE Append(w[i - 1], seq[i])
<1> DEFINE N == Len(seq)
           Step(x, e) == IF e \in S THEN x ELSE Append(x, e)
           Is(w, n) == w = [i \in 0..n |-> IF i = 0 THEN <<>> ELSE Step(w[i - 1], seq[i])]
           u == CHOOSE w : Is(w, N)
<1>1. Without(seq, S) = u[N]
  BY DEF Without
<1> HIDE DEF Step, u
<1> DEFINE G == {n \in 0..N : \E w : Is(w, n)}
<1>2. 0 \in G
  <2>1. PICK w : w = [i \in 0..0 |-> <<>>]
    OBVIOUS
  <2>2. Is(w, 0)
    BY <2>1
  <2> QED BY <2>2
<1>3. ASSUME NEW n \in 0..N, n \in G, n < N PROVE n + 1 \in G
  <2>1. PICK w : Is(w, n)
    BY <1>3
  <2>2. PICK x : x = Step(w[n], seq[n + 1])
    OBVIOUS
  <2> DEFINE v == [i \in 0..n + 1 |-> IF i = n + 1 THEN x ELSE w[i]]
  <2>3. ASSUME NEW i \in 0..n + 1 PROVE v[i] = IF i = 0 THEN <<>> ELSE Step(v[i - 1], seq[i])
    <3>1. CASE i = n + 1
      BY <2>2, <3>1
    <3>2. CASE i # n + 1
      <4>1. v[i] = w[i] /\ i \in 0..n /\ (i # 0 => v[i - 1] = w[i - 1])
        BY <3>2
      <4>2. w[i] = IF i = 0 THEN <<>> ELSE Step(w[i - 1], seq[i])
        BY <2>1, <4>1
      <4> QED BY <4>1, <4>2
    <3> QED BY <3>1, <3>2
  <2> HIDE DEF v
  <2>4. v = [i \in 0..n + 1 |-> v[i]]
    BY DEF v
  <2>5. Is(v, n + 1)
    BY <2>3, <2>4
  <2>6. n + 1 \in 0..N
    BY <1>3
  <2> QED BY <2>5, <2>6
<1>4. PICK w : Is(w, N)
  <2> HIDE DEF G
  <2>1. \A i \in 0..N : i \in G
    BY <1>2, <1>3, UpTo
  <2>2. N \in G
    BY <2>1
  <2> QED BY <2>2 DEF G
<1>5. Is(u, N)
  BY <1>4 DEF u
<1>6. u[0] = <<>> /\ \A i \in 1..N : u[i] = Step(u[i - 1], seq[i])
  BY <1>5
<1> QED BY <1>1, <1>6 DEF Step

(* How sort_rrl goes through the list. *)
LEMMA ByAgeWalk ==
  ASSUME NEW c, NEW l, Len(l) \in Nat
  PROVE  \E w : /\ ByAge(c, l) = w[Len(l)]
                /\ w[0] = <<>>
                /\ \A i \in 1..Len(l) : w[i] = InsertByAge(c, w[i - 1], l[i])
<1> DEFINE N == Len(l)
           Step(x, e) == InsertByAge(c, x, e)
           Is(w, n) == w = [i \in 0..n |-> IF i = 0 THEN <<>> ELSE Step(w[i - 1], l[i])]
           u == CHOOSE w : Is(w, N)
<1>1. ByAge(c, l) = u[N]
  BY DEF ByAge, Walk
<1> HIDE DEF Step, u
<1> DEFINE G == {n \in 0..N : \E w : Is(w, n)}
<1>2. 0 \in G
  <2>1. PICK w : w = [i \in 0..0 |-> <<>>]
    OBVIOUS
  <2>2. Is(w, 0)
    BY <2>1
  <2> QED BY <2>2
<1>3. ASSUME NEW n \in 0..N, n \in G, n < N PROVE n + 1 \in G
  <2>1. PICK w : Is(w, n)
    BY <1>3
  <2>2. PICK x : x = Step(w[n], l[n + 1])
    OBVIOUS
  <2> DEFINE v == [i \in 0..n + 1 |-> IF i = n + 1 THEN x ELSE w[i]]
  <2>3. ASSUME NEW i \in 0..n + 1 PROVE v[i] = IF i = 0 THEN <<>> ELSE Step(v[i - 1], l[i])
    <3>1. CASE i = n + 1
      BY <2>2, <3>1
    <3>2. CASE i # n + 1
      <4>1. v[i] = w[i] /\ i \in 0..n /\ (i # 0 => v[i - 1] = w[i - 1])
        BY <3>2
      <4>2. w[i] = IF i = 0 THEN <<>> ELSE Step(w[i - 1], l[i])
        BY <2>1, <4>1
      <4> QED BY <4>1, <4>2
    <3> QED BY <3>1, <3>2
  <2> HIDE DEF v
  <2>4. v = [i \in 0..n + 1 |-> v[i]]
    BY DEF v
  <2>5. Is(v, n + 1)
    BY <2>3, <2>4
  <2>6. n + 1 \in 0..N
    BY <1>3
  <2> QED BY <2>5, <2>6
<1>4. PICK w : Is(w, N)
  <2> HIDE DEF G
  <2>1. \A i \in 0..N : i \in G
    BY <1>2, <1>3, UpTo
  <2>2. N \in G
    BY <2>1
  <2> QED BY <2>2 DEF G
<1>5. Is(u, N)
  BY <1>4 DEF u
<1>6. u[0] = <<>> /\ \A i \in 1..N : u[i] = Step(u[i - 1], l[i])
  BY <1>5
<1> QED BY <1>1, <1>6 DEF Step

(* How the first walk of purge_cache goes through the list. *)
LEMMA FirstWalkWalk ==
  ASSUME NEW c, NEW limit, NEW lazy, Len(c.l) \in Nat
  PROVE  \E w : /\ FirstWalk(c, limit, lazy) = w[Len(c.l)]
                /\ w[0] = c
                /\ \A i \in 1..Len(c.l) : w[i] = IF lazy /\ w[i - 1].size <= limit THEN w[i - 1] ELSE PurgeExpired(w[i - 1], c.l[i])
<1> DEFINE N == Len(c.l)
           Step(x, e) == IF lazy /\ x.size <= limit THEN x ELSE PurgeExpired(x, e)
           Is(w, n) == w = [i \in 0..n |-> IF i = 0 THEN c ELSE Step(w[i - 1], c.l[i])]
           u == CHOOSE w : Is(w, N)
<1>1. FirstWalk(c, limit, lazy) = u[N]
  BY DEF FirstWalk, Walk
<1> HIDE DEF Step, u
<1> DEFINE G == {n \in 0..N : \E w : Is(w, n)}
<1>2. 0 \in G
  <2>1. PICK w : w = [i \in 0..0 |-> c]
    OBVIOUS
  <2>2. Is(w, 0)
    BY <2>1
  <2> QED BY <2>2
<1>3. ASSUME NEW n \in 0..N, n \in G, n < N PROVE n + 1 \in G
  <2>1. PICK w : Is(w, n)
    BY <1>3
  <2>2. PICK x : x = Step(w[n], c.l[n + 1])
    OBVIOUS
  <2> DEFINE v == [i \in 0..n + 1 |-> IF i = n + 1 THEN x ELSE w[i]]
  <2>3. ASSUME NEW i \in 0..n + 1 PROVE v[i] = IF i = 0 THEN c ELSE Step(v[i - 1], c.l[i])
    <3>1. CASE i = n + 1
      BY <2>2, <3>1
    <3>2. CASE i # n + 1
      <4>1. v[i] = w[i] /\ i \in 0..n /\ (i # 0 => v[i - 1] = w[i - 1])
        BY <3>2
      <4>2. w[i] = IF i = 0 THEN c ELSE Step(w[i - 1], c.l[i])
        BY <2>1, <4>1
      <4> QED BY <4>1, <4>2
    <3> QED BY <3>1, <3>2
  <2> HIDE DEF v
  <2>4. v = [i \in 0..n + 1 |-> v[i]]
    BY DEF v
  <2>5. Is(v, n + 1)
    BY <2>3, <2>4
  <2>6. n + 1 \in 0..N
    BY <1>3
  <2> QED BY <2>5, <2>6
<1>4. PICK w : Is(w, N)
  <2> HIDE DEF G
  <2>1. \A i \in 0..N : i \in G
    BY <1>2, <1>3, UpTo
  <2>2. N \in G
    BY <2>1
  <2> QED BY <2>2 DEF G
<1>5. Is(u, N)
  BY <1>4 DEF u
<1>6. u[0] = c /\ \A i \in 1..N : u[i] = Step(u[i - 1], c.l[i])
  BY <1>5
<1> QED BY <1>1, <1>6 DEF Step

(* How its second walk does. *)
LEMMA SecondWalkWalk ==
  ASSUME NEW c, NEW limit, Len(c.l) \in Nat
  PROVE  \E w : /\ SecondWalk(c, limit) = w[Len(c.l)]
                /\ w[0] = c
                /\ \A i \in 1..Len(c.l) : w[i] = IF w[i - 1].size <= limit THEN w[i - 1] ELSE PurgeOldest(w[i - 1], c.l[i])
<1> DEFINE N == Len(c.l)
           Step(x, e) == IF x.size <= limit THEN x ELSE PurgeOldest(x, e)
           Is(w, n) == w = [i \in 0..n |-> IF i = 0 THEN c ELSE Step(w[i - 1], c.l[i])]
           u == CHOOSE w : Is(w, N)
<1>1. SecondWalk(c, limit) = u[N]
  BY DEF SecondWalk, Walk
<1> HIDE DEF Step, u
<1> DEFINE G == {n \in 0..N : \E w : Is(w, n)}
<1>2. 0 \in G
  <2>1. PICK w : w = [i \in 0..0 |-> c]
    OBVIOUS
  <2>2. Is(w, 0)
    BY <2>1
  <2> QED BY <2>2
<1>3. ASSUME NEW n \in 0..N, n \in G, n < N PROVE n + 1 \in G
  <2>1. PICK w : Is(w, n)
    BY <1>3
  <2>2. PICK x : x = Step(w[n], c.l[n + 1])
    OBVIOUS
  <2> DEFINE v == [i \in 0..n + 1 |-> IF i = n + 1 THEN x ELSE w[i]]
  <2>3. ASSUME NEW i \in 0..n + 1 PROVE v[i] = IF i = 0 THEN c ELSE Step(v[i - 1], c.l[i])
    <3>1. CASE i = n + 1
      BY <2>2, <3>1
    <3>2. CASE i # n + 1
      <4>1. v[i] = w[i] /\ i \in 0..n /\ (i # 0 => v[i - 1] = w[i - 1])
        BY <3>2
      <4>2. w[i] = IF i = 0 THEN c ELSE Step(w[i - 1], c.l[i])
        BY <2>1, <4>1
      <4> QED BY <4>1, <4>2
    <3> QED BY <3>1, <3>2
  <2> HIDE DEF v
  <2>4. v = [i \in 0..n + 1 |-> v[i]]
    BY DEF v
  <2>5. Is(v, n + 1)
    BY <2>3, <2>4
  <2>6. n + 1 \in 0..N
    BY <1>3
  <2> QED BY <2>5, <2>6
<1>4. PICK w : Is(w, N)
  <2> HIDE DEF G
  <2>1. \A i \in 0..N : i \in G
    BY <1>2, <1>3, UpTo
  <2>2. N \in G
    BY <2>1
  <2> QED BY <2>2 DEF G
<1>5. Is(u, N)
  BY <1>4 DEF u
<1>6. u[0] = c /\ \A i \in 1..N : u[i] = Step(u[i - 1], c.l[i])
  BY <1>5
<1> QED BY <1>1, <1>6 DEF Step

(* How add_cache lists the sets of a new entry. *)
LEMMA ListAllWalk ==
  ASSUME NEW c, NEW m, NEW keys, Len(keys) \in Nat
  PROVE  \E w : /\ ListAll(c, m, keys) = w[Len(keys)]
                /\ w[0] = c
                /\ \A i \in 1..Len(keys) : w[i] = InsertRRL(w[i - 1], <<m, keys[i]>>)
<1> DEFINE N == Len(keys)
           Step(x, e) == InsertRRL(x, <<m, e>>)
           Is(w, n) == w = [i \in 0..n |-> IF i = 0 THEN c ELSE Step(w[i - 1], keys[i])]
           u == CHOOSE w : Is(w, N)
<1>1. ListAll(c, m, keys) = u[N]
  BY DEF ListAll, Walk
<1> HIDE DEF Step, u
<1> DEFINE G == {n \in 0..N : \E w : Is(w, n)}
<1>2. 0 \in G
  <2>1. PICK w : w = [i \in 0..0 |-> c]
    OBVIOUS
  <2>2. Is(w, 0)
    BY <2>1
  <2> QED BY <2>2
<1>3. ASSUME NEW n \in 0..N, n \in G, n < N PROVE n + 1 \in G
  <2>1. PICK w : Is(w, n)
    BY <1>3
  <2>2. PICK x : x = Step(w[n], keys[n + 1])
    OBVIOUS
  <2> DEFINE v == [i \in 0..n + 1 |-> IF i = n + 1 THEN x ELSE w[i]]
  <2>3. ASSUME NEW i \in 0..n + 1 PROVE v[i] = IF i = 0 THEN c ELSE Step(v[i - 1], keys[i])
    <3>1. CASE i = n + 1
      BY <2>2, <3>1
    <3>2. CASE i # n + 1
      <4>1. v[i] = w[i] /\ i \in 0..n /\ (i # 0 => v[i - 1] = w[i - 1])
        BY <3>2
      <4>2. w[i] = IF i = 0 THEN c ELSE Step(w[i - 1], keys[i])
        BY <2>1, <4>1
      <4> QED BY <4>1, <4>2
    <3> QED BY <3>1, <3>2
  <2> HIDE DEF v
  <2>4. v = [i \in 0..n + 1 |-> v[i]]
    BY DEF v
  <2>5. Is(v, n + 1)
    BY <2>3, <2>4
  <2>6. n + 1 \in 0..N
    BY <1>3
  <2> QED BY <2>5, <2>6
<1>4. PICK w : Is(w, N)
  <2> HIDE DEF G
  <2>1. \A i \in 0..N : i \in G
    BY <1>2, <1>3, UpTo
  <2>2. N \in G
    BY <2>1
  <2> QED BY <2>2 DEF G
<1>5. Is(u, N)
  BY <1>4 DEF u
<1>6. u[0] = c /\ \A i \in 1..N : u[i] = Step(u[i - 1], keys[i])
  BY <1>5
<1> QED BY <1>1, <1>6 DEF Step

(* How add_cache merges the sets into an entry. *)
LEMMA MergeAllWalk ==
  ASSUME NEW c, NEW m, NEW cent, Len(Types) \in Nat
  PROVE  \E w : /\ MergeAll(c, m, cent) = w[Len(Types)]
                /\ w[0] = c
                /\ \A i \in 1..Len(Types) : w[i] = IF Types[i] \in DOMAIN cent.rrs THEN MergeRRset(w[i - 1], m, Types[i], cent.rrs[Types[i]]) ELSE w[i - 1]
<1> DEFINE N == Len(Types)
           Step(x, e) == IF e \in DOMAIN cent.rrs THEN MergeRRset(x, m, e, cent.rrs[e]) ELSE x
           Is(w, n) == w = [i \in 0..n |-> IF i = 0 THEN c ELSE Step(w[i - 1], Types[i])]
           u == CHOOSE w : Is(w, N)
<1>1. MergeAll(c, m, cent) = u[N]
  BY DEF MergeAll, Walk
<1> HIDE DEF Step, u
<1> DEFINE G == {n \in 0..N : \E w : Is(w, n)}
<1>2. 0 \in G
  <2>1. PICK w : w = [i \in 0..0 |-> c]
    OBVIOUS
  <2>2. Is(w, 0)
    BY <2>1
  <2> QED BY <2>2
<1>3. ASSUME NEW n \in 0..N, n \in G, n < N PROVE n + 1 \in G
  <2>1. PICK w : Is(w, n)
    BY <1>3
  <2>2. PICK x : x = Step(w[n], Types[n + 1])
    OBVIOUS
  <2> DEFINE v == [i \in 0..n + 1 |-> IF i = n + 1 THEN x ELSE w[i]]
  <2>3. ASSUME NEW i \in 0..n + 1 PROVE v[i] = IF i = 0 THEN c ELSE Step(v[i - 1], Types[i])
    <3>1. CASE i = n + 1
      BY <2>2, <3>1
    <3>2. CASE i # n + 1
      <4>1. v[i] = w[i] /\ i \in 0..n /\ (i # 0 => v[i - 1] = w[i - 1])
        BY <3>2
      <4>2. w[i] = IF i = 0 THEN c ELSE Step(w[i - 1], Types[i])
        BY <2>1, <4>1
      <4> QED BY <4>1, <4>2
    <3> QED BY <3>1, <3>2
  <2> HIDE DEF v
  <2>4. v = [i \in 0..n + 1 |-> v[i]]
    BY DEF v
  <2>5. Is(v, n + 1)
    BY <2>3, <2>4
  <2>6. n + 1 \in 0..N
    BY <1>3
  <2> QED BY <2>5, <2>6
<1>4. PICK w : Is(w, N)
  <2> HIDE DEF G
  <2>1. \A i \in 0..N : i \in G
    BY <1>2, <1>3, UpTo
  <2>2. N \in G
    BY <2>1
  <2> QED BY <2>2 DEF G
<1>5. Is(u, N)
  BY <1>4 DEF u
<1>6. u[0] = c /\ \A i \in 1..N : u[i] = Step(u[i - 1], Types[i])
  BY <1>5
<1> QED BY <1>1, <1>6 DEF Step

(* How several entries are added. *)
LEMMA AddAllWalk ==
  ASSUME NEW c, NEW cents, Len(cents) \in Nat
  PROVE  \E w : /\ AddAll(c, cents) = w[Len(cents)]
                /\ w[0] = c
                /\ \A i \in 1..Len(cents) : w[i] = AddCache(w[i - 1], cents[i][1], cents[i][2])
<1> DEFINE N == Len(cents)
           Step(x, e) == AddCache(x, e[1], e[2])
           Is(w, n) == w = [i \in 0..n |-> IF i = 0 THEN c ELSE Step(w[i - 1], cents[i])]
           u == CHOOSE w : Is(w, N)
<1>1. AddAll(c, cents) = u[N]
  BY DEF AddAll, Walk
<1> HIDE DEF Step, u
<1> DEFINE G == {n \in 0..N : \E w : Is(w, n)}
<1>2. 0 \in G
  <2>1. PICK w : w = [i \in 0..0 |-> c]
    OBVIOUS
  <2>2. Is(w, 0)
    BY <2>1
  <2> QED BY <2>2
<1>3. ASSUME NEW n \in 0..N, n \in G, n < N PROVE n + 1 \in G
  <2>1. PICK w : Is(w, n)
    BY <1>3
  <2>2. PICK x : x = Step(w[n], cents[n + 1])
    OBVIOUS
  <2> DEFINE v == [i \in 0..n + 1 |-> IF i = n + 1 THEN x ELSE w[i]]
  <2>3. ASSUME NEW i \in 0..n + 1 PROVE v[i] = IF i = 0 THEN c ELSE Step(v[i - 1], cents[i])
    <3>1. CASE i = n + 1
      BY <2>2, <3>1
    <3>2. CASE i # n + 1
      <4>1. v[i] = w[i] /\ i \in 0..n /\ (i # 0 => v[i - 1] = w[i - 1])
        BY <3>2
      <4>2. w[i] = IF i = 0 THEN c ELSE Step(w[i - 1], cents[i])
        BY <2>1, <4>1
      <4> QED BY <4>1, <4>2
    <3> QED BY <3>1, <3>2
  <2> HIDE DEF v
  <2>4. v = [i \in 0..n + 1 |-> v[i]]
    BY DEF v
  <2>5. Is(v, n + 1)
    BY <2>3, <2>4
  <2>6. n + 1 \in 0..N
    BY <1>3
  <2> QED BY <2>5, <2>6
<1>4. PICK w : Is(w, N)
  <2> HIDE DEF G
  <2>1. \A i \in 0..N : i \in G
    BY <1>2, <1>3, UpTo
  <2>2. N \in G
    BY <2>1
  <2> QED BY <2>2 DEF G
<1>5. Is(u, N)
  BY <1>4 DEF u
<1>6. u[0] = c /\ \A i \in 1..N : u[i] = Step(u[i - 1], cents[i])
  BY <1>5
<1> QED BY <1>1, <1>6 DEF Step

(* What an element at the end of a sequence adds.                                       *)
LEMMA AppendOf ==
  ASSUME NEW T, NEW l \in Seq(T), NEW x \in T
  PROVE  /\ Append(l, x) \in Seq(T)
         /\ Members(Append(l, x)) = Members(l) \cup {x}
         /\ Once(l) /\ x \notin Members(l) => Once(Append(l, x))
<1>1. /\ Append(l, x) \in Seq(T) /\ Len(Append(l, x)) = Len(l) + 1 /\ Len(l) \in Nat
      /\ Append(l, x)[Len(l) + 1] = x /\ \A i \in 1..Len(l) : Append(l, x)[i] = l[i]
  OBVIOUS
<1>2. PICK r : r = Append(l, x)
  OBVIOUS
<1>3. Members(r) = Members(l) \cup {x}
  <2>1. ASSUME NEW y \in Members(r) PROVE y \in Members(l) \cup {x}
    BY <1>1, <1>2 DEF Members
  <2>2. ASSUME NEW y \in Members(l) PROVE y \in Members(r)
    <3>1. PICK i \in 1..Len(l) : y = l[i]
      BY DEF Members
    <3>2. i \in 1..Len(r) /\ y = r[i]
      BY <1>1, <1>2, <3>1
    <3> QED BY <3>2 DEF Members
  <2>3. x \in Members(r)
    <3>1. Len(r) \in 1..Len(r) /\ x = r[Len(r)]
      BY <1>1, <1>2
    <3> QED BY <3>1 DEF Members
  <2> QED BY <2>1, <2>2, <2>3
<1>4. Once(l) /\ x \notin Members(l) => Once(r)
  BY <1>1, <1>2 DEF Once, Members
<1> QED BY <1>1, <1>2, <1>3, <1>4

(* What an element after the first p of a sequence adds.                                *)
LEMMA InsertOf ==
  ASSUME NEW T, NEW l \in Seq(T), NEW x \in T, NEW p \in 0..Len(l)
  PROVE  /\ InsertAt(l, p + 1, x) \in Seq(T)
         /\ Members(InsertAt(l, p + 1, x)) = Members(l) \cup {x}
         /\ Once(l) /\ x \notin Members(l) => Once(InsertAt(l, p + 1, x))
<1>0. Len(l) \in Nat /\ p \in Nat /\ p <= Len(l) /\ (p + 1) - 1 = p
  OBVIOUS
<1>1. PICK a : a = SubSeq(l, 1, p)
  OBVIOUS
<1>2. PICK b : b = SubSeq(l, p + 1, Len(l))
  OBVIOUS
<1>3. a \in Seq(T) /\ Len(a) = p /\ \A i \in 1..p : a[i] = l[i]
  BY <1>0, <1>1
<1>4. b \in Seq(T) /\ Len(b) = Len(l) - p /\ \A i \in 1..Len(l) - p : b[i] = l[p + i]
  BY <1>0, <1>2
<1>5. PICK r : r = a \o <<x>> \o b
  OBVIOUS
<1>6. r = InsertAt(l, p + 1, x)
  BY <1>0, <1>1, <1>2, <1>5 DEF InsertAt
<1>7. /\ r \in Seq(T) /\ Len(r) = Len(l) + 1
      /\ \A i \in 1..Len(l) + 1 : r[i] = IF i <= p THEN l[i] ELSE IF i = p + 1 THEN x ELSE l[i - 1]
  <2>1. PICK h : h = a \o <<x>>
    OBVIOUS
  <2>2. h \in Seq(T) /\ Len(h) = p + 1 /\ h[p + 1] = x /\ \A i \in 1..p : h[i] = l[i]
    BY <1>0, <1>3, <2>1
  <2>3. r = h \o b
    BY <1>5, <2>1
  <2>4. r \in Seq(T) /\ Len(r) = Len(l) + 1
    BY <1>0, <1>4, <2>2, <2>3
  <2>5. ASSUME NEW i \in 1..Len(l) + 1 PROVE r[i] = IF i <= p THEN l[i] ELSE IF i = p + 1 THEN x ELSE l[i - 1]
    <3>1. CASE i <= p + 1
      <4>1. r[i] = h[i]
        BY <1>0, <1>4, <2>2, <2>3, <3>1
      <4> QED BY <1>0, <2>2, <3>1, <4>1
    <3>2. CASE i > p + 1
      <4>1. r[i] = b[i - (p + 1)] /\ i - (p + 1) \in 1..Len(l) - p
        BY <1>0, <1>4, <2>2, <2>3, <3>2
      <4>2. PICK k : k = i - (p + 1)
        OBVIOUS
      <4>3. b[k] = l[p + k]
        BY <1>4, <4>1, <4>2
      <4>4. p + k = i - 1 /\ ~(i <= p) /\ i # p + 1
        BY <1>0, <3>2, <4>2
      <4> QED BY <4>1, <4>2, <4>3, <4>4
    <3> QED BY <1>0, <3>1, <3>2
  <2> QED BY <2>4, <2>5
<1>8. Members(r) = Members(l) \cup {x}
  <2>1. ASSUME NEW y \in Members(r) PROVE y \in Members(l) \cup {x}
    <3>1. PICK i \in 1..Len(r) : y = r[i]
      BY DEF Members
    <3>2. y = x \/ (\E j \in 1..Len(l) : y = l[j])
      <4>1. y = IF i <= p THEN l[i] ELSE IF i = p + 1 THEN x ELSE l[i - 1]
        BY <1>7, <3>1
      <4>2. i <= p => i \in 1..Len(l)
        BY <1>0, <3>1
      <4>3. i > p + 1 => i - 1 \in 1..Len(l)
        BY <1>0, <1>7, <3>1
      <4>4. i <= p \/ i = p + 1 \/ i > p + 1
        BY <1>0, <3>1
      <4> QED BY <1>0, <4>1, <4>2, <4>3, <4>4
    <3> QED BY <3>2 DEF Members
  <2>2. ASSUME NEW y \in Members(l) PROVE y \in Members(r)
    <3>1. PICK i \in 1..Len(l) : y = l[i]
      BY DEF Members
    <3>2. \E j \in 1..Len(r) : y = r[j]
      <4>1. CASE i <= p
        BY <1>0, <1>7, <3>1, <4>1
      <4>2. CASE i > p
        <5>1. i + 1 \in 1..Len(r) /\ r[i + 1] = l[(i + 1) - 1] /\ (i + 1) - 1 = i
          BY <1>0, <1>7, <4>2
        <5> QED BY <3>1, <5>1
      <4> QED BY <1>0, <4>1, <4>2
    <3> QED BY <3>2 DEF Members
  <2>3. x \in Members(r)
    <3>1. p + 1 \in 1..Len(r) /\ r[p + 1] = x
      BY <1>0, <1>7
    <3> QED BY <3>1 DEF Members
  <2> QED BY <2>1, <2>2, <2>3
<1>9. ASSUME Once(l), x \notin Members(l) PROVE Once(r)
  <2>1. \A i \in 1..Len(l) : l[i] # x
    BY <1>9 DEF Members
  <2> DEFINE from(i) == IF i <= p THEN i ELSE i - 1
  <2>2. ASSUME NEW i \in 1..Len(r) PROVE i # p + 1 => from(i) \in 1..Len(l) /\ r[i] = l[from(i)]
    BY <1>0, <1>7
  <2>3. r[p + 1] = x
    BY <1>0, <1>7
  <2>4. ASSUME NEW i \in 1..Len(r), NEW j \in 1..Len(r), r[i] = r[j] PROVE i = j
    <3>1. CASE i = p + 1 \/ j = p + 1
      <4>1. \A k \in 1..Len(r) : k # p + 1 => r[k] # x
        BY <2>1, <2>2
      <4> HIDE DEF from
      <4> QED BY <2>3, <2>4, <3>1, <4>1
    <3>2. CASE i # p + 1 /\ j # p + 1
      <4>1. from(i) = from(j)
        BY <1>9, <2>2, <2>4, <3>2 DEF Once
      <4>2. i \in Int /\ j \in Int
        OBVIOUS
      <4> QED BY <1>0, <3>2, <4>1, <4>2
    <3> QED BY <3>1, <3>2
  <2> QED BY <2>4 DEF Once
<1> QED BY <1>6, <1>7, <1>8, <1>9

(* What is left out.                                                                    *)
LEMMA WithoutOf ==
  ASSUME NEW T, NEW l \in Seq(T), NEW S
  PROVE  /\ Without(l, S) \in Seq(T)
         /\ Members(Without(l, S)) = Members(l) \ S
         /\ Once(l) => Once(Without(l, S))
<1>1. Len(l) \in Nat /\ \A i \in 1..Len(l) : l[i] \in T
  OBVIOUS
<1>2. PICK w : /\ Without(l, S) = w[Len(l)]
               /\ w[0] = <<>>
               /\ \A i \in 1..Len(l) : w[i] = IF l[i] \in S THEN w[i - 1] ELSE Append(w[i - 1], l[i])
  BY <1>1, WithoutWalk
<1> DEFINE First(i) == {l[j] : j \in 1..i}
           OK(i) == /\ w[i] \in Seq(T) /\ Members(w[i]) = First(i) \ S
                    /\ Once(l) => Once(w[i])
           G == {i \in 0..Len(l) : OK(i)}
<1> HIDE DEF OK
<1>3. 0 \in G
  <2>1. <<>> \in Seq(T) /\ Members(<<>>) = {} /\ Once(<<>>) /\ First(0) = {}
    BY DEF Members, Once
  <2>2. OK(0)
    BY <1>2, <2>1 DEF OK
  <2> QED BY <1>1, <2>2
<1>4. ASSUME NEW i \in 0..Len(l), i \in G, i < Len(l) PROVE i + 1 \in G
  <2>0. OK(i)
    BY <1>4
  <2>1. /\ i + 1 \in 1..Len(l) /\ (i + 1) - 1 = i /\ l[i + 1] \in T
        /\ w[i + 1] = IF l[i + 1] \in S THEN w[i] ELSE Append(w[i], l[i + 1])
    <3>1. i + 1 \in 1..Len(l) /\ (i + 1) - 1 = i
      BY <1>1, <1>4
    <3> QED BY <1>1, <1>2, <3>1
  <2>2. First(i + 1) = First(i) \cup {l[i + 1]}
    BY <1>1, <1>4
  <2>3. Once(l) => l[i + 1] \notin First(i)
    BY <1>1, <1>4, <2>1 DEF Once
  <2> HIDE DEF First
  <2>4. OK(i + 1)
    <3>1. CASE l[i + 1] \in S
      BY <2>0, <2>1, <2>2, <3>1 DEF OK
    <3>2. CASE l[i + 1] \notin S
      <4>1. w[i + 1] = Append(w[i], l[i + 1])
        BY <2>1, <3>2
      <4>2. w[i] \in Seq(T) /\ Members(w[i]) = First(i) \ S /\ (Once(l) => Once(w[i]))
        BY <2>0 DEF OK
      <4>3. /\ Append(w[i], l[i + 1]) \in Seq(T)
            /\ Members(Append(w[i], l[i + 1])) = Members(w[i]) \cup {l[i + 1]}
            /\ Once(w[i]) /\ l[i + 1] \notin Members(w[i]) => Once(Append(w[i], l[i + 1]))
        BY <2>1, <4>2, AppendOf
      <4>4. Once(l) => Once(w[i + 1])
        BY <2>3, <4>1, <4>2, <4>3
      <4>5. Members(w[i + 1]) = First(i + 1) \ S
        BY <2>2, <3>2, <4>1, <4>2, <4>3
      <4> QED BY <4>1, <4>3, <4>4, <4>5 DEF OK
    <3> QED BY <3>1, <3>2
  <2> QED BY <2>1, <2>4
<1>5. OK(Len(l))
  <2> HIDE DEF G
  <2>1. \A i \in 0..Len(l) : i \in G
    BY <1>1, <1>3, <1>4, UpTo
  <2>2. Len(l) \in G
    BY <1>1, <2>1
  <2> QED BY <2>2 DEF G
<1>6. First(Len(l)) = Members(l)
  BY DEF Members
<1> QED BY <1>2, <1>5, <1>6 DEF OK

-----------------------------------------------------------------------------
(* Entries, and the list of a cache *)

(* Entry f is entry e without the sets of S, as far as the invariant goes.              *)
Less(e, f, S) ==
  /\ DOMAIN f = EntryFields /\ f.neg = e.neg /\ f.local = e.local /\ f.ext \in BOOLEAN
  /\ DOMAIN f.rrs = DOMAIN e.rrs \ S
  /\ \A t \in DOMAIN f.rrs : /\ DOMAIN f.rrs[t] = SetFields
                             /\ f.rrs[t].neg = e.rrs[t].neg /\ f.rrs[t].local = e.rrs[t].local

(* Cache d is cache c without the sets of S in entry n.                                 *)
Lesser(c, d, n, S) ==
  /\ Shape(d)
  /\ DOMAIN d.ent = DOMAIN c.ent
  /\ \A m \in DOMAIN c.ent : IF m = n THEN Less(c.ent[m], d.ent[m], S) ELSE d.ent[m] = c.ent[m]
  /\ d.l \in Seq(Element) /\ Once(d.l) /\ Members(d.l) = Members(c.l) \ ({n} \X S)

LEMMA LessIsCent ==
  ASSUME NEW e, IsCent(e), NEW f, NEW S, Less(e, f, S)
  PROVE  IsCent(f)
BY DEF IsCent, Less, Coherent

LEMMA LesserGood ==
  ASSUME NEW c, Good(c), NEW d, NEW n, NEW S \in SUBSET Type, Lesser(c, d, n, S)
  PROVE  Good(d)
<1>1. Entries(d.ent)
  BY LessIsCent DEF Good, Entries, Lesser
<1>2. ASSUME NEW m \in Name, NEW k \in Key PROVE <<m, k>> \in Members(d.l) <=> Listed(d.ent, m, k)
  <2>1. <<m, k>> \in Members(c.l) <=> Listed(c.ent, m, k)
    BY DEF Good, ListOK
  <2>2. <<m, k>> \in Members(d.l) <=> Listed(c.ent, m, k) /\ ~(m = n /\ k \in S)
    BY <2>1 DEF Lesser
  <2>3. CASE m # n \/ m \notin DOMAIN c.ent
    BY <2>2, <2>3 DEF Listed, Lesser
  <2>4. CASE m = n /\ m \in DOMAIN c.ent
    <3>1. Less(c.ent[m], d.ent[m], S) /\ IsCent(c.ent[m])
      BY <2>4 DEF Lesser, Good, Entries
    <3>2. k = Whole => k \notin S
      BY WholeApart
    <3>3. m \in DOMAIN d.ent
      BY <2>4 DEF Lesser
    <3> QED BY <2>2, <2>4, <3>1, <3>2, <3>3, WholeApart DEF Listed, Less, IsCent
  <2> QED BY <2>3, <2>4
<1> QED BY <1>1, <1>2 DEF Good, ListOK, Lesser

(* What del_cent_rrset_by_index leaves of an entry.                                     *)
Rest(e, f, S) == /\ f.rrs = Restrict(e.rrs, DOMAIN e.rrs \ S) /\ f.ext = e.ext /\ f.ts = e.ts
                 /\ f.ttl = e.ttl /\ f.ns = e.ns /\ f.neg = e.neg /\ f.local = e.local

(* del_cent_rrset_by_index                                                              *)
LEMMA DelRRsetsLesser ==
  ASSUME NEW c, Good(c), NEW n, NEW S \in SUBSET Type, NEW d, d = DelRRsets(c, n, S)
  PROVE  /\ Lesser(c, d, n, S) /\ Good(d)
         /\ n \in DOMAIN c.ent => Rest(c.ent[n], d.ent[n], S)
<1>0. PICK e : e = c.ent[n]
  OBVIOUS
<1> DEFINE f == [e EXCEPT !.rrs = Restrict(@, DOMAIN @ \ S), !.nrr = @ - Cardinality(S), !.cs = @ - Sizes(e.rrs, S)]
<1>2. d = [c EXCEPT !.l = Without(@, {n} \X S), !.ent[n] = f]
  BY <1>0 DEF DelRRsets
<1>1. IsCent(e) => /\ DOMAIN f = EntryFields
                   /\ f.rrs = Restrict(e.rrs, DOMAIN e.rrs \ S) /\ f.ext = e.ext /\ f.ts = e.ts
                   /\ f.ttl = e.ttl /\ f.ns = e.ns /\ f.neg = e.neg /\ f.local = e.local
  BY DEF IsCent, EntryFields
<1>8. IsCent(e) => Rest(e, f, S)
  BY <1>1 DEF Rest
<1> HIDE DEF f
<1>3. Shape(d) /\ DOMAIN d.ent = DOMAIN c.ent /\ d.l = Without(c.l, {n} \X S)
  BY <1>2 DEF Good, Shape, CacheFields
<1>4. d.l \in Seq(Element) /\ Once(d.l) /\ Members(d.l) = Members(c.l) \ ({n} \X S)
  BY <1>3, WithoutOf DEF Good, ListOK
<1>5. \A m \in DOMAIN c.ent : m # n => d.ent[m] = c.ent[m]
  BY <1>2 DEF Good, Shape, CacheFields
<1>6. ASSUME n \in DOMAIN c.ent
      PROVE  Less(e, f, S) /\ d.ent[n] = f /\ Rest(e, f, S)
  <2>1. IsCent(e)
    BY <1>0, <1>6 DEF Good, Entries
  <2>2. d.ent[n] = f
    BY <1>2, <1>6 DEF Good, Shape, CacheFields
  <2>3. Less(e, f, S)
    BY <1>1, <2>1 DEF Less, IsCent, Restrict
  <2> QED BY <1>8, <2>1, <2>2, <2>3
<1>7. Lesser(c, d, n, S)
  BY <1>0, <1>3, <1>4, <1>5, <1>6 DEF Lesser
<1> QED BY <1>0, <1>6, <1>7, LesserGood

(* What it does to the counts: entry f is entry e without the sets of S, in its numbers. *)
Fewer(e, f, S) == /\ f.rrs = Restrict(e.rrs, DOMAIN e.rrs \ S) /\ f.neg = e.neg /\ f.ext = e.ext
                  /\ f.nrr = e.nrr - Cardinality(S) /\ f.cs = e.cs - Sizes(e.rrs, S)

LEMMA DelRRsetsCounts ==
  ASSUME NEW c, Good(c), NEW n \in DOMAIN c.ent, NEW S, NEW d, d = DelRRsets(c, n, S), NEW e, e = c.ent[n]
  PROVE  d.size = c.size /\ d.num = c.num /\ Fewer(e, d.ent[n], S)
<1>1. IsCent(e)
  BY DEF Good, Entries
<1>2. PICK x : x = e.nrr - Cardinality(S)
  OBVIOUS
<1>3. PICK y : y = e.cs - Sizes(e.rrs, S)
  OBVIOUS
<1>4. PICK f : f = [e EXCEPT !.rrs = Restrict(@, DOMAIN @ \ S), !.nrr = x, !.cs = y]
  OBVIOUS
<1>5. d = [c EXCEPT !.l = Without(@, {n} \X S), !.ent[n] = f]
  BY <1>2, <1>3, <1>4 DEF DelRRsets
<1>6. /\ f.nrr = x /\ f.cs = y
      /\ f.rrs = Restrict(e.rrs, DOMAIN e.rrs \ S) /\ f.ext = e.ext /\ f.neg = e.neg
  BY <1>1, <1>4 DEF IsCent, EntryFields
<1>7. d.ent[n] = f /\ d.size = c.size /\ d.num = c.num
  BY <1>5 DEF Good, Shape, CacheFields
<1> QED BY <1>2, <1>3, <1>6, <1>7 DEF Fewer

(* A change of an entry that the invariant does not see, and of the sizes.              *)
LEMMA SameGood ==
  ASSUME NEW c, Good(c), NEW d, Shape(d), NEW n, DOMAIN d.ent = DOMAIN c.ent, d.l = c.l,
         \A m \in DOMAIN c.ent : IF m = n THEN Less(c.ent[m], d.ent[m], {}) ELSE d.ent[m] = c.ent[m]
  PROVE  Good(d)
<1>1. Lesser(c, d, n, {})
  BY DEF Lesser, Good, ListOK
<1> QED BY <1>1, LesserGood

(* del_cent                                                                             *)
LEMMA DelEntriesGood ==
  ASSUME NEW c, Good(c), NEW S
  PROVE  /\ Good(DelEntries(c, S))
         /\ DOMAIN DelEntries(c, S).ent = DOMAIN c.ent \ S
         /\ \A m \in DOMAIN c.ent \ S : DelEntries(c, S).ent[m] = c.ent[m]
<1>1. PICK d : d = DelEntries(c, S)
  OBVIOUS
<1>2. /\ Shape(d) /\ d.ent = Restrict(c.ent, DOMAIN c.ent \ S) /\ d.l = Without(c.l, S \X Key)
  BY <1>1 DEF DelEntries, Good, Shape, CacheFields, Names
<1>3. DOMAIN d.ent = DOMAIN c.ent \ S /\ \A m \in DOMAIN c.ent \ S : d.ent[m] = c.ent[m]
  BY <1>2 DEF Restrict
<1>4. Entries(d.ent)
  BY <1>3 DEF Entries, Good
<1>5. d.l \in Seq(Element) /\ Once(d.l) /\ Members(d.l) = Members(c.l) \ (S \X Key)
  BY <1>2, WithoutOf DEF Good, ListOK
<1>6. ASSUME NEW m \in Name, NEW k \in Key PROVE <<m, k>> \in Members(d.l) <=> Listed(d.ent, m, k)
  <2>1. <<m, k>> \in Members(c.l) <=> Listed(c.ent, m, k)
    BY DEF Good, ListOK
  <2> QED BY <1>3, <1>5, <2>1 DEF Listed
<1> QED BY <1>1, <1>2, <1>3, <1>4, <1>5, <1>6 DEF Good, ListOK

(* del_cache_ent                                                                        *)
LEMMA DelEntryGood ==
  ASSUME NEW c, Good(c), NEW n
  PROVE  /\ Good(DelEntry(c, n))
         /\ DOMAIN DelEntry(c, n).ent = DOMAIN c.ent \ {n}
         /\ \A m \in DOMAIN c.ent \ {n} : DelEntry(c, n).ent[m] = c.ent[m]
BY DelEntriesGood DEF DelEntry

(* What changes only the sizes changes nothing here.                                    *)
LEMMA SizesOnly ==
  ASSUME NEW c, Good(c), NEW d, Shape(d), d.ent = c.ent, d.l = c.l
  PROVE  Good(d)
BY DEF Good

LEMMA DropRRsetGood ==
  ASSUME NEW c, Good(c), NEW n, NEW t \in Type
  PROVE  Good(DropRRset(c, n, t))
<1>1. PICK d : d = DelRRsets(c, n, {t})
  OBVIOUS
<1>2. Good(d)
  BY <1>1, DelRRsetsLesser
<1>3. PICK x : x = d.size - SizeOf(c.ent[n].rrs[t])
  OBVIOUS
<1>4. DropRRset(c, n, t) = [d EXCEPT !.size = x]
  BY <1>1, <1>3 DEF DropRRset
<1>5. PICK r : r = [d EXCEPT !.size = x]
  OBVIOUS
<1>6. Shape(r) /\ r.ent = d.ent /\ r.l = d.l
  BY <1>2, <1>5 DEF Good, Shape, CacheFields
<1> QED BY <1>2, <1>4, <1>5, <1>6, SizesOnly

(* purge_all_rrsets, of an entry or of nothing.                                         *)
LEMMA LostTypes ==
  ASSUME NEW c, Good(c), NEW n \in DOMAIN c.ent
  PROVE  IsCent(c.ent[n]) /\ Lost(c.ent[n]) \in SUBSET Type
BY DEF Good, Entries, IsCent, Lost

PurgedTo(c, e, d, f) ==
  /\ f.rrs = Restrict(e.rrs, DOMAIN e.rrs \ Lost(e))
  /\ f.ext <=> e.ext /\ ~ExtIdle(e)
  /\ f.neg = e.neg /\ f.local = e.local /\ f.ts = e.ts /\ f.ttl = e.ttl /\ f.ns = e.ns
  /\ f.nrr = e.nrr - Cardinality(Lost(e))
  /\ f.cs = e.cs - Sizes(e.rrs, Lost(e)) - (IF ExtIdle(e) THEN 1 ELSE 0)
  /\ d.size = c.size - (Sizes(e.rrs, Lost(e)) + (IF ExtIdle(e) THEN 1 ELSE 0))
  /\ d.num = c.num

LEMMA PurgeRRsetsGood ==
  ASSUME NEW c, Good(c), NEW n \in DOMAIN c.ent
  PROVE  LET d == PurgeRRsets(c, n)
         IN  /\ Good(d) /\ DOMAIN d.ent = DOMAIN c.ent
             /\ \A m \in DOMAIN c.ent \ {n} : d.ent[m] = c.ent[m]
             /\ PurgedTo(c, c.ent[n], d, d.ent[n])
<1>1. PICK e : e = c.ent[n]
  OBVIOUS
<1>2. IsCent(e) /\ Lost(e) \in SUBSET Type
  BY <1>1, LostTypes
<1>3. PICK d : d = DelRRsets(c, n, Lost(e))
  OBVIOUS
<1>4. /\ Good(d) /\ DOMAIN d.ent = DOMAIN c.ent /\ d.size = c.size /\ d.num = c.num
      /\ \A m \in DOMAIN c.ent \ {n} : d.ent[m] = c.ent[m]
      /\ d.ent[n].rrs = Restrict(e.rrs, DOMAIN e.rrs \ Lost(e))
      /\ d.ent[n].ext = e.ext /\ d.ent[n].neg = e.neg /\ d.ent[n].local = e.local
      /\ d.ent[n].ts = e.ts /\ d.ent[n].ttl = e.ttl /\ d.ent[n].ns = e.ns
      /\ d.ent[n].nrr = e.nrr - Cardinality(Lost(e)) /\ d.ent[n].cs = e.cs - Sizes(e.rrs, Lost(e))
  <2>1. PICK S \in SUBSET Type : S = Lost(e)
    BY <1>2
  <2>2. /\ Lesser(c, d, n, S) /\ Good(d) /\ d.size = c.size /\ d.num = c.num
        /\ d.ent[n].rrs = Restrict(e.rrs, DOMAIN e.rrs \ S) /\ d.ent[n].ext = e.ext /\ d.ent[n].ts = e.ts
        /\ d.ent[n].ttl = e.ttl /\ d.ent[n].ns = e.ns /\ d.ent[n].neg = e.neg /\ d.ent[n].local = e.local
        /\ d.ent[n].nrr = e.nrr - Cardinality(S) /\ d.ent[n].cs = e.cs - Sizes(e.rrs, S)
    <3>1. d = DelRRsets(c, n, S)
      BY <1>3, <2>1
    <3>2. /\ Lesser(c, d, n, S) /\ Good(d)
          /\ d.ent[n].rrs = Restrict(e.rrs, DOMAIN e.rrs \ S) /\ d.ent[n].ext = e.ext /\ d.ent[n].ts = e.ts
          /\ d.ent[n].ttl = e.ttl /\ d.ent[n].ns = e.ns /\ d.ent[n].neg = e.neg /\ d.ent[n].local = e.local
      <4>1. Lesser(c, d, n, S) /\ Good(d) /\ Rest(e, d.ent[n], S)
        BY <1>1, <3>1, DelRRsetsLesser
      <4> QED BY <4>1 DEF Rest
    <3>3. d.size = c.size /\ d.num = c.num /\ Fewer(e, d.ent[n], S)
      BY <1>1, <3>1, DelRRsetsCounts
    <3> QED BY <3>2, <3>3 DEF Fewer
  <2>3. DOMAIN d.ent = DOMAIN c.ent /\ \A m \in DOMAIN c.ent \ {n} : d.ent[m] = c.ent[m]
    BY <2>2 DEF Lesser
  <2> QED BY <2>1, <2>2, <2>3
<1>5. n \in DOMAIN d.ent /\ IsCent(d.ent[n])
  BY <1>4 DEF Good, Entries
<1>6. PICK x : x = d.size - (Sizes(e.rrs, Lost(e)) + (IF ExtIdle(e) THEN 1 ELSE 0))
  OBVIOUS
<1>7. PICK y : y = d.ent[n].cs - (IF ExtIdle(e) THEN 1 ELSE 0)
  OBVIOUS
<1>8. PICK r : r = [d EXCEPT !.size = x, !.ent[n].ext = @ /\ ~ExtIdle(e), !.ent[n].cs = y]
  OBVIOUS
<1>9. PurgeRRsets(c, n) = r
  BY <1>1, <1>3, <1>6, <1>7, <1>8 DEF PurgeRRsets
<1>10. PICK f : f = r.ent[n]
  OBVIOUS
<1>11. /\ Shape(r) /\ DOMAIN r.ent = DOMAIN d.ent /\ r.l = d.l /\ r.size = x /\ r.num = d.num
       /\ \A m \in DOMAIN d.ent \ {n} : r.ent[m] = d.ent[m]
  BY <1>4, <1>5, <1>8 DEF Good, Shape, CacheFields
<1>12. /\ DOMAIN f = EntryFields /\ (f.ext <=> d.ent[n].ext /\ ~ExtIdle(e)) /\ f.ext \in BOOLEAN
       /\ f.rrs = d.ent[n].rrs /\ f.neg = d.ent[n].neg /\ f.local = d.ent[n].local
       /\ f.ts = d.ent[n].ts /\ f.ttl = d.ent[n].ttl /\ f.ns = d.ent[n].ns
       /\ f.nrr = d.ent[n].nrr /\ f.cs = y
  BY <1>4, <1>5, <1>8, <1>10 DEF Good, Shape, CacheFields, IsCent, EntryFields
<1>13. Less(d.ent[n], f, {})
  BY <1>5, <1>12 DEF Less, IsCent
<1>14. Good(r)
  BY <1>4, <1>10, <1>11, <1>13, SameGood
<1>15. PurgedTo(c, e, r, f)
  BY <1>4, <1>6, <1>7, <1>11, <1>12 DEF PurgedTo
<1> QED BY <1>1, <1>4, <1>9, <1>10, <1>11, <1>14, <1>15

(* purge_cent                                                                           *)
LEMMA PurgeCentGood ==
  ASSUME NEW c, Good(c), NEW n \in DOMAIN c.ent, NEW delete \in BOOLEAN
  PROVE  /\ Good(PurgeCent(c, n, delete))
         /\ ~delete => DOMAIN PurgeCent(c, n, delete).ent = DOMAIN c.ent
<1>1. PICK d : d = PurgeRRsets(c, n)
  OBVIOUS
<1>2. Good(d) /\ DOMAIN d.ent = DOMAIN c.ent
  BY <1>1, PurgeRRsetsGood
<1>3. Good(DelEntry(d, n))
  BY <1>2, DelEntryGood
<1>4. PICK f : f = [d.ent[n] EXCEPT !.ns = NoName]
  OBVIOUS
<1>5. PICK r : r = [d EXCEPT !.ent = [@ EXCEPT ![n] = f]]
  OBVIOUS
<1>6. Less(d.ent[n], f, {})
  BY <1>2, <1>4 DEF Less, Good, Entries, IsCent, EntryFields
<1>7. Shape(r) /\ DOMAIN r.ent = DOMAIN d.ent /\ r.l = d.l
      /\ \A m \in DOMAIN d.ent : IF m = n THEN r.ent[m] = f ELSE r.ent[m] = d.ent[m]
  BY <1>2, <1>5 DEF Good, Shape, CacheFields
<1>8. Good(r)
  <2>1. \A m \in DOMAIN d.ent : IF m = n THEN Less(d.ent[m], r.ent[m], {}) ELSE r.ent[m] = d.ent[m]
    BY <1>6, <1>7
  <2> QED BY <1>2, <1>7, <2>1, SameGood
<1>9. PurgeCent(c, n, delete) = IF delete /\ Vanishes(c.ent[n]) THEN DelEntry(d, n) ELSE IF Stale(d, n) THEN r ELSE d
  <2>1. [d EXCEPT !.ent[n].ns = NoName] = r
    BY <1>4, <1>5
  <2> QED BY <1>1, <2>1, Zenon DEF PurgeCent
<1> QED BY <1>2, <1>3, <1>7, <1>8, <1>9

(* purge_cache, one element of the list.                                                *)
LEMMA PurgeStepsGood ==
  ASSUME NEW c, Good(c), NEW le \in Element
  PROVE  Good(PurgeExpired(c, le)) /\ Good(PurgeOldest(c, le))
<1>1. le[2] # Whole => Good(DropRRset(c, le[1], le[2]))
  BY DropRRsetGood DEF Element, Key
<1>2. \A d, n, may : Good(d) => Good(DropIfEmpty(d, n, may))
  BY DelEntryGood DEF DropIfEmpty
<1> QED BY <1>1, <1>2 DEF PurgeExpired, PurgeOldest

(* insert_rrl while the list is sorted, and sort_rrl.                                   *)
LEMMA InsertByAgeOf ==
  ASSUME NEW c, NEW l \in Seq(Element), NEW le \in Element
  PROVE  /\ InsertByAge(c, l, le) \in Seq(Element)
         /\ Members(InsertByAge(c, l, le)) = Members(l) \cup {le}
         /\ Once(l) /\ le \notin Members(l) => Once(InsertByAge(c, l, le))
<1>1. Len(l) \in Nat
  OBVIOUS
<1>2. PICK I : I = {i \in 1..Len(l) : Ts(c, le) >= Ts(c, l[i])}
  OBVIOUS
<1>3. PICK p : p = IF I # {} THEN Max(I) ELSE 0
  OBVIOUS
<1>4. InsertByAge(c, l, le) = InsertAt(l, p + 1, le)
  BY <1>2, <1>3 DEF InsertByAge, SelectLastInSeq
<1>5. p \in 0..Len(l)
  <2>1. I \subseteq 1..Len(l)
    BY <1>2
  <2>2. I # {} => Max(I) \in I
    BY <1>1, <2>1, Extremes
  <2>3. CASE I = {}
    <3>1. p = 0
      BY <1>3, <2>3
    <3> QED BY <1>1, <3>1
  <2>4. CASE I # {}
    <3>1. p = Max(I) /\ Max(I) \in 1..Len(l)
      BY <1>3, <2>1, <2>2, <2>4
    <3> QED BY <1>1, <3>1
  <2> QED BY <2>3, <2>4
<1>6. /\ InsertAt(l, p + 1, le) \in Seq(Element)
      /\ Members(InsertAt(l, p + 1, le)) = Members(l) \cup {le}
      /\ Once(l) /\ le \notin Members(l) => Once(InsertAt(l, p + 1, le))
  BY <1>5, InsertOf
<1> QED BY <1>4, <1>6

LEMMA ByAgeOf ==
  ASSUME NEW c, NEW l \in Seq(Element), Once(l)
  PROVE  ByAge(c, l) \in Seq(Element) /\ Members(ByAge(c, l)) = Members(l) /\ Once(ByAge(c, l))
<1>1. Len(l) \in Nat /\ \A i \in 1..Len(l) : l[i] \in Element
  OBVIOUS
<1>2. PICK w : /\ ByAge(c, l) = w[Len(l)]
               /\ w[0] = <<>>
               /\ \A i \in 1..Len(l) : w[i] = InsertByAge(c, w[i - 1], l[i])
  BY <1>1, ByAgeWalk
<1> DEFINE First(i) == {l[j] : j \in 1..i}
           OK(i) == w[i] \in Seq(Element) /\ Members(w[i]) = First(i) /\ Once(w[i])
           G == {i \in 0..Len(l) : OK(i)}
<1> HIDE DEF OK
<1>3. 0 \in G
  <2>1. <<>> \in Seq(Element) /\ Members(<<>>) = {} /\ Once(<<>>) /\ First(0) = {}
    BY DEF Members, Once
  <2>2. OK(0)
    BY <1>2, <2>1 DEF OK
  <2> QED BY <1>1, <2>2
<1>4. ASSUME NEW i \in 0..Len(l), i \in G, i < Len(l) PROVE i + 1 \in G
  <2>0. OK(i)
    BY <1>4
  <2>1. i + 1 \in 1..Len(l) /\ l[i + 1] \in Element /\ w[i + 1] = InsertByAge(c, w[i], l[i + 1])
    <3>1. i + 1 \in 1..Len(l) /\ (i + 1) - 1 = i
      BY <1>1, <1>4
    <3> QED BY <1>1, <1>2, <3>1
  <2>2. First(i + 1) = First(i) \cup {l[i + 1]}
    BY <1>1, <1>4
  <2>3. l[i + 1] \notin First(i)
    BY <1>1, <1>4, <2>1 DEF Once
  <2> HIDE DEF First
  <2>4. OK(i + 1)
    <3>1. w[i] \in Seq(Element) /\ Members(w[i]) = First(i) /\ Once(w[i])
      BY <2>0 DEF OK
    <3>2. /\ w[i + 1] \in Seq(Element) /\ Members(w[i + 1]) = Members(w[i]) \cup {l[i + 1]}
          /\ Once(w[i]) /\ l[i + 1] \notin Members(w[i]) => Once(w[i + 1])
      BY <2>1, <3>1, InsertByAgeOf
    <3> QED BY <2>2, <2>3, <3>1, <3>2 DEF OK
  <2> QED BY <2>1, <2>4
<1>5. OK(Len(l))
  <2> HIDE DEF G
  <2>1. \A i \in 0..Len(l) : i \in G
    BY <1>1, <1>3, <1>4, UpTo
  <2>2. Len(l) \in G
    BY <1>1, <2>1
  <2> QED BY <2>2 DEF G
<1>6. First(Len(l)) = Members(l)
  BY DEF Members
<1> QED BY <1>2, <1>5, <1>6 DEF OK

LEMMA SortedGood ==
  ASSUME NEW c, Good(c)
  PROVE  /\ Good(Sorted(c)) /\ Sorted(c).ent = c.ent /\ Sorted(c).size = c.size /\ Sorted(c).num = c.num
         /\ Members(Sorted(c).l) = Members(c.l)
<1>1. PICK d : d = [c EXCEPT !.sorted = TRUE, !.l = ByAge(c, c.l)]
  OBVIOUS
<1>2. Shape(d) /\ d.ent = c.ent /\ d.size = c.size /\ d.num = c.num /\ d.l = ByAge(c, c.l)
  BY <1>1 DEF Good, Shape, CacheFields
<1>3. d.l \in Seq(Element) /\ Members(d.l) = Members(c.l) /\ Once(d.l)
  BY <1>2, ByAgeOf DEF Good, ListOK
<1>4. Good(d)
  BY <1>2, <1>3 DEF Good, ListOK
<1>5. Sorted(c) \in {c, d}
  BY <1>1 DEF Sorted
<1> QED BY <1>2, <1>3, <1>4, <1>5

(* purge_cache                                                                          *)
LEMMA FirstWalkGood ==
  ASSUME NEW c, Good(c), NEW limit, NEW lazy
  PROVE  Good(FirstWalk(c, limit, lazy))
<1>1. Len(c.l) \in Nat /\ \A i \in 1..Len(c.l) : c.l[i] \in Element
  BY DEF Good, ListOK
<1>2. PICK w : /\ FirstWalk(c, limit, lazy) = w[Len(c.l)]
               /\ w[0] = c
               /\ \A i \in 1..Len(c.l) :
                    w[i] = IF lazy /\ w[i - 1].size <= limit THEN w[i - 1] ELSE PurgeExpired(w[i - 1], c.l[i])
  BY <1>1, FirstWalkWalk
<1> DEFINE G == {i \in 0..Len(c.l) : Good(w[i])}
<1>3. 0 \in G
  BY <1>1, <1>2
<1>4. ASSUME NEW i \in 0..Len(c.l), i \in G, i < Len(c.l) PROVE i + 1 \in G
  <2>1. i + 1 \in 1..Len(c.l) /\ (i + 1) - 1 = i
    BY <1>1, <1>4
  <2>2. Good(w[i + 1])
    BY <1>1, <1>2, <1>4, <2>1, PurgeStepsGood
  <2> QED BY <2>1, <2>2
<1> HIDE DEF G
<1>5. \A i \in 0..Len(c.l) : i \in G
  BY <1>1, <1>3, <1>4, UpTo
<1> QED BY <1>1, <1>2, <1>5 DEF G

LEMMA SecondWalkGood ==
  ASSUME NEW c, Good(c), NEW limit
  PROVE  Good(SecondWalk(c, limit))
<1>1. Len(c.l) \in Nat /\ \A i \in 1..Len(c.l) : c.l[i] \in Element
  BY DEF Good, ListOK
<1>2. PICK w : /\ SecondWalk(c, limit) = w[Len(c.l)]
               /\ w[0] = c
               /\ \A i \in 1..Len(c.l) :
                    w[i] = IF w[i - 1].size <= limit THEN w[i - 1] ELSE PurgeOldest(w[i - 1], c.l[i])
  BY <1>1, SecondWalkWalk
<1> DEFINE G == {i \in 0..Len(c.l) : Good(w[i])}
<1>3. 0 \in G
  BY <1>1, <1>2
<1>4. ASSUME NEW i \in 0..Len(c.l), i \in G, i < Len(c.l) PROVE i + 1 \in G
  <2>1. i + 1 \in 1..Len(c.l) /\ (i + 1) - 1 = i
    BY <1>1, <1>4
  <2>2. Good(w[i + 1])
    BY <1>1, <1>2, <1>4, <2>1, PurgeStepsGood
  <2> QED BY <2>1, <2>2
<1> HIDE DEF G
<1>5. \A i \in 0..Len(c.l) : i \in G
  BY <1>1, <1>3, <1>4, UpTo
<1> QED BY <1>1, <1>2, <1>5 DEF G

LEMMA PurgeCacheGood ==
  ASSUME NEW c, Good(c), NEW limit, NEW lazy
  PROVE  Good(PurgeCache(c, limit, lazy))
<1>1. PICK d : d = FirstWalk(c, limit, lazy)
  OBVIOUS
<1>2. Good(d)
  BY <1>1, FirstWalkGood
<1>3. Good(SecondWalk(Sorted(d), limit))
  BY <1>2, SortedGood, SecondWalkGood
<1> QED BY <1>1, <1>2, <1>3 DEF PurgeCache

-----------------------------------------------------------------------------
(* What is added *)

(* d is c with <<n, k>> in the list, unless it is local.                                *)
Inserted(c, d, n, k) ==
  /\ Shape(d) /\ d.ent = c.ent /\ d.size = c.size /\ d.num = c.num /\ d.l \in Seq(Element)
  /\ Members(d.l) = Members(c.l) \cup (IF LocalEntry(c, <<n, k>>) THEN {} ELSE {<<n, k>>})
  /\ Once(c.l) /\ <<n, k>> \notin Members(c.l) => Once(d.l)

(* insert_rrl                                                                           *)
LEMMA InsertRRLInserts ==
  ASSUME NEW c, Shape(c), c.l \in Seq(Element), NEW n \in Name, NEW k \in Key, NEW r, r = InsertRRL(c, <<n, k>>)
  PROVE  Inserted(c, r, n, k)
<1>1. PICK le \in Element : le = <<n, k>>
  BY DEF Element
<1>2. PICK l : l = IF c.sorted THEN InsertByAge(c, c.l, le) ELSE Append(c.l, le)
  OBVIOUS
<1>3. l \in Seq(Element) /\ Members(l) = Members(c.l) \cup {le} /\ (Once(c.l) /\ le \notin Members(c.l) => Once(l))
  <2>1. CASE c.sorted
    <3>1. l = InsertByAge(c, c.l, le)
      BY <1>2, <2>1
    <3> QED BY <3>1, InsertByAgeOf
  <2>2. CASE ~c.sorted
    <3>1. l = Append(c.l, le)
      BY <1>2, <2>2
    <3> QED BY <3>1, AppendOf
  <2> QED BY <2>1, <2>2
<1>4. PICK d : d = [c EXCEPT !.l = l]
  OBVIOUS
<1>5. Shape(d) /\ d.ent = c.ent /\ d.size = c.size /\ d.num = c.num /\ d.l = l
  BY <1>4 DEF Shape, CacheFields
<1>6. CASE LocalEntry(c, le)
  <2>1. r = c
    BY <1>1, <1>6 DEF InsertRRL
  <2>2. Members(c.l) = Members(c.l) \cup (IF LocalEntry(c, <<n, k>>) THEN {} ELSE {<<n, k>>})
    BY <1>1, <1>6
  <2> QED BY <2>1, <2>2 DEF Inserted
<1>7. CASE ~LocalEntry(c, le)
  <2>1. r = d
    BY <1>1, <1>2, <1>4, <1>7 DEF InsertRRL
  <2>2. Members(l) = Members(c.l) \cup (IF LocalEntry(c, <<n, k>>) THEN {} ELSE {<<n, k>>})
    BY <1>1, <1>3, <1>7
  <2>3. Once(c.l) /\ <<n, k>> \notin Members(c.l) => Once(l)
    BY <1>1, <1>3
  <2> QED BY <1>3, <1>5, <2>1, <2>2, <2>3 DEF Inserted
<1> QED BY <1>6, <1>7

(* The elements that insert_rrl makes of the keys of S.                                 *)
Unlocal(c, n, S) == {<<n, k>> : k \in {x \in S : ~LocalEntry(c, <<n, x>>)}}

(* The sets of a new entry are listed, each once.                                       *)
LEMMA ListAllOf ==
  ASSUME NEW c, Shape(c), c.l \in Seq(Element), Once(c.l), NEW n \in Name, NEW keys \in Seq(Key), Once(keys),
         \A k \in Key : <<n, k>> \notin Members(c.l)
  PROVE  LET d == ListAll(c, n, keys)
         IN  /\ Shape(d) /\ d.ent = c.ent /\ d.size = c.size /\ d.num = c.num
             /\ d.l \in Seq(Element) /\ Once(d.l)
             /\ Members(d.l) = Members(c.l) \cup Unlocal(c, n, Members(keys))
<1>1. Len(keys) \in Nat /\ \A i \in 1..Len(keys) : keys[i] \in Key
  OBVIOUS
<1>2. PICK w : /\ ListAll(c, n, keys) = w[Len(keys)]
               /\ w[0] = c
               /\ \A i \in 1..Len(keys) : w[i] = InsertRRL(w[i - 1], <<n, keys[i]>>)
  BY <1>1, ListAllWalk
<1> DEFINE First(i) == {keys[j] : j \in 1..i}
           OK(i) == /\ Shape(w[i]) /\ w[i].ent = c.ent /\ w[i].size = c.size /\ w[i].num = c.num
                    /\ w[i].l \in Seq(Element) /\ Once(w[i].l)
                    /\ Members(w[i].l) = Members(c.l) \cup Unlocal(c, n, First(i))
           G == {i \in 0..Len(keys) : OK(i)}
<1> HIDE DEF OK
<1>3. 0 \in G
  <2>1. First(0) = {}
    OBVIOUS
  <2>2. OK(0)
    BY <1>2, <2>1 DEF OK, Unlocal
  <2> QED BY <1>1, <2>2
<1>4. ASSUME NEW i \in 0..Len(keys), i \in G, i < Len(keys) PROVE i + 1 \in G
  <2>0. OK(i)
    BY <1>4
  <2>1. i + 1 \in 1..Len(keys) /\ keys[i + 1] \in Key /\ w[i + 1] = InsertRRL(w[i], <<n, keys[i + 1]>>)
    <3>1. i + 1 \in 1..Len(keys) /\ (i + 1) - 1 = i
      BY <1>1, <1>4
    <3> QED BY <1>1, <1>2, <3>1
  <2>2. First(i + 1) = First(i) \cup {keys[i + 1]}
    BY <1>1, <1>4
  <2>3. keys[i + 1] \notin First(i)
    BY <1>1, <1>4, <2>1 DEF Once
  <2> HIDE DEF First
  <2>4. PICK k \in Key : k = keys[i + 1]
    BY <2>1
  <2>5. /\ Shape(w[i]) /\ w[i].ent = c.ent /\ w[i].size = c.size /\ w[i].num = c.num /\ w[i].l \in Seq(Element) /\ Once(w[i].l)
        /\ Members(w[i].l) = Members(c.l) \cup Unlocal(c, n, First(i))
    BY <2>0 DEF OK
  <2>6. /\ Shape(w[i + 1]) /\ w[i + 1].ent = w[i].ent /\ w[i + 1].size = w[i].size /\ w[i + 1].num = w[i].num
        /\ w[i + 1].l \in Seq(Element)
        /\ Members(w[i + 1].l) = Members(w[i].l) \cup (IF LocalEntry(w[i], <<n, k>>) THEN {} ELSE {<<n, k>>})
        /\ Once(w[i].l) /\ <<n, k>> \notin Members(w[i].l) => Once(w[i + 1].l)
    <3>1. PICK x : x = w[i]
      OBVIOUS
    <3>2. PICK d : d = InsertRRL(x, <<n, k>>)
      OBVIOUS
    <3>3. Shape(x) /\ x.l \in Seq(Element)
      BY <2>5, <3>1
    <3>4. /\ Shape(d) /\ d.ent = x.ent /\ d.size = x.size /\ d.num = x.num /\ d.l \in Seq(Element)
          /\ Members(d.l) = Members(x.l) \cup (IF LocalEntry(x, <<n, k>>) THEN {} ELSE {<<n, k>>})
          /\ Once(x.l) /\ <<n, k>> \notin Members(x.l) => Once(d.l)
      <4>1. Inserted(x, d, n, k)
        BY <3>2, <3>3, InsertRRLInserts
      <4> QED BY <4>1 DEF Inserted
    <3>5. w[i + 1] = d
      BY <2>1, <2>4, <3>1, <3>2
    <3> QED BY <3>1, <3>4, <3>5
  <2>7. LocalEntry(w[i], <<n, k>>) <=> LocalEntry(c, <<n, k>>)
    BY <2>5 DEF LocalEntry
  <2>8. <<n, k>> \notin Members(w[i].l)
    BY <2>3, <2>4, <2>5 DEF Unlocal
  <2>9. Unlocal(c, n, First(i + 1)) = Unlocal(c, n, First(i)) \cup (IF LocalEntry(c, <<n, k>>) THEN {} ELSE {<<n, k>>})
    <3>1. PICK S : S = First(i)
      OBVIOUS
    <3>2. Unlocal(c, n, S \cup {k}) = Unlocal(c, n, S) \cup (IF LocalEntry(c, <<n, k>>) THEN {} ELSE {<<n, k>>})
      <4>1. CASE LocalEntry(c, <<n, k>>)
        <5>1. {x \in S \cup {k} : ~LocalEntry(c, <<n, x>>)} = {x \in S : ~LocalEntry(c, <<n, x>>)}
          BY <4>1
        <5> QED BY <4>1, <5>1 DEF Unlocal
      <4>2. CASE ~LocalEntry(c, <<n, k>>)
        <5>1. {x \in S \cup {k} : ~LocalEntry(c, <<n, x>>)} = {x \in S : ~LocalEntry(c, <<n, x>>)} \cup {k}
          BY <4>2
        <5> QED BY <4>2, <5>1 DEF Unlocal
      <4> QED BY <4>1, <4>2
    <3> QED BY <2>2, <2>4, <3>1, <3>2
  <2>10. OK(i + 1)
    BY <2>5, <2>6, <2>7, <2>8, <2>9 DEF OK
  <2> QED BY <2>1, <2>10
<1>5. OK(Len(keys))
  <2> HIDE DEF G
  <2>1. \A i \in 0..Len(keys) : i \in G
    BY <1>1, <1>3, <1>4, UpTo
  <2>2. Len(keys) \in G
    BY <1>1, <2>1
  <2> QED BY <2>2 DEF G
<1>6. First(Len(keys)) = Members(keys)
  BY DEF Members
<1> QED BY <1>2, <1>5, <1>6 DEF OK

(* adjust_ttl                                                                           *)
LEMMA AdjustedOf ==
  ASSUME NEW rs, DOMAIN rs = SetFields
  PROVE  /\ DOMAIN Adjusted(rs) = SetFields /\ Adjusted(rs).neg = rs.neg /\ Adjusted(rs).local = rs.local
         /\ Adjusted(rs).n = rs.n
<1>1. PICK x : x = IF rs.nocache THEN 0 ELSE Clamp(IF rs.neg THEN Min({MinTtl, NegTtl}) ELSE MinTtl, rs.ttl)
  OBVIOUS
<1>2. Adjusted(rs) = [rs EXCEPT !.ttl = x, !.nocache = FALSE]
  BY <1>1 DEF Adjusted
<1> QED BY <1>2 DEF SetFields

(* The types in use, in the order of their index.                                       *)
LEMMA TypesIn ==
  ASSUME NEW S \in SUBSET Type
  PROVE  /\ Without(Types, Type \ S) \in Seq(Key)
         /\ Once(Without(Types, Type \ S))
         /\ Members(Without(Types, Type \ S)) = S
<1>1. Types \in Seq(Type) /\ Once(Types) /\ Members(Types) = Type
  BY TypesOnce DEF Once, Members, Type, Range
<1>2. Types \in Seq(Key)
  BY <1>1 DEF Key
<1>3. /\ Without(Types, Type \ S) \in Seq(Key)
      /\ Members(Without(Types, Type \ S)) = Members(Types) \ (Type \ S)
      /\ Once(Types) => Once(Without(Types, Type \ S))
  <2>1. PICK T : T = Type \ S
    BY Zenon
  <2> QED BY <1>2, <2>1, WithoutOf
<1> QED BY <1>1, <1>3

LEMMA NewGood ==
  ASSUME NEW c, Good(c), NEW n \in Name, n \notin DOMAIN c.ent, NEW e, IsCent(e),
         NEW d, Shape(d), d.l = c.l, d.ent = [m \in DOMAIN c.ent \cup {n} |-> IF m = n THEN e ELSE c.ent[m]],
         NEW keys \in Seq(Key), Once(keys), Members(keys) = IF e.neg THEN {Whole} ELSE DOMAIN e.rrs
  PROVE  LET r == ListAll(d, n, keys)
         IN  Good(r) /\ r.ent = d.ent /\ r.size = d.size /\ r.num = d.num
<1>1. ASSUME NEW k \in Key PROVE <<n, k>> \notin Members(d.l)
  <2>1. ~Listed(c.ent, n, k)
    BY DEF Listed
  <2> QED BY <2>1 DEF Good, ListOK
<1>2. PICK r : r = ListAll(d, n, keys)
  OBVIOUS
<1>3. /\ Shape(r) /\ r.ent = d.ent /\ r.size = d.size /\ r.num = d.num /\ r.l \in Seq(Element) /\ Once(r.l)
      /\ Members(r.l) = Members(c.l) \cup Unlocal(d, n, Members(keys))
  <2>1. d.l \in Seq(Element) /\ Once(d.l)
    BY DEF Good, ListOK
  <2>2. /\ Shape(r) /\ r.ent = d.ent /\ r.size = d.size /\ r.num = d.num /\ r.l \in Seq(Element) /\ Once(r.l)
        /\ Members(r.l) = Members(d.l) \cup Unlocal(d, n, Members(keys))
    BY <1>1, <1>2, <2>1, ListAllOf
  <2> QED BY <2>2
<1>4. /\ DOMAIN d.ent = DOMAIN c.ent \cup {n} /\ d.ent[n] = e
      /\ \A m \in DOMAIN c.ent : d.ent[m] = c.ent[m]
  OBVIOUS
<1>5. Entries(r.ent)
  BY <1>3, <1>4 DEF Good, Entries
<1>6. ASSUME NEW m \in Name, NEW k \in Key PROVE <<m, k>> \in Members(r.l) <=> Listed(r.ent, m, k)
  <2>1. <<m, k>> \in Members(c.l) <=> Listed(c.ent, m, k)
    BY DEF Good, ListOK
  <2>2. CASE m # n
    <3>1. Listed(r.ent, m, k) <=> Listed(c.ent, m, k)
      BY <1>3, <1>4, <2>2 DEF Listed
    <3>2. <<m, k>> \in Members(r.l) <=> <<m, k>> \in Members(c.l)
      BY <1>3, <2>2 DEF Unlocal
    <3> QED BY <2>1, <3>1, <3>2
  <2>3. CASE m = n
    <3>1. <<n, k>> \in Members(r.l) <=> k \in Members(keys) /\ ~LocalEntry(d, <<n, k>>)
      <4>1. <<n, k>> \notin Members(c.l)
        BY <1>1
      <4> QED BY <1>3, <4>1 DEF Unlocal
    <3>2. LocalEntry(d, <<n, k>>) <=> e.local \/ (k # Whole /\ e.rrs[k].local)
      BY <1>4 DEF LocalEntry
    <3>3. Listed(r.ent, n, k) <=> ~e.local /\ IF e.neg THEN k = Whole ELSE k \in DOMAIN e.rrs /\ ~e.rrs[k].local
      BY <1>3, <1>4 DEF Listed
    <3>4. Whole \notin DOMAIN e.rrs
      BY WholeApart DEF IsCent
    <3> QED BY <2>3, <3>1, <3>2, <3>3, <3>4
  <2> QED BY <2>2, <2>3
<1> QED BY <1>2, <1>3, <1>5, <1>6 DEF Good, ListOK

(* add_cache, of a name that has no entry                                               *)
LEMMA AddNewGood ==
  ASSUME NEW c, Good(c), NEW n \in Name, n \notin DOMAIN c.ent, NEW cent, IsCent(cent)
  PROVE  Good(AddNew(c, n, cent))
<1> DEFINE e == [cent EXCEPT !.ttl = DomTtl(cent), !.nocache = @ /\ ~cent.neg, !.rrs = [t \in DOMAIN @ |-> Adjusted(@[t])]]
           d == [c EXCEPT !.ent = [m \in Names(c) \cup {n} |-> IF m = n THEN e ELSE c.ent[m]],
                          !.num = @ + 1, !.size = @ + e.cs]
           keys == IF e.neg THEN <<Whole>> ELSE Without(Types, Type \ DOMAIN e.rrs)
<1>1. AddNew(c, n, cent) = IF cent.nrr = 0 /\ ~cent.neg THEN c ELSE ListAll(d, n, keys)
  BY DEF AddNew
<1>2. PICK R : R = [t \in DOMAIN cent.rrs |-> Adjusted(cent.rrs[t])]
  OBVIOUS
<1>3. /\ DOMAIN e = EntryFields /\ e.neg = cent.neg /\ e.local = cent.local /\ e.ext = cent.ext /\ e.rrs = R
  BY <1>2 DEF IsCent, EntryFields
<1> HIDE DEF e
<1>4. IsCent(e)
  <2>1. DOMAIN R = DOMAIN cent.rrs
    BY <1>2
  <2>2. ASSUME NEW t \in DOMAIN R
        PROVE  DOMAIN R[t] = SetFields /\ R[t].neg = cent.rrs[t].neg /\ R[t].local = cent.rrs[t].local
    <3>1. DOMAIN cent.rrs[t] = SetFields /\ R[t] = Adjusted(cent.rrs[t])
      BY <1>2 DEF IsCent
    <3> QED BY <3>1, AdjustedOf
  <2> QED BY <1>3, <2>1, <2>2 DEF IsCent, Coherent
<1>5. Shape(d) /\ d.l = c.l /\ d.ent = [m \in DOMAIN c.ent \cup {n} |-> IF m = n THEN e ELSE c.ent[m]]
  BY DEF Good, Shape, CacheFields, Names
<1> HIDE DEF d
<1>6. keys \in Seq(Key) /\ Once(keys) /\ Members(keys) = IF e.neg THEN {Whole} ELSE DOMAIN e.rrs
  <2>1. CASE e.neg
    <3>1. keys = <<Whole>> /\ Whole \in Key
      BY <2>1 DEF Key
    <3> HIDE DEF keys
    <3> QED BY <2>1, <3>1 DEF Once, Members
  <2>2. CASE ~e.neg
    <3>1. PICK S \in SUBSET Type : S = DOMAIN e.rrs
      BY <1>4 DEF IsCent
    <3>2. keys = Without(Types, Type \ S)
      BY <2>2, <3>1
    <3> HIDE DEF keys
    <3> QED BY <2>2, <3>1, <3>2, TypesIn
  <2> QED BY <2>1, <2>2
<1> HIDE DEF keys
<1>7. Good(ListAll(d, n, keys))
  BY <1>4, <1>5, <1>6, NewGood
<1> QED BY <1>1, <1>7

(* A set of records as add_cache and read_disk_cache get it.                            *)
IsSet(rs) == DOMAIN rs = SetFields /\ rs.neg \in BOOLEAN /\ rs.local \in BOOLEAN

(* An entry with one more set: nothing that counts excludes it.                         *)
LEMMA OneMore ==
  ASSUME NEW e, IsCent(e), NEW t \in Type \ DOMAIN e.rrs, NEW rs, IsSet(rs),
         rs.neg \/ \A u \in DOMAIN e.rrs : Excludes(t, u) => e.rrs[u].neg,
         NEW f, DOMAIN f = EntryFields, ~f.neg, f.neg \in BOOLEAN, f.local = e.local, f.ext \in BOOLEAN,
         DOMAIN f.rrs = DOMAIN e.rrs \cup {t}, f.rrs[t] = rs, \A u \in DOMAIN e.rrs : f.rrs[u] = e.rrs[u]
  PROVE  IsCent(f)
<1>1. /\ DOMAIN f.rrs = DOMAIN e.rrs \cup {t} /\ f.rrs[t] = rs
      /\ \A u \in DOMAIN e.rrs : u # t /\ f.rrs[u] = e.rrs[u]
  OBVIOUS
<1>2. \A u, v : Excludes(u, v) => Excludes(v, u)
  BY DEF Excludes
<1>3. ~Excludes(t, t)
  BY ClassesApart DEF Excludes
<1>4. Coherent(f.rrs)
  <2>1. ASSUME NEW u \in DOMAIN f.rrs, NEW v \in DOMAIN f.rrs, Excludes(u, v)
        PROVE  f.rrs[u].neg \/ f.rrs[v].neg
    <3>1. CASE u \in DOMAIN e.rrs /\ v \in DOMAIN e.rrs
      BY <1>1, <2>1, <3>1 DEF IsCent, Coherent
    <3>2. CASE u = t /\ v \in DOMAIN e.rrs
      BY <1>1, <2>1, <3>2
    <3>3. CASE v = t /\ u \in DOMAIN e.rrs
      BY <1>1, <1>2, <2>1, <3>3
    <3>4. CASE u = t /\ v = t
      BY <1>3, <2>1, <3>4
    <3> QED BY <1>1, <3>1, <3>2, <3>3, <3>4
  <2> QED BY <2>1 DEF Coherent
<1>5. \A u \in DOMAIN f.rrs : DOMAIN f.rrs[u] = SetFields /\ f.rrs[u].neg \in BOOLEAN /\ f.rrs[u].local \in BOOLEAN
  BY <1>1 DEF IsCent, IsSet
<1> QED BY <1>1, <1>4, <1>5 DEF IsCent

(* add_cent_rrset_by_index and what follows it: the set is in the entry and in the list,*)
(* and the element of a domain that was negative as a whole has left it.                *)
LEMMA PutRRsetGood ==
  ASSUME NEW c, Good(c), NEW n \in DOMAIN c.ent, NEW t \in Type \ DOMAIN c.ent[n].rrs, NEW new, IsSet(new),
         new.neg \/ \A u \in DOMAIN c.ent[n].rrs : Excludes(t, u) => c.ent[n].rrs[u].neg
  PROVE  Good(PutRRset(c, n, t, new)) /\ DOMAIN PutRRset(c, n, t, new).ent = DOMAIN c.ent
<1> DEFINE e == c.ent[n]
           grown == t \in ExtType /\ ~e.ext
           f == [e EXCEPT !.neg = FALSE, !.ext = @ \/ t \in ExtType,
                          !.rrs = [u \in DOMAIN @ \cup {t} |-> IF u = t THEN Adjusted(new) ELSE @[u]],
                          !.cs = @ + SizeOf(new) + (IF grown THEN 1 ELSE 0), !.nrr = @ + 1]
           d == [c EXCEPT !.l = Without(@, {<<n, Whole>>}), !.ent[n] = f]
<1>1. PutRRset(c, n, t, new) = InsertRRL(d, <<n, t>>)
  BY DEF PutRRset
<1>2. PICK rs : rs = Adjusted(new)
  OBVIOUS
<1>3. IsSet(rs) /\ rs.neg = new.neg /\ rs.local = new.local
  BY <1>2, AdjustedOf DEF IsSet
<1>4. IsCent(e)
  BY DEF Good, Entries
<1>5. /\ DOMAIN f = EntryFields /\ f.neg = FALSE /\ f.local = e.local /\ f.ext \in BOOLEAN
      /\ f.rrs = [u \in DOMAIN e.rrs \cup {t} |-> IF u = t THEN rs ELSE e.rrs[u]]
  BY <1>2, <1>4 DEF IsCent, EntryFields
<1> HIDE DEF f
<1>6. IsCent(f)
  <2>1. /\ DOMAIN f.rrs = DOMAIN e.rrs \cup {t} /\ f.rrs[t] = rs
        /\ \A u \in DOMAIN e.rrs : f.rrs[u] = e.rrs[u]
    BY <1>5
  <2>2. rs.neg \/ \A u \in DOMAIN e.rrs : Excludes(t, u) => e.rrs[u].neg
    BY <1>3
  <2> HIDE DEF e
  <2>3. t \in Type \ DOMAIN e.rrs
    BY DEF e
  <2> QED BY <1>3, <1>4, <1>5, <2>1, <2>2, <2>3, OneMore
<1>7. /\ Shape(d) /\ DOMAIN d.ent = DOMAIN c.ent /\ d.ent[n] = f
      /\ \A m \in DOMAIN c.ent : m # n => d.ent[m] = c.ent[m]
      /\ d.l = Without(c.l, {<<n, Whole>>})
  BY DEF Good, Shape, CacheFields
<1> HIDE DEF d, e
<1>8. d.l \in Seq(Element) /\ Once(d.l) /\ Members(d.l) = Members(c.l) \ {<<n, Whole>>}
  BY <1>7, WithoutOf DEF Good, ListOK
<1>9. n \in Name /\ t \in Key
  BY DEF Good, Entries, Key
<1>10. PICK r : r = InsertRRL(d, <<n, t>>)
  OBVIOUS
<1>11. <<n, t>> \notin Members(d.l)
  <2>1. ~Listed(c.ent, n, t)
    BY WholeApart DEF Listed
  <2> QED BY <1>8, <1>9, <2>1 DEF Good, ListOK
<1>12. /\ Shape(r) /\ r.ent = d.ent /\ r.l \in Seq(Element) /\ Once(r.l)
       /\ Members(r.l) = Members(d.l) \cup (IF LocalEntry(d, <<n, t>>) THEN {} ELSE {<<n, t>>})
  <2>1. PICK x : x = d
    OBVIOUS
  <2>2. /\ Shape(r) /\ r.ent = x.ent /\ r.l \in Seq(Element)
        /\ Members(r.l) = Members(x.l) \cup (IF LocalEntry(x, <<n, t>>) THEN {} ELSE {<<n, t>>})
        /\ Once(x.l) /\ <<n, t>> \notin Members(x.l) => Once(r.l)
    <3>1. Shape(x) /\ x.l \in Seq(Element) /\ r = InsertRRL(x, <<n, t>>)
      BY <1>7, <1>8, <1>10, <2>1
    <3>2. Inserted(x, r, n, t)
      BY <1>9, <3>1, InsertRRLInserts
    <3> QED BY <1>7, <2>1, <3>2 DEF Inserted
  <2> QED BY <1>8, <1>11, <2>1, <2>2
<1>13. Entries(r.ent)
  BY <1>6, <1>7, <1>12 DEF Good, Entries
<1>14. ASSUME NEW m \in Name, NEW k \in Key PROVE <<m, k>> \in Members(r.l) <=> Listed(r.ent, m, k)
  <2>1. <<m, k>> \in Members(c.l) <=> Listed(c.ent, m, k)
    BY DEF Good, ListOK
  <2>2. CASE m # n
    <3>1. Listed(r.ent, m, k) <=> Listed(c.ent, m, k)
      BY <1>7, <1>12, <2>2 DEF Listed
    <3> QED BY <1>8, <1>12, <2>1, <2>2, <3>1
  <2>3. CASE m = n
    <3>1. Listed(c.ent, n, k) <=> ~e.local /\ IF e.neg THEN k = Whole ELSE k \in DOMAIN e.rrs /\ ~e.rrs[k].local
      BY DEF Listed, e
    <3>2. Listed(r.ent, n, k) <=> ~f.local /\ k \in DOMAIN f.rrs /\ ~f.rrs[k].local
      BY <1>5, <1>7, <1>12 DEF Listed
    <3>3. LocalEntry(d, <<n, t>>) <=> f.local \/ f.rrs[t].local
      BY <1>7, WholeApart DEF LocalEntry
    <3>4. <<n, k>> \in Members(r.l) <=> (Listed(c.ent, n, k) /\ k # Whole) \/ (k = t /\ ~LocalEntry(d, <<n, t>>))
      BY <1>8, <1>12, <2>1, <2>3
    <3>5. /\ DOMAIN f.rrs = DOMAIN e.rrs \cup {t} /\ \A u \in DOMAIN e.rrs : u # t /\ f.rrs[u] = e.rrs[u]
      BY <1>5 DEF e
    <3>6. (e.neg => DOMAIN e.rrs = {}) /\ Whole \notin DOMAIN f.rrs /\ f.local = e.local
      BY <1>4, <1>5, <1>6, WholeApart DEF IsCent
    <3>7. CASE k = t
      <4>1. k # Whole /\ k \notin DOMAIN e.rrs
        BY <3>7, WholeApart DEF e
      <4> QED BY <2>3, <3>1, <3>2, <3>3, <3>4, <3>5, <3>6, <3>7, <4>1
    <3>8. CASE k # t
      BY <2>3, <3>1, <3>2, <3>4, <3>5, <3>6, <3>8
    <3> QED BY <3>7, <3>8
  <2> QED BY <2>2, <2>3
<1> QED BY <1>1, <1>7, <1>10, <1>12, <1>13, <1>14 DEF Good, ListOK

(* del_cent_rrset_by_index leaves the entry, without the sets.                          *)
LEMMA DelRRsetsOf ==
  ASSUME NEW c, Good(c), NEW n \in DOMAIN c.ent, NEW S \in SUBSET Type
  PROVE  LET d == DelRRsets(c, n, S)
         IN  /\ Good(d) /\ DOMAIN d.ent = DOMAIN c.ent
             /\ DOMAIN d.ent[n].rrs = DOMAIN c.ent[n].rrs \ S
             /\ \A u \in DOMAIN d.ent[n].rrs : d.ent[n].rrs[u].neg = c.ent[n].rrs[u].neg
<1>1. PICK d : d = DelRRsets(c, n, S)
  OBVIOUS
<1>2. Good(d) /\ Lesser(c, d, n, S)
  BY <1>1, DelRRsetsLesser
<1>3. Less(c.ent[n], d.ent[n], S)
  BY <1>2 DEF Lesser
<1> QED BY <1>1, <1>2, <1>3 DEF Lesser, Less

(* One set of an answer is merged into the entry.                                       *)
LEMMA MergeRRsetGood ==
  ASSUME NEW c, Good(c), NEW n \in DOMAIN c.ent, NEW t \in Type, NEW new, IsSet(new)
  PROVE  Good(MergeRRset(c, n, t, new)) /\ DOMAIN MergeRRset(c, n, t, new).ent = DOMAIN c.ent
<1>1. PICK d : d = IF t \in DOMAIN c.ent[n].rrs THEN DelRRsets(c, n, {t}) ELSE c
  OBVIOUS
<1>2. Good(d) /\ DOMAIN d.ent = DOMAIN c.ent /\ t \notin DOMAIN d.ent[n].rrs
  <2>1. CASE t \in DOMAIN c.ent[n].rrs
    <3>1. PICK T \in SUBSET Type : T = {t}
      OBVIOUS
    <3>2. d = DelRRsets(c, n, T)
      BY <1>1, <2>1, <3>1
    <3>3. /\ Good(d) /\ DOMAIN d.ent = DOMAIN c.ent
          /\ DOMAIN d.ent[n].rrs = DOMAIN c.ent[n].rrs \ T
      BY <3>2, DelRRsetsOf
    <3> QED BY <3>1, <3>3
  <2>2. CASE t \notin DOMAIN c.ent[n].rrs
    BY <1>1, <2>2
  <2> QED BY <2>1, <2>2
<1>3. PICK S : S = Conflicting(d.ent[n], t)
  OBVIOUS
<1>4. IsCent(d.ent[n])
  BY <1>2 DEF Good, Entries
<1>5. S \in SUBSET Type
  BY <1>3, <1>4 DEF Conflicting, IsCent
<1>6. new.neg => Good(PutRRset(d, n, t, new)) /\ DOMAIN PutRRset(d, n, t, new).ent = DOMAIN c.ent
  BY <1>2, PutRRsetGood
<1>7. PICK x : x = DelRRsets(d, n, S)
  OBVIOUS
<1>8. /\ Good(x) /\ DOMAIN x.ent = DOMAIN c.ent /\ DOMAIN x.ent[n].rrs = DOMAIN d.ent[n].rrs \ S
      /\ \A u \in DOMAIN x.ent[n].rrs : x.ent[n].rrs[u].neg = d.ent[n].rrs[u].neg
  BY <1>2, <1>5, <1>7, DelRRsetsOf
<1>9. \A u \in DOMAIN x.ent[n].rrs : Excludes(t, u) => x.ent[n].rrs[u].neg
  BY <1>3, <1>8 DEF Conflicting
<1>10. Good(PutRRset(x, n, t, new)) /\ DOMAIN PutRRset(x, n, t, new).ent = DOMAIN c.ent
  BY <1>2, <1>8, <1>9, PutRRsetGood
<1>11. \/ MergeRRset(c, n, t, new) \in {c, d, PutRRset(x, n, t, new)}
       \/ new.neg /\ MergeRRset(c, n, t, new) = PutRRset(d, n, t, new)
  BY <1>1, <1>3, <1>7 DEF MergeRRset
<1> QED BY <1>2, <1>6, <1>10, <1>11

LEMMA MergeAllGood ==
  ASSUME NEW c, Good(c), NEW n \in DOMAIN c.ent, NEW cent, IsCent(cent)
  PROVE  Good(MergeAll(c, n, cent)) /\ DOMAIN MergeAll(c, n, cent).ent = DOMAIN c.ent
<1>1. Len(Types) \in Nat /\ \A i \in 1..Len(Types) : Types[i] \in Type
  BY TypesOnce
<1>2. PICK w : /\ MergeAll(c, n, cent) = w[Len(Types)]
               /\ w[0] = c
               /\ \A i \in 1..Len(Types) :
                    w[i] = IF Types[i] \in DOMAIN cent.rrs
                           THEN MergeRRset(w[i - 1], n, Types[i], cent.rrs[Types[i]]) ELSE w[i - 1]
  BY <1>1, MergeAllWalk
<1> DEFINE OK(i) == Good(w[i]) /\ DOMAIN w[i].ent = DOMAIN c.ent
           G == {i \in 0..Len(Types) : OK(i)}
<1>3. 0 \in G
  BY <1>1, <1>2
<1>4. ASSUME NEW i \in 0..Len(Types), i \in G, i < Len(Types) PROVE i + 1 \in G
  <2>1. i + 1 \in 1..Len(Types) /\ (i + 1) - 1 = i
    BY <1>1, <1>4
  <2>2. PICK t \in Type : t = Types[i + 1]
    BY <1>1, <2>1
  <2>3. w[i + 1] = IF t \in DOMAIN cent.rrs THEN MergeRRset(w[i], n, t, cent.rrs[t]) ELSE w[i]
    BY <1>2, <2>1, <2>2
  <2>4. OK(i)
    BY <1>4
  <2>5. t \in DOMAIN cent.rrs => IsSet(cent.rrs[t])
    BY DEF IsCent, IsSet
  <2>6. OK(i + 1)
    <3>1. PICK x : x = w[i]
      OBVIOUS
    <3>2. t \in DOMAIN cent.rrs => Good(MergeRRset(x, n, t, cent.rrs[t])) /\ DOMAIN MergeRRset(x, n, t, cent.rrs[t]).ent = DOMAIN x.ent
      BY <2>4, <2>5, <3>1, MergeRRsetGood
    <3> QED BY <2>3, <2>4, <3>1, <3>2
  <2> QED BY <2>1, <2>6
<1> HIDE DEF G
<1>5. \A i \in 0..Len(Types) : i \in G
  BY <1>1, <1>3, <1>4, UpTo
<1> QED BY <1>1, <1>2, <1>5 DEF G

(* add_cache, of a name that has an entry                                               *)
LEMMA MergeGood ==
  ASSUME NEW c, Good(c), NEW n \in DOMAIN c.ent, NEW cent, IsCent(cent)
  PROVE  Good(Merge(c, n, cent))
<1> DEFINE p == PurgeCent(c, n, FALSE)
           q == [p EXCEPT !.size = @ - p.ent[n].cs]
           d == MergeAll(q, n, cent)
           r == [d EXCEPT !.size = @ + d.ent[n].cs, !.ent[n].wild = @ \/ cent.wild, !.ent[n].ns = Nearer(@, cent.ns)]
<1>1. Merge(c, n, cent) = r
  BY DEF Merge
<1>2. Good(p) /\ DOMAIN p.ent = DOMAIN c.ent
  BY PurgeCentGood
<1> HIDE DEF p
<1>3. Good(q) /\ q.ent = p.ent
  <2>1. Shape(q) /\ q.ent = p.ent /\ q.l = p.l
    BY <1>2 DEF Good, Shape, CacheFields
  <2> HIDE DEF q
  <2> QED BY <1>2, <2>1, SizesOnly
<1> HIDE DEF q
<1>4. Good(d) /\ DOMAIN d.ent = DOMAIN c.ent
  BY <1>2, <1>3, MergeAllGood
<1> HIDE DEF d
<1>5. IsCent(d.ent[n])
  BY <1>4 DEF Good, Entries
<1>6. /\ Shape(r) /\ DOMAIN r.ent = DOMAIN d.ent /\ r.l = d.l
      /\ \A m \in DOMAIN d.ent \ {n} : r.ent[m] = d.ent[m]
  BY <1>4 DEF Good, Shape, CacheFields
<1>7. /\ DOMAIN r.ent[n] = EntryFields
      /\ r.ent[n].neg = d.ent[n].neg /\ r.ent[n].local = d.ent[n].local
      /\ r.ent[n].ext = d.ent[n].ext /\ r.ent[n].rrs = d.ent[n].rrs
  BY <1>4, <1>5 DEF Good, Shape, CacheFields, IsCent, EntryFields
<1> HIDE DEF r
<1>8. Less(d.ent[n], r.ent[n], {})
  BY <1>5, <1>7 DEF Less, IsCent
<1>9. Good(r)
  BY <1>4, <1>6, <1>8, SameGood
<1> QED BY <1>1, <1>9

(* add_cache                                                                            *)
LEMMA AddCacheGood ==
  ASSUME NEW c, Good(c), NEW n \in Name, NEW cent, IsCent(cent)
  PROVE  Good(AddCache(c, n, cent))
<1>1. \A d : Good(d) => Good(Fit(d))
  BY PurgeCacheGood DEF Fit
<1>2. n \notin DOMAIN c.ent => Good(AddNew(c, n, cent))
  BY AddNewGood
<1>3. n \in DOMAIN c.ent => Good(Merge(c, n, cent))
  BY MergeGood
<1>4. Good(DelEntry(c, n)) /\ n \notin DOMAIN DelEntry(c, n).ent
  BY DelEntryGood
<1>5. Good(AddNew(DelEntry(c, n), n, cent))
  BY <1>4, AddNewGood
<1> QED BY <1>1, <1>2, <1>3, <1>5 DEF AddCache, Names

LEMMA AddAllGood ==
  ASSUME NEW c, Good(c), NEW cents, Len(cents) \in Nat,
         \A i \in 1..Len(cents) : cents[i][1] \in Name /\ IsCent(cents[i][2])
  PROVE  Good(AddAll(c, cents))
<1>1. PICK w : /\ AddAll(c, cents) = w[Len(cents)]
               /\ w[0] = c
               /\ \A i \in 1..Len(cents) : w[i] = AddCache(w[i - 1], cents[i][1], cents[i][2])
  BY AddAllWalk
<1> DEFINE G == {i \in 0..Len(cents) : Good(w[i])}
<1>2. 0 \in G
  BY <1>1
<1>3. ASSUME NEW i \in 0..Len(cents), i \in G, i < Len(cents) PROVE i + 1 \in G
  <2>1. i + 1 \in 1..Len(cents) /\ (i + 1) - 1 = i
    BY <1>3
  <2>2. w[i + 1] = AddCache(w[i], cents[i + 1][1], cents[i + 1][2])
    BY <1>1, <2>1
  <2>3. Good(w[i + 1])
    BY <1>3, <2>1, <2>2, AddCacheGood
  <2> QED BY <2>1, <2>3
<1> HIDE DEF G
<1>4. \A i \in 0..Len(cents) : i \in G
  BY <1>2, <1>3, UpTo
<1> QED BY <1>1, <1>4 DEF G

-----------------------------------------------------------------------------
(* The file *)

(* write_rrset writes no local set; what it writes is a cent.                           *)
LEMMA SavedCent ==
  ASSUME NEW e, IsCent(e)
  PROVE  IsCent(SavedEnt(e))
<1>1. PICK R : R = Restrict(e.rrs, {t \in DOMAIN e.rrs : ~e.rrs[t].local})
  OBVIOUS
<1>2. PICK f : f = [e EXCEPT !.rrs = R]
  OBVIOUS
<1>3. SavedEnt(e) = f
  BY <1>1, <1>2 DEF SavedEnt
<1>4. DOMAIN R \subseteq DOMAIN e.rrs /\ \A t \in DOMAIN R : R[t] = e.rrs[t]
  BY <1>1 DEF Restrict
<1>5. DOMAIN f = EntryFields /\ f.neg = e.neg /\ f.local = e.local /\ f.ext = e.ext /\ f.rrs = R
  BY <1>2 DEF IsCent, EntryFields
<1> QED BY <1>3, <1>4, <1>5 DEF IsCent, Coherent

(* read_disk_cache makes a cent of it again.                                            *)
LEMMA ReadCent ==
  ASSUME NEW e, IsCent(e)
  PROVE  IsCent(Read(e))
<1> DEFINE f == [e EXCEPT !.rrs = [t \in DOMAIN e.rrs |-> [e.rrs[t] EXCEPT !.n = IF e.local THEN 0 ELSE @]],
                          !.ext = DOMAIN e.rrs \cap ExtType # {}, !.nrr = Cardinality(DOMAIN e.rrs)]
           g == [f EXCEPT !.cs = TrueSize(f)]
<1>1. Read(e) = g
  BY DEF Read
<1>2. PICK R : R = [t \in DOMAIN e.rrs |-> [e.rrs[t] EXCEPT !.n = IF e.local THEN 0 ELSE @]]
  OBVIOUS
<1>3. DOMAIN f = EntryFields /\ f.neg = e.neg /\ f.local = e.local /\ f.ext \in BOOLEAN /\ f.rrs = R
  BY <1>2 DEF IsCent, EntryFields
<1> HIDE DEF f
<1>4. DOMAIN g = EntryFields /\ g.neg = e.neg /\ g.local = e.local /\ g.ext \in BOOLEAN /\ g.rrs = R
  BY <1>3 DEF EntryFields
<1>5. /\ DOMAIN R = DOMAIN e.rrs
      /\ \A t \in DOMAIN R : DOMAIN R[t] = SetFields /\ R[t].neg = e.rrs[t].neg /\ R[t].local = e.rrs[t].local
  BY <1>2 DEF IsCent, SetFields
<1> HIDE DEF g
<1>6. IsCent(g)
  BY <1>4, <1>5 DEF IsCent, Coherent
<1> QED BY <1>1, <1>6

(* What a file holds, and what the cache makes of it.                                   *)
IsFile(file) == DOMAIN file \subseteq Name /\ \A n \in DOMAIN file : IsCent(file[n])

LEMMA FileOf ==
  ASSUME NEW c, Good(c)
  PROVE  IsFile(File(c))
<1>1. \A n \in DOMAIN c.ent : IsCent(SavedEnt(c.ent[n]))
  BY SavedCent DEF Good, Entries
<1>2. DOMAIN File(c) \subseteq DOMAIN c.ent /\ \A n \in DOMAIN File(c) : File(c)[n] = SavedEnt(c.ent[n])
  BY DEF File, Names
<1> QED BY <1>1, <1>2 DEF IsFile, Good, Entries

(* SetToSeq lists a finite set.                                                         *)
LEMMA SetToSeqOf ==
  ASSUME NEW S, IsFiniteSet(S)
  PROVE  /\ Cardinality(S) \in Nat
         /\ SetToSeq(S) \in [1..Cardinality(S) -> S]
<1>1. Cardinality(S) \in Nat /\ ExistsBijection(1..Cardinality(S), S)
  BY FS_CardinalityType
<1>2. PICK f : f \in Bijection(1..Cardinality(S), S)
  BY <1>1 DEF ExistsBijection
<1>3. f \in [1..Cardinality(S) -> S] /\ IsInjective(f)
  BY <1>2 DEF Bijection, Injection
<1> QED BY <1>1, <1>3 DEF SetToSeq

LEMMA EmptyGood == Good(EmptyCache)
<1>1. PICK c : c = EmptyCache
  OBVIOUS
<1>2. Shape(c) /\ c.ent = <<>> /\ c.l = <<>>
  BY <1>1 DEF EmptyCache, Shape, CacheFields
<1>3. DOMAIN c.ent = {} /\ c.l \in Seq(Element) /\ Members(c.l) = {} /\ Once(c.l)
  BY <1>2 DEF Members, Once
<1> QED BY <1>1, <1>2, <1>3 DEF Good, Entries, ListOK, Listed

(* The start of the program: the configuration, then the file.                          *)
LEMMA LoadGood ==
  ASSUME NEW file, IsFile(file)
  PROVE  Good(Load(file))
<1> DEFINE c == AddAll(EmptyCache, Config)
           order == SetToSeq(DOMAIN file)
           cents == [i \in DOMAIN order |-> <<order[i], Read(file[order[i]])>>]
           d == [c EXCEPT !.sorted = FALSE]
<1>1. Load(file) = Sorted(AddAll(d, cents))
  BY DEF Load
<1>2. Good(c)
  <2>1. Len(Config) \in Nat /\ \A i \in 1..Len(Config) : Config[i] \in Range(Config)
    BY ConfigFits
  <2>2. \A i \in 1..Len(Config) : Config[i][1] \in Name /\ IsCent(Config[i][2])
    BY <2>1, ConfigFits
  <2> QED BY <2>1, <2>2, EmptyGood, AddAllGood
<1> HIDE DEF c
<1>3. Good(d)
  <2>1. Shape(d) /\ d.ent = c.ent /\ d.l = c.l
    BY <1>2 DEF Good, Shape, CacheFields
  <2> HIDE DEF d
  <2> QED BY <1>2, <2>1, SizesOnly
<1> HIDE DEF d
<1>4. PICK k \in Nat : order \in [1..k -> DOMAIN file]
  <2>1. IsFiniteSet(DOMAIN file)
    BY NamesFinite, FS_Subset DEF IsFile
  <2> QED BY <2>1, SetToSeqOf
<1> HIDE DEF order
<1>5. Len(cents) = k /\ \A i \in 1..k : cents[i] = <<order[i], Read(file[order[i]])>>
  <2>1. cents = [i \in 1..k |-> <<order[i], Read(file[order[i]])>>]
    BY <1>4
  <2> HIDE DEF cents
  <2> QED BY <2>1
<1> HIDE DEF cents
<1>6. \A i \in 1..k : order[i] \in DOMAIN file /\ IsCent(Read(file[order[i]]))
  BY <1>4, ReadCent DEF IsFile
<1>7. \A i \in 1..Len(cents) : cents[i][1] \in Name /\ IsCent(cents[i][2])
  BY <1>5, <1>6 DEF IsFile
<1>8. Good(AddAll(d, cents))
  BY <1>3, <1>5, <1>7, AddAllGood
<1> QED BY <1>1, <1>8, SortedGood

-----------------------------------------------------------------------------
(* The invariant *)

LEMMA CacheIs == Cache.ent = ent /\ Cache.l = rrset_l
BY DEF Cache

LEMMA Becomes ==
  ASSUME NEW c, Good(c), Become(c)
  PROVE  Good(Cache)'
<1>1. Shape(Cache)' /\ (Cache.ent)' = c.ent /\ (Cache.l)' = c.l
  BY DEF Become, Cache, Shape, CacheFields
<1> QED BY <1>1 DEF Good, Entries, ListOK, Listed

LEMMA InitHolds == CacheInit => CacheInv
<1> SUFFICES ASSUME CacheInit PROVE CacheInv
  OBVIOUS
<1>1. PICK c : c = Load(OldFile)
  OBVIOUS
<1>2. Good(c)
  BY <1>1, FileFits, LoadGood DEF IsFile
<1>3. ent = c.ent /\ rrset_l = c.l /\ ctl = <<>> /\ purging = {}
  BY <1>1 DEF CacheInit
<1>4. Shape(Cache) /\ Cache.ent = c.ent /\ Cache.l = c.l
  BY <1>3 DEF Cache, Shape, CacheFields
<1>5. Good(Cache)
  BY <1>2, <1>4 DEF Good
<1> QED BY <1>3, <1>5 DEF CacheInv

(* An answer with its times.                                                            *)
LEMMA AtCent ==
  ASSUME NEW cent, IsCent(cent), NEW time
  PROVE  IsCent(At(cent, time))
<1>1. PICK R : R = [t \in DOMAIN cent.rrs |-> [cent.rrs[t] EXCEPT !.ts = time]]
  OBVIOUS
<1>2. PICK x : x = IF cent.neg THEN time ELSE 0
  OBVIOUS
<1>3. PICK f : f = [cent EXCEPT !.ts = x, !.rrs = R]
  OBVIOUS
<1>4. At(cent, time) = f
  BY <1>1, <1>2, <1>3 DEF At
<1>5. /\ DOMAIN R = DOMAIN cent.rrs
      /\ \A t \in DOMAIN R : DOMAIN R[t] = SetFields /\ R[t].neg = cent.rrs[t].neg /\ R[t].local = cent.rrs[t].local
  BY <1>1 DEF IsCent, SetFields
<1>6. DOMAIN f = EntryFields /\ f.neg = cent.neg /\ f.local = cent.local /\ f.ext = cent.ext /\ f.rrs = R
  BY <1>3 DEF IsCent, EntryFields
<1> QED BY <1>4, <1>5, <1>6 DEF IsCent, Coherent

LEMMA OutdatedLess ==
  ASSUME NEW e, IsCent(e)
  PROVE  Less(e, Outdated(e), {})
<1>1. PICK R : R = [t \in DOMAIN e.rrs |-> [e.rrs[t] EXCEPT !.ts = 0]]
  OBVIOUS
<1>2. PICK x : x = IF e.neg THEN 0 ELSE e.ts
  OBVIOUS
<1>3. PICK f : f = [e EXCEPT !.ts = x, !.rrs = R]
  OBVIOUS
<1>4. Outdated(e) = f
  BY <1>1, <1>2, <1>3 DEF Outdated
<1>5. /\ DOMAIN R = DOMAIN e.rrs
      /\ \A t \in DOMAIN R : DOMAIN R[t] = SetFields /\ R[t].neg = e.rrs[t].neg /\ R[t].local = e.rrs[t].local
  BY <1>1 DEF IsCent, SetFields
<1>6. DOMAIN f = EntryFields /\ f.neg = e.neg /\ f.local = e.local /\ f.ext = e.ext /\ f.rrs = R
  BY <1>3 DEF IsCent, EntryFields
<1> QED BY <1>4, <1>5, <1>6 DEF IsCent, Less

(* The commands of the control thread.                                                  *)
LEMMA SectionsOf ==
  ASSUME CacheInv, NEW op, NEW cmd \in Sections(op)
  PROVE  Head(cmd) \in Section /\ Tail(cmd) \in Seq(Section) /\ Head(cmd).op = op
<1>1. cmd \in Seq(Section) /\ cmd # <<>>
  BY CommandsFit DEF Sections, CacheInv
<1>2. Head(cmd).op = op
  BY DEF Sections
<1> QED BY <1>1, <1>2

(* set_cent_flags and invalidate_record, of an entry.                                   *)
LEMMA TouchGood ==
  ASSUME Good(Cache), NEW n \in DOMAIN ent
  PROVE  Good([Cache EXCEPT !.ent[n].wild = TRUE]) /\ Good([Cache EXCEPT !.ent[n] = Outdated(@)])
<1>1. PICK c : c = Cache
  OBVIOUS
<1>2. Good(c) /\ n \in DOMAIN c.ent
  BY <1>1, CacheIs
<1>3. PICK e : e = c.ent[n]
  OBVIOUS
<1>4. IsCent(e)
  BY <1>2, <1>3 DEF Good, Entries
<1>5. ASSUME NEW f, Less(e, f, {}), NEW d, d = [c EXCEPT !.ent = [@ EXCEPT ![n] = f]] PROVE Good(d)
  <2>1. /\ Shape(d) /\ DOMAIN d.ent = DOMAIN c.ent /\ d.l = c.l /\ d.ent[n] = f
        /\ \A m \in DOMAIN c.ent \ {n} : d.ent[m] = c.ent[m]
    BY <1>2, <1>5 DEF Good, Shape, CacheFields
  <2>2. \A m \in DOMAIN c.ent : IF m = n THEN Less(c.ent[m], d.ent[m], {}) ELSE d.ent[m] = c.ent[m]
    BY <1>3, <1>5, <2>1
  <2> QED BY <1>2, <2>1, <2>2, SameGood
<1>6. PICK f : f = [e EXCEPT !.wild = TRUE]
  OBVIOUS
<1>7. Less(e, f, {})
  BY <1>4, <1>6 DEF Less, IsCent, EntryFields
<1>8. PICK d : d = [c EXCEPT !.ent = [@ EXCEPT ![n] = f]]
  OBVIOUS
<1>9. [Cache EXCEPT !.ent[n].wild = TRUE] = d
  BY <1>1, <1>3, <1>6, <1>8
<1>10. PICK g : g = Outdated(e)
  OBVIOUS
<1>11. Less(e, g, {})
  BY <1>4, <1>10, OutdatedLess
<1>12. PICK x : x = [c EXCEPT !.ent = [@ EXCEPT ![n] = g]]
  OBVIOUS
<1>13. [Cache EXCEPT !.ent[n] = Outdated(@)] = x
  BY <1>1, <1>3, <1>10, <1>12
<1> QED BY <1>5, <1>7, <1>8, <1>9, <1>11, <1>12, <1>13

(* lookup_cache looks at an entry, if at any.                                           *)
LEMMA TargetOf ==
  ASSUME NEW c, DOMAIN c.ent \subseteq Name, NEW n \in Name, Target(c, n) # NoName
  PROVE  Target(c, n) \in DOMAIN c.ent
<1>1. Nearest(c, n) # NoName => Nearest(c, n) \in DOMAIN c.ent
  <2>1. Up[n] \in Seq(Name) /\ Len(Up[n]) \in Nat
    BY UpGiven
  <2>2. PICK I : I = {i \in 1..Len(Up[n]) : Up[n][i] \in DOMAIN c.ent}
    OBVIOUS
  <2>3. SelectInSeq(Up[n], LAMBDA m : m \in Names(c)) = IF I # {} THEN Min(I) ELSE 0
    BY <2>2 DEF SelectInSeq, Names
  <2>4. I # {} => Min(I) \in I
    <3>1. I \subseteq 1..Len(Up[n])
      BY <2>2
    <3> QED BY <2>1, <3>1, Extremes
  <2>5. CASE I = {}
    BY <2>3, <2>5 DEF Nearest
  <2>6. CASE I # {}
    <3>1. PICK i \in I : i = Min(I)
      BY <2>4, <2>6
    <3>2. i # 0 /\ Up[n][i] \in DOMAIN c.ent
      BY <2>1, <2>2, <3>1
    <3> QED BY <2>3, <2>6, <3>1, <3>2 DEF Nearest
  <2> QED BY <2>5, <2>6
<1> QED BY <1>1 DEF Target, Names

LEMMA StepHolds == CacheInv /\ [CacheNext]_cacheVars => CacheInv'
<1> SUFFICES ASSUME CacheInv, [CacheNext]_cacheVars PROVE CacheInv'
  OBVIOUS
<1> USE DEF Names
<1>0. Good(Cache) /\ ctl \in Seq(Section) /\ purging \subseteq Name
  BY DEF CacheInv
<1>1. CASE UNCHANGED cacheVars
  BY <1>1 DEF CacheInv, cacheVars, Good, Cache, Shape, Entries, ListOK, Listed
<1>2. CASE Add
  <2>1. PICK a \in Answers, time \in {now - 1, now} \ {0} : Become(AddCache(Cache, a[1], At(a[2], time)))
    BY <1>2 DEF Add
  <2>2. a[1] \in Name /\ IsCent(At(a[2], time))
    BY AnswersFit, AtCent
  <2>3. Good(AddCache(Cache, a[1], At(a[2], time)))
    BY <1>0, <2>2, AddCacheGood
  <2> QED BY <1>0, <1>2, <2>1, <2>3, Becomes DEF Add, Unchanged, CacheInv
<1>3. CASE Lookup
  <2>1. ent' = ent /\ rrset_l' = rrset_l /\ cache_size' = cache_size /\ ent_num' = ent_num /\ ctl' = ctl
    BY <1>3 DEF Lookup
  <2>2. Become(Cache)
    BY <2>1 DEF Become, Cache
  <2>3. Good(Cache)'
    BY <1>0, <2>2, Becomes
  <2>4. purging' \subseteq Name
    BY <1>0, <1>3 DEF Lookup
  <2> QED BY <1>0, <2>1, <2>3, <2>4 DEF CacheInv
<1>4. CASE LookupAgain
  <2>1. PICK n \in purging : /\ Become(IF Target(Cache, n) = NoName THEN Cache
                                       ELSE PurgeCent(Cache, Target(Cache, n), TRUE))
                             /\ purging' = purging \ {n} /\ ctl' = ctl
    BY <1>4 DEF LookupAgain
  <2>2. PICK m : m = Target(Cache, n)
    OBVIOUS
  <2>3. m # NoName => m \in DOMAIN Cache.ent
    BY <1>0, <2>2, TargetOf DEF Good, Entries
  <2>4. m # NoName => Good(PurgeCent(Cache, m, TRUE))
    BY <1>0, <2>3, PurgeCentGood
  <2>5. PICK d : d = IF m = NoName THEN Cache ELSE PurgeCent(Cache, m, TRUE)
    OBVIOUS
  <2>6. Good(d) /\ Become(d)
    BY <1>0, <2>1, <2>2, <2>4, <2>5
  <2>7. Good(Cache)'
    BY <2>6, Becomes
  <2> QED BY <1>0, <2>1, <2>7 DEF CacheInv
<1>5. CASE AddLocal
  <2>1. PICK cmd \in Sections("add") : /\ ctl' = Tail(cmd) /\ purging' = purging
                                       /\ Become(AddCache(Cache, Head(cmd).name, Head(cmd).cent))
    BY <1>5 DEF AddLocal
  <2>2. Head(cmd) \in Section /\ Tail(cmd) \in Seq(Section) /\ Head(cmd).op = "add"
    BY SectionsOf
  <2>3. Head(cmd).name \in Name /\ IsCent(Head(cmd).cent)
    BY <2>2, CommandsFit
  <2>4. Good(Cache)'
    BY <1>0, <2>1, <2>3, AddCacheGood, Becomes
  <2> QED BY <1>0, <2>1, <2>2, <2>4 DEF CacheInv
<1>6. CASE SetWild
  <2>1. PICK cmd \in Sections("wild") :
          /\ purging' = purging
          /\ IF Head(cmd).name \in DOMAIN Cache.ent
             THEN ctl' = Tail(cmd) /\ Become([Cache EXCEPT !.ent[Head(cmd).name].wild = TRUE])
             ELSE ctl' = <<>> /\ Become(Cache)
    BY <1>6 DEF SetWild
  <2>2. Tail(cmd) \in Seq(Section) /\ <<>> \in Seq(Section)
    BY SectionsOf
  <2>3. Good(Cache)'
    BY <1>0, <2>1, TouchGood, CacheIs, Becomes
  <2> QED BY <1>0, <2>1, <2>2, <2>3 DEF CacheInv
<1>7. CASE DelCache
  <2>1. PICK cmd \in Sections("del") :
          /\ purging' = purging /\ ctl' = Tail(cmd)
          /\ Become(IF Head(cmd).name \in DOMAIN Cache.ent THEN DelEntry(Cache, Head(cmd).name) ELSE Cache)
    BY <1>7 DEF DelCache
  <2>2. Tail(cmd) \in Seq(Section)
    BY SectionsOf
  <2>3. Good(Cache)'
    BY <1>0, <2>1, DelEntryGood, Becomes
  <2> QED BY <1>0, <2>1, <2>2, <2>3 DEF CacheInv
<1>8. CASE InvalidateRecord
  <2>1. PICK cmd \in Sections("inval") :
          /\ purging' = purging /\ ctl' = Tail(cmd)
          /\ Become(IF Head(cmd).name \in DOMAIN Cache.ent
                    THEN [Cache EXCEPT !.ent[Head(cmd).name] = Outdated(@)] ELSE Cache)
    BY <1>8 DEF InvalidateRecord
  <2>2. Tail(cmd) \in Seq(Section)
    BY SectionsOf
  <2>3. Good(Cache)'
    BY <1>0, <2>1, TouchGood, CacheIs, Becomes
  <2> QED BY <1>0, <2>1, <2>2, <2>3 DEF CacheInv
<1>9. CASE EmptyBucket
  <2>1. PICK cmd \in Sections("empty") :
          purging' = purging /\ ctl' = Tail(cmd) /\ \E gone : Become(DelEntries(Cache, gone))
    BY <1>9 DEF EmptyBucket
  <2>2. Tail(cmd) \in Seq(Section)
    BY SectionsOf
  <2>3. Good(Cache)'
    BY <1>0, <2>1, DelEntriesGood, Becomes
  <2> QED BY <1>0, <2>1, <2>2, <2>3 DEF CacheInv
<1>10. CASE Tick
  <2>1. ent' = ent /\ rrset_l' = rrset_l /\ cache_size' = cache_size /\ ent_num' = ent_num /\ ctl' = ctl /\ purging' = purging
    BY <1>10 DEF Tick
  <2>2. Become(Cache)
    BY <2>1 DEF Become, Cache
  <2> QED BY <1>0, <2>1, <2>2, Becomes DEF CacheInv
<1>11. ASSUME NEW file, IsFile(file), Start(file) PROVE CacheInv'
  <2>1. Good(Cache)'
    BY <1>11, LoadGood, Becomes DEF Start
  <2>2. ctl' = <<>> /\ purging' = purging
    BY <1>11 DEF Start
  <2> QED BY <1>0, <2>1, <2>2 DEF CacheInv
<1>12. IsFile(Written)
  <2>1. PICK c : c = PurgeCache(Cache, Perm, FALSE)
    BY Zenon
  <2>2. Good(c)
    BY <1>0, <2>1, PurgeCacheGood
  <2>3. Written = File(c)
    BY <2>1, Zenon DEF Written
  <2> QED BY <2>2, <2>3, FileOf
<1>13. CASE Restart
  BY <1>11, <1>12, <1>13 DEF Restart
<1>14. CASE Crash
  BY <1>11, <1>14, FileFits DEF Crash, IsFile
<1>15. CASE CrashWriting
  <2>1. PICK part \in SUBSET DOMAIN Written : Start(Restrict(Written, part))
    BY <1>15 DEF CrashWriting
  <2>2. IsFile(Restrict(Written, part))
    BY <1>12 DEF IsFile, Restrict
  <2> QED BY <1>11, <2>1, <2>2
<1> QED BY <1>1, <1>2, <1>3, <1>4, <1>5, <1>6, <1>7, <1>8, <1>9, <1>10, <1>13, <1>14, <1>15 DEF CacheNext, Control

(* CacheInv holds in every state of the cache.                                              *)
THEOREM CacheInvHolds == CacheSpec => []CacheInv
BY InitHolds, StepHolds, PTL DEF CacheSpec

-----------------------------------------------------------------------------
(* What the invariant gives *)

(* cr_check_add: what add_cache leaves in an entry never contradicts itself.            *)
THEOREM NoConflictsHolds == CacheSpec => []NoConflicts
<1>1. CacheInv => NoConflicts
  BY CacheIs DEF CacheInv, Good, Entries, IsCent, NoConflicts
<1> QED BY <1>1, CacheInvHolds, PTL

LEMMA ListIs ==
  ASSUME CacheInv
  PROVE  ListIsRight
<1>1. rrset_l \in Seq(Element) /\ Once(rrset_l) /\ Entries(ent)
      /\ \A n \in Name, k \in Key : <<n, k>> \in Members(rrset_l) <=> Listed(ent, n, k)
  BY CacheIs DEF CacheInv, Good, ListOK
<1>2. Len(rrset_l) \in Nat /\ DOMAIN rrset_l = 1..Len(rrset_l) /\ \A i \in 1..Len(rrset_l) : rrset_l[i] \in Element
  BY <1>1
<1>3. ASSUME NEW n \in Name, NEW k \in Key PROVE <<n, k>> \in Purgeable <=> Listed(ent, n, k)
  <2>1. <<n, k>> \in Purgeable => Listed(ent, n, k)
    <3> SUFFICES ASSUME <<n, k>> \in Purgeable PROVE Listed(ent, n, k)
      OBVIOUS
    <3>1. PICK m \in DOMAIN ent :
            <<n, k>> \in IF ent[m].local THEN {}
                        ELSE IF ent[m].neg THEN {<<m, Whole>>}
                        ELSE {<<m, t>> : t \in {u \in DOMAIN ent[m].rrs : ~ent[m].rrs[u].local}}
      BY DEF Purgeable
    <3>2. ~ent[m].local
      BY <3>1
    <3>3. CASE ent[m].neg
      BY <3>1, <3>2, <3>3 DEF Listed
    <3>4. CASE ~ent[m].neg
      <4>1. PICK t \in DOMAIN ent[m].rrs : ~ent[m].rrs[t].local /\ <<n, k>> = <<m, t>>
        BY <3>1, <3>2, <3>4
      <4> QED BY <3>2, <3>4, <4>1 DEF Listed
    <3> QED BY <3>3, <3>4
  <2>2. Listed(ent, n, k) => <<n, k>> \in Purgeable
    <3> SUFFICES ASSUME Listed(ent, n, k) PROVE <<n, k>> \in Purgeable
      OBVIOUS
    <3>1. n \in DOMAIN ent /\ k \in Type \cup {Whole}
      BY DEF Listed, Key
    <3>2. <<n, k>> \in IF ent[n].local THEN {}
                       ELSE IF ent[n].neg THEN {<<n, Whole>>}
                       ELSE {<<n, t>> : t \in {u \in DOMAIN ent[n].rrs : ~ent[n].rrs[u].local}}
      BY DEF Listed
    <3> QED BY <3>1, <3>2 DEF Purgeable
  <2> QED BY <2>1, <2>2
<1>4. Members(rrset_l) \subseteq Element
  BY <1>2 DEF Members
<1>5. Purgeable \subseteq Element
  BY <1>1 DEF Purgeable, Element, Key, Entries
<1>6. Members(rrset_l) = Purgeable
  <2>1. ASSUME NEW n \in Name, NEW k \in Key PROVE <<n, k>> \in Members(rrset_l) <=> <<n, k>> \in Purgeable
    <3>1. <<n, k>> \in Members(rrset_l) <=> Listed(ent, n, k)
      BY <1>1
    <3> QED BY <1>3, <3>1
  <2> HIDE DEF Element
  <2>2. ASSUME NEW x \in Element PROVE x \in Members(rrset_l) <=> x \in Purgeable
    <3>1. PICK n \in Name, k \in Key : x = <<n, k>>
      BY DEF Element
    <3> QED BY <2>1, <3>1
  <2> QED BY <1>4, <1>5, <2>2, Zenon
<1>7. Range(rrset_l) = Purgeable
  BY <1>2, <1>6 DEF Range, Members
<1>8. Len(rrset_l) = Cardinality(Purgeable)
  <2>1. rrset_l \in [1..Len(rrset_l) -> Purgeable]
    BY <1>1, <1>2, <1>6 DEF Members
  <2>2. rrset_l \in Bijection(1..Len(rrset_l), Purgeable)
    BY <1>1, <1>2, <1>6, <2>1 DEF Bijection, Injection, Surjection, IsInjective, Once, Members
  <2> QED BY <1>2, <2>2, FS_CountingElements DEF ExistsBijection
<1> QED BY <1>7, <1>8 DEF ListIsRight

(* insert_rrl, remove_rrl: the list holds exactly what may be purged, each once.        *)
THEOREM ListIsRightHolds == CacheSpec => []ListIsRight
BY CacheInvHolds, ListIs, PTL

(* purge_cent of an entry that stays: nothing in it has expired, and what it refers to  *)
(* is known.                                                                            *)
LEMMA PurgedFresh ==
  ASSUME NEW c, Good(c), NEW n \in DOMAIN c.ent, n \in DOMAIN PurgeCent(c, n, TRUE).ent
  PROVE  LET d == PurgeCent(c, n, TRUE) IN Fresh(d, n) /\ NothingToPurge(d, n)
<1> DEFINE p == PurgeRRsets(c, n)
           d == PurgeCent(c, n, TRUE)
<1>1. PICK e : e = c.ent[n]
  OBVIOUS
<1>2. PICK g : g = p.ent[n]
  OBVIOUS
<1>3. /\ Good(p) /\ DOMAIN p.ent = DOMAIN c.ent
      /\ g.rrs = Restrict(e.rrs, DOMAIN e.rrs \ Lost(e))
      /\ g.ext <=> e.ext /\ ~ExtIdle(e)
      /\ g.neg = e.neg /\ g.local = e.local /\ g.ts = e.ts /\ g.ttl = e.ttl /\ g.ns = e.ns
  <2>1. Good(p) /\ DOMAIN p.ent = DOMAIN c.ent /\ PurgedTo(c, c.ent[n], p, p.ent[n])
    BY PurgeRRsetsGood
  <2> QED BY <1>1, <1>2, <2>1 DEF PurgedTo
<1> HIDE DEF p
<1>4. IsCent(e) /\ IsCent(g)
  BY <1>1, <1>2, <1>3 DEF Good, Entries
<1>5. ~Vanishes(e)
  <2>1. Vanishes(e) => d = DelEntry(p, n)
    BY <1>1 DEF PurgeCent, p
  <2>2. n \notin DOMAIN DelEntry(p, n).ent
    BY <1>3, DelEntryGood
  <2> QED BY <2>1, <2>2
<1>6. d = IF Stale(p, n) THEN [p EXCEPT !.ent[n].ns = NoName] ELSE p
  BY <1>1, <1>5 DEF PurgeCent, p
<1> HIDE DEF d
<1>7. PICK f : f = d.ent[n]
  OBVIOUS
<1>8. /\ f.rrs = g.rrs /\ f.ext = g.ext /\ f.neg = g.neg /\ f.local = g.local /\ f.ts = g.ts /\ f.ttl = g.ttl
      /\ Stale(p, n) => f.ns = NoName
  <2>1. CASE Stale(p, n)
    <3>1. PICK h : h = [g EXCEPT !.ns = NoName]
      OBVIOUS
    <3>2. PICK es : es = [p.ent EXCEPT ![n] = h]
      OBVIOUS
    <3>3. d = [p EXCEPT !.ent = es]
      BY <1>2, <1>6, <2>1, <3>1, <3>2
    <3>4. d.ent = es /\ es[n] = h
      BY <1>3, <3>2, <3>3 DEF Good, Shape, CacheFields
    <3>5. /\ h.rrs = g.rrs /\ h.ext = g.ext /\ h.neg = g.neg /\ h.local = g.local /\ h.ts = g.ts /\ h.ttl = g.ttl
          /\ h.ns = NoName
      BY <1>4, <3>1 DEF IsCent, EntryFields
    <3> QED BY <1>7, <3>4, <3>5
  <2>2. CASE ~Stale(p, n)
    BY <1>2, <1>6, <1>7, <2>2
  <2> QED BY <2>1, <2>2
<1>9. DOMAIN f.rrs = DOMAIN e.rrs \ Lost(e) /\ Lost(f) = {}
  <2>1. DOMAIN f.rrs = DOMAIN e.rrs \ Lost(e) /\ \A t \in DOMAIN f.rrs : f.rrs[t] = e.rrs[t]
    BY <1>3, <1>8 DEF Restrict
  <2>2. \A t \in DOMAIN f.rrs : ~Expired(f.rrs[t])
    BY <2>1 DEF Lost
  <2> QED BY <2>1, <2>2 DEF Lost
<1>10. Dated(f) <=> Dated(e)
  BY <1>3, <1>8 DEF Dated
<1>11. ~Dated(f)
  <2>1. Dated(e) => DOMAIN e.rrs = {}
    BY <1>4 DEF Dated, IsCent
  <2> QED BY <1>5, <1>10, <2>1 DEF Vanishes
<1>12. ~Vanishes(f)
  <2>1. f.neg = e.neg
    BY <1>3, <1>8
  <2> QED BY <1>5, <1>9, <1>11, <2>1 DEF Vanishes
<1>13. ~ExtIdle(f)
  BY <1>3, <1>8, <1>9 DEF ExtIdle
<1>14. ~Stale(d, n)
  <2>1. CASE Stale(p, n)
    BY <1>7, <1>8, <2>1 DEF Stale
  <2>2. CASE ~Stale(p, n)
    BY <1>6, <2>2
  <2> QED BY <2>1, <2>2
<1> QED BY <1>7, <1>9, <1>11, <1>12, <1>13, <1>14, Zenon DEF d, Fresh, NothingToPurge

(* lookup_cache: what either pass hands out has not expired, and the name servers it    *)
(* refers to are known.                                                                 *)
THEOREM ServedFreshHolds == CacheSpec => []ServedFresh
<1>1. ASSUME CacheInv PROVE ServedFresh
  <2> SUFFICES ASSUME NEW n \in Name, NEW m, m = Target(Cache, n), m # NoName
               PROVE  IF NothingToPurge(Cache, m) THEN Fresh(Cache, m)
                      ELSE m \in Names(PurgeCent(Cache, m, TRUE)) =>
                             /\ Fresh(PurgeCent(Cache, m, TRUE), m)
                             /\ NothingToPurge(PurgeCent(Cache, m, TRUE), m)
    BY Zenon DEF ServedFresh
  <2>1. Good(Cache) /\ m \in DOMAIN Cache.ent
    BY <1>1, TargetOf DEF CacheInv, Good, Entries
  <2>2. CASE NothingToPurge(Cache, m)
    <3>1. PICK e : e = Cache.ent[m]
      OBVIOUS
    <3>2. IsCent(e) /\ Lost(e) = {} /\ ~Vanishes(e) /\ ~Stale(Cache, m)
      BY <2>1, <2>2, <3>1 DEF NothingToPurge, Good, Entries
    <3>3. ~Dated(e)
      BY <3>2 DEF Dated, Vanishes, IsCent
    <3> QED BY <2>2, <3>1, <3>2, <3>3 DEF Fresh
  <2>3. CASE ~NothingToPurge(Cache, m)
    <3> SUFFICES ASSUME m \in DOMAIN PurgeCent(Cache, m, TRUE).ent
                 PROVE  /\ Fresh(PurgeCent(Cache, m, TRUE), m)
                        /\ NothingToPurge(PurgeCent(Cache, m, TRUE), m)
      BY <2>3, Zenon DEF Names
    <3>1. PICK c : c = Cache
      OBVIOUS
    <3>2. Fresh(PurgeCent(c, m, TRUE), m) /\ NothingToPurge(PurgeCent(c, m, TRUE), m)
      BY <2>1, <3>1, PurgedFresh
    <3> QED BY <3>1, <3>2
  <2> QED BY <2>2, <2>3
<1> QED BY <1>1, CacheInvHolds, PTL

-----------------------------------------------------------------------------
(* Sums *)

(* w gives the sum of f over every subset of S, taken one member at a time.              *)
Adds(w, f, S) == /\ w[{}] = 0
                 /\ \A s \in SUBSET S : s # {} => \E x \in s : w[s] = f[x] + w[s \ {x}]

(* SumFunctionOnSet takes the members one at a time.                                     *)
LEMMA SumWalk ==
  ASSUME NEW f, NEW S, IsFiniteSet(S)
  PROVE  \E w : Adds(w, f, S) /\ SumFunctionOnSet(f, S) = w[S]
<1> DEFINE Pick(s) == CHOOSE x \in s : TRUE
           Small(n) == {s \in SUBSET S : Cardinality(s) <= n}
           Value(w, s) == IF s = {} THEN 0 ELSE f[Pick(s)] + w[s \ {Pick(s)}]
           Is(w, D) == w = [s \in D |-> Value(w, s)]
           u == CHOOSE w : Is(w, SUBSET S)
           N == Cardinality(S)
<1>1. SumFunctionOnSet(f, S) = u[S]
  BY DEF SumFunctionOnSet, FoldFunctionOnSet, MapThenFoldSet
<1>2. N \in Nat /\ \A s \in SUBSET S : IsFiniteSet(s) /\ Cardinality(s) \in Nat /\ Cardinality(s) <= N
  BY FS_CardinalityType, FS_Subset
<1>3. \A s \in SUBSET S : s # {} => /\ Pick(s) \in s /\ s \ {Pick(s)} \in SUBSET S
                                    /\ Cardinality(s \ {Pick(s)}) = Cardinality(s) - 1
  <2>1. ASSUME NEW s \in SUBSET S, s # {} PROVE Pick(s) \in s
    BY <2>1
  <2> HIDE DEF Pick
  <2> QED BY <1>2, <2>1, FS_RemoveElement
<1> HIDE DEF Pick, u, N
<1> DEFINE G == {n \in 0..N : \E w : Is(w, Small(n))}
<1>4. 0 \in G
  <2>1. Small(0) = {{}}
    <3>1. \A s \in SUBSET S : Cardinality(s) <= 0 => s = {}
      BY <1>2, FS_EmptySet
    <3>2. {} \in SUBSET S /\ Cardinality({}) = 0
      BY FS_EmptySet
    <3> QED BY <3>1, <3>2
  <2>2. PICK w : w = [s \in {{}} |-> 0]
    OBVIOUS
  <2>3. Is(w, Small(0))
    BY <2>1, <2>2
  <2> HIDE DEF Small
  <2>4. \E x : Is(x, Small(0))
    BY <2>3
  <2>5. 0 \in 0..N
    BY <1>2
  <2> QED BY <2>4, <2>5
<1>5. ASSUME NEW n \in 0..N, n \in G, n < N PROVE n + 1 \in G
  <2>1. PICK w : Is(w, Small(n))
    BY <1>5
  <2> DEFINE v == [s \in Small(n + 1) |-> IF s \in Small(n) THEN w[s] ELSE Value(w, s)]
  <2>2. ASSUME NEW s \in Small(n + 1) PROVE v[s] = Value(v, s)
    <3>1. v[s] = Value(w, s)
      <4>1. s \in Small(n) => w[s] = Value(w, s)
        BY <2>1
      <4> QED BY <4>1
    <3>2. CASE s = {}
      BY <3>1, <3>2
    <3>3. CASE s # {}
      <4>1. PICK r : r = s \ {Pick(s)}
        OBVIOUS
      <4>2. r \in SUBSET S /\ Cardinality(r) = Cardinality(s) - 1 /\ Cardinality(s) \in Nat /\ Cardinality(s) <= n + 1
        BY <1>2, <1>3, <3>3, <4>1
      <4>3. r \in Small(n) /\ r \in Small(n + 1)
        BY <4>2
      <4>4. v[r] = w[r]
        BY <4>3
      <4> HIDE DEF v
      <4> QED BY <3>1, <3>3, <4>1, <4>4
    <3> QED BY <3>2, <3>3
  <2>3. v = [s \in Small(n + 1) |-> v[s]]
    OBVIOUS
  <2> HIDE DEF v
  <2>4. Is(v, Small(n + 1))
    BY <2>2, <2>3
  <2>5. n + 1 \in 0..N
    BY <1>2, <1>5
  <2> QED BY <2>4, <2>5
<1>6. PICK w : Is(w, SUBSET S)
  <2>1. Small(N) = SUBSET S
    BY <1>2
  <2> HIDE DEF Small
  <2>2. N \in G
    <3> HIDE DEF G
    <3>1. \A i \in 0..N : i \in G
      BY <1>2, <1>4, <1>5, UpTo
    <3> QED BY <1>2, <3>1
  <2> QED BY <2>1, <2>2
<1>7. Is(u, SUBSET S)
  BY <1>6 DEF u
<1>8. \A s \in SUBSET S : u[s] = Value(u, s)
  BY <1>7
<1>9. Adds(u, f, S)
  <2>1. u[{}] = 0
    BY <1>8
  <2>2. ASSUME NEW s \in SUBSET S, s # {} PROVE \E x \in s : u[s] = f[x] + u[s \ {x}]
    BY <1>3, <1>8, <2>2
  <2> QED BY <2>1, <2>2 DEF Adds
<1> QED BY <1>1, <1>9

(* Whichever member is taken first, the sum is the same.                                 *)
LEMMA AddsAny ==
  ASSUME NEW f, NEW S, IsFiniteSet(S), \A x \in S : f[x] \in Int, NEW w, Adds(w, f, S)
  PROVE  \A s \in SUBSET S : w[s] \in Int /\ \A x \in s : w[s] = f[x] + w[s \ {x}]
<1> DEFINE N == Cardinality(S)
           OK(s) == w[s] \in Int /\ \A x \in s : w[s] = f[x] + w[s \ {x}]
           G == {n \in 0..N : \A s \in SUBSET S : Cardinality(s) <= n => OK(s)}
<1>1. N \in Nat /\ \A s \in SUBSET S : IsFiniteSet(s) /\ Cardinality(s) \in Nat /\ Cardinality(s) <= N
  BY FS_CardinalityType, FS_Subset
<1>2. \A s \in SUBSET S, x \in S : x \in s => s \ {x} \in SUBSET S /\ Cardinality(s \ {x}) = Cardinality(s) - 1
  BY <1>1, FS_RemoveElement
<1> HIDE DEF N
<1>3. 0 \in G
  <2>1. ASSUME NEW s \in SUBSET S, Cardinality(s) <= 0 PROVE OK(s)
    <3>1. s = {}
      BY <1>1, <2>1, FS_EmptySet
    <3> QED BY <3>1 DEF Adds
  <2> QED BY <1>1, <2>1
<1>4. ASSUME NEW n \in 0..N, n \in G, n < N PROVE n + 1 \in G
  <2>1. ASSUME NEW r \in SUBSET S, Cardinality(r) <= n PROVE OK(r)
    BY <1>4, <2>1
  <2>2. ASSUME NEW s \in SUBSET S, Cardinality(s) <= n + 1 PROVE OK(s)
    <3>1. CASE s = {}
      BY <3>1 DEF Adds
    <3>2. CASE s # {}
      <4>1. PICK y \in s : w[s] = f[y] + w[s \ {y}]
        BY <3>2 DEF Adds
      <4>2. \A x \in s : OK(s \ {x})
        <5>1. ASSUME NEW x \in s PROVE s \ {x} \in SUBSET S /\ Cardinality(s \ {x}) <= n
          <6>1. s \ {x} \in SUBSET S /\ Cardinality(s \ {x}) = Cardinality(s) - 1
            BY <1>2
          <6> QED BY <1>1, <2>2, <6>1
        <5> HIDE DEF OK
        <5> QED BY <2>1, <5>1
      <4>3. w[s] \in Int
        <5>1. w[s \ {y}] \in Int /\ f[y] \in Int
          BY <4>2
        <5> QED BY <4>1, <5>1
      <4>4. ASSUME NEW x \in s PROVE w[s] = f[x] + w[s \ {x}]
        <5>1. CASE x = y
          BY <4>1, <5>1
        <5>2. CASE x # y
          <6>1. PICK r : r = s \ {x, y}
            OBVIOUS
          <6>2. (s \ {x}) \ {y} = r /\ (s \ {y}) \ {x} = r
            BY <6>1
          <6>3. w[s \ {x}] = f[y] + w[r]
            BY <4>2, <5>2, <6>2
          <6>4. w[s \ {y}] = f[x] + w[r]
            BY <4>2, <5>2, <6>2
          <6>5. w[r] \in Int
            <7>1. r \in SUBSET S /\ Cardinality(r) <= n
              <8>1. s \ {y} \in SUBSET S /\ Cardinality(s \ {y}) = Cardinality(s) - 1
                BY <1>2
              <8>2. r \in SUBSET S /\ Cardinality(r) = Cardinality(s \ {y}) - 1
                BY <1>2, <5>2, <6>2, <8>1
              <8> QED BY <1>1, <2>2, <8>1, <8>2
            <7> QED BY <2>1, <7>1
          <6>6. f[x] \in Int /\ f[y] \in Int
            OBVIOUS
          <6> HIDE DEF OK
          <6> QED BY <4>1, <6>3, <6>4, <6>5, <6>6
        <5> QED BY <5>1, <5>2
      <4> QED BY <4>3, <4>4
    <3> QED BY <3>1, <3>2
  <2>3. n + 1 \in 0..N
    BY <1>1, <1>4
  <2> HIDE DEF OK
  <2> QED BY <2>2, <2>3
<1>5. \A i \in 0..N : i \in G
  <2> HIDE DEF G
  <2> QED BY <1>1, <1>3, <1>4, UpTo
<1>6. N \in G
  BY <1>1, <1>5
<1> QED BY <1>1, <1>6

(* Two functions that agree on S have the same sum.                                      *)
LEMMA AddsSame ==
  ASSUME NEW f, NEW g, NEW S, IsFiniteSet(S), \A x \in S : f[x] \in Int, \A x \in S : g[x] = f[x],
         NEW w, Adds(w, f, S), NEW v, Adds(v, g, S)
  PROVE  \A s \in SUBSET S : w[s] = v[s]
<1> DEFINE N == Cardinality(S)
           G == {n \in 0..N : \A s \in SUBSET S : Cardinality(s) <= n => w[s] = v[s]}
<1>1. N \in Nat /\ \A s \in SUBSET S : IsFiniteSet(s) /\ Cardinality(s) \in Nat /\ Cardinality(s) <= N
  BY FS_CardinalityType, FS_Subset
<1>2. /\ \A s \in SUBSET S : \A x \in s : w[s] = f[x] + w[s \ {x}]
      /\ \A s \in SUBSET S : \A x \in s : v[s] = g[x] + v[s \ {x}]
  <2>2. \A x \in S : g[x] \in Int
    OBVIOUS
  <2>3. \A s \in SUBSET S : w[s] \in Int /\ \A x \in s : w[s] = f[x] + w[s \ {x}]
    BY AddsAny
  <2>4. \A s \in SUBSET S : v[s] \in Int /\ \A x \in s : v[s] = g[x] + v[s \ {x}]
    BY <2>2, AddsAny
  <2> QED BY <2>3, <2>4
<1> HIDE DEF N
<1>3. 0 \in G
  <2>1. ASSUME NEW s \in SUBSET S, Cardinality(s) <= 0 PROVE w[s] = v[s]
    <3>1. s = {}
      BY <1>1, <2>1, FS_EmptySet
    <3> QED BY <3>1 DEF Adds
  <2> QED BY <1>1, <2>1
<1>4. ASSUME NEW n \in 0..N, n \in G, n < N PROVE n + 1 \in G
  <2>1. ASSUME NEW s \in SUBSET S, Cardinality(s) <= n + 1 PROVE w[s] = v[s]
    <3>1. CASE s = {}
      BY <3>1 DEF Adds
    <3>2. CASE s # {}
      <4>1. PICK x \in s : TRUE
        BY <3>2
      <4>2. s \ {x} \in SUBSET S /\ Cardinality(s \ {x}) = Cardinality(s) - 1
        BY <1>1, FS_RemoveElement
      <4>3. w[s \ {x}] = v[s \ {x}]
        BY <1>1, <1>4, <2>1, <4>2
      <4> QED BY <1>2, <4>3
    <3> QED BY <3>1, <3>2
  <2>2. n + 1 \in 0..N
    BY <1>1, <1>4
  <2> QED BY <2>1, <2>2
<1>5. \A i \in 0..N : i \in G
  <2> HIDE DEF G
  <2> QED BY <1>1, <1>3, <1>4, UpTo
<1>6. N \in G
  BY <1>1, <1>5
<1> QED BY <1>1, <1>6

(* The laws of a sum.                                                                    *)
LEMMA SumOf ==
  ASSUME NEW f, NEW S, IsFiniteSet(S), \A x \in S : f[x] \in Int
  PROVE  /\ SumFunctionOnSet(f, {}) = 0
         /\ SumFunctionOnSet(f, S) \in Int
         /\ \A x \in S : SumFunctionOnSet(f, S) = f[x] + SumFunctionOnSet(f, S \ {x})
<1>1. PICK w : Adds(w, f, S) /\ SumFunctionOnSet(f, S) = w[S]
  BY SumWalk
<1>2. w[S] \in Int /\ \A x \in S : w[S] = f[x] + w[S \ {x}]
  BY <1>1, AddsAny
<1>3. ASSUME NEW T, T \subseteq S PROVE SumFunctionOnSet(f, T) = w[T]
  <2>1. IsFiniteSet(T)
    BY <1>3, FS_Subset
  <2>2. PICK v : Adds(v, f, T) /\ SumFunctionOnSet(f, T) = v[T]
    BY <2>1, SumWalk
  <2>3. Adds(w, f, T)
    BY <1>1, <1>3 DEF Adds
  <2>4. \A x \in T : f[x] \in Int
    BY <1>3
  <2>5. \A s \in SUBSET T : w[s] = v[s]
    BY <2>1, <2>2, <2>3, <2>4, AddsSame
  <2> QED BY <2>2, <2>5
<1>4. SumFunctionOnSet(f, {}) = 0
  BY <1>1, <1>3 DEF Adds
<1> QED BY <1>1, <1>2, <1>3, <1>4

LEMMA SumSame ==
  ASSUME NEW f, NEW g, NEW S, IsFiniteSet(S), \A x \in S : f[x] \in Int, \A x \in S : g[x] = f[x]
  PROVE  SumFunctionOnSet(f, S) = SumFunctionOnSet(g, S)
<1>1. PICK w : Adds(w, f, S) /\ SumFunctionOnSet(f, S) = w[S]
  BY SumWalk
<1>2. PICK v : Adds(v, g, S) /\ SumFunctionOnSet(g, S) = v[S]
  BY SumWalk
<1> QED BY <1>1, <1>2, AddsSame

(* The sum over a part and over the rest.                                                *)
LEMMA SumSplit ==
  ASSUME NEW f, NEW S, IsFiniteSet(S), \A x \in S : f[x] \in Int, NEW T, T \subseteq S
  PROVE  SumFunctionOnSet(f, S) = SumFunctionOnSet(f, T) + SumFunctionOnSet(f, S \ T)
<1> DEFINE Sum(s) == SumFunctionOnSet(f, s)
           N == Cardinality(T)
           G == {n \in 0..N : \A s \in SUBSET T : Cardinality(s) <= n => Sum(S) = Sum(s) + Sum(S \ s)}
<1>1. IsFiniteSet(T)
  BY FS_Subset
<1>2. N \in Nat /\ \A s \in SUBSET T : IsFiniteSet(s) /\ Cardinality(s) \in Nat /\ Cardinality(s) <= N
  BY <1>1, FS_CardinalityType, FS_Subset
<1>3. \A s \in SUBSET S : Sum(s) \in Int /\ \A x \in s : Sum(s) = f[x] + Sum(s \ {x})
  <2>1. ASSUME NEW s \in SUBSET S PROVE Sum(s) \in Int /\ \A x \in s : Sum(s) = f[x] + Sum(s \ {x})
    <3>1. IsFiniteSet(s) /\ \A x \in s : f[x] \in Int
      BY FS_Subset
    <3> QED BY <3>1, SumOf
  <2> QED BY <2>1
<1>4. Sum({}) = 0
  BY SumOf
<1> HIDE DEF N, Sum
<1>5. 0 \in G
  <2>1. ASSUME NEW s \in SUBSET T, Cardinality(s) <= 0 PROVE Sum(S) = Sum(s) + Sum(S \ s)
    <3>1. s = {}
      BY <1>2, <2>1, FS_EmptySet
    <3>2. S \ s = S
      BY <3>1
    <3>3. Sum(S) \in Int
      BY <1>3
    <3> QED BY <1>4, <3>1, <3>2, <3>3
  <2> QED BY <1>2, <2>1
<1>6. ASSUME NEW n \in 0..N, n \in G, n < N PROVE n + 1 \in G
  <2>1. ASSUME NEW s \in SUBSET T, Cardinality(s) <= n + 1 PROVE Sum(S) = Sum(s) + Sum(S \ s)
    <3>1. CASE s = {}
      <4>1. S \ s = S
        BY <3>1
      <4>2. Sum(S) \in Int
        BY <1>3
      <4> QED BY <1>4, <3>1, <4>1, <4>2
    <3>2. CASE s # {}
      <4>1. PICK x \in s : TRUE
        BY <3>2
      <4>2. PICK r : r = s \ {x}
        OBVIOUS
      <4>3. r \in SUBSET T /\ Cardinality(r) = Cardinality(s) - 1
        BY <1>2, <4>2, FS_RemoveElement
      <4>4. Sum(S) = Sum(r) + Sum(S \ r)
        BY <1>2, <1>6, <2>1, <4>3
      <4>5. Sum(s) = f[x] + Sum(r)
        BY <1>3, <4>2
      <4>6. Sum(S \ r) = f[x] + Sum(S \ s)
        <5>1. (S \ r) \ {x} = S \ s /\ x \in S \ r
          BY <4>2
        <5>2. S \ r \in SUBSET S
          OBVIOUS
        <5> QED BY <1>3, <5>1, <5>2
      <4>7. Sum(r) \in Int /\ Sum(S \ s) \in Int /\ f[x] \in Int
        BY <1>3, <4>3
      <4> QED BY <4>4, <4>5, <4>6, <4>7
    <3> QED BY <3>1, <3>2
  <2>2. n + 1 \in 0..N
    BY <1>2, <1>6
  <2> QED BY <2>1, <2>2
<1>7. \A i \in 0..N : i \in G
  <2> HIDE DEF G
  <2> QED BY <1>2, <1>5, <1>6, UpTo
<1>8. N \in G
  BY <1>2, <1>7
<1>9. Sum(S) = Sum(T) + Sum(S \ T)
  BY <1>2, <1>8
<1> QED BY <1>9 DEF Sum

(* A sum of natural numbers is one.                                                      *)
LEMMA SumNat ==
  ASSUME NEW f, NEW S, IsFiniteSet(S), \A x \in S : f[x] \in Nat
  PROVE  SumFunctionOnSet(f, S) \in Nat
<1> DEFINE Sum(s) == SumFunctionOnSet(f, s)
           N == Cardinality(S)
           G == {n \in 0..N : \A s \in SUBSET S : Cardinality(s) <= n => Sum(s) \in Nat}
<1>1. N \in Nat /\ \A s \in SUBSET S : IsFiniteSet(s) /\ Cardinality(s) \in Nat /\ Cardinality(s) <= N
  BY FS_CardinalityType, FS_Subset
<1>2. \A s \in SUBSET S : \A x \in s : Sum(s) = f[x] + Sum(s \ {x})
  <2>1. ASSUME NEW s \in SUBSET S PROVE \A x \in s : Sum(s) = f[x] + Sum(s \ {x})
    <3>1. IsFiniteSet(s) /\ \A x \in s : f[x] \in Int
      BY FS_Subset
    <3> QED BY <3>1, SumOf
  <2> QED BY <2>1
<1>3. Sum({}) = 0
  <2>1. \A x \in S : f[x] \in Int
    OBVIOUS
  <2> QED BY <2>1, SumOf
<1> HIDE DEF N, Sum
<1>4. 0 \in G
  <2>1. ASSUME NEW s \in SUBSET S, Cardinality(s) <= 0 PROVE Sum(s) \in Nat
    <3>1. s = {}
      BY <1>1, <2>1, FS_EmptySet
    <3> QED BY <1>3, <3>1
  <2> QED BY <1>1, <2>1
<1>5. ASSUME NEW n \in 0..N, n \in G, n < N PROVE n + 1 \in G
  <2>1. ASSUME NEW s \in SUBSET S, Cardinality(s) <= n + 1 PROVE Sum(s) \in Nat
    <3>1. CASE s = {}
      BY <1>3, <3>1
    <3>2. CASE s # {}
      <4>1. PICK x \in s : TRUE
        BY <3>2
      <4>2. s \ {x} \in SUBSET S /\ Cardinality(s \ {x}) = Cardinality(s) - 1
        BY <1>1, FS_RemoveElement
      <4>3. Sum(s \ {x}) \in Nat
        BY <1>1, <1>5, <2>1, <4>2
      <4>4. Sum(s) = f[x] + Sum(s \ {x}) /\ f[x] \in Nat
        BY <1>2
      <4> QED BY <4>3, <4>4
    <3> QED BY <3>1, <3>2
  <2>2. n + 1 \in 0..N
    BY <1>1, <1>5
  <2> QED BY <2>1, <2>2
<1>6. \A i \in 0..N : i \in G
  <2> HIDE DEF G
  <2> QED BY <1>1, <1>4, <1>5, UpTo
<1>7. N \in G
  BY <1>1, <1>6
<1>8. Sum(S) \in Nat
  BY <1>1, <1>7
<1> QED BY <1>8 DEF Sum

-----------------------------------------------------------------------------
(* The counts of an entry *)

LEMMA TypesFinite == IsFiniteSet(Type)
<1>1. Types \in Seq(Type) /\ Members(Types) = Type
  BY TypesOnce DEF Members, Type, Range
<1>2. Len(Types) \in Nat /\ Types \in [1..Len(Types) -> Type]
  BY <1>1
<1>3. Types \in Surjection(1..Len(Types), Type)
  BY <1>1, <1>2 DEF Surjection, Members
<1>4. IsFiniteSet(1..Len(Types))
  BY <1>2, FS_Interval
<1> QED BY <1>3, <1>4, FS_Surjection

LEMMA EntryFinite ==
  ASSUME NEW e, IsCent(e)
  PROVE  \A S \in SUBSET DOMAIN e.rrs : IsFiniteSet(S) /\ Cardinality(S) \in Nat
BY TypesFinite, FS_Subset, FS_CardinalityType DEF IsCent

(* What sets of records take.                                                            *)
LEMMA SizesOf ==
  ASSUME NEW rrs, IsFiniteSet(DOMAIN rrs), \A t \in DOMAIN rrs : rrs[t].n \in Nat, NEW S, S \subseteq DOMAIN rrs
  PROVE  /\ Sizes(rrs, S) \in Nat
         /\ Sizes(rrs, DOMAIN rrs) = Sizes(rrs, S) + Sizes(rrs, DOMAIN rrs \ S)
         /\ \A t \in S : Sizes(rrs, S) = SizeOf(rrs[t]) + Sizes(rrs, S \ {t})
         /\ Sizes(rrs, {}) = 0
<1>1. PICK f : f = [t \in DOMAIN rrs |-> SizeOf(rrs[t])]
  OBVIOUS
<1>2. \A T : Sizes(rrs, T) = SumFunctionOnSet(f, T)
  BY <1>1 DEF Sizes
<1>3. \A t \in DOMAIN rrs : f[t] \in Nat /\ f[t] \in Int /\ f[t] = SizeOf(rrs[t])
  BY <1>1 DEF SizeOf
<1>4. IsFiniteSet(S) /\ (\A t \in S : f[t] \in Nat) /\ (\A t \in S : f[t] \in Int)
  BY <1>3, FS_Subset
<1>5. SumFunctionOnSet(f, S) \in Nat
  BY <1>4, SumNat
<1>6. /\ SumFunctionOnSet(f, {}) = 0
      /\ \A t \in S : SumFunctionOnSet(f, S) = f[t] + SumFunctionOnSet(f, S \ {t})
  BY <1>4, SumOf
<1>7. SumFunctionOnSet(f, DOMAIN rrs) = SumFunctionOnSet(f, S) + SumFunctionOnSet(f, DOMAIN rrs \ S)
  <2>1. \A t \in DOMAIN rrs : f[t] \in Int
    BY <1>3
  <2> QED BY <2>1, SumSplit
<1> QED BY <1>2, <1>3, <1>5, <1>6, <1>7

(* One set taken first.                                                                  *)
LEMMA SizesTake ==
  ASSUME NEW rrs, NEW S, S = DOMAIN rrs, IsFiniteSet(S), \A u \in S : rrs[u].n \in Nat, NEW t \in S
  PROVE  Sizes(rrs, S) = SizeOf(rrs[t]) + Sizes(rrs, S \ {t})
<1>1. PICK f : f = [u \in DOMAIN rrs |-> SizeOf(rrs[u])]
  OBVIOUS
<1>2. \A T : Sizes(rrs, T) = SumFunctionOnSet(f, T)
  BY <1>1 DEF Sizes
<1>3. \A u \in S : f[u] \in Int /\ f[u] = SizeOf(rrs[u])
  BY <1>1 DEF SizeOf
<1>4. \A u \in S : SumFunctionOnSet(f, S) = f[u] + SumFunctionOnSet(f, S \ {u})
  BY <1>3, SumOf
<1> QED BY <1>2, <1>3, <1>4

LEMMA SizesSame ==
  ASSUME NEW rrs, NEW R, NEW S, IsFiniteSet(S), S \subseteq DOMAIN rrs, S \subseteq DOMAIN R,
         \A t \in S : rrs[t].n \in Nat, \A t \in S : R[t].n = rrs[t].n
  PROVE  Sizes(R, S) = Sizes(rrs, S)
<1>1. PICK f : f = [t \in DOMAIN rrs |-> SizeOf(rrs[t])]
  OBVIOUS
<1>2. PICK g : g = [t \in DOMAIN R |-> SizeOf(R[t])]
  OBVIOUS
<1>3. \A t \in S : f[t] \in Int
  BY <1>1 DEF SizeOf
<1>4. \A t \in S : g[t] = f[t]
  BY <1>1, <1>2 DEF SizeOf
<1>5. SumFunctionOnSet(f, S) = SumFunctionOnSet(g, S)
  BY <1>3, <1>4, SumSame
<1> QED BY <1>1, <1>2, <1>5 DEF Sizes

(* An entry whose count may be short of its sets by k; IsSized is the case of 0.         *)
SizedBy(e, k) == /\ HasSizes(e) /\ e.nrr \in Int /\ e.cs \in Int
                 /\ e.neg => e.nrr = 0
                 /\ Cardinality(Surely(e)) <= e.nrr + k

LEMMA SizedIs ==
  ASSUME NEW e, IsCent(e)
  PROVE  IsSized(e) <=> SizedBy(e, 0)
<1>1. Cardinality(Surely(e)) \in Nat
  BY EntryFinite DEF Surely
<1> QED BY <1>1 DEF IsSized, SizedBy

(* What that is.                                                                         *)
LEMMA FewerCounts ==
  ASSUME NEW e, IsCent(e), NEW k \in {0, 1}, SizedBy(e, k), NEW S, S \subseteq DOMAIN e.rrs, NEW f, Fewer(e, f, S)
  PROVE  /\ S \subseteq Surely(e) => SizedBy(f, k)
         /\ k = 0 /\ Cardinality(S) = 1 => SizedBy(f, 1)
         /\ CountsItself(e) => CountsItself(f)
         /\ Sizes(e.rrs, S) \in Nat
<1>1. \A T \in SUBSET DOMAIN e.rrs : IsFiniteSet(T) /\ Cardinality(T) \in Nat
  BY EntryFinite
<1>2. PICK R : R = f.rrs
  OBVIOUS
<1>3. DOMAIN R = DOMAIN e.rrs \ S /\ \A t \in DOMAIN R : R[t] = e.rrs[t]
  BY <1>2 DEF Fewer, Restrict
<1>4. Surely(f) = Surely(e) \ S
  BY <1>2, <1>3 DEF Surely
<1>5. Surely(e) \in SUBSET DOMAIN e.rrs
  BY DEF Surely
<1>6. Cardinality(Surely(f)) = Cardinality(Surely(e)) - Cardinality(Surely(e) \cap S)
  BY <1>1, <1>4, <1>5, FS_Difference
<1>7. /\ Cardinality(Surely(e)) \in Nat /\ Cardinality(S) \in Nat /\ Cardinality(Surely(e) \cap S) \in Nat
      /\ Cardinality(DOMAIN e.rrs) \in Nat /\ Cardinality(Surely(e)) <= e.nrr + k /\ e.nrr \in Int /\ e.cs \in Int
  BY <1>1, <1>5 DEF SizedBy
<1>8. Sizes(e.rrs, S) \in Nat /\ Sizes(e.rrs, DOMAIN e.rrs) = Sizes(e.rrs, S) + Sizes(e.rrs, DOMAIN e.rrs \ S)
      /\ Sizes(e.rrs, DOMAIN e.rrs \ S) \in Nat
  BY <1>1, SizesOf DEF SizedBy, HasSizes
<1>9. Sizes(R, DOMAIN R) = Sizes(e.rrs, DOMAIN e.rrs \ S)
  <2>1. \A t \in DOMAIN R : e.rrs[t].n \in Nat
    BY <1>3 DEF SizedBy, HasSizes
  <2>2. IsFiniteSet(DOMAIN R) /\ DOMAIN R \subseteq DOMAIN e.rrs
    BY <1>1, <1>3
  <2> QED BY <1>3, <2>1, <2>2, SizesSame
<1>10. HasSizes(f)
  BY <1>2, <1>3 DEF SizedBy, HasSizes
<1>11. f.nrr \in Int /\ f.cs \in Int /\ f.nrr = e.nrr - Cardinality(S) /\ f.cs = e.cs - Sizes(e.rrs, S)
  BY <1>7, <1>8 DEF Fewer
<1>12. f.neg => f.nrr = 0
  <2> SUFFICES ASSUME f.neg PROVE f.nrr = 0
    OBVIOUS
  <2>1. S = {} /\ e.nrr = 0
    BY DEF Fewer, IsCent, SizedBy
  <2>2. Cardinality(S) = 0
    BY <2>1, FS_EmptySet
  <2> QED BY <1>11, <2>1, <2>2
<1>13. S \subseteq Surely(e) => SizedBy(f, k)
  <2>1. PICK T : T = Surely(e) \cap S
    OBVIOUS
  <2>2. S \subseteq Surely(e) => Cardinality(T) = Cardinality(S)
    <3>1. S \subseteq Surely(e) => T = S
      BY <2>1
    <3> QED BY <3>1
  <2>3. Cardinality(Surely(f)) = Cardinality(Surely(e)) - Cardinality(T)
    BY <1>6, <2>1
  <2>4. S \subseteq Surely(e) => Cardinality(Surely(f)) <= f.nrr + k
    BY <1>7, <1>11, <2>2, <2>3
  <2> QED BY <1>10, <1>11, <1>12, <2>4 DEF SizedBy
<1>14. k = 0 /\ Cardinality(S) = 1 => SizedBy(f, 1)
  BY <1>6, <1>7, <1>10, <1>11, <1>12 DEF SizedBy
<1>15. CountsItself(e) => CountsItself(f)
  <2>1. Cardinality(DOMAIN R) = Cardinality(DOMAIN e.rrs) - Cardinality(S)
    <3>1. DOMAIN e.rrs \cap S = S
      OBVIOUS
    <3> QED BY <1>1, <1>3, <3>1, FS_Difference
  <2>2. f.ext = e.ext
    BY DEF Fewer
  <2> QED BY <1>2, <1>7, <1>8, <1>9, <1>11, <2>1, <2>2 DEF CountsItself, TrueSize
<1> QED BY <1>8, <1>13, <1>14, <1>15

(* The array of the less used types goes.                                                *)
LEMMA ArrayGone ==
  ASSUME NEW f, IsCent(f), SizedBy(f, 0), NEW idle \in BOOLEAN, idle => f.ext,
         NEW g, g.rrs = f.rrs, g.neg = f.neg, g.nrr = f.nrr, g.ext \in BOOLEAN, g.ext <=> f.ext /\ ~idle,
         g.cs = f.cs - (IF idle THEN 1 ELSE 0)
  PROVE  SizedBy(g, 0) /\ (CountsItself(f) => CountsItself(g))
<1>1. g.cs \in Int /\ f.cs \in Int
  BY DEF SizedBy
<1>2. Surely(g) = Surely(f) /\ HasSizes(g)
  BY DEF Surely, SizedBy, HasSizes
<1>3. SizedBy(g, 0)
  BY <1>1, <1>2 DEF SizedBy
<1>4. Sizes(f.rrs, DOMAIN f.rrs) \in Nat
  <2>1. IsFiniteSet(DOMAIN f.rrs)
    BY EntryFinite
  <2> QED BY <2>1, SizesOf DEF SizedBy, HasSizes
<1>5. f.ext \in BOOLEAN
  BY DEF IsCent
<1>6. CountsItself(f) => CountsItself(g)
  BY <1>1, <1>4, <1>5 DEF CountsItself, TrueSize
<1> QED BY <1>3, <1>6

(* An entry with one more set of records. *)
LEMMA MoreCounts ==
  ASSUME NEW e, IsCent(e), NEW k \in {0, 1}, SizedBy(e, k), NEW t \in Type \ DOMAIN e.rrs, NEW rs, IsSet(rs), rs.n \in Nat,
         k = 1 => rs.local /\ t \notin Alias \cup Record \cup Ptr,
         NEW f, ~f.neg, f.ext \in BOOLEAN, f.ext <=> e.ext \/ t \in ExtType, f.nrr = e.nrr + 1,
         f.cs = e.cs + SizeOf(rs) + (IF t \in ExtType /\ ~e.ext THEN 1 ELSE 0),
         DOMAIN f.rrs = DOMAIN e.rrs \cup {t}, f.rrs[t] = rs, \A u \in DOMAIN e.rrs : f.rrs[u] = e.rrs[u]
  PROVE  SizedBy(f, 0) /\ (CountsItself(e) => CountsItself(f))
<1>1. \A T \in SUBSET DOMAIN e.rrs : IsFiniteSet(T) /\ Cardinality(T) \in Nat
  BY EntryFinite
<1>2. IsFiniteSet(DOMAIN f.rrs) /\ Cardinality(DOMAIN f.rrs) = Cardinality(DOMAIN e.rrs) + 1
  BY <1>1, FS_AddElement
<1>3. HasSizes(f)
  BY DEF SizedBy, HasSizes
<1>4. Surely(e) \in SUBSET DOMAIN e.rrs /\ t \notin Surely(e)
  BY DEF Surely
<1>5. Surely(f) = Surely(e) \cup (IF rs.local /\ t \notin Alias \cup Record \cup Ptr THEN {} ELSE {t})
  <2>1. ASSUME NEW u \in DOMAIN e.rrs PROVE u \in Surely(f) <=> u \in Surely(e)
    BY <2>1 DEF Surely
  <2>2. t \in Surely(f) <=> ~(rs.local /\ t \notin Alias \cup Record \cup Ptr)
    BY DEF Surely
  <2>3. Surely(f) \subseteq DOMAIN e.rrs \cup {t}
    BY DEF Surely
  <2> QED BY <1>4, <2>1, <2>2, <2>3
<1>6. IsFiniteSet(Surely(e)) /\ Cardinality(Surely(e)) \in Nat
  BY <1>1, <1>4
<1>7. Cardinality(Surely(f)) <= f.nrr
  <2>1. CASE rs.local /\ t \notin Alias \cup Record \cup Ptr
    <3>1. Surely(f) = Surely(e)
      BY <1>5, <2>1
    <3> QED BY <1>6, <3>1 DEF SizedBy
  <2>2. CASE ~(rs.local /\ t \notin Alias \cup Record \cup Ptr)
    <3>1. Surely(f) = Surely(e) \cup {t} /\ k = 0
      BY <1>5, <2>2
    <3>2. Cardinality(Surely(f)) = Cardinality(Surely(e)) + 1
      <4>1. PICK T : T = Surely(e)
        OBVIOUS
      <4>2. IsFiniteSet(T) /\ t \notin T
        BY <1>4, <1>6, <4>1
      <4>3. Cardinality(T \cup {t}) = Cardinality(T) + 1
        BY <4>2, FS_AddElement
      <4> QED BY <3>1, <4>1, <4>3
    <3> QED BY <1>6, <3>1, <3>2 DEF SizedBy
  <2> QED BY <2>1, <2>2
<1>8. SizeOf(rs) \in Nat /\ f.nrr \in Int /\ f.cs \in Int
  <2>1. e.nrr \in Int /\ e.cs \in Int
    BY DEF SizedBy
  <2>2. SizeOf(rs) \in Nat
    BY DEF SizeOf
  <2> QED BY <2>1, <2>2
<1>9. SizedBy(f, 0)
  BY <1>3, <1>7, <1>8 DEF SizedBy
<1>10. Sizes(f.rrs, DOMAIN f.rrs) = SizeOf(rs) + Sizes(e.rrs, DOMAIN e.rrs) /\ Sizes(e.rrs, DOMAIN e.rrs) \in Nat
  <2>1. \A u \in DOMAIN f.rrs : f.rrs[u].n \in Nat
    BY <1>3 DEF HasSizes
  <2>2. Sizes(f.rrs, DOMAIN f.rrs) = SizeOf(f.rrs[t]) + Sizes(f.rrs, DOMAIN f.rrs \ {t})
    <3>1. PICK R : R = f.rrs
      OBVIOUS
    <3>2. IsFiniteSet(DOMAIN R) /\ (\A u \in DOMAIN R : R[u].n \in Nat) /\ t \in DOMAIN R
      BY <1>2, <2>1, <3>1
    <3>3. PICK S : S = DOMAIN R
      OBVIOUS
    <3>4. Sizes(R, S) = SizeOf(R[t]) + Sizes(R, S \ {t})
      <4>1. IsFiniteSet(S) /\ (\A u \in S : R[u].n \in Nat) /\ t \in S
        BY <3>2, <3>3
      <4> QED BY <3>3, <4>1, SizesTake
    <3> QED BY <3>1, <3>3, <3>4
  <2>3. DOMAIN f.rrs \ {t} = DOMAIN e.rrs
    OBVIOUS
  <2>4. IsFiniteSet(DOMAIN e.rrs) /\ \A u \in DOMAIN e.rrs : e.rrs[u].n \in Nat
    BY <1>1 DEF SizedBy, HasSizes
  <2>5. Sizes(f.rrs, DOMAIN e.rrs) = Sizes(e.rrs, DOMAIN e.rrs)
    BY <2>4, SizesSame
  <2>6. Sizes(e.rrs, DOMAIN e.rrs) \in Nat
    BY <2>4, SizesOf
  <2> QED BY <2>2, <2>3, <2>5, <2>6
<1>11. CountsItself(e) => CountsItself(f)
  <2> SUFFICES ASSUME CountsItself(e) PROVE CountsItself(f)
    OBVIOUS
  <2>1. e.nrr = Cardinality(DOMAIN e.rrs) /\ e.cs = 1 + Sizes(e.rrs, DOMAIN e.rrs) + (IF e.ext THEN 1 ELSE 0)
    BY DEF CountsItself, TrueSize
  <2>2. e.ext \in BOOLEAN
    BY DEF IsCent
  <2>3. (IF f.ext THEN 1 ELSE 0) = (IF e.ext THEN 1 ELSE 0) + (IF t \in ExtType /\ ~e.ext THEN 1 ELSE 0)
    BY <2>2
  <2>4. f.cs = 1 + Sizes(f.rrs, DOMAIN f.rrs) + (IF f.ext THEN 1 ELSE 0)
    <3>1. PICK a \in {0, 1} : a = IF e.ext THEN 1 ELSE 0
      OBVIOUS
    <3>2. PICK b \in {0, 1} : b = IF t \in ExtType /\ ~e.ext THEN 1 ELSE 0
      OBVIOUS
    <3> QED BY <1>8, <1>10, <2>1, <2>3, <3>1, <3>2
  <2> QED BY <1>2, <2>1, <2>4 DEF CountsItself, TrueSize
<1> QED BY <1>9, <1>11

(* A change of an entry that leaves its numbers.                                         *)
LEMMA SameCounts ==
  ASSUME NEW e, IsCent(e), IsSized(e), NEW f, IsCent(f), f.neg = e.neg, f.nrr = e.nrr, f.cs = e.cs, f.ext = e.ext,
         DOMAIN f.rrs = DOMAIN e.rrs, \A t \in DOMAIN e.rrs : f.rrs[t].n = e.rrs[t].n /\ f.rrs[t].local = e.rrs[t].local
  PROVE  IsSized(f) /\ (CountsItself(e) => CountsItself(f))
<1>1. Surely(f) = Surely(e) /\ HasSizes(f)
  BY DEF Surely, IsSized, HasSizes
<1>2. IsSized(f)
  BY <1>1 DEF IsSized
<1>3. Sizes(f.rrs, DOMAIN e.rrs) = Sizes(e.rrs, DOMAIN e.rrs)
  <2>1. IsFiniteSet(DOMAIN e.rrs)
    BY EntryFinite
  <2>2. (\A t \in DOMAIN e.rrs : e.rrs[t].n \in Nat) /\ (\A t \in DOMAIN e.rrs : f.rrs[t].n = e.rrs[t].n)
    BY DEF IsSized, HasSizes
  <2> QED BY <2>1, <2>2, SizesSame
<1>4. CountsItself(e) => CountsItself(f)
  BY <1>3 DEF CountsItself, TrueSize
<1> QED BY <1>2, <1>4

-----------------------------------------------------------------------------
(* The ledger *)

(* What entries claim.                                                                   *)
LEMMA ClaimsOf ==
  ASSUME NEW es, IsFiniteSet(DOMAIN es), \A n \in DOMAIN es : es[n].cs \in Int, NEW S, S \subseteq DOMAIN es
  PROVE  /\ Claims(es, S) \in Int
         /\ Claims(es, DOMAIN es) = Claims(es, S) + Claims(es, DOMAIN es \ S)
         /\ \A n \in S : Claims(es, S) = es[n].cs + Claims(es, S \ {n})
         /\ Claims(es, {}) = 0
         /\ (\A n \in S : es[n].cs \in Nat) => Claims(es, S) \in Nat
<1>1. PICK f : f = [n \in DOMAIN es |-> es[n].cs]
  OBVIOUS
<1>2. \A T : Claims(es, T) = SumFunctionOnSet(f, T)
  BY <1>1 DEF Claims
<1>3. \A n \in DOMAIN es : f[n] \in Int /\ f[n] = es[n].cs
  BY <1>1
<1>4. IsFiniteSet(S) /\ (\A n \in S : f[n] \in Int)
  BY <1>3, FS_Subset
<1>5. (\A n \in S : es[n].cs \in Nat) => SumFunctionOnSet(f, S) \in Nat
  <2> SUFFICES ASSUME \A n \in S : es[n].cs \in Nat PROVE SumFunctionOnSet(f, S) \in Nat
    OBVIOUS
  <2>1. \A n \in S : f[n] \in Nat
    BY <1>3
  <2> QED BY <1>4, <2>1, SumNat
<1>6. /\ SumFunctionOnSet(f, {}) = 0 /\ SumFunctionOnSet(f, S) \in Int
      /\ \A n \in S : SumFunctionOnSet(f, S) = f[n] + SumFunctionOnSet(f, S \ {n})
  BY <1>4, SumOf
<1>7. SumFunctionOnSet(f, DOMAIN es) = SumFunctionOnSet(f, S) + SumFunctionOnSet(f, DOMAIN es \ S)
  <2>1. \A n \in DOMAIN es : f[n] \in Int
    BY <1>3
  <2> QED BY <2>1, SumSplit
<1> QED BY <1>2, <1>3, <1>5, <1>6, <1>7

(* One entry, and the others.                                                            *)
LEMMA ClaimsTake ==
  ASSUME NEW es, IsFiniteSet(DOMAIN es), \A n \in DOMAIN es : es[n].cs \in Int, NEW D, D = DOMAIN es, NEW n \in D
  PROVE  /\ Claims(es, D) = es[n].cs + Claims(es, D \ {n})
         /\ Claims(es, {n}) = es[n].cs
<1>1. PICK f : f = [m \in DOMAIN es |-> es[m].cs]
  OBVIOUS
<1>2. \A T : Claims(es, T) = SumFunctionOnSet(f, T)
  BY <1>1 DEF Claims
<1>3. (\A m \in D : f[m] \in Int) /\ f[n] = es[n].cs /\ es[n].cs \in Int
  BY <1>1
<1>4. SumFunctionOnSet(f, D) = f[n] + SumFunctionOnSet(f, D \ {n})
  <2>1. \A m \in D : SumFunctionOnSet(f, D) = f[m] + SumFunctionOnSet(f, D \ {m})
    BY <1>3, SumOf
  <2> QED BY <2>1
<1>5. SumFunctionOnSet(f, {n}) = f[n] + 0
  <2>1. PICK S : S = {n}
    OBVIOUS
  <2>2. IsFiniteSet(S) /\ \A m \in S : f[m] \in Int
    BY <1>3, <2>1, FS_Subset
  <2>3. SumFunctionOnSet(f, {}) = 0 /\ \A m \in S : SumFunctionOnSet(f, S) = f[m] + SumFunctionOnSet(f, S \ {m})
    BY <2>2, SumOf
  <2>4. S \ {n} = {}
    BY <2>1
  <2> QED BY <2>1, <2>3, <2>4
<1> QED BY <1>2, <1>3, <1>4, <1>5

LEMMA ClaimsSame ==
  ASSUME NEW es, NEW fs, NEW S, IsFiniteSet(S), S \subseteq DOMAIN es, S \subseteq DOMAIN fs,
         \A n \in S : es[n].cs \in Int, \A n \in S : fs[n].cs = es[n].cs
  PROVE  Claims(fs, S) = Claims(es, S)
<1>1. PICK f : f = [n \in DOMAIN es |-> es[n].cs]
  OBVIOUS
<1>2. PICK g : g = [n \in DOMAIN fs |-> fs[n].cs]
  OBVIOUS
<1>3. (\A n \in S : f[n] \in Int) /\ (\A n \in S : g[n] = f[n])
  BY <1>1, <1>2
<1>4. SumFunctionOnSet(f, S) = SumFunctionOnSet(g, S)
  BY <1>3, SumSame
<1> QED BY <1>1, <1>2, <1>4 DEF Claims

(* What changes in the claims when one entry does, and when one is new.                  *)
LEMMA ClaimsChange ==
  ASSUME NEW es, IsFiniteSet(DOMAIN es), \A m \in DOMAIN es : es[m].cs \in Int, NEW n \in DOMAIN es,
         NEW fs, DOMAIN fs = DOMAIN es, fs[n].cs \in Int, \A m \in DOMAIN es \ {n} : fs[m].cs = es[m].cs
  PROVE  Claims(fs, DOMAIN fs) = Claims(es, DOMAIN es) + (fs[n].cs - es[n].cs)
<1>1. PICK f : f = [m \in DOMAIN es |-> es[m].cs]
  OBVIOUS
<1>2. PICK g : g = [m \in DOMAIN fs |-> fs[m].cs]
  OBVIOUS
<1>3. PICK D : D = DOMAIN es
  OBVIOUS
<1>4. PICK S : S = D \ {n}
  OBVIOUS
<1>5. \A T : Claims(es, T) = SumFunctionOnSet(f, T) /\ Claims(fs, T) = SumFunctionOnSet(g, T)
  BY <1>1, <1>2 DEF Claims
<1>6. /\ \A m \in D : f[m] \in Int
      /\ \A m \in D : g[m] \in Int
      /\ \A m \in S : g[m] = f[m]
      /\ f[n] = es[n].cs /\ g[n] = fs[n].cs /\ n \in D /\ IsFiniteSet(D)
  BY <1>1, <1>2, <1>3, <1>4
<1>7. IsFiniteSet(S) /\ \A m \in S : f[m] \in Int
  BY <1>4, <1>6, FS_Subset
<1>8. SumFunctionOnSet(f, S) = SumFunctionOnSet(g, S) /\ SumFunctionOnSet(f, S) \in Int
  BY <1>6, <1>7, SumSame, SumOf
<1>9. SumFunctionOnSet(f, D) = f[n] + SumFunctionOnSet(f, S)
  BY <1>4, <1>6, SumOf
<1>10. SumFunctionOnSet(g, D) = g[n] + SumFunctionOnSet(g, S)
  BY <1>4, <1>6, SumOf
<1>11. SumFunctionOnSet(g, D) = SumFunctionOnSet(f, D) + (g[n] - f[n])
  BY <1>6, <1>8, <1>9, <1>10
<1> QED BY <1>3, <1>5, <1>6, <1>11

LEMMA ClaimsNew ==
  ASSUME NEW fs, IsFiniteSet(DOMAIN fs), \A m \in DOMAIN fs : fs[m].cs \in Int, NEW n \in DOMAIN fs,
         NEW es, DOMAIN es = DOMAIN fs \ {n}, \A m \in DOMAIN es : fs[m].cs = es[m].cs
  PROVE  Claims(fs, DOMAIN fs) = Claims(es, DOMAIN es) + fs[n].cs
<1>1. PICK f : f = [m \in DOMAIN es |-> es[m].cs]
  OBVIOUS
<1>2. PICK g : g = [m \in DOMAIN fs |-> fs[m].cs]
  OBVIOUS
<1>3. PICK D : D = DOMAIN fs
  OBVIOUS
<1>4. PICK S : S = D \ {n}
  OBVIOUS
<1>5. \A T : Claims(es, T) = SumFunctionOnSet(f, T) /\ Claims(fs, T) = SumFunctionOnSet(g, T)
  BY <1>1, <1>2 DEF Claims
<1>6. /\ \A m \in D : g[m] \in Int
      /\ \A m \in S : f[m] \in Int
      /\ \A m \in S : g[m] = f[m]
      /\ g[n] = fs[n].cs /\ n \in D /\ IsFiniteSet(D) /\ S = DOMAIN es
  BY <1>1, <1>2, <1>3, <1>4
<1>7. IsFiniteSet(S)
  BY <1>4, <1>6, FS_Subset
<1>8. SumFunctionOnSet(f, S) = SumFunctionOnSet(g, S) /\ SumFunctionOnSet(f, S) \in Int
  BY <1>6, <1>7, SumSame, SumOf
<1>9. SumFunctionOnSet(g, D) = g[n] + SumFunctionOnSet(g, S)
  BY <1>4, <1>6, SumOf
<1>10. SumFunctionOnSet(g, D) = SumFunctionOnSet(f, S) + g[n]
  BY <1>6, <1>8, <1>9
<1> QED BY <1>3, <1>5, <1>6, <1>10

(* A cache whose entries count, and whose ledger is right.                               *)
IsRight(es) == \A n \in DOMAIN es : IsSized(es[n]) /\ (n \notin Reversed => CountsItself(es[n]))
Ledger(c)   == c.size = Claims(c.ent, DOMAIN c.ent) /\ c.num = Cardinality(DOMAIN c.ent)
Booked(c)   == Good(c) /\ IsRight(c.ent) /\ Ledger(c)

LEMMA BookedIs ==
  ASSUME NEW c, Good(c), IsRight(c.ent)
  PROVE  /\ IsFiniteSet(DOMAIN c.ent) /\ Cardinality(DOMAIN c.ent) \in Nat
         /\ \A n \in DOMAIN c.ent : IsCent(c.ent[n]) /\ IsSized(c.ent[n]) /\ c.ent[n].cs \in Int
         /\ \A S \in SUBSET DOMAIN c.ent : Claims(c.ent, S) \in Int
         /\ Ledger(c) => c.size \in Int
<1>1. DOMAIN c.ent \subseteq Name /\ \A n \in DOMAIN c.ent : IsCent(c.ent[n])
  BY DEF Good, Entries
<1>2. IsFiniteSet(DOMAIN c.ent) /\ Cardinality(DOMAIN c.ent) \in Nat
  BY <1>1, NamesFinite, FS_Subset, FS_CardinalityType
<1>3. \A n \in DOMAIN c.ent : IsSized(c.ent[n]) /\ c.ent[n].cs \in Int
  BY DEF IsRight, IsSized
<1>4. \A S \in SUBSET DOMAIN c.ent : Claims(c.ent, S) \in Int
  <2>1. PICK es : es = c.ent
    OBVIOUS
  <2>2. IsFiniteSet(DOMAIN es) /\ \A n \in DOMAIN es : es[n].cs \in Int
    BY <1>2, <1>3, <2>1
  <2>3. \A S \in SUBSET DOMAIN es : Claims(es, S) \in Int
    BY <2>2, ClaimsOf
  <2> QED BY <2>1, <2>3
<1> QED BY <1>1, <1>2, <1>3, <1>4 DEF Ledger

(* What one entry claims changes, and the size with it.                                  *)
LEMMA EntryChanged ==
  ASSUME NEW c, Booked(c), NEW d, Good(d), DOMAIN d.ent = DOMAIN c.ent, d.num = c.num, NEW n \in DOMAIN c.ent,
         \A m \in DOMAIN c.ent \ {n} : d.ent[m] = c.ent[m],
         IsSized(d.ent[n]), CountsItself(c.ent[n]) => CountsItself(d.ent[n]),
         d.size = c.size + (d.ent[n].cs - c.ent[n].cs)
  PROVE  Booked(d)
<1>1. IsRight(d.ent)
  BY DEF IsRight, Booked
<1>2. PICK es : es = c.ent
  OBVIOUS
<1>3. PICK fs : fs = d.ent
  OBVIOUS
<1>4. /\ IsFiniteSet(DOMAIN es) /\ (\A m \in DOMAIN es : es[m].cs \in Int)
      /\ DOMAIN fs = DOMAIN es /\ n \in DOMAIN es /\ fs[n].cs \in Int
      /\ (\A m \in DOMAIN es \ {n} : fs[m].cs = es[m].cs)
      /\ c.size = Claims(es, DOMAIN es) /\ c.num = Cardinality(DOMAIN es)
  BY <1>1, <1>2, <1>3, BookedIs DEF Booked, Ledger, IsSized
<1>5. Claims(fs, DOMAIN fs) = Claims(es, DOMAIN es) + (fs[n].cs - es[n].cs)
  BY <1>4, ClaimsChange
<1> QED BY <1>1, <1>2, <1>3, <1>4, <1>5 DEF Booked, Ledger

(* del_cent, of some entries.                                                            *)
LEMMA EntriesGone ==
  ASSUME NEW c, Booked(c), NEW S, S \subseteq DOMAIN c.ent
  PROVE  LET d == DelEntries(c, S)
         IN  /\ Booked(d) /\ Members(d.l) = Members(c.l) \ (S \X Key)
             /\ d.size = c.size - Claims(c.ent, S)
<1>1. PICK d : d = DelEntries(c, S)
  OBVIOUS
<1>2. /\ Good(d) /\ DOMAIN d.ent = DOMAIN c.ent \ S
      /\ \A m \in DOMAIN c.ent \ S : d.ent[m] = c.ent[m]
  BY <1>1, DelEntriesGood DEF Booked
<1>3. d.size = c.size - Claims(c.ent, S) /\ d.num = c.num - Cardinality(S) /\ d.l = Without(c.l, S \X Key)
  <2>1. PICK x : x = c.size - Claims(c.ent, S)
    OBVIOUS
  <2>2. PICK y : y = c.num - Cardinality(S)
    OBVIOUS
  <2>3. d = [c EXCEPT !.ent = Restrict(@, Names(c) \ S), !.l = Without(@, S \X Key), !.size = x, !.num = y]
    BY <1>1, <2>1, <2>2 DEF DelEntries
  <2> QED BY <2>1, <2>2, <2>3 DEF Booked, Good, Shape, CacheFields
<1>4. Members(d.l) = Members(c.l) \ (S \X Key)
  BY <1>3, WithoutOf DEF Booked, Good, ListOK
<1>5. IsRight(d.ent)
  BY <1>2 DEF Booked, IsRight
<1>6. Ledger(d)
  <2>1. PICK es : es = c.ent
    OBVIOUS
  <2>2. PICK fs : fs = d.ent
    OBVIOUS
  <2>3. /\ IsFiniteSet(DOMAIN es) /\ (\A m \in DOMAIN es : es[m].cs \in Int)
        /\ S \subseteq DOMAIN es /\ DOMAIN fs = DOMAIN es \ S /\ \A m \in DOMAIN fs : fs[m].cs = es[m].cs
    BY <1>2, <2>1, <2>2, BookedIs DEF Booked
  <2>4. Claims(es, DOMAIN es) = Claims(es, S) + Claims(es, DOMAIN es \ S) /\ Claims(es, S) \in Int
    BY <2>3, ClaimsOf
  <2>5. PICK R : R = DOMAIN es \ S
    OBVIOUS
  <2>6. IsFiniteSet(R) /\ R \subseteq DOMAIN es /\ R \subseteq DOMAIN fs
    BY <2>3, <2>5, FS_Subset
  <2>7. Claims(fs, R) = Claims(es, R) /\ Claims(es, R) \in Int
    <3>1. (\A m \in R : es[m].cs \in Int) /\ (\A m \in R : fs[m].cs = es[m].cs)
      BY <2>3, <2>6
    <3>2. Claims(fs, R) = Claims(es, R)
      BY <2>6, <3>1, ClaimsSame
    <3>3. Claims(es, R) \in Int
      BY <2>3, <2>6, ClaimsOf
    <3> QED BY <3>2, <3>3
  <2>8. d.size = Claims(fs, DOMAIN fs)
    <3>1. c.size = Claims(es, DOMAIN es)
      BY <2>1 DEF Booked, Ledger
    <3> QED BY <1>3, <2>1, <2>3, <2>4, <2>5, <2>7, <3>1
  <2>9. Cardinality(DOMAIN fs) = Cardinality(DOMAIN es) - Cardinality(S)
    <3>1. DOMAIN es \cap S = S
      BY <2>3
    <3>2. Cardinality(DOMAIN es \ S) = Cardinality(DOMAIN es) - Cardinality(DOMAIN es \cap S)
      BY <2>3, FS_Difference
    <3> QED BY <2>3, <3>1, <3>2
  <2> QED BY <1>3, <2>1, <2>2, <2>8, <2>9 DEF Booked, Ledger
<1> QED BY <1>1, <1>2, <1>3, <1>4, <1>5, <1>6 DEF Booked

LEMMA EntryGone ==
  ASSUME NEW c, Booked(c), NEW n \in DOMAIN c.ent
  PROVE  LET d == DelEntry(c, n)
         IN  /\ Booked(d) /\ Members(d.l) = Members(c.l) \ ({n} \X Key)
             /\ d.size = c.size - c.ent[n].cs
             /\ DOMAIN d.ent = DOMAIN c.ent \ {n}
<1>1. PICK S : S = {n}
  OBVIOUS
<1>2. PICK d : d = DelEntries(c, S)
  OBVIOUS
<1>3. S \subseteq DOMAIN c.ent
  BY <1>1
<1>4. Booked(d) /\ Members(d.l) = Members(c.l) \ (S \X Key) /\ d.size = c.size - Claims(c.ent, S)
  BY <1>2, <1>3, EntriesGone
<1>5. Claims(c.ent, S) = c.ent[n].cs
  <2>1. PICK es : es = c.ent
    OBVIOUS
  <2>2. IsFiniteSet(DOMAIN es) /\ (\A m \in DOMAIN es : es[m].cs \in Int) /\ n \in DOMAIN es
    BY <2>1, BookedIs DEF Booked
  <2>3. Claims(es, {n}) = es[n].cs
    BY <2>2, ClaimsTake
  <2> QED BY <1>1, <2>1, <2>3
<1>6. DOMAIN d.ent = DOMAIN c.ent \ S
  BY <1>2, DelEntriesGood DEF Booked
<1> QED BY <1>1, <1>2, <1>4, <1>5, <1>6 DEF DelEntry

(* A new entry.                                                                          *)
LEMMA EntryNew ==
  ASSUME NEW c, Booked(c), NEW n, n \notin DOMAIN c.ent, NEW d, Good(d), DOMAIN d.ent = DOMAIN c.ent \cup {n},
         \A m \in DOMAIN c.ent : d.ent[m] = c.ent[m], IsSized(d.ent[n]), n \notin Reversed => CountsItself(d.ent[n]),
         d.size = c.size + d.ent[n].cs, d.num = c.num + 1
  PROVE  Booked(d)
<1>1. IsRight(d.ent)
  BY DEF IsRight, Booked
<1>2. PICK es : es = c.ent
  OBVIOUS
<1>3. PICK fs : fs = d.ent
  OBVIOUS
<1>4. /\ IsFiniteSet(DOMAIN es) /\ (\A m \in DOMAIN es : es[m].cs \in Int)
      /\ IsFiniteSet(DOMAIN fs) /\ (\A m \in DOMAIN fs : fs[m].cs \in Int)
      /\ DOMAIN fs = DOMAIN es \cup {n} /\ n \notin DOMAIN es /\ \A m \in DOMAIN es : fs[m].cs = es[m].cs
  BY <1>1, <1>2, <1>3, BookedIs DEF Booked
<1>5. DOMAIN es = DOMAIN fs \ {n} /\ n \in DOMAIN fs
  BY <1>4
<1>6. Claims(fs, DOMAIN fs) = Claims(es, DOMAIN es) + fs[n].cs
  BY <1>4, <1>5, ClaimsNew
<1>7. Cardinality(DOMAIN fs) = Cardinality(DOMAIN es) + 1
  BY <1>4, FS_AddElement
<1>8. c.size = Claims(es, DOMAIN es) /\ c.num = Cardinality(DOMAIN es)
  BY <1>2 DEF Booked, Ledger
<1> QED BY <1>1, <1>3, <1>6, <1>7, <1>8 DEF Booked, Ledger

-----------------------------------------------------------------------------
(* Purging keeps the books *)

(* An entry that counts no set has none in the list.                                     *)
LEMMA NothingCounted ==
  ASSUME NEW c, Booked(c), NEW n \in DOMAIN c.ent, c.ent[n].nrr = 0, NEW k, Listed(c.ent, n, k)
  PROVE  k = Whole
<1>1. PICK e : e = c.ent[n]
  OBVIOUS
<1>2. IsCent(e) /\ IsSized(e) /\ e.nrr = 0
  BY <1>1, BookedIs DEF Booked
<1>3. PICK S : S = Surely(e)
  OBVIOUS
<1>4. S \in SUBSET DOMAIN e.rrs
  BY <1>3 DEF Surely
<1>5. IsFiniteSet(S) /\ Cardinality(S) \in Nat
  BY <1>2, <1>4, EntryFinite
<1>6. Cardinality(S) = 0
  BY <1>2, <1>3, <1>5 DEF IsSized
<1>7. S = {}
  BY <1>5, <1>6, FS_EmptySet
<1> QED BY <1>1, <1>3, <1>7 DEF Listed, Surely

(* What one set takes.                                                                   *)
LEMMA SizesOne ==
  ASSUME NEW e, IsCent(e), HasSizes(e), NEW t \in DOMAIN e.rrs
  PROVE  Sizes(e.rrs, {t}) = SizeOf(e.rrs[t]) /\ SizeOf(e.rrs[t]) \in Nat
<1>1. PICK f : f = [u \in DOMAIN e.rrs |-> SizeOf(e.rrs[u])]
  OBVIOUS
<1>2. Sizes(e.rrs, {t}) = SumFunctionOnSet(f, {t})
  BY <1>1 DEF Sizes
<1>3. PICK S : S = {t}
  OBVIOUS
<1>4. f[t] = SizeOf(e.rrs[t]) /\ f[t] \in Nat
  BY <1>1 DEF HasSizes, SizeOf
<1>5. IsFiniteSet(S) /\ \A u \in S : f[u] \in Int
  BY <1>3, <1>4, EntryFinite
<1>6. SumFunctionOnSet(f, {}) = 0 /\ \A u \in S : SumFunctionOnSet(f, S) = f[u] + SumFunctionOnSet(f, S \ {u})
  BY <1>5, SumOf
<1>7. S \ {t} = {} /\ t \in S
  BY <1>3
<1>8. SumFunctionOnSet(f, S) = f[t] + 0
  BY <1>6, <1>7
<1> QED BY <1>2, <1>3, <1>4, <1>8

(* del_cent_rrset_by_index, and the counts of the entry.                                 *)
LEMMA DelRRsetsFewer ==
  ASSUME NEW c, Good(c), NEW n \in DOMAIN c.ent, NEW S \in SUBSET Type, NEW d, d = DelRRsets(c, n, S), NEW e, e = c.ent[n]
  PROVE  /\ Good(d) /\ DOMAIN d.ent = DOMAIN c.ent /\ (\A m \in DOMAIN c.ent \ {n} : d.ent[m] = c.ent[m])
         /\ Members(d.l) = Members(c.l) \ ({n} \X S) /\ d.size = c.size /\ d.num = c.num
         /\ Fewer(e, d.ent[n], S) /\ Less(e, d.ent[n], S) /\ IsCent(d.ent[n])
<1>1. Lesser(c, d, n, S) /\ Good(d)
  BY DelRRsetsLesser
<1>3. d.size = c.size /\ d.num = c.num /\ Fewer(e, d.ent[n], S)
  BY DelRRsetsCounts
<1>4. DOMAIN d.ent = DOMAIN c.ent /\ (\A m \in DOMAIN c.ent \ {n} : d.ent[m] = c.ent[m])
      /\ Members(d.l) = Members(c.l) \ ({n} \X S) /\ Less(e, d.ent[n], S)
  BY <1>1 DEF Lesser
<1>5. IsCent(d.ent[n])
  BY <1>1, <1>4 DEF Good, Entries
<1> QED BY <1>1, <1>3, <1>4, <1>5

(* del_rrset, of a set that counts.                                                      *)
LEMMA DropBooked ==
  ASSUME NEW c, Booked(c), NEW n \in DOMAIN c.ent, NEW t \in DOMAIN c.ent[n].rrs, ~c.ent[n].rrs[t].local
  PROVE  LET d == DropRRset(c, n, t)
         IN  /\ Booked(d) /\ DOMAIN d.ent = DOMAIN c.ent /\ d.ent[n].neg = c.ent[n].neg
             /\ Members(d.l) = Members(c.l) \ {<<n, t>>}
<1>1. PICK e : e = c.ent[n]
  OBVIOUS
<1>2. Good(c) /\ IsCent(e) /\ IsSized(e) /\ t \in DOMAIN e.rrs
  BY <1>1, BookedIs DEF Booked
<1>3. PICK S : S = {t}
  OBVIOUS
<1>4. S \in SUBSET Type /\ S \subseteq DOMAIN e.rrs /\ S \subseteq Surely(e)
  BY <1>1, <1>2, <1>3 DEF IsCent, Surely
<1>5. PICK d : d = DelRRsets(c, n, S)
  OBVIOUS
<1>6. PICK f : f = d.ent[n]
  OBVIOUS
<1>7. /\ Good(d) /\ DOMAIN d.ent = DOMAIN c.ent /\ (\A m \in DOMAIN c.ent \ {n} : d.ent[m] = c.ent[m])
      /\ Members(d.l) = Members(c.l) \ ({n} \X S) /\ d.size = c.size /\ d.num = c.num
      /\ Fewer(e, f, S) /\ IsCent(f)
  <2>1. Good(c) /\ n \in DOMAIN c.ent /\ S \in SUBSET Type
    BY <1>2, <1>4
  <2>2. /\ Good(d) /\ DOMAIN d.ent = DOMAIN c.ent /\ (\A m \in DOMAIN c.ent \ {n} : d.ent[m] = c.ent[m])
        /\ Members(d.l) = Members(c.l) \ ({n} \X S) /\ d.size = c.size /\ d.num = c.num
        /\ Fewer(e, d.ent[n], S) /\ IsCent(d.ent[n])
    BY <1>1, <1>5, <2>1, DelRRsetsFewer
  <2> QED BY <1>6, <2>2
<1>8. f.neg = e.neg /\ f.cs = e.cs - Sizes(e.rrs, S)
  BY <1>7 DEF Fewer
<1>9. SizedBy(f, 0) /\ (CountsItself(e) => CountsItself(f))
  <2>1. SizedBy(e, 0)
    BY <1>2, SizedIs
  <2> QED BY <1>2, <1>4, <1>7, <2>1, FewerCounts
<1>10. Sizes(e.rrs, S) = SizeOf(e.rrs[t]) /\ SizeOf(e.rrs[t]) \in Nat
  BY <1>2, <1>3, SizesOne DEF IsSized
<1>11. PICK x : x = d.size - SizeOf(e.rrs[t])
  OBVIOUS
<1>12. PICK r : r = [d EXCEPT !.size = x]
  OBVIOUS
<1>13. DropRRset(c, n, t) = r
  BY <1>1, <1>3, <1>5, <1>11, <1>12 DEF DropRRset
<1>14. Shape(r) /\ r.ent = d.ent /\ r.l = d.l /\ r.num = d.num /\ r.size = x
  BY <1>7, <1>12 DEF Good, Shape, CacheFields
<1>15. Good(r)
  BY <1>7, <1>14, SizesOnly
<1>17. IsSized(f)
  BY <1>7, <1>9, SizedIs
<1>18. r.size = c.size + (f.cs - e.cs)
  <2>1. c.size \in Int /\ e.cs \in Int
    BY <1>1, BookedIs DEF Booked
  <2> QED BY <1>7, <1>8, <1>10, <1>11, <1>14, <2>1
<1>19. Booked(r)
  BY <1>1, <1>6, <1>7, <1>9, <1>14, <1>15, <1>17, <1>18, EntryChanged
<1>20. {n} \X S = {<<n, t>>}
  BY <1>3
<1> QED BY <1>1, <1>6, <1>7, <1>8, <1>13, <1>14, <1>19, <1>20

(* An entry without sets goes, and with it at most the element of the whole.             *)
LEMMA DropIfEmptyBooked ==
  ASSUME NEW c, Booked(c), NEW n \in DOMAIN c.ent, NEW may \in BOOLEAN
  PROVE  LET d == DropIfEmpty(c, n, may)
         IN  /\ Booked(d)
             /\ Members(c.l) \ {<<n, Whole>>} \subseteq Members(d.l) /\ Members(d.l) \subseteq Members(c.l)
             /\ c.ent[n].nrr = 0 /\ may => <<n, Whole>> \notin Members(d.l)
<1>1. PICK d : d = DelEntry(c, n)
  OBVIOUS
<1>2. Booked(d) /\ Members(d.l) = Members(c.l) \ ({n} \X Key)
  BY <1>1, EntryGone
<1>3. ASSUME c.ent[n].nrr = 0, NEW x \in Members(c.l), x # <<n, Whole>> PROVE x \in Members(d.l)
  <2>1. c.l \in Seq(Element)
    BY DEF Booked, Good, ListOK
  <2>2. PICK m \in Name, k \in Key : x = <<m, k>>
    BY <2>1 DEF Members, Element
  <2>3. Listed(c.ent, m, k)
    BY <2>2 DEF Booked, Good, ListOK
  <2>4. m # n
    BY <1>3, <2>2, <2>3, NothingCounted
  <2> QED BY <1>2, <2>2, <2>4
<1>4. Whole \in Key
  BY DEF Key
<1>5. CASE c.ent[n].nrr = 0 /\ may
  <2>1. DropIfEmpty(c, n, may) = d
    BY <1>1, <1>5 DEF DropIfEmpty
  <2> QED BY <1>2, <1>3, <1>4, <1>5, <2>1
<1>6. CASE ~(c.ent[n].nrr = 0 /\ may)
  BY <1>6 DEF DropIfEmpty
<1> QED BY <1>5, <1>6

(* purge_cache, one element of the list: only it leaves the list, and with the second    *)
(* walk it does.                                                                         *)
LEMMA PurgeStepsBooked ==
  ASSUME NEW c, Booked(c), NEW le \in Members(c.l)
  PROVE  /\ Booked(PurgeExpired(c, le)) /\ Members(c.l) \ {le} \subseteq Members(PurgeExpired(c, le).l)
         /\ Booked(PurgeOldest(c, le)) /\ Members(PurgeOldest(c, le).l) = Members(c.l) \ {le}
<1>1. PICK n \in Name, k \in Key : le = <<n, k>>
  BY DEF Booked, Good, ListOK, Members, Element
<1>2. Listed(c.ent, n, k)
  BY <1>1 DEF Booked, Good, ListOK
<1>3. n \in DOMAIN c.ent /\ le[1] = n /\ le[2] = k
  BY <1>1, <1>2 DEF Listed
<1>4. PICK e : e = c.ent[n]
  OBVIOUS
<1>5. IsCent(e) /\ IsSized(e) /\ e.neg \in BOOLEAN
  BY <1>3, <1>4, BookedIs DEF Booked, IsCent
<1>6. ~LocalEntry(c, le)
  BY <1>2, <1>3, WholeApart DEF Listed, LocalEntry
<1>7. CASE k = Whole
  <2>1. e.neg /\ e.nrr = 0
    <3>1. Whole \notin DOMAIN e.rrs
      BY <1>5, WholeApart DEF IsCent
    <3> QED BY <1>2, <1>4, <1>5, <1>7, <3>1 DEF Listed, IsSized
  <2>2. PICK may \in BOOLEAN : may = (~e.neg \/ Dated(e))
    BY <1>5, Zenon DEF Dated
  <2>3. PurgeExpired(c, le) = DropIfEmpty(c, n, may)
    BY <1>3, <1>4, <1>6, <1>7, <2>2 DEF PurgeExpired
  <2>4. PurgeOldest(c, le) = DropIfEmpty(c, n, TRUE)
    BY <1>3, <1>6, <1>7 DEF PurgeOldest
  <2>5. Booked(DropIfEmpty(c, n, may)) /\ Members(c.l) \ {<<n, Whole>>} \subseteq Members(DropIfEmpty(c, n, may).l)
    BY <1>3, DropIfEmptyBooked
  <2>6. PICK yes \in BOOLEAN : yes = TRUE
    OBVIOUS
  <2>7. PICK d : d = DropIfEmpty(c, n, yes)
    OBVIOUS
  <2>8. /\ Booked(d) /\ Members(c.l) \ {<<n, Whole>>} \subseteq Members(d.l) /\ Members(d.l) \subseteq Members(c.l)
        /\ c.ent[n].nrr = 0 /\ yes => <<n, Whole>> \notin Members(d.l)
    BY <1>3, <2>7, DropIfEmptyBooked
  <2>9. PurgeOldest(c, le) = d /\ <<n, Whole>> \notin Members(d.l)
    BY <1>4, <2>1, <2>4, <2>6, <2>7, <2>8
  <2> QED BY <1>1, <1>7, <2>3, <2>5, <2>8, <2>9
<1>8. CASE k # Whole
  <2>1. ~e.neg /\ k \in DOMAIN e.rrs /\ ~e.rrs[k].local
    BY <1>2, <1>4, <1>8 DEF Listed
  <2>2. PICK d : d = DropRRset(c, n, k)
    OBVIOUS
  <2>3. Booked(d) /\ DOMAIN d.ent = DOMAIN c.ent /\ ~d.ent[n].neg /\ Members(d.l) = Members(c.l) \ {le}
    BY <1>1, <1>3, <1>4, <2>1, <2>2, DropBooked
  <2>4. ASSUME NEW x, Booked(x), n \in DOMAIN x.ent, ~x.ent[n].neg, NEW may \in BOOLEAN
        PROVE  Booked(DropIfEmpty(x, n, may)) /\ Members(DropIfEmpty(x, n, may).l) = Members(x.l)
    <3>1. /\ Booked(DropIfEmpty(x, n, may))
          /\ Members(x.l) \ {<<n, Whole>>} \subseteq Members(DropIfEmpty(x, n, may).l)
          /\ Members(DropIfEmpty(x, n, may).l) \subseteq Members(x.l)
      BY <2>4, DropIfEmptyBooked
    <3>2. <<n, Whole>> \notin Members(x.l)
      <4>1. Whole \in Key /\ IsCent(x.ent[n])
        BY <2>4, BookedIs DEF Key, Booked
      <4>2. ~Listed(x.ent, n, Whole)
        BY <2>4, <4>1, WholeApart DEF Listed, IsCent
      <4> QED BY <2>4, <4>1, <4>2 DEF Booked, Good, ListOK
    <3> QED BY <3>1, <3>2
  <2>5. PICK may \in BOOLEAN : may = (~e.neg \/ Dated(e))
    BY <1>5, Zenon DEF Dated
  <2>6. PurgeExpired(c, le) = DropIfEmpty(IF Expired(e.rrs[k]) THEN d ELSE c, n, may)
    BY <1>3, <1>4, <1>6, <1>8, <2>2, <2>5 DEF PurgeExpired
  <2>7. PurgeOldest(c, le) = DropIfEmpty(d, n, TRUE)
    BY <1>3, <1>6, <1>8, <2>2 DEF PurgeOldest
  <2>8. /\ Booked(DropIfEmpty(d, n, may)) /\ Members(DropIfEmpty(d, n, may).l) = Members(d.l)
        /\ Booked(DropIfEmpty(c, n, may)) /\ Members(DropIfEmpty(c, n, may).l) = Members(c.l)
        /\ Booked(DropIfEmpty(d, n, TRUE)) /\ Members(DropIfEmpty(d, n, TRUE).l) = Members(d.l)
    BY <1>3, <1>4, <2>1, <2>3, <2>4
  <2> QED BY <2>3, <2>6, <2>7, <2>8
<1> QED BY <1>7, <1>8

(* purge_cache: the first walk.                                                          *)
LEMMA FirstWalkBooked ==
  ASSUME NEW c, Booked(c), NEW limit, NEW lazy
  PROVE  Booked(FirstWalk(c, limit, lazy))
<1>1. Len(c.l) \in Nat /\ (\A i \in 1..Len(c.l) : c.l[i] \in Members(c.l)) /\ Once(c.l)
  BY DEF Booked, Good, ListOK, Members
<1>2. PICK w : /\ FirstWalk(c, limit, lazy) = w[Len(c.l)]
               /\ w[0] = c
               /\ \A i \in 1..Len(c.l) :
                    w[i] = IF lazy /\ w[i - 1].size <= limit THEN w[i - 1] ELSE PurgeExpired(w[i - 1], c.l[i])
  BY <1>1, FirstWalkWalk
<1> DEFINE OK(i) == Booked(w[i]) /\ \A j \in i + 1..Len(c.l) : c.l[j] \in Members(w[i].l)
           G == {i \in 0..Len(c.l) : OK(i)}
<1>3. 0 \in G
  BY <1>1, <1>2
<1>4. ASSUME NEW i \in 0..Len(c.l), i \in G, i < Len(c.l) PROVE i + 1 \in G
  <2>1. i + 1 \in 1..Len(c.l) /\ i + 1 \in 0..Len(c.l) /\ (i + 1) - 1 = i
    BY <1>1, <1>4
  <2>2. PICK x : x = w[i]
    OBVIOUS
  <2>3. PICK le : le = c.l[i + 1]
    OBVIOUS
  <2>4. Booked(x) /\ (\A j \in i + 1..Len(c.l) : c.l[j] \in Members(x.l)) /\ le \in Members(x.l)
    BY <1>1, <1>4, <2>1, <2>2, <2>3
  <2>5. w[i + 1] \in {x, PurgeExpired(x, le)}
    BY <1>2, <2>1, <2>2, <2>3
  <2>6. Booked(PurgeExpired(x, le)) /\ Members(x.l) \ {le} \subseteq Members(PurgeExpired(x, le).l)
    BY <2>4, PurgeStepsBooked
  <2>7. PICK y : y = w[i + 1]
    OBVIOUS
  <2>8. Booked(y) /\ Members(x.l) \ {le} \subseteq Members(y.l)
    BY <2>4, <2>5, <2>6, <2>7
  <2>9. ASSUME NEW j \in (i + 1) + 1..Len(c.l) PROVE c.l[j] \in Members(y.l)
    <3>1. j \in i + 1..Len(c.l) /\ j \in 1..Len(c.l) /\ j # i + 1
      BY <1>1, <1>4
    <3>2. c.l[j] # le
      BY <1>1, <2>1, <2>3, <3>1 DEF Once
    <3> QED BY <2>4, <2>8, <3>1, <3>2
  <2>10. OK(i + 1)
    BY <2>7, <2>8, <2>9
  <2> HIDE DEF OK
  <2> QED BY <2>1, <2>10
<1> HIDE DEF G
<1>5. \A i \in 0..Len(c.l) : i \in G
  BY <1>1, <1>3, <1>4, UpTo
<1>6. Len(c.l) \in G
  BY <1>1, <1>5
<1> QED BY <1>2, <1>6 DEF G

(* The cache fits, or nothing is left that may be purged.                                *)
Within(c, limit) == c.size <= limit \/ Members(c.l) = {}

(* The second walk.                                                                      *)
LEMMA SecondWalkBooked ==
  ASSUME NEW c, Booked(c), NEW limit
  PROVE  Booked(SecondWalk(c, limit)) /\ Within(SecondWalk(c, limit), limit)
<1>1. Len(c.l) \in Nat /\ (\A i \in 1..Len(c.l) : c.l[i] \in Members(c.l)) /\ Once(c.l)
  BY DEF Booked, Good, ListOK, Members
<1>2. PICK w : /\ SecondWalk(c, limit) = w[Len(c.l)]
               /\ w[0] = c
               /\ \A i \in 1..Len(c.l) :
                    w[i] = IF w[i - 1].size <= limit THEN w[i - 1] ELSE PurgeOldest(w[i - 1], c.l[i])
  BY <1>1, SecondWalkWalk
<1> DEFINE Remaining(i) == {c.l[j] : j \in i + 1..Len(c.l)}
           OK(i) == Booked(w[i]) /\ (w[i].size <= limit \/ Members(w[i].l) = Remaining(i))
           G == {i \in 0..Len(c.l) : OK(i)}
<1>3. 0 \in G
  <2>1. Members(c.l) = Remaining(0)
    BY <1>1 DEF Members
  <2> HIDE DEF Remaining
  <2> QED BY <1>1, <1>2, <2>1
<1>4. ASSUME NEW i \in 0..Len(c.l), i \in G, i < Len(c.l) PROVE i + 1 \in G
  <2>1. i + 1 \in 1..Len(c.l) /\ i + 1 \in 0..Len(c.l) /\ (i + 1) - 1 = i
    BY <1>1, <1>4
  <2>2. PICK x : x = w[i]
    OBVIOUS
  <2>3. PICK le : le = c.l[i + 1]
    OBVIOUS
  <2>4. w[i + 1] = IF x.size <= limit THEN x ELSE PurgeOldest(x, le)
    BY <1>2, <2>1, <2>2, <2>3
  <2>5. Booked(x)
    BY <1>4, <2>2
  <2>6. CASE x.size <= limit
    BY <2>1, <2>2, <2>4, <2>5, <2>6
  <2>7. CASE ~(x.size <= limit)
    <3>1. Members(x.l) = Remaining(i)
      BY <1>4, <2>2, <2>7
    <3>2. le \in Remaining(i)
      BY <1>1, <1>4, <2>3
    <3>3. PICK y : y = w[i + 1]
      OBVIOUS
    <3>4. Booked(y) /\ Members(y.l) = Members(x.l) \ {le}
      BY <2>4, <2>5, <2>7, <3>1, <3>2, <3>3, PurgeStepsBooked
    <3>5. Remaining(i) \ {le} = Remaining(i + 1)
      <4>1. \A j \in (i + 1) + 1..Len(c.l) : j \in i + 1..Len(c.l) /\ c.l[j] # le
        BY <1>1, <1>4, <2>1, <2>3 DEF Once
      <4>2. \A j \in i + 1..Len(c.l) : c.l[j] # le => j \in (i + 1) + 1..Len(c.l)
        BY <1>1, <1>4, <2>3
      <4> QED BY <4>1, <4>2
    <3>6. OK(i + 1)
      BY <3>1, <3>3, <3>4, <3>5
    <3> HIDE DEF OK
    <3> QED BY <2>1, <3>6
  <2> QED BY <2>6, <2>7
<1>5. \A i \in 0..Len(c.l) : i \in G
  <2> HIDE DEF G
  <2> QED BY <1>1, <1>3, <1>4, UpTo
<1>6. Len(c.l) \in G
  <2> HIDE DEF G
  <2> QED BY <1>1, <1>5
<1>7. Remaining(Len(c.l)) = {}
  BY <1>1
<1> QED BY <1>2, <1>6, <1>7 DEF Within

LEMMA PurgeCacheBooked ==
  ASSUME NEW c, Booked(c), NEW limit, NEW lazy
  PROVE  Booked(PurgeCache(c, limit, lazy)) /\ Within(PurgeCache(c, limit, lazy), limit)
<1>1. PICK d : d = FirstWalk(c, limit, lazy)
  OBVIOUS
<1>2. Booked(d)
  BY <1>1, FirstWalkBooked
<1>3. PICK x : x = Sorted(d)
  OBVIOUS
<1>4. Good(x) /\ x.ent = d.ent /\ x.size = d.size /\ x.num = d.num
  BY <1>2, <1>3, SortedGood DEF Booked
<1>5. Booked(x)
  BY <1>2, <1>4 DEF Booked, Ledger
<1>6. Booked(SecondWalk(x, limit)) /\ Within(SecondWalk(x, limit), limit)
  BY <1>5, SecondWalkBooked
<1> QED BY <1>1, <1>2, <1>3, <1>6 DEF PurgeCache, Within

(* Fewer things to list make a list with fewer elements.                                 *)
LEMMA ListedLess ==
  ASSUME NEW c, Good(c), NEW d, Good(d), \A m, k : Listed(d.ent, m, k) => Listed(c.ent, m, k)
  PROVE  Members(d.l) \subseteq Members(c.l)
<1>1. ASSUME NEW x \in Members(d.l) PROVE x \in Members(c.l)
  <2>1. PICK m \in Name, k \in Key : x = <<m, k>>
    BY DEF Good, ListOK, Members, Element
  <2>2. Listed(d.ent, m, k)
    BY <2>1 DEF Good, ListOK
  <2> QED BY <2>1, <2>2 DEF Good, ListOK
<1> QED BY <1>1

(* One entry changes in what neither the list nor the numbers show.                      *)
Touched(c, d, n) == /\ Shape(d) /\ DOMAIN d.ent = DOMAIN c.ent /\ (\A m \in DOMAIN c.ent \ {n} : d.ent[m] = c.ent[m])
                    /\ d.l = c.l /\ d.size = c.size /\ d.num = c.num
                    /\ Less(c.ent[n], d.ent[n], {})
                    /\ d.ent[n].nrr = c.ent[n].nrr /\ d.ent[n].cs = c.ent[n].cs /\ d.ent[n].ext = c.ent[n].ext
                    /\ \A t \in DOMAIN c.ent[n].rrs : d.ent[n].rrs[t].n = c.ent[n].rrs[t].n

LEMMA TouchedBooked ==
  ASSUME NEW c, Booked(c), NEW n \in DOMAIN c.ent, NEW d, Touched(c, d, n)
  PROVE  Booked(d)
<1>1. PICK e : e = c.ent[n]
  OBVIOUS
<1>2. PICK f : f = d.ent[n]
  OBVIOUS
<1>3. Good(c) /\ IsCent(e) /\ IsSized(e)
  BY <1>1, BookedIs DEF Booked
<1>4. Good(d)
  <2>1. \A m \in DOMAIN c.ent : IF m = n THEN Less(c.ent[m], d.ent[m], {}) ELSE d.ent[m] = c.ent[m]
    BY DEF Touched
  <2> QED BY <1>3, <2>1, SameGood DEF Touched
<1>5. IsCent(f)
  BY <1>2, <1>4 DEF Touched, Good, Entries
<1>6. IsSized(f) /\ (CountsItself(e) => CountsItself(f))
  <2>1. /\ f.neg = e.neg /\ DOMAIN f.rrs = DOMAIN e.rrs /\ f.nrr = e.nrr /\ f.cs = e.cs /\ f.ext = e.ext
        /\ \A t \in DOMAIN e.rrs : f.rrs[t].n = e.rrs[t].n /\ f.rrs[t].local = e.rrs[t].local
    BY <1>1, <1>2 DEF Touched, Less
  <2> QED BY <1>3, <1>5, <2>1, SameCounts
<1>7. d.size = c.size + (d.ent[n].cs - c.ent[n].cs)
  <2>1. c.size \in Int /\ e.cs \in Int
    BY <1>1, BookedIs DEF Booked
  <2> QED BY <1>1, <2>1 DEF Touched
<1> QED BY <1>1, <1>2, <1>4, <1>6, <1>7, EntryChanged DEF Touched

LEMMA EntryTouched ==
  ASSUME NEW c, Booked(c), NEW n \in DOMAIN c.ent, NEW e, e = c.ent[n],
         NEW f, Less(e, f, {}), f.nrr = e.nrr, f.cs = e.cs, f.ext = e.ext, \A t \in DOMAIN e.rrs : f.rrs[t].n = e.rrs[t].n,
         NEW d, d = [c EXCEPT !.ent = [@ EXCEPT ![n] = f]]
  PROVE  Booked(d) /\ d.size = c.size /\ d.l = c.l
<1>1. /\ Shape(d) /\ DOMAIN d.ent = DOMAIN c.ent /\ d.l = c.l /\ d.ent[n] = f
      /\ \A m \in DOMAIN c.ent \ {n} : d.ent[m] = c.ent[m]
      /\ d.size = c.size /\ d.num = c.num
  BY DEF Booked, Good, Shape, CacheFields
<1>2. Touched(c, d, n)
  BY <1>1 DEF Touched
<1> QED BY <1>1, <1>2, TouchedBooked

(* purge_all_rrsets                                                                      *)
LEMMA PurgeRRsetsBooked ==
  ASSUME NEW c, Booked(c), NEW n \in DOMAIN c.ent, NEW d, d = PurgeRRsets(c, n)
  PROVE  /\ Booked(d) /\ DOMAIN d.ent = DOMAIN c.ent
         /\ Members(d.l) \subseteq Members(c.l) /\ d.size <= c.size
<1>1. PICK e : e = c.ent[n]
  OBVIOUS
<1>2. Good(c) /\ IsCent(e) /\ IsSized(e) /\ e.cs \in Int /\ c.size \in Int
  BY <1>1, BookedIs DEF Booked
<1>3. PICK S : S = Lost(e)
  OBVIOUS
<1>4. S \in SUBSET Type /\ S \subseteq DOMAIN e.rrs /\ S \subseteq Surely(e)
  BY <1>2, <1>3 DEF IsCent, Surely, Lost, Expired
<1>5. PICK x : x = DelRRsets(c, n, S)
  OBVIOUS
<1>6. PICK h : h = x.ent[n]
  OBVIOUS
<1>7. /\ Good(x) /\ DOMAIN x.ent = DOMAIN c.ent
      /\ Fewer(e, h, S) /\ IsCent(h)
  <2>1. /\ Good(x) /\ DOMAIN x.ent = DOMAIN c.ent
        /\ Fewer(e, x.ent[n], S) /\ IsCent(x.ent[n])
    BY <1>1, <1>2, <1>4, <1>5, DelRRsetsFewer
  <2> QED BY <1>6, <2>1
<1>8. SizedBy(h, 0) /\ (CountsItself(e) => CountsItself(h)) /\ Sizes(e.rrs, S) \in Nat
  <2>1. SizedBy(e, 0)
    BY <1>2, SizedIs
  <2> QED BY <1>2, <1>4, <1>7, <2>1, FewerCounts
<1>9. PICK g : g = d.ent[n]
  OBVIOUS
<1>10. PICK idle \in BOOLEAN : idle = ExtIdle(e)
  <2>1. ExtIdle(e) \in BOOLEAN
    BY <1>2 DEF IsCent, ExtIdle
  <2> QED BY <2>1
<1>11. PICK one : one = IF idle THEN 1 ELSE 0
  OBVIOUS
<1>12. /\ Good(d) /\ DOMAIN d.ent = DOMAIN c.ent /\ (\A m \in DOMAIN c.ent \ {n} : d.ent[m] = c.ent[m])
       /\ d.num = c.num
  BY <1>2, PurgeRRsetsGood DEF PurgedTo
<1>13. /\ g.rrs = Restrict(e.rrs, DOMAIN e.rrs \ Lost(e))
       /\ (g.ext <=> e.ext /\ ~ExtIdle(e))
       /\ g.neg = e.neg /\ g.local = e.local
       /\ g.nrr = e.nrr - Cardinality(Lost(e))
       /\ g.cs = e.cs - Sizes(e.rrs, Lost(e)) - (IF ExtIdle(e) THEN 1 ELSE 0)
       /\ d.size = c.size - (Sizes(e.rrs, Lost(e)) + (IF ExtIdle(e) THEN 1 ELSE 0))
  <2>1. PurgedTo(c, c.ent[n], d, d.ent[n])
    BY <1>2, PurgeRRsetsGood
  <2> QED BY <1>1, <1>9, <2>1 DEF PurgedTo
<1>14. /\ g.rrs = h.rrs /\ (g.ext <=> h.ext /\ ~idle) /\ g.neg = h.neg /\ g.nrr = h.nrr /\ g.cs = h.cs - one
       /\ d.size = c.size - (Sizes(e.rrs, S) + one) /\ h.cs = e.cs - Sizes(e.rrs, S) /\ h.ext = e.ext
  BY <1>3, <1>7, <1>10, <1>11, <1>13 DEF Fewer
<1>15. IsCent(g)
  BY <1>9, <1>12 DEF Good, Entries
<1>16. IsSized(g) /\ (CountsItself(h) => CountsItself(g))
  <2>1. idle => h.ext
    BY <1>10, <1>14 DEF ExtIdle
  <2>2. g.ext \in BOOLEAN
    BY <1>15 DEF IsCent
  <2>3. g.cs = h.cs - (IF idle THEN 1 ELSE 0)
    BY <1>11, <1>14
  <2>4. SizedBy(g, 0) /\ (CountsItself(h) => CountsItself(g))
    BY <1>7, <1>8, <1>14, <2>1, <2>2, <2>3, ArrayGone
  <2> QED BY <1>15, <2>4, SizedIs
<1>17. one \in Nat
  BY <1>11
<1>18. d.size = c.size + (g.cs - e.cs) /\ d.size <= c.size
  BY <1>2, <1>8, <1>14, <1>17
<1>19. Booked(d)
  BY <1>1, <1>8, <1>9, <1>12, <1>16, <1>18, EntryChanged
<1>20. Members(d.l) \subseteq Members(c.l)
  <2>1. DOMAIN g.rrs \subseteq DOMAIN e.rrs /\ \A t \in DOMAIN g.rrs : g.rrs[t] = e.rrs[t]
    BY <1>13 DEF Restrict
  <2>2. g.neg = e.neg /\ g.local = e.local
    BY <1>13
  <2>3. ASSUME NEW m, NEW k, Listed(d.ent, m, k) PROVE Listed(c.ent, m, k)
    <3>1. CASE m = n
      <4>1. d.ent[m] = g /\ c.ent[m] = e /\ m \in DOMAIN c.ent
        BY <1>1, <1>9, <3>1
      <4> QED BY <2>1, <2>2, <2>3, <4>1 DEF Listed
    <3>2. CASE m # n
      <4>1. m \in DOMAIN c.ent /\ d.ent[m] = c.ent[m]
        BY <1>12, <2>3, <3>2 DEF Listed
      <4> QED BY <2>3, <4>1 DEF Listed
    <3> QED BY <3>1, <3>2
  <2>4. Good(c) /\ Good(d)
    BY <1>2, <1>12 DEF Booked
  <2> QED BY <2>3, <2>4, ListedLess
<1> QED BY <1>12, <1>18, <1>19, <1>20

(* What every entry claims, where each counts itself.                                    *)
LEMMA ClaimsNat ==
  ASSUME NEW c, Booked(c), Reversed = {}, NEW n \in DOMAIN c.ent
  PROVE  c.ent[n].cs \in Nat
<1>1. PICK e : e = c.ent[n]
  OBVIOUS
<1>2. IsCent(e) /\ IsSized(e) /\ CountsItself(e)
  BY <1>1, BookedIs DEF Booked, IsRight
<1>3. Sizes(e.rrs, DOMAIN e.rrs) \in Nat
  <2>1. IsFiniteSet(DOMAIN e.rrs)
    BY <1>2, EntryFinite
  <2> QED BY <1>2, <2>1, SizesOf DEF IsSized, HasSizes
<1> QED BY <1>1, <1>2, <1>3 DEF CountsItself, TrueSize

(* purge_cent                                                                            *)
LEMMA PurgeCentBooked ==
  ASSUME NEW c, Booked(c), NEW n \in DOMAIN c.ent, NEW delete \in BOOLEAN, NEW r, r = PurgeCent(c, n, delete)
  PROVE  /\ Booked(r) /\ Members(r.l) \subseteq Members(c.l)
         /\ ~delete => DOMAIN r.ent = DOMAIN c.ent
         /\ Reversed = {} => r.size <= c.size
<1>1. PICK d : d = PurgeRRsets(c, n)
  OBVIOUS
<1>2. /\ Booked(d) /\ DOMAIN d.ent = DOMAIN c.ent /\ n \in DOMAIN d.ent
      /\ Members(d.l) \subseteq Members(c.l) /\ d.size <= c.size /\ d.size \in Int /\ c.size \in Int
  BY <1>1, PurgeRRsetsBooked, BookedIs DEF Booked
<1>3. PICK x : x = DelEntry(d, n)
  OBVIOUS
<1>4. Booked(x) /\ Members(x.l) \subseteq Members(c.l) /\ (Reversed = {} => x.size <= c.size)
  <2>1. Booked(x) /\ Members(x.l) = Members(d.l) \ ({n} \X Key) /\ x.size = d.size - d.ent[n].cs
    BY <1>2, <1>3, EntryGone
  <2>2. Reversed = {} => d.ent[n].cs \in Nat
    BY <1>2, ClaimsNat
  <2> QED BY <1>2, <2>1, <2>2
<1>5. PICK f : f = [d.ent[n] EXCEPT !.ns = NoName]
  OBVIOUS
<1>6. PICK y : y = [d EXCEPT !.ent = [@ EXCEPT ![n] = f]]
  OBVIOUS
<1>7. Booked(y) /\ y.size = d.size /\ y.l = d.l
  <2>1. IsCent(d.ent[n])
    BY <1>2, BookedIs DEF Booked
  <2>2. /\ DOMAIN f = EntryFields /\ f.neg = d.ent[n].neg /\ f.local = d.ent[n].local /\ f.rrs = d.ent[n].rrs
        /\ f.nrr = d.ent[n].nrr /\ f.cs = d.ent[n].cs /\ f.ext = d.ent[n].ext
    BY <1>5, <2>1 DEF IsCent, EntryFields
  <2>3. Less(d.ent[n], f, {})
    BY <2>1, <2>2 DEF Less, IsCent
  <2> QED BY <1>2, <1>6, <2>2, <2>3, EntryTouched
<1>8. r = IF delete /\ Vanishes(c.ent[n]) THEN x ELSE IF Stale(d, n) THEN y ELSE d
  <2>1. [d EXCEPT !.ent[n].ns = NoName] = y
    BY <1>5, <1>6
  <2> QED BY <1>1, <1>3, <2>1, Zenon DEF PurgeCent
<1>9. ~delete => DOMAIN r.ent = DOMAIN c.ent
  BY PurgeCentGood DEF Booked
<1> QED BY <1>2, <1>4, <1>7, <1>8, <1>9

-----------------------------------------------------------------------------
(* Merging keeps the books *)

(* Cache r is cache c but for the sets of entry n, which may count k too few.            *)
MergedBy(c, r, n, k) ==
  /\ Good(r) /\ DOMAIN r.ent = DOMAIN c.ent /\ (\A m \in DOMAIN c.ent \ {n} : r.ent[m] = c.ent[m])
  /\ r.size = c.size /\ r.num = c.num
  /\ SizedBy(r.ent[n], k) /\ (CountsItself(c.ent[n]) => CountsItself(r.ent[n]))

LEMMA MergedTwice ==
  ASSUME NEW c, NEW n, NEW k, NEW d, MergedBy(c, d, n, k), NEW j, NEW r, MergedBy(d, r, n, j)
  PROVE  MergedBy(c, r, n, j)
BY DEF MergedBy

LEMMA DelRRsetsMerged ==
  ASSUME NEW c, Good(c), NEW n \in DOMAIN c.ent, NEW e, e = c.ent[n], NEW k \in {0, 1}, SizedBy(e, k),
         NEW S, S \subseteq DOMAIN e.rrs, NEW d, d = DelRRsets(c, n, S)
  PROVE  /\ DOMAIN d.ent[n].rrs = DOMAIN e.rrs \ S
         /\ \A u \in DOMAIN d.ent[n].rrs : d.ent[n].rrs[u].neg = e.rrs[u].neg
         /\ S \subseteq Surely(e) => MergedBy(c, d, n, k)
         /\ k = 0 /\ Cardinality(S) = 1 => MergedBy(c, d, n, 1)
<1>1. IsCent(e) /\ S \in SUBSET Type
  BY DEF Good, Entries, IsCent
<1>2. PICK f : f = d.ent[n]
  OBVIOUS
<1>3. /\ Good(d) /\ DOMAIN d.ent = DOMAIN c.ent /\ (\A m \in DOMAIN c.ent \ {n} : d.ent[m] = c.ent[m])
      /\ d.size = c.size /\ d.num = c.num
      /\ Fewer(e, d.ent[n], S) /\ Less(e, d.ent[n], S)
  BY <1>1, DelRRsetsFewer
<1>4. Fewer(e, f, S) /\ Less(e, f, S)
  BY <1>2, <1>3
<1>5. /\ S \subseteq Surely(e) => SizedBy(f, k)
      /\ k = 0 /\ Cardinality(S) = 1 => SizedBy(f, 1)
      /\ CountsItself(e) => CountsItself(f)
  BY <1>1, <1>4, FewerCounts
<1>6. DOMAIN f.rrs = DOMAIN e.rrs \ S /\ \A u \in DOMAIN f.rrs : f.rrs[u].neg = e.rrs[u].neg
  BY <1>4 DEF Less
<1> QED BY <1>2, <1>3, <1>5, <1>6 DEF MergedBy

(* add_cent_rrset_by_index and what follows it.                                          *)
LEMMA PutRRsetMerged ==
  ASSUME NEW c, Good(c), NEW n \in DOMAIN c.ent, NEW e, e = c.ent[n], NEW k \in {0, 1}, SizedBy(e, k),
         NEW t \in Type \ DOMAIN e.rrs, NEW new, IsSet(new), new.n \in Nat,
         k = 1 => new.local /\ t \notin Alias \cup Record \cup Ptr,
         new.neg \/ \A u \in DOMAIN e.rrs : Excludes(t, u) => e.rrs[u].neg,
         NEW r, r = PutRRset(c, n, t, new)
  PROVE  MergedBy(c, r, n, 0)
<1>1. IsCent(e) /\ n \in Name
  BY DEF Good, Entries
<1>2. PICK rs : rs = Adjusted(new)
  OBVIOUS
<1>3. IsSet(rs) /\ rs.local = new.local /\ rs.n = new.n
  BY <1>2, AdjustedOf DEF IsSet
<1>4. PICK ex \in BOOLEAN : ex <=> e.ext \/ t \in ExtType
  OBVIOUS
<1>5. PICK cs : cs = e.cs + SizeOf(new) + (IF t \in ExtType /\ ~e.ext THEN 1 ELSE 0)
  OBVIOUS
<1>6. PICK R : R = [u \in DOMAIN e.rrs \cup {t} |-> IF u = t THEN rs ELSE e.rrs[u]]
  OBVIOUS
<1>7. PICK f : f = [e EXCEPT !.neg = FALSE, !.ext = ex, !.rrs = R, !.cs = cs, !.nrr = @ + 1]
  OBVIOUS
<1>8. PICK d : d = [c EXCEPT !.l = Without(@, {<<n, Whole>>}), !.ent[n] = f]
  OBVIOUS
<1>9. (e.ext \/ t \in ExtType) = ex
  BY <1>1, <1>4 DEF IsCent
<1>10. r = InsertRRL(d, <<n, t>>)
  BY <1>2, <1>5, <1>6, <1>7, <1>8, <1>9 DEF PutRRset
<1>11. /\ f.neg = FALSE /\ f.ext = ex /\ f.rrs = R /\ f.cs = cs /\ f.nrr = e.nrr + 1
  BY <1>1, <1>7 DEF IsCent, EntryFields
<1>12. /\ Shape(d) /\ DOMAIN d.ent = DOMAIN c.ent /\ d.ent[n] = f
       /\ \A m \in DOMAIN c.ent \ {n} : d.ent[m] = c.ent[m]
       /\ d.l = Without(c.l, {<<n, Whole>>}) /\ d.size = c.size /\ d.num = c.num
  BY <1>8 DEF Good, Shape, CacheFields
<1>13. d.l \in Seq(Element)
  BY <1>12, WithoutOf DEF Good, ListOK
<1>14. r.ent = d.ent /\ r.size = d.size /\ r.num = d.num
  <2>1. t \in Key
    BY DEF Key
  <2>2. n \in Name /\ Shape(d)
    BY <1>1, <1>12
  <2>3. Inserted(d, r, n, t)
    BY <1>10, <1>13, <2>1, <2>2, InsertRRLInserts
  <2> QED BY <2>3 DEF Inserted
<1>15. Good(r)
  <2>1. Good(PutRRset(c, n, t, new))
    BY PutRRsetGood
  <2> QED BY <2>1
<1>16. SizedBy(f, 0) /\ (CountsItself(e) => CountsItself(f))
  <2>1. /\ DOMAIN f.rrs = DOMAIN e.rrs \cup {t} /\ f.rrs[t] = rs
        /\ \A u \in DOMAIN e.rrs : f.rrs[u] = e.rrs[u]
    BY <1>6, <1>11
  <2>2. f.cs = e.cs + SizeOf(rs) + (IF t \in ExtType /\ ~e.ext THEN 1 ELSE 0)
    BY <1>3, <1>5, <1>11 DEF SizeOf
  <2>3. ~f.neg /\ f.ext \in BOOLEAN /\ (f.ext <=> e.ext \/ t \in ExtType) /\ f.nrr = e.nrr + 1
    BY <1>4, <1>11
  <2>4. rs.n \in Nat /\ (k = 1 => rs.local /\ t \notin Alias \cup Record \cup Ptr)
    BY <1>3
  <2> QED BY <1>1, <1>3, <2>1, <2>2, <2>3, <2>4, MoreCounts
<1> QED BY <1>12, <1>14, <1>15, <1>16 DEF MergedBy

(* One set of an answer is merged into the entry: a local set that is not counted can    *)
(* only make room for another local one, which then counts.                              *)
LEMMA MergeRRsetMerged ==
  ASSUME NEW c, Good(c), NEW n \in DOMAIN c.ent, IsSized(c.ent[n]), NEW t \in Type, NEW new, IsSet(new), new.n \in Nat,
         NEW r, r = MergeRRset(c, n, t, new)
  PROVE  MergedBy(c, r, n, 0)
<1>1. PICK e : e = c.ent[n]
  OBVIOUS
<1>2. IsCent(e) /\ SizedBy(e, 0)
  BY <1>1, SizedIs DEF Good, Entries
<1>3. MergedBy(c, c, n, 0)
  BY <1>1, <1>2 DEF MergedBy
<1>4. PICK d : d = IF t \in DOMAIN e.rrs THEN DelRRsets(c, n, {t}) ELSE c
  OBVIOUS
<1>5. PICK k \in {0, 1} :
        /\ MergedBy(c, d, n, k) /\ t \notin DOMAIN d.ent[n].rrs
        /\ k = 1 => t \in DOMAIN e.rrs /\ e.rrs[t].local /\ t \notin Alias \cup Record \cup Ptr
  <2>1. CASE t \notin DOMAIN e.rrs
    BY <1>1, <1>3, <1>4, <2>1
  <2>2. CASE t \in DOMAIN e.rrs
    <3>1. PICK S : S = {t}
      OBVIOUS
    <3>2. d = DelRRsets(c, n, S) /\ S \subseteq DOMAIN e.rrs
      BY <1>4, <2>2, <3>1
    <3>3. Cardinality(S) = 1
      BY <3>1, FS_Singleton
    <3>4. /\ DOMAIN d.ent[n].rrs = DOMAIN e.rrs \ S
          /\ S \subseteq Surely(e) => MergedBy(c, d, n, 0)
          /\ MergedBy(c, d, n, 1)
      BY <1>1, <1>2, <3>2, <3>3, DelRRsetsMerged
    <3>5. t \notin DOMAIN d.ent[n].rrs
      BY <3>1, <3>4
    <3>6. CASE t \in Surely(e)
      BY <3>1, <3>4, <3>5, <3>6
    <3>7. CASE t \notin Surely(e)
      BY <2>2, <3>4, <3>5, <3>7 DEF Surely
    <3> QED BY <3>6, <3>7
  <2> QED BY <2>1, <2>2
<1>6. PICK g : g = d.ent[n]
  OBVIOUS
<1>7. Good(d) /\ n \in DOMAIN d.ent /\ SizedBy(g, k) /\ IsCent(g) /\ t \in Type \ DOMAIN g.rrs
  BY <1>5, <1>6 DEF MergedBy, Good, Entries
<1>8. PICK S : S = Conflicting(g, t)
  OBVIOUS
<1>9. S \subseteq DOMAIN g.rrs /\ S \subseteq Surely(g)
  BY <1>8 DEF Conflicting, Surely, Excludes
<1>10. PICK x : x = DelRRsets(d, n, S)
  OBVIOUS
<1>11. /\ MergedBy(d, x, n, k) /\ DOMAIN x.ent[n].rrs = DOMAIN g.rrs \ S
       /\ \A u \in DOMAIN x.ent[n].rrs : x.ent[n].rrs[u].neg = g.rrs[u].neg
  BY <1>6, <1>7, <1>9, <1>10, DelRRsetsMerged
<1>12. PICK h : h = x.ent[n]
  OBVIOUS
<1>13. CASE t \in DOMAIN e.rrs /\ Precedes(e.rrs[t], new)
  BY <1>1, <1>3, <1>13 DEF MergeRRset
<1>14. CASE ~(t \in DOMAIN e.rrs /\ Precedes(e.rrs[t], new))
  <2>1. r = IF new.neg THEN PutRRset(d, n, t, new)
            ELSE IF MayReplace(g, new, S) THEN PutRRset(x, n, t, new) ELSE d
    BY <1>1, <1>4, <1>6, <1>8, <1>10, <1>14 DEF MergeRRset
  <2>2. k = 1 => new.local /\ t \notin Alias \cup Record \cup Ptr
    BY <1>5, <1>14 DEF Precedes
  <2>3. CASE new.neg
    <3>1. MergedBy(d, r, n, 0)
      BY <1>6, <1>7, <2>1, <2>2, <2>3, PutRRsetMerged
    <3> QED BY <1>5, <3>1, MergedTwice
  <2>4. CASE ~new.neg /\ MayReplace(g, new, S)
    <3>1. r = PutRRset(x, n, t, new)
      BY <2>1, <2>4
    <3>2. Good(x) /\ n \in DOMAIN x.ent /\ SizedBy(h, k)
      BY <1>7, <1>11, <1>12 DEF MergedBy
    <3>3. t \in Type \ DOMAIN h.rrs /\ \A u \in DOMAIN h.rrs : Excludes(t, u) => h.rrs[u].neg
      BY <1>7, <1>8, <1>11, <1>12 DEF Conflicting
    <3>4. MergedBy(x, r, n, 0)
      BY <1>12, <2>2, <3>1, <3>2, <3>3, PutRRsetMerged
    <3> QED BY <1>5, <1>11, <3>4, MergedTwice
  <2>5. CASE ~new.neg /\ ~MayReplace(g, new, S)
    <3>1. r = d /\ k = 0
      BY <2>1, <2>2, <2>5 DEF MayReplace
    <3> QED BY <1>5, <3>1
  <2> QED BY <2>3, <2>4, <2>5
<1> QED BY <1>13, <1>14

LEMMA MergeAllMerged ==
  ASSUME NEW c, Good(c), NEW n \in DOMAIN c.ent, IsSized(c.ent[n]), NEW cent, IsCent(cent), HasSizes(cent)
  PROVE  MergedBy(c, MergeAll(c, n, cent), n, 0)
<1>1. Len(Types) \in Nat /\ \A i \in 1..Len(Types) : Types[i] \in Type
  BY TypesOnce
<1>2. PICK w : /\ MergeAll(c, n, cent) = w[Len(Types)]
               /\ w[0] = c
               /\ \A i \in 1..Len(Types) :
                    w[i] = IF Types[i] \in DOMAIN cent.rrs
                           THEN MergeRRset(w[i - 1], n, Types[i], cent.rrs[Types[i]]) ELSE w[i - 1]
  BY <1>1, MergeAllWalk
<1> DEFINE G == {i \in 0..Len(Types) : MergedBy(c, w[i], n, 0)}
<1>3. 0 \in G
  <2>1. SizedBy(c.ent[n], 0)
    BY SizedIs DEF Good, Entries
  <2>2. MergedBy(c, c, n, 0)
    BY <2>1 DEF MergedBy
  <2> QED BY <1>1, <1>2, <2>2
<1>4. ASSUME NEW i \in 0..Len(Types), i \in G, i < Len(Types) PROVE i + 1 \in G
  <2>1. i + 1 \in 1..Len(Types) /\ i + 1 \in 0..Len(Types) /\ (i + 1) - 1 = i
    BY <1>1, <1>4
  <2>2. PICK t \in Type : t = Types[i + 1]
    BY <1>1, <2>1
  <2>3. PICK x : x = w[i]
    OBVIOUS
  <2>4. PICK y : y = w[i + 1]
    OBVIOUS
  <2>5. y = IF t \in DOMAIN cent.rrs THEN MergeRRset(x, n, t, cent.rrs[t]) ELSE x
    BY <1>2, <2>1, <2>2, <2>3, <2>4
  <2>6. MergedBy(c, x, n, 0)
    BY <1>4, <2>3
  <2>7. Good(x) /\ n \in DOMAIN x.ent /\ IsSized(x.ent[n])
    BY <2>6, SizedIs DEF MergedBy, Good, Entries
  <2>8. CASE t \in DOMAIN cent.rrs
    <3>1. PICK new : new = cent.rrs[t]
      OBVIOUS
    <3>2. IsSet(new) /\ new.n \in Nat
      BY <2>8, <3>1 DEF IsCent, IsSet, HasSizes
    <3>3. MergedBy(x, y, n, 0)
      BY <2>5, <2>7, <2>8, <3>1, <3>2, MergeRRsetMerged
    <3>4. MergedBy(c, y, n, 0)
      BY <2>6, <3>3, MergedTwice
    <3> QED BY <2>1, <2>4, <3>4
  <2>9. CASE t \notin DOMAIN cent.rrs
    BY <2>1, <2>4, <2>5, <2>6, <2>9
  <2> QED BY <2>8, <2>9
<1> HIDE DEF G
<1>5. \A i \in 0..Len(Types) : i \in G
  BY <1>1, <1>3, <1>4, UpTo
<1> QED BY <1>1, <1>2, <1>5 DEF G

(* add_cache, of a name that has an entry: what the entry claims is taken out of the     *)
(* size, and what it claims then is put in.                                              *)
LEMMA MergeBooked ==
  ASSUME NEW c, Booked(c), NEW n \in DOMAIN c.ent, NEW cent, IsCent(cent), HasSizes(cent)
  PROVE  Booked(Merge(c, n, cent))
<1>1. PICK p : p = PurgeCent(c, n, FALSE)
  OBVIOUS
<1>2. Booked(p) /\ n \in DOMAIN p.ent
  BY <1>1, PurgeCentBooked
<1>3. PICK e : e = p.ent[n]
  OBVIOUS
<1>4. Good(p) /\ IsCent(e) /\ IsSized(e) /\ e.cs \in Int /\ p.size \in Int
  BY <1>2, <1>3, BookedIs DEF Booked
<1>5. PICK x : x = p.size - e.cs
  OBVIOUS
<1>6. PICK q : q = [p EXCEPT !.size = x]
  OBVIOUS
<1>7. Shape(q) /\ q.ent = p.ent /\ q.l = p.l /\ q.num = p.num /\ q.size = x
  BY <1>4, <1>6 DEF Good, Shape, CacheFields
<1>8. Good(q)
  BY <1>4, <1>7, SizesOnly
<1>9. PICK d : d = MergeAll(q, n, cent)
  OBVIOUS
<1>10. MergedBy(q, d, n, 0)
  BY <1>2, <1>3, <1>4, <1>7, <1>8, <1>9, MergeAllMerged
<1>11. PICK g : g = d.ent[n]
  OBVIOUS
<1>12. /\ Good(d) /\ DOMAIN d.ent = DOMAIN p.ent /\ (\A m \in DOMAIN p.ent \ {n} : d.ent[m] = p.ent[m])
       /\ d.size = x /\ d.num = p.num /\ SizedBy(g, 0) /\ (CountsItself(e) => CountsItself(g))
  BY <1>3, <1>7, <1>10, <1>11 DEF MergedBy
<1>13. IsCent(g) /\ IsSized(g) /\ g.cs \in Int
  BY <1>2, <1>11, <1>12, SizedIs DEF Good, Entries, SizedBy
<1>14. PICK y : y = d.size + g.cs
  OBVIOUS
<1>15. PICK z : z = [d EXCEPT !.size = y]
  OBVIOUS
<1>16. Shape(z) /\ z.ent = d.ent /\ z.l = d.l /\ z.num = d.num /\ z.size = y
  BY <1>12, <1>15 DEF Good, Shape, CacheFields
<1>17. Good(z)
  BY <1>12, <1>16, SizesOnly
<1>18. z.size = p.size + (z.ent[n].cs - p.ent[n].cs)
  BY <1>3, <1>4, <1>5, <1>11, <1>12, <1>13, <1>14, <1>16
<1>19. Booked(z)
  BY <1>2, <1>3, <1>11, <1>12, <1>13, <1>16, <1>17, <1>18, EntryChanged
<1> DEFINE r == [d EXCEPT !.size = @ + d.ent[n].cs, !.ent[n].wild = @ \/ cent.wild, !.ent[n].ns = Nearer(@, cent.ns)]
<1>20. Merge(c, n, cent) = r
  BY <1>1, <1>3, <1>5, <1>6, <1>9 DEF Merge
<1>21. /\ Shape(r) /\ DOMAIN r.ent = DOMAIN d.ent /\ r.l = d.l /\ r.num = d.num /\ r.size = d.size + d.ent[n].cs
       /\ \A m \in DOMAIN d.ent \ {n} : r.ent[m] = d.ent[m]
  BY <1>12 DEF Good, Shape, CacheFields
<1>22. /\ DOMAIN r.ent[n] = EntryFields
       /\ r.ent[n].neg = g.neg /\ r.ent[n].local = g.local /\ r.ent[n].rrs = g.rrs
       /\ r.ent[n].nrr = g.nrr /\ r.ent[n].cs = g.cs /\ r.ent[n].ext = g.ext
  BY <1>2, <1>11, <1>12, <1>13 DEF Good, Shape, CacheFields, IsCent, EntryFields
<1> HIDE DEF r
<1>23. Less(g, r.ent[n], {})
  BY <1>13, <1>22 DEF Less, IsCent
<1>24. Touched(z, r, n)
  BY <1>11, <1>14, <1>16, <1>21, <1>22, <1>23 DEF Touched
<1>25. Booked(r)
  BY <1>2, <1>12, <1>16, <1>19, <1>24, TouchedBooked
<1> QED BY <1>20, <1>25

-----------------------------------------------------------------------------
(* Adding keeps the books *)

(* What add_cache may be given for a name.                                               *)
Countable(n, cent) == /\ n \in Name /\ IsCent(cent) /\ IsSized(cent)
                      /\ n \notin Reversed => CountsItself(cent)

LEMMA SameBooked ==
  ASSUME NEW c, Booked(c), NEW d, Good(d), d.ent = c.ent, d.size = c.size, d.num = c.num
  PROVE  Booked(d)
BY DEF Booked, Ledger

(* NewGood, of the books.                                                                *)
As(r, d) == Good(r) /\ r.ent = d.ent /\ r.size = d.size /\ r.num = d.num

LEMMA NewAs ==
  ASSUME NEW c, Good(c), NEW n \in Name, n \notin DOMAIN c.ent, NEW e, IsCent(e),
         NEW d, Shape(d), d.l = c.l, d.ent = [m \in DOMAIN c.ent \cup {n} |-> IF m = n THEN e ELSE c.ent[m]],
         NEW keys \in Seq(Key), Once(keys), Members(keys) = IF e.neg THEN {Whole} ELSE DOMAIN e.rrs,
         NEW r, r = ListAll(d, n, keys)
  PROVE  As(r, d)
BY NewGood DEF As

(* add_cache, of a name that has no entry.                                               *)
LEMMA AddNewBooked ==
  ASSUME NEW c, Booked(c), NEW n, n \notin DOMAIN c.ent, NEW cent, Countable(n, cent)
  PROVE  Booked(AddNew(c, n, cent))
<1> DEFINE e == [cent EXCEPT !.ttl = DomTtl(cent), !.nocache = @ /\ ~cent.neg, !.rrs = [t \in DOMAIN @ |-> Adjusted(@[t])]]
           d == [c EXCEPT !.ent = [m \in Names(c) \cup {n} |-> IF m = n THEN e ELSE c.ent[m]],
                          !.num = @ + 1, !.size = @ + e.cs]
           keys == IF e.neg THEN <<Whole>> ELSE Without(Types, Type \ DOMAIN e.rrs)
<1>0. Good(c) /\ IsCent(cent) /\ IsSized(cent) /\ n \in Name
  BY DEF Booked, Countable
<1>1. AddNew(c, n, cent) = IF cent.nrr = 0 /\ ~cent.neg THEN c ELSE ListAll(d, n, keys)
  BY DEF AddNew
<1>2. PICK R : R = [t \in DOMAIN cent.rrs |-> Adjusted(cent.rrs[t])]
  OBVIOUS
<1>3. /\ DOMAIN e = EntryFields /\ e.neg = cent.neg /\ e.local = cent.local /\ e.ext = cent.ext /\ e.rrs = R
      /\ e.nrr = cent.nrr /\ e.cs = cent.cs
  BY <1>0, <1>2 DEF IsCent, EntryFields
<1> HIDE DEF e
<1>4. \A t \in DOMAIN R : /\ DOMAIN R[t] = SetFields /\ R[t].neg = cent.rrs[t].neg
                          /\ R[t].local = cent.rrs[t].local /\ R[t].n = cent.rrs[t].n
  <2>1. ASSUME NEW t \in DOMAIN R
        PROVE  /\ DOMAIN R[t] = SetFields /\ R[t].neg = cent.rrs[t].neg
               /\ R[t].local = cent.rrs[t].local /\ R[t].n = cent.rrs[t].n
    <3>1. DOMAIN cent.rrs[t] = SetFields /\ R[t] = Adjusted(cent.rrs[t])
      BY <1>0, <1>2 DEF IsCent
    <3> QED BY <3>1, AdjustedOf
  <2> QED BY <2>1
<1>5. DOMAIN R = DOMAIN cent.rrs
  BY <1>2
<1>6. IsCent(e)
  BY <1>0, <1>3, <1>4, <1>5 DEF IsCent, Coherent
<1>7. IsSized(e) /\ (CountsItself(cent) => CountsItself(e))
  BY <1>0, <1>3, <1>4, <1>5, <1>6, SameCounts
<1>8. /\ Shape(d) /\ d.l = c.l /\ d.ent = [m \in DOMAIN c.ent \cup {n} |-> IF m = n THEN e ELSE c.ent[m]]
      /\ d.size = c.size + e.cs /\ d.num = c.num + 1
  BY <1>0 DEF Good, Shape, CacheFields, Names
<1> HIDE DEF d
<1>9. keys \in Seq(Key) /\ Once(keys) /\ Members(keys) = IF e.neg THEN {Whole} ELSE DOMAIN e.rrs
  <2>1. CASE e.neg
    <3>1. keys = <<Whole>> /\ Whole \in Key
      BY <2>1 DEF Key
    <3> HIDE DEF keys
    <3> QED BY <2>1, <3>1 DEF Once, Members
  <2>2. CASE ~e.neg
    <3>1. PICK S \in SUBSET Type : S = DOMAIN e.rrs
      BY <1>6 DEF IsCent
    <3>2. keys = Without(Types, Type \ S)
      BY <2>2, <3>1
    <3> HIDE DEF keys
    <3> QED BY <2>2, <3>1, <3>2, TypesIn
  <2> QED BY <2>1, <2>2
<1> HIDE DEF keys
<1>10. PICK r : r = ListAll(d, n, keys)
  OBVIOUS
<1>11. Good(r) /\ r.ent = d.ent /\ r.size = d.size /\ r.num = d.num
  <2>1. Shape(d) /\ d.l = c.l /\ d.ent = [m \in DOMAIN c.ent \cup {n} |-> IF m = n THEN e ELSE c.ent[m]]
    BY <1>8
  <2>2. Good(c)
    BY <1>0
  <2>3. As(r, d)
    BY <1>0, <2>2, <1>6, <2>1, <1>9, <1>10, NewAs
  <2> QED BY <2>3 DEF As
<1>12. /\ DOMAIN r.ent = DOMAIN c.ent \cup {n} /\ (\A m \in DOMAIN c.ent : r.ent[m] = c.ent[m]) /\ r.ent[n] = e
       /\ r.size = c.size + r.ent[n].cs /\ r.num = c.num + 1
  BY <1>8, <1>11
<1>13. n \notin Reversed => CountsItself(r.ent[n])
  BY <1>7, <1>12 DEF Countable
<1>14. Booked(r)
  BY <1>7, <1>11, <1>12, <1>13, EntryNew
<1> QED BY <1>1, <1>10, <1>14

(* add_cache *)
LEMMA AddCacheBooked ==
  ASSUME NEW c, Booked(c), NEW n, NEW cent, Countable(n, cent)
  PROVE  /\ Booked(AddCache(c, n, cent))
         /\ Within(c, Perm + Extra) => Within(AddCache(c, n, cent), Perm + Extra)
<1>1. \A d : Booked(d) => Booked(Fit(d)) /\ Within(Fit(d), Perm + Extra)
  BY PurgeCacheBooked DEF Fit
<1>2. n \notin DOMAIN c.ent => Booked(AddNew(c, n, cent))
  BY AddNewBooked
<1>3. n \in DOMAIN c.ent => Booked(Merge(c, n, cent))
  BY MergeBooked DEF Countable, IsSized
<1>4. n \in DOMAIN c.ent => Booked(AddNew(DelEntry(c, n), n, cent))
  <2> SUFFICES ASSUME n \in DOMAIN c.ent PROVE Booked(AddNew(DelEntry(c, n), n, cent))
    OBVIOUS
  <2>1. PICK d : d = DelEntry(c, n)
    OBVIOUS
  <2>2. Booked(d) /\ DOMAIN d.ent = DOMAIN c.ent \ {n}
    BY <2>1, EntryGone
  <2>3. n \notin DOMAIN d.ent
    BY <2>2
  <2>4. Booked(AddNew(d, n, cent))
    BY <2>2, <2>3, AddNewBooked
  <2> QED BY <2>1, <2>4
<1>5. \E d : /\ Booked(d)
             /\ AddCache(c, n, cent) = Fit(d) \/ AddCache(c, n, cent) = c
  BY <1>2, <1>3, <1>4 DEF AddCache, Names
<1> QED BY <1>1, <1>5

LEMMA AddAllBooked ==
  ASSUME NEW c, Booked(c), Within(c, Perm + Extra), NEW cents, Len(cents) \in Nat,
         \A i \in 1..Len(cents) : Countable(cents[i][1], cents[i][2])
  PROVE  Booked(AddAll(c, cents)) /\ Within(AddAll(c, cents), Perm + Extra)
<1>1. PICK w : /\ AddAll(c, cents) = w[Len(cents)]
               /\ w[0] = c
               /\ \A i \in 1..Len(cents) : w[i] = AddCache(w[i - 1], cents[i][1], cents[i][2])
  BY AddAllWalk
<1> DEFINE OK(i) == Booked(w[i]) /\ Within(w[i], Perm + Extra)
           G == {i \in 0..Len(cents) : OK(i)}
<1>2. 0 \in G
  BY <1>1
<1>3. ASSUME NEW i \in 0..Len(cents), i \in G, i < Len(cents) PROVE i + 1 \in G
  <2>1. i + 1 \in 1..Len(cents) /\ i + 1 \in 0..Len(cents) /\ (i + 1) - 1 = i
    BY <1>3
  <2>2. PICK x : x = w[i]
    OBVIOUS
  <2>3. PICK n : n = cents[i + 1][1]
    OBVIOUS
  <2>4. PICK cent : cent = cents[i + 1][2]
    OBVIOUS
  <2>5. w[i + 1] = AddCache(x, n, cent) /\ Countable(n, cent)
    BY <1>1, <2>1, <2>2, <2>3, <2>4
  <2>6. Booked(x) /\ Within(x, Perm + Extra)
    BY <1>3, <2>2
  <2>7. OK(i + 1)
    BY <2>5, <2>6, AddCacheBooked
  <2> HIDE DEF OK
  <2> QED BY <2>1, <2>7
<1> HIDE DEF G
<1>4. \A i \in 0..Len(cents) : i \in G
  BY <1>2, <1>3, UpTo
<1>5. Len(cents) \in G
  BY <1>4
<1> QED BY <1>1, <1>5 DEF G

-----------------------------------------------------------------------------
(* The file, and the start *)

(* read_disk_cache counts what it reads.                                                 *)
LEMMA ReadCounts ==
  ASSUME NEW e, IsCent(e), HasSizes(e)
  PROVE  IsSized(Read(e)) /\ CountsItself(Read(e))
<1>1. PICK R : R = [t \in DOMAIN e.rrs |-> [e.rrs[t] EXCEPT !.n = IF e.local THEN 0 ELSE @]]
  OBVIOUS
<1>2. PICK ex \in BOOLEAN : ex = (DOMAIN e.rrs \cap ExtType # {})
  OBVIOUS
<1>3. PICK k : k = Cardinality(DOMAIN e.rrs)
  OBVIOUS
<1>4. PICK f : f = [e EXCEPT !.rrs = R, !.ext = ex, !.nrr = k]
  OBVIOUS
<1>5. PICK x : x = TrueSize(f)
  OBVIOUS
<1>6. PICK g : g = [f EXCEPT !.cs = x]
  OBVIOUS
<1>7. Read(e) = g
  BY <1>1, <1>2, <1>3, <1>4, <1>5, <1>6 DEF Read
<1>8. DOMAIN f = EntryFields /\ f.neg = e.neg /\ f.rrs = R /\ f.ext = ex /\ f.nrr = k
  BY <1>4 DEF IsCent, EntryFields
<1>9. g.neg = e.neg /\ g.rrs = R /\ g.ext = ex /\ g.nrr = k /\ g.cs = x
  BY <1>6, <1>8 DEF EntryFields
<1>10. /\ DOMAIN R = DOMAIN e.rrs /\ IsFiniteSet(DOMAIN R) /\ k \in Nat
       /\ \A t \in DOMAIN R : R[t].n \in Nat
  <2>1. IsFiniteSet(DOMAIN e.rrs) /\ Cardinality(DOMAIN e.rrs) \in Nat
    BY EntryFinite
  <2>2. ASSUME NEW t \in DOMAIN e.rrs PROVE R[t].n \in Nat
    <3>1. DOMAIN e.rrs[t] = SetFields /\ e.rrs[t].n \in Nat
      BY DEF IsCent, HasSizes
    <3> QED BY <1>1, <3>1 DEF SetFields
  <2> QED BY <1>1, <1>3, <2>1, <2>2
<1>11. HasSizes(g)
  BY <1>9, <1>10 DEF HasSizes
<1>12. x = TrueSize(g) /\ x \in Int
  <2>1. Sizes(R, DOMAIN R) \in Nat
    BY <1>10, SizesOf
  <2> QED BY <1>2, <1>5, <1>8, <1>9, <2>1 DEF TrueSize
<1>13. CountsItself(g)
  BY <1>3, <1>9, <1>10, <1>12 DEF CountsItself
<1>14. g.neg => g.nrr = 0
  <2>1. g.neg => DOMAIN e.rrs = {}
    BY <1>9 DEF IsCent
  <2> QED BY <1>3, <1>9, <2>1, FS_EmptySet
<1>15. Cardinality(Surely(g)) <= g.nrr
  <2>1. PICK S : S = Surely(g)
    OBVIOUS
  <2>2. S \subseteq DOMAIN R
    BY <1>9, <2>1 DEF Surely
  <2>3. Cardinality(S) <= Cardinality(DOMAIN R)
    BY <1>10, <2>2, FS_Subset
  <2> QED BY <1>3, <1>9, <1>10, <2>1, <2>3
<1> QED BY <1>7, <1>9, <1>10, <1>11, <1>12, <1>13, <1>14, <1>15 DEF IsSized

(* What a file holds has its sizes.                                                      *)
SizedFile(file) == IsFile(file) /\ \A n \in DOMAIN file : HasSizes(file[n])

LEMMA FileSized ==
  ASSUME NEW c, Booked(c)
  PROVE  SizedFile(File(c))
<1>1. ASSUME NEW e, IsCent(e), HasSizes(e) PROVE HasSizes(SavedEnt(e))
  <2>1. PICK R : R = Restrict(e.rrs, {t \in DOMAIN e.rrs : ~e.rrs[t].local})
    OBVIOUS
  <2>2. PICK f : f = [e EXCEPT !.rrs = R]
    OBVIOUS
  <2>3. SavedEnt(e) = f
    BY <2>1, <2>2 DEF SavedEnt
  <2>4. DOMAIN R \subseteq DOMAIN e.rrs /\ \A t \in DOMAIN R : R[t] = e.rrs[t]
    BY <2>1 DEF Restrict
  <2>5. f.rrs = R
    BY <1>1, <2>2 DEF IsCent, EntryFields
  <2> QED BY <1>1, <2>3, <2>4, <2>5 DEF HasSizes
<1>2. \A n \in DOMAIN c.ent : IsCent(c.ent[n]) /\ HasSizes(c.ent[n])
  BY BookedIs DEF Booked, IsSized
<1>3. DOMAIN File(c) \subseteq DOMAIN c.ent /\ \A n \in DOMAIN File(c) : File(c)[n] = SavedEnt(c.ent[n])
  BY DEF File, Names
<1>4. IsFile(File(c))
  BY FileOf DEF Booked
<1> QED BY <1>1, <1>2, <1>3, <1>4 DEF SizedFile

LEMMA EmptyBooked == Booked(EmptyCache) /\ Within(EmptyCache, Perm + Extra)
<1>1. PICK c : c = EmptyCache
  OBVIOUS
<1>2. c.ent = <<>> /\ c.l = <<>> /\ c.size = 0 /\ c.num = 0
  BY <1>1 DEF EmptyCache
<1>3. DOMAIN c.ent = {}
  BY <1>2
<1>4. Claims(c.ent, DOMAIN c.ent) = 0 /\ Cardinality(DOMAIN c.ent) = 0
  <2>1. PICK es : es = c.ent
    OBVIOUS
  <2>2. IsFiniteSet(DOMAIN es) /\ (\A n \in DOMAIN es : es[n].cs \in Int) /\ {} \subseteq DOMAIN es
    BY <1>3, <2>1, FS_EmptySet
  <2>3. Claims(es, {}) = 0
    BY <2>2, ClaimsOf
  <2> QED BY <1>3, <2>1, <2>3, FS_EmptySet
<1>5. Booked(c)
  BY <1>1, <1>2, <1>3, <1>4, EmptyGood DEF Booked, IsRight, Ledger
<1>6. Within(c, Perm + Extra)
  BY <1>2, BoundsGiven DEF Within
<1> QED BY <1>1, <1>5, <1>6

-----------------------------------------------------------------------------
(* Sorting and saving keep the books *)

LEMMA SortedBooked ==
  ASSUME NEW c, Booked(c), Within(c, Perm + Extra)
  PROVE  Booked(Sorted(c)) /\ Within(Sorted(c), Perm + Extra)
<1>1. PICK d : d = Sorted(c)
  OBVIOUS
<1>2. Good(d) /\ d.ent = c.ent /\ Members(d.l) = Members(c.l)
  BY <1>1, SortedGood DEF Booked
<1>3. d.size = c.size /\ d.num = c.num
  BY <1>1 DEF Sorted, Booked, Good, Shape, CacheFields
<1>4. Booked(d)
  BY <1>2, <1>3, SameBooked
<1>5. Within(d, Perm + Extra)
  BY <1>2, <1>3 DEF Within
<1> QED BY <1>1, <1>4, <1>5

(* What the configuration adds.                                                          *)
LEMMA ConfigCountable ==
  /\ Len(Config) \in Nat
  /\ \A i \in 1..Len(Config) : Countable(Config[i][1], Config[i][2])
<1>1. Len(Config) \in Nat /\ DOMAIN Config = 1..Len(Config) /\ \A i \in 1..Len(Config) : Config[i] \in Range(Config)
  BY ConfigFits
<1>2. ASSUME NEW i \in 1..Len(Config) PROVE Countable(Config[i][1], Config[i][2])
  <2>1. Config[i][1] \in Name /\ IsCent(Config[i][2]) /\ IsSized(Config[i][2])
    BY <1>1, ConfigFits, ConfigCounts
  <2>2. ~CountsItself(Config[i][2]) => Config[i][1] \in Reversed
    BY <1>1 DEF Reversed
  <2> QED BY <2>1, <2>2 DEF Countable
<1> QED BY <1>1, <1>2

(* The start of the program: the configuration, then the file.                           *)
LEMMA LoadBooked ==
  ASSUME NEW file, SizedFile(file)
  PROVE  Booked(Load(file)) /\ Within(Load(file), Perm + Extra)
<1> DEFINE c == AddAll(EmptyCache, Config)
           order == SetToSeq(DOMAIN file)
           cents == [i \in DOMAIN order |-> <<order[i], Read(file[order[i]])>>]
           d == [c EXCEPT !.sorted = FALSE]
<1>1. Load(file) = Sorted(AddAll(d, cents))
  BY DEF Load
<1>2. Booked(c) /\ Within(c, Perm + Extra)
  BY EmptyBooked, ConfigCountable, AddAllBooked
<1> HIDE DEF c
<1>3. Booked(d) /\ Within(d, Perm + Extra)
  <2>1. Shape(d) /\ d.ent = c.ent /\ d.l = c.l /\ d.size = c.size /\ d.num = c.num
    BY <1>2 DEF Booked, Good, Shape, CacheFields
  <2> HIDE DEF d
  <2>2. Good(d)
    BY <1>2, <2>1, SizesOnly DEF Booked
  <2>3. Within(d, Perm + Extra)
    BY <1>2, <2>1 DEF Within
  <2> QED BY <1>2, <2>1, <2>2, <2>3, SameBooked
<1> HIDE DEF d
<1>4. PICK k \in Nat : order \in [1..k -> DOMAIN file]
  <2>1. IsFiniteSet(DOMAIN file)
    BY NamesFinite, FS_Subset DEF SizedFile, IsFile
  <2> QED BY <2>1, SetToSeqOf
<1> HIDE DEF order
<1>5. Len(cents) = k /\ \A i \in 1..k : cents[i] = <<order[i], Read(file[order[i]])>>
  <2>1. cents = [i \in 1..k |-> <<order[i], Read(file[order[i]])>>]
    BY <1>4
  <2> HIDE DEF cents
  <2> QED BY <2>1
<1> HIDE DEF cents
<1>6. \A i \in 1..k : Countable(order[i], Read(file[order[i]]))
  <2>1. ASSUME NEW n \in DOMAIN file PROVE Countable(n, Read(file[n]))
    <3>1. n \in Name /\ IsCent(file[n]) /\ HasSizes(file[n])
      BY DEF SizedFile, IsFile
    <3> QED BY <3>1, ReadCent, ReadCounts DEF Countable
  <2> QED BY <1>4, <2>1
<1>7. \A i \in 1..Len(cents) : Countable(cents[i][1], cents[i][2])
  BY <1>5, <1>6
<1>8. Len(cents) \in Nat
  BY <1>5
<1>9. Booked(AddAll(d, cents)) /\ Within(AddAll(d, cents), Perm + Extra)
  BY <1>3, <1>7, <1>8, AddAllBooked
<1> QED BY <1>1, <1>9, SortedBooked

(* An answer with its times.                                                             *)
LEMMA AtCounts ==
  ASSUME NEW cent, IsCent(cent), IsSized(cent), NEW time
  PROVE  /\ IsCent(At(cent, time)) /\ IsSized(At(cent, time))
         /\ CountsItself(cent) => CountsItself(At(cent, time))
<1>1. PICK R : R = [t \in DOMAIN cent.rrs |-> [cent.rrs[t] EXCEPT !.ts = time]]
  OBVIOUS
<1>2. PICK x : x = IF cent.neg THEN time ELSE 0
  OBVIOUS
<1>3. PICK f : f = [cent EXCEPT !.ts = x, !.rrs = R]
  OBVIOUS
<1>4. At(cent, time) = f
  BY <1>1, <1>2, <1>3 DEF At
<1>5. /\ DOMAIN R = DOMAIN cent.rrs
      /\ \A t \in DOMAIN R : R[t].n = cent.rrs[t].n /\ R[t].local = cent.rrs[t].local
  BY <1>1 DEF IsCent, SetFields
<1>6. f.neg = cent.neg /\ f.nrr = cent.nrr /\ f.cs = cent.cs /\ f.ext = cent.ext /\ f.rrs = R
  BY <1>3 DEF IsCent, EntryFields
<1>7. IsCent(f)
  BY <1>4, AtCent
<1> QED BY <1>4, <1>5, <1>6, <1>7, SameCounts

(* set_cent_flags and invalidate_record, of an entry.                                    *)
LEMMA TouchBooked ==
  ASSUME Booked(Cache), NEW n \in DOMAIN ent, NEW y \in {[Cache EXCEPT !.ent[n].wild = TRUE], [Cache EXCEPT !.ent[n] = Outdated(@)]}
  PROVE  Booked(y) /\ y.size = cache_size /\ y.l = rrset_l
<1>1. PICK c : c = Cache
  OBVIOUS
<1>2. Booked(c) /\ n \in DOMAIN c.ent /\ c.size = cache_size /\ c.l = rrset_l
  BY <1>1 DEF Cache
<1>3. PICK e : e = c.ent[n]
  OBVIOUS
<1>4. IsCent(e)
  BY <1>2, <1>3 DEF Booked, Good, Entries
<1>5. PICK f : f = [e EXCEPT !.wild = TRUE]
  OBVIOUS
<1>6. f.neg = e.neg /\ f.local = e.local /\ f.ext = e.ext /\ f.rrs = e.rrs /\ f.nrr = e.nrr /\ f.cs = e.cs /\ DOMAIN f = EntryFields
  BY <1>4, <1>5 DEF IsCent, EntryFields
<1>7. Less(e, f, {}) /\ \A t \in DOMAIN e.rrs : f.rrs[t].n = e.rrs[t].n
  BY <1>4, <1>6 DEF Less, IsCent
<1>8. PICK d : d = [c EXCEPT !.ent = [@ EXCEPT ![n] = f]]
  OBVIOUS
<1>9. Booked(d) /\ d.size = c.size /\ d.l = c.l
  BY <1>2, <1>3, <1>6, <1>7, <1>8, EntryTouched
<1>10. [Cache EXCEPT !.ent[n].wild = TRUE] = d
  BY <1>1, <1>3, <1>5, <1>8
<1>11. PICK g : g = Outdated(e)
  OBVIOUS
<1>12. /\ Less(e, g, {}) /\ g.nrr = e.nrr /\ g.cs = e.cs /\ g.ext = e.ext
       /\ \A t \in DOMAIN e.rrs : g.rrs[t].n = e.rrs[t].n
  <2>1. PICK R : R = [t \in DOMAIN e.rrs |-> [e.rrs[t] EXCEPT !.ts = 0]]
    OBVIOUS
  <2>2. PICK x : x = IF e.neg THEN 0 ELSE e.ts
    OBVIOUS
  <2>3. g = [e EXCEPT !.ts = x, !.rrs = R]
    BY <1>11, <2>1, <2>2 DEF Outdated
  <2>4. g.nrr = e.nrr /\ g.cs = e.cs /\ g.ext = e.ext /\ g.rrs = R
    BY <1>4, <2>3 DEF IsCent, EntryFields
  <2>5. \A t \in DOMAIN e.rrs : R[t].n = e.rrs[t].n
    BY <1>4, <2>1 DEF IsCent, SetFields
  <2> QED BY <1>4, <1>11, <2>4, <2>5, OutdatedLess
<1>13. PICK h : h = [c EXCEPT !.ent = [@ EXCEPT ![n] = g]]
  OBVIOUS
<1>14. Booked(h) /\ h.size = c.size /\ h.l = c.l
  BY <1>2, <1>3, <1>12, <1>13, EntryTouched
<1>15. [Cache EXCEPT !.ent[n] = Outdated(@)] = h
  BY <1>1, <1>3, <1>11, <1>13
<1> QED BY <1>2, <1>9, <1>10, <1>14, <1>15

-----------------------------------------------------------------------------
(* The books, in every state *)

(* The books of the cache are right, and unless something uncounted was added at the     *)
(* start, it is within its size.                                                         *)
BooksInv == Booked(Cache) /\ (Reversed = {} => Within(Cache, Perm + Extra))

LEMMA BecomesBooked ==
  ASSUME NEW c, Booked(c), Reversed = {} => Within(c, Perm + Extra), Become(c)
  PROVE  BooksInv'
<1>1. Good(Cache)'
  BY Becomes DEF Booked
<1>2. (Cache.ent)' = c.ent /\ (Cache.l)' = c.l /\ (Cache.size)' = c.size /\ (Cache.num)' = c.num
  BY DEF Become, Cache
<1>3. IsRight(Cache.ent)' /\ Ledger(Cache)'
  BY <1>2 DEF Booked, IsRight, Ledger
<1>4. (Reversed = {} => Within(Cache, Perm + Extra))'
  BY <1>2 DEF Within
<1> QED BY <1>1, <1>3, <1>4 DEF BooksInv, Booked

LEMMA InitBooked == CacheInit => BooksInv
<1> SUFFICES ASSUME CacheInit PROVE BooksInv
  OBVIOUS
<1>1. PICK c : c = Load(OldFile)
  OBVIOUS
<1>2. Booked(c) /\ Within(c, Perm + Extra)
  BY <1>1, FileFits, FileCounts, LoadBooked DEF SizedFile, IsFile
<1>3. ent = c.ent /\ rrset_l = c.l /\ cache_size = c.size /\ ent_num = c.num
  BY <1>1 DEF CacheInit
<1>4. Shape(Cache) /\ Cache.ent = c.ent /\ Cache.l = c.l /\ Cache.size = c.size /\ Cache.num = c.num
  BY <1>3 DEF Cache, Shape, CacheFields
<1>5. Good(Cache)
  BY <1>2, <1>4 DEF Good, Booked
<1>6. Booked(Cache)
  BY <1>2, <1>4, <1>5, SameBooked
<1>7. Within(Cache, Perm + Extra)
  BY <1>2, <1>4 DEF Within
<1> QED BY <1>6, <1>7 DEF BooksInv

(* What is taken away leaves the cache within its size, if every entry counts itself.    *)
LEMMA GoneWithin ==
  ASSUME NEW c, Booked(c), NEW S, S \subseteq DOMAIN c.ent
  PROVE  /\ Booked(DelEntries(c, S))
         /\ Reversed = {} /\ Within(c, Perm + Extra) => Within(DelEntries(c, S), Perm + Extra)
<1>1. PICK d : d = DelEntries(c, S)
  OBVIOUS
<1>2. Booked(d) /\ Members(d.l) = Members(c.l) \ (S \X Key) /\ d.size = c.size - Claims(c.ent, S)
  BY <1>1, EntriesGone
<1>3. Members(d.l) \subseteq Members(c.l)
  BY <1>2
<1>4. Reversed = {} => Claims(c.ent, S) \in Nat
  <2> SUFFICES ASSUME Reversed = {} PROVE Claims(c.ent, S) \in Nat
    OBVIOUS
  <2>1. PICK f : f = [n \in DOMAIN c.ent |-> c.ent[n].cs]
    OBVIOUS
  <2>2. IsFiniteSet(S)
    BY BookedIs, FS_Subset DEF Booked
  <2>3. \A n \in S : f[n] \in Nat
    BY <2>1, ClaimsNat
  <2>4. SumFunctionOnSet(f, S) \in Nat
    BY <2>2, <2>3, SumNat
  <2> QED BY <2>1, <2>4 DEF Claims
<1>5. c.size \in Int
  BY BookedIs DEF Booked, Ledger
<1>6. Reversed = {} => d.size <= c.size
  BY <1>2, <1>4, <1>5
<1>7. Perm + Extra \in Int
  BY BoundsGiven
<1>8. d.size \in Int
  <2>1. Booked(d)
    BY <1>2
  <2> QED BY <2>1, BookedIs DEF Booked, Ledger
<1>9. Reversed = {} /\ Within(c, Perm + Extra) => Within(d, Perm + Extra)
  BY <1>3, <1>5, <1>6, <1>7, <1>8 DEF Within
<1> QED BY <1>1, <1>2, <1>9

LEMMA StepBooked == CacheInv /\ BooksInv /\ [CacheNext]_cacheVars => BooksInv'
<1> SUFFICES ASSUME CacheInv, BooksInv, [CacheNext]_cacheVars PROVE BooksInv'
  OBVIOUS
<1> USE DEF Names
<1>0. Booked(Cache) /\ (Reversed = {} => Within(Cache, Perm + Extra)) /\ purging \subseteq Name
  BY DEF CacheInv, BooksInv
<1>1. CASE ent' = ent /\ rrset_l' = rrset_l /\ cache_size' = cache_size /\ ent_num' = ent_num
  <2>1. Become(Cache)
    BY <1>1 DEF Become, Cache
  <2> QED BY <1>0, <2>1, BecomesBooked
<1>2. CASE Add
  <2>1. PICK a \in Answers, time \in {now - 1, now} \ {0} : Become(AddCache(Cache, a[1], At(a[2], time)))
    BY <1>2 DEF Add
  <2>2. PICK cent : cent = At(a[2], time)
    OBVIOUS
  <2>3. a[1] \in Name /\ IsCent(a[2]) /\ IsSized(a[2]) /\ CountsItself(a[2])
    BY AnswersFit, AnswersCount
  <2>4. Countable(a[1], cent)
    BY <2>2, <2>3, AtCounts DEF Countable
  <2>5. PICK d : d = AddCache(Cache, a[1], cent)
    OBVIOUS
  <2>6. Booked(d) /\ (Reversed = {} => Within(d, Perm + Extra))
    BY <1>0, <2>4, <2>5, AddCacheBooked
  <2> QED BY <2>1, <2>2, <2>5, <2>6, BecomesBooked
<1>3. CASE LookupAgain
  <2>1. PICK n \in purging : Become(IF Target(Cache, n) = NoName THEN Cache
                                    ELSE PurgeCent(Cache, Target(Cache, n), TRUE))
    BY <1>3 DEF LookupAgain
  <2>2. PICK m : m = Target(Cache, n)
    OBVIOUS
  <2>3. m # NoName => m \in DOMAIN Cache.ent
    BY <1>0, <2>2, TargetOf DEF Booked, Good, Entries
  <2>4. CASE m = NoName
    <3>1. Become(Cache)
      BY <2>1, <2>2, <2>4
    <3> QED BY <1>0, <3>1, BecomesBooked
  <2>5. CASE m # NoName
    <3>1. PICK c : c = Cache
      OBVIOUS
    <3>2. PICK r : r = PurgeCent(c, m, TRUE)
      OBVIOUS
    <3>3. Booked(c) /\ m \in DOMAIN c.ent
      BY <1>0, <2>3, <2>5, <3>1
    <3>4. Booked(r) /\ Members(r.l) \subseteq Members(c.l) /\ (Reversed = {} => r.size <= c.size)
      BY <3>2, <3>3, PurgeCentBooked
    <3>5. c.size \in Int /\ r.size \in Int
      <4>1. \A d : Booked(d) => d.size \in Int
        BY BookedIs DEF Booked, Ledger
      <4> QED BY <3>3, <3>4, <4>1
    <3>6. Perm + Extra \in Int
      BY BoundsGiven
    <3>7. Reversed = {} => Within(r, Perm + Extra)
      BY <1>0, <3>1, <3>4, <3>5, <3>6 DEF Within
    <3>8. Become(r)
      BY <2>1, <2>2, <2>5, <3>1, <3>2
    <3> QED BY <3>4, <3>7, <3>8, BecomesBooked
  <2> QED BY <2>4, <2>5
<1>4. CASE AddLocal
  <2>1. PICK cmd \in Sections("add") : Become(AddCache(Cache, Head(cmd).name, Head(cmd).cent))
    BY <1>4 DEF AddLocal
  <2>2. Head(cmd) \in Section /\ Head(cmd).op = "add"
    BY SectionsOf
  <2>3. Countable(Head(cmd).name, Head(cmd).cent)
    BY <2>2, CommandsFit, CommandsCount DEF Countable
  <2>4. PICK d : d = AddCache(Cache, Head(cmd).name, Head(cmd).cent)
    OBVIOUS
  <2>5. Booked(d) /\ (Reversed = {} => Within(d, Perm + Extra))
    BY <1>0, <2>3, <2>4, AddCacheBooked
  <2> QED BY <2>1, <2>4, <2>5, BecomesBooked
<1>5. ASSUME NEW n \in DOMAIN ent,
             NEW y \in {[Cache EXCEPT !.ent[n].wild = TRUE], [Cache EXCEPT !.ent[n] = Outdated(@)]}, Become(y)
      PROVE  BooksInv'
  <2>1. Booked(y) /\ y.size = cache_size /\ y.l = rrset_l
    BY <1>0, <1>5, TouchBooked
  <2>2. Cache.size = cache_size /\ Cache.l = rrset_l
    BY DEF Cache
  <2>3. Reversed = {} => Within(y, Perm + Extra)
    BY <1>0, <2>1, <2>2 DEF Within
  <2> QED BY <1>5, <2>1, <2>3, BecomesBooked
<1>6. CASE SetWild
  <2>1. PICK cmd \in Sections("wild") :
          IF Head(cmd).name \in DOMAIN Cache.ent
          THEN Become([Cache EXCEPT !.ent[Head(cmd).name].wild = TRUE]) ELSE Become(Cache)
    BY <1>6 DEF SetWild
  <2> QED BY <1>0, <1>5, <2>1, CacheIs, BecomesBooked
<1>7. CASE InvalidateRecord
  <2>1. PICK cmd \in Sections("inval") :
          Become(IF Head(cmd).name \in DOMAIN Cache.ent
                 THEN [Cache EXCEPT !.ent[Head(cmd).name] = Outdated(@)] ELSE Cache)
    BY <1>7 DEF InvalidateRecord
  <2> QED BY <1>0, <1>5, <2>1, CacheIs, BecomesBooked
<1>8. ASSUME NEW S, S \subseteq DOMAIN Cache.ent, Become(DelEntries(Cache, S)) PROVE BooksInv'
  BY <1>0, <1>8, GoneWithin, BecomesBooked
<1>9. CASE DelCache
  <2>1. PICK cmd \in Sections("del") :
          Become(IF Head(cmd).name \in DOMAIN Cache.ent THEN DelEntry(Cache, Head(cmd).name) ELSE Cache)
    BY <1>9 DEF DelCache
  <2>2. PICK n : n = Head(cmd).name
    OBVIOUS
  <2>3. CASE n \in DOMAIN Cache.ent
    <3>1. Become(DelEntries(Cache, {n})) /\ {n} \subseteq DOMAIN Cache.ent
      BY <2>1, <2>2, <2>3 DEF DelEntry
    <3> QED BY <1>8, <3>1
  <2>4. CASE n \notin DOMAIN Cache.ent
    BY <1>0, <2>1, <2>2, <2>4, BecomesBooked
  <2> QED BY <2>3, <2>4
<1>10. CASE EmptyBucket
  <2>1. PICK cmd \in Sections("empty") :
          Become(DelEntries(Cache, {n \in DOMAIN Cache.ent : Bucket[n] = Head(cmd).bucket /\ n \in Head(cmd).names}))
    BY <1>10 DEF EmptyBucket
  <2>2. PICK S : S = {n \in DOMAIN Cache.ent : Bucket[n] = Head(cmd).bucket /\ n \in Head(cmd).names}
    OBVIOUS
  <2>3. S \subseteq DOMAIN Cache.ent
    BY <2>2
  <2> QED BY <1>8, <2>1, <2>2, <2>3
<1>11. ASSUME NEW file, SizedFile(file), Start(file) PROVE BooksInv'
  <2>1. Become(Load(file))
    BY <1>11 DEF Start
  <2> QED BY <1>11, <2>1, LoadBooked, BecomesBooked
<1>12. SizedFile(Written)
  <2>1. PICK c : c = PurgeCache(Cache, Perm, FALSE)
    BY Zenon
  <2>2. Booked(c)
    BY <1>0, <2>1, PurgeCacheBooked
  <2>3. Written = File(c)
    BY <2>1, Zenon DEF Written
  <2> QED BY <2>2, <2>3, FileSized
<1>13. CASE Restart
  BY <1>11, <1>12, <1>13 DEF Restart
<1>14. CASE Crash
  BY <1>11, <1>14, FileFits, FileCounts DEF Crash, SizedFile, IsFile
<1>15. CASE CrashWriting
  <2>1. PICK part \in SUBSET DOMAIN Written : Start(Restrict(Written, part))
    BY <1>15 DEF CrashWriting
  <2>2. SizedFile(Restrict(Written, part))
    BY <1>12 DEF SizedFile, IsFile, Restrict
  <2> QED BY <1>11, <2>1, <2>2
<1>16. Lookup \/ Tick \/ UNCHANGED cacheVars =>
         ent' = ent /\ rrset_l' = rrset_l /\ cache_size' = cache_size /\ ent_num' = ent_num
  BY DEF Lookup, Tick, cacheVars
<1> QED BY <1>1, <1>2, <1>3, <1>4, <1>6, <1>7, <1>9, <1>10, <1>13, <1>14, <1>15, <1>16 DEF CacheNext, Control

(* BooksInv holds in every state of the cache.                                           *)
THEOREM BooksInvHolds == CacheSpec => []BooksInv
<1>1. CacheSpec => [](CacheInv /\ BooksInv)
  BY InitHolds, StepHolds, InitBooked, StepBooked, PTL DEF CacheSpec
<1> QED BY <1>1, PTL

(* cache_size is the sum of what the entries claim, ent_num counts them, and an entry     *)
(* claims its true size and number of sets, but for those that add_reverse_cache makes.  *)
THEOREM SizeIsRightHolds == CacheSpec => []SizeIsRight
<1>1. BooksInv => SizeIsRight
  <2>1. Cache.ent = ent /\ Cache.size = cache_size /\ Cache.num = ent_num
    BY DEF Cache
  <2> QED BY <2>1 DEF BooksInv, Booked, IsRight, Ledger, SizeIsRight
<1> QED BY <1>1, BooksInvHolds, PTL

(* The ledger, the list by age and the bound of the size hold together, provided that     *)
(* what the configuration adds counts itself.                                            *)
THEOREM BooksAgreeHolds == Reversed = {} => (CacheSpec => []BooksAgree)
<1> SUFFICES ASSUME Reversed = {} PROVE CacheSpec => []BooksAgree
  OBVIOUS
<1>1. BooksInv => SizeIsRight
  <2>1. Cache.ent = ent /\ Cache.size = cache_size /\ Cache.num = ent_num
    BY DEF Cache
  <2> QED BY <2>1 DEF BooksInv, Booked, IsRight, Ledger, SizeIsRight
<1>2. CacheInv /\ BooksInv => SizeBounded
  <2> SUFFICES ASSUME CacheInv, BooksInv, cache_size > Perm + Extra PROVE rrset_l = <<>>
    BY DEF SizeBounded
  <2>1. Cache.l = rrset_l /\ Cache.size = cache_size /\ cache_size \in Int /\ Perm + Extra \in Int
    <3>1. Cache.size \in Int
      BY BookedIs DEF BooksInv, Booked, Ledger
    <3> QED BY <3>1, BoundsGiven DEF Cache
  <2>2. Members(rrset_l) = {}
    BY <2>1 DEF BooksInv, Within
  <2>3. rrset_l \in Seq(Element)
    BY CacheIs DEF CacheInv, Good, ListOK
  <2>4. Len(rrset_l) \in Nat /\ \A i \in 1..Len(rrset_l) : FALSE
    BY <2>2, <2>3 DEF Members
  <2>5. Len(rrset_l) = 0
    BY <2>4
  <2> HIDE DEF Element
  <2> QED BY <2>3, <2>5
<1>3. CacheInv /\ BooksInv => BooksAgree
  BY <1>1, <1>2, ListIs DEF BooksAgree
<1> QED BY <1>3, CacheInvHolds, BooksInvHolds, PTL
=============================================================================
