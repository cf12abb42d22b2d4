------------------------------ MODULE CacheLock ------------------------------
(***************************************************************************)
(* The lock of pdnsd's cache (cache.c 227-441): many readers or one        *)
(* writer, built from one mutex, two condition variables and five counters.*)
(* A writer may give up after a time (the control thread emptying the      *)
(* cache) or hand the lock over for a while (the same thread, between two  *)
(* buckets).  At the end of the process the main thread locks "softly": it *)
(* tries for some time, and wakes nobody when it unlocks.                  *)
(*                                                                         *)
(* A stretch of code under lock_mutex is one step.  pthread_cond_wait ends *)
(* a step (the thread sleeps), and being signalled only makes the thread   *)
(* compete for the mutex: it tests its condition again in a later step.    *)
(***************************************************************************)
EXTENDS Integers, FiniteSets

CONSTANTS Thread,    \* the threads that use the cache
          Timed,     \* those that lock with a timeout and yield: the control thread
          MaxUses    \* how often one thread locks, relocking after a yield included

ASSUME TimedAreThreads == Timed \subseteq Thread
ASSUME OneTimed        == \A t, u \in Timed : t = u
ASSUME ThreadsFinite   == IsFiniteSet(Thread)
ASSUME UsesNat         == MaxUses \in [Thread -> Nat]

VARIABLES pc,                          \* where each thread is
          uses,                        \* how often it has locked
          cache_r_lock, cache_w_lock,  \* readers inside; a writer is inside
          r_pend, rw_pend,             \* readers and writers that want in
          r_susp,                      \* readers are held back for writers
          exit                         \* where the main thread is at the end

counters == <<cache_r_lock, cache_w_lock, r_pend, rw_pend, r_susp>>
vars     == <<pc, uses, cache_r_lock, cache_w_lock, r_pend, rw_pend, r_susp, exit>>

Asleep  == {"rAsleep", "wAsleep", "tAsleep"}   \* in pthread_cond_wait
Awake   == {"rAwake", "wAwake", "tAwake"}      \* signalled, before the test
Place   == Asleep \cup Awake \cup {"out", "reading", "writing", "yielded"}
Leaving == {"no", "purging", "purged", "saving", "saved", "destroyed", "failed"}

WriterAsleep == {"wAsleep", "tAsleep"}
WakesTo      == [rAsleep |-> "rAwake", wAsleep |-> "wAwake", tAsleep |-> "tAwake"]

(* The threshold above which waiting writers suspend the readers. *)
SuspThresh(pending) == pending \div 2 + 2

Init == /\ pc = [t \in Thread |-> "out"]
        /\ uses = [t \in Thread |-> 0]
        /\ cache_r_lock = 0 /\ cache_w_lock = FALSE
        /\ r_pend = 0 /\ rw_pend = 0 /\ r_susp = FALSE
        /\ exit = "no"

-----------------------------------------------------------------------------
(* Signalling a condition variable: one sleeper of rw_cond, all of r_cond. *)
Broadcast(at) == [t \in Thread |-> IF at[t] = "rAsleep" THEN "rAwake" ELSE at[t]]
Signalled(at) == {[at EXCEPT ![t] = WakesTo[at[t]]] : t \in {u \in Thread : at[u] \in WriterAsleep}}
SignalWriter(at) == IF Signalled(at) = {} THEN {at} ELSE Signalled(at)

(* The test in the loop of lock_cache_r, with this thread among the pending. *)
TestRead(t, pending) ==
  LET suspended == r_susp \/ rw_pend > SuspThresh(pending)
  IN  /\ r_susp' = suspended
      /\ \/ /\ suspended \/ cache_w_lock
            /\ pc' = [pc EXCEPT ![t] = "rAsleep"]
            /\ r_pend' = pending
            /\ UNCHANGED cache_r_lock
         \/ /\ ~suspended /\ ~cache_w_lock
            /\ pc' = [pc EXCEPT ![t] = "reading"]
            /\ r_pend' = pending - 1
            /\ cache_r_lock' = cache_r_lock + 1
      /\ UNCHANGED <<cache_w_lock, rw_pend>>

(* Mutant: a writer looks for writers only. *)
TestWriteBesideReaders(t, pending, asleep) ==
  /\ \/ cache_w_lock /\ pc' = [pc EXCEPT ![t] = asleep] /\ rw_pend' = pending /\ UNCHANGED cache_w_lock
     \/ ~cache_w_lock /\ pc' = [pc EXCEPT ![t] = "writing"] /\ rw_pend' = pending - 1 /\ cache_w_lock' = TRUE
  /\ UNCHANGED <<cache_r_lock, r_pend, r_susp>>

(* The same for lock_cache_rw; a thread that must wait sleeps as asleep says. *)
TestWrite(t, pending, asleep) ==
  /\ \/ /\ cache_w_lock \/ cache_r_lock > 0
        /\ pc' = [pc EXCEPT ![t] = asleep]
        /\ rw_pend' = pending
        /\ UNCHANGED cache_w_lock
     \/ /\ ~cache_w_lock /\ cache_r_lock = 0
        /\ pc' = [pc EXCEPT ![t] = "writing"]
        /\ rw_pend' = pending - 1
        /\ cache_w_lock' = TRUE
  /\ UNCHANGED <<cache_r_lock, r_pend, r_susp>>

Uses(t) == /\ uses[t] < MaxUses[t]
           /\ uses' = [uses EXCEPT ![t] = @ + 1]

(* lock_cache_r *)
LockR(t) == /\ pc[t] = "out" /\ Uses(t)
            /\ TestRead(t, r_pend + 1)
            /\ UNCHANGED exit
RetryR(t) == /\ pc[t] = "rAwake"
             /\ TestRead(t, r_pend)
             /\ UNCHANGED <<uses, exit>>

(* lock_cache_rw, timedlock_cache_rw and the second half of yield_lock_cache_rw *)
LockRW(t) == /\ pc[t] = "out" /\ Uses(t)
             /\ \E asleep \in IF t \in Timed THEN {"tAsleep"} ELSE {"wAsleep"} :
                  TestWrite(t, rw_pend + 1, asleep)
             /\ UNCHANGED exit
RetryRW(t) == /\ \/ pc[t] = "wAwake" /\ TestWrite(t, rw_pend, "wAsleep")
                 \/ pc[t] = "tAwake" /\ TestWrite(t, rw_pend, "tAsleep")
              /\ UNCHANGED <<uses, exit>>
(* Mutant: a thread that gives up is still counted. *)
TimeOutStillPending(t) ==
  /\ pc[t] = "tAsleep" /\ pc' = [pc EXCEPT ![t] = "out"]
  /\ UNCHANGED <<uses, cache_r_lock, cache_w_lock, r_pend, rw_pend, r_susp, exit>>
TimeOut(t) == /\ pc[t] = "tAsleep"
              /\ pc' = [pc EXCEPT ![t] = "out"]
              /\ rw_pend' = rw_pend - 1
              /\ UNCHANGED <<uses, cache_r_lock, cache_w_lock, r_pend, r_susp, exit>>
Relock(t) == /\ pc[t] = "yielded"
             /\ TestWrite(t, rw_pend + 1, "wAsleep")
             /\ UNCHANGED <<uses, exit>>

(* Mutant: the last reader wakes no writer. *)
UnlockRSilently(t) ==
  /\ pc[t] = "reading" /\ pc' = [pc EXCEPT ![t] = "out"]
  /\ cache_r_lock' = IF cache_r_lock > 0 THEN cache_r_lock - 1 ELSE 0
  /\ UNCHANGED <<uses, cache_w_lock, r_pend, rw_pend, r_susp, exit>>

(* unlock_cache_r *)
UnlockR(t) == /\ pc[t] = "reading"
              /\ cache_r_lock' = IF cache_r_lock > 0 THEN cache_r_lock - 1 ELSE 0
              /\ LET at == [pc EXCEPT ![t] = "out"]
                 IN  pc' \in IF cache_r_lock' = 0 THEN SignalWriter(at) ELSE {at}
              /\ UNCHANGED <<uses, cache_w_lock, r_pend, rw_pend, r_susp, exit>>

(* Mutant: only writers are ever woken. *)
GiveUpToWriters(t, next) ==
  /\ cache_w_lock' = FALSE /\ r_susp' = FALSE
  /\ pc' \in SignalWriter([pc EXCEPT ![t] = next])
  /\ UNCHANGED <<cache_r_lock, r_pend, rw_pend>>

(* unlock_cache_rw and the first half of yield_lock_cache_rw *)
GiveUp(t, next) ==
  /\ cache_w_lock' = FALSE
  /\ r_susp' = FALSE
  /\ LET at == [pc EXCEPT ![t] = next]
     IN  pc' \in IF r_pend = 0 \/ rw_pend > SuspThresh(r_pend) THEN SignalWriter(at)
                                                              ELSE {Broadcast(at)}
  /\ UNCHANGED <<cache_r_lock, r_pend, rw_pend>>
UnlockRW(t) == pc[t] = "writing" /\ GiveUp(t, "out") /\ UNCHANGED <<uses, exit>>
Yield(t) == /\ pc[t] = "writing" /\ t \in Timed
            /\ r_pend > 0 \/ rw_pend > 0
            /\ Uses(t) /\ GiveUp(t, "yielded")
            /\ UNCHANGED exit

(* pthread_cond_wait may return without a signal. *)
Spurious(t) == /\ pc[t] \in Asleep
               /\ pc' = [pc EXCEPT ![t] = WakesTo[pc[t]]]
               /\ UNCHANGED <<uses, cache_r_lock, cache_w_lock, r_pend, rw_pend, r_susp, exit>>

-----------------------------------------------------------------------------
(* write_disk_cache and destroy_cache, in the main thread after a signal.  A soft     *)
(* lock that stays busy for a thousand tries is given up.                             *)
SoftLockRW(from, to, otherwise) ==
  /\ exit = from
  /\ \/ ~cache_w_lock /\ cache_r_lock = 0 /\ cache_w_lock' = TRUE /\ exit' = to
     \/ (cache_w_lock \/ cache_r_lock > 0) /\ exit' = otherwise /\ UNCHANGED cache_w_lock
  /\ UNCHANGED <<pc, uses, cache_r_lock, r_pend, rw_pend, r_susp>>
Purge   == SoftLockRW("no", "purging", "saved")
Purged  == /\ exit = "purging" /\ exit' = "purged" /\ cache_w_lock' = FALSE
           /\ UNCHANGED <<pc, uses, cache_r_lock, r_pend, rw_pend, r_susp>>
Save    == /\ exit = "purged"
           /\ \/ ~cache_w_lock /\ exit' = "saving" /\ cache_r_lock' = cache_r_lock + 1
              \/ cache_w_lock /\ exit' = "saved" /\ UNCHANGED cache_r_lock
           /\ UNCHANGED <<pc, uses, cache_w_lock, r_pend, rw_pend, r_susp>>
Saved   == /\ exit = "saving" /\ exit' = "saved"
           /\ cache_r_lock' = IF cache_r_lock > 0 THEN cache_r_lock - 1 ELSE 0
           /\ UNCHANGED <<pc, uses, cache_w_lock, r_pend, rw_pend, r_susp>>
Destroy == SoftLockRW("saved", "destroyed", "failed")

Proceed(t) == RetryR(t) \/ RetryRW(t) \/ Relock(t) \/ UnlockR(t) \/ UnlockRW(t)
Next == \/ \E t \in Thread : \/ Proceed(t) \/ LockR(t) \/ LockRW(t)
                             \/ TimeOut(t) \/ Yield(t) \/ Spurious(t)
        \/ Purge \/ Purged \/ Save \/ Saved \/ Destroy

(* Every thread goes on when it can: it leaves the cache and tests again when woken. *)
(* Nothing makes the process end, a signal reach it, or a timeout pass.              *)
Fairness == \A t \in Thread : WF_vars(Proceed(t))
Spec     == Init /\ [][Next]_vars /\ Fairness

-----------------------------------------------------------------------------
Count(places) == Cardinality({t \in Thread : pc[t] \in places})
Holds(where)  == IF exit \in where THEN 1 ELSE 0

TypeOK == /\ pc \in [Thread -> Place]
          /\ uses \in [Thread -> Nat]
          /\ cache_r_lock \in Nat /\ cache_w_lock \in BOOLEAN
          /\ r_pend \in Nat /\ rw_pend \in Nat /\ r_susp \in BOOLEAN
          /\ exit \in Leaving

(* The counters count: what the lock decides by is what the threads do.  The guard   *)
(* cache_r_lock>0 of unlock_cache_r is then never needed.                             *)
CountersCount ==
  /\ cache_r_lock = Count({"reading"}) + Holds({"saving"})
  /\ r_pend  = Count({"rAsleep", "rAwake"})
  /\ rw_pend = Count({"wAsleep", "wAwake", "tAsleep", "tAwake"})

(* lock_cache_rw: while one thread changes the cache, or the main thread purges or    *)
(* has destroyed it, no other thread is inside, reading or writing.                   *)
Writers   == {t \in Thread : pc[t] = "writing"}
Readers   == {t \in Thread : pc[t] = "reading"}
MainHolds == exit \in {"purging", "destroyed"}
Exclusion == /\ \A t, u \in Writers : t = u
             /\ Writers # {} => Readers = {} /\ ~MainHolds /\ exit # "saving"
             /\ MainHolds => Readers = {}

(* The signals of unlock_cache_r and unlock_cache_rw suffice: before the process ends, *)
(* the lock is never free with threads asleep and none on its way to take it.          *)
NoLostWakeup ==
  exit = "no" /\ ~cache_w_lock /\ cache_r_lock = 0 /\ (\E t \in Thread : pc[t] \in Asleep)
    => \E t \in Thread : pc[t] \in Awake

(* Suspended readers are waiting for a writer that will lift the suspension: one that  *)
(* holds the lock, or one that waits and does not give up.                             *)
SuspensionEnds ==
  r_susp => cache_w_lock \/ \E t \in Thread : pc[t] \in {"wAsleep", "wAwake"}

(* A thread that waits for the lock gets it or gives up, if every thread uses it a      *)
(* bounded number of times and the process goes on.                                     *)
Waits(t) == pc[t] \in Asleep \cup Awake
WaitingEnds == \A t \in Thread : Waits(t) ~> (~Waits(t) \/ exit # "no")
=============================================================================
