---------------------------- MODULE MCCacheLock ----------------------------
(***************************************************************************)
(* Instances of CacheLock and DnsCache for TLC: the lock of the cache, and *)
(* what is done while it is held.  what chooses which of them runs; the    *)
(* other stays in one initial state.                                       *)
(***************************************************************************)
EXTENDS CacheLock, DnsCache, MCDnsInputs

VARIABLE what

(* Every thread locks once; the control thread may also yield the lock once. *)
OnceEach == [t \in Thread |-> IF t \in Timed THEN 2 ELSE 1]

all == <<what, vars, cacheVars>>

MCInit == what \in {"lock", "cache"} /\ Init /\ CacheInit
MCNext == \/ what = "lock"  /\ Next   /\ UNCHANGED <<what, cacheVars>>
          \/ what = "cache" /\ CacheNext /\ UNCHANGED <<what, vars>>
MCSpec == /\ MCInit /\ [][MCNext]_all
          /\ \A t \in Thread : WF_all(what = "lock" /\ Proceed(t) /\ UNCHANGED <<what, cacheVars>>)
=============================================================================
