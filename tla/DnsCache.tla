------------------------------ MODULE DnsCache ------------------------------
(***************************************************************************)
(* The cache of pdnsd (cache.c, hash.c): what is known of each name, the   *)
(* list of record sets by age that purging walks, the ledger of sizes, and *)
(* the file the cache is saved in.  CacheLock is its lock: here every      *)
(* stretch of code under the lock is one step, so a lookup that finds      *)
(* something to purge, an emptying and a command of the control thread are *)
(* several steps.                                                          *)
(*                                                                         *)
(* Sizes are counted in units: an entry, a set of records, a record and the*)
(* array of the less used types are one unit each.  num_rrs and cs are     *)
(* unsigned in the code; they are integers here, since nothing compares    *)
(* them except num_rrs with 0.  No allocation fails.                       *)
(***************************************************************************)
EXTENDS Integers, SequencesExt, FiniteSetsExt

CONSTANTS Name,        \* the domain names
          Up,          \* the proper suffixes of a name that are names, longest first
          Star,        \* the name "*.n" of a name n, or NoName
          NoName,
          Types,       \* the types of records that are cached, in the order of their index
          ExtType,     \* those kept in the array rrext
          Alias, Record, Ptr,            \* the classes of rr_info that exclude each other
          Lat,         \* CACHE_LAT, the time everything stays at least
          MinTtl, MaxTtl, NegTtl,
          Perm, Extra, \* perm_cache and MCSZ
          Bucket,      \* the hash bucket of a name
          Answers,     \* what queries may add (cents whose times are relative to now)
          Commands,    \* what the control thread may do: sequences of sections
          Config,      \* the cents the configuration adds at the start
          OldFile,     \* the cache file that an earlier run left
          MaxTime,     \* the end of the time considered
          MaxPurging   \* how many lookups are between their two passes at once

Type == Range(Types)

ASSUME NamesFinite == IsFiniteSet(Name)
ASSUME UpGiven     == \A n \in Name : Up[n] \in Seq(Name)
ASSUME TypesOnce   == Types \in Seq(Type) /\ \A i, j \in DOMAIN Types : Types[i] = Types[j] => i = j
ASSUME ClassesApart == \A A, B \in {Alias, Record, Ptr} : A # B => A \cap B = {}

VARIABLES ent,         \* the entry of each name that has one
          rrset_l,     \* the list of what can be purged: a name and a type, or Whole
          cache_size, ent_num,
          now,
          purging,     \* the names being looked up that need a purge
          ctl,         \* the sections the control thread still has to do
          restarted    \* the process has ended and started again

cacheVars == <<ent, rrset_l, cache_size, ent_num, now, purging, ctl, restarted>>

Whole == "whole"       \* stands in the list for a domain negatively cached as a whole
ASSUME WholeApart == Whole \notin Type

(* The cache is handed through the operators below as one record; sorted is the flag *)
(* insert_sort, which is off only while the cache file is read.                      *)
Cache      == [ent |-> ent, l |-> rrset_l, size |-> cache_size, num |-> ent_num, sorted |-> TRUE]
Become(c)  == ent' = c.ent /\ rrset_l' = c.l /\ cache_size' = c.size /\ ent_num' = c.num
EmptyCache == [ent |-> <<>>, l |-> <<>>, size |-> 0, num |-> 0, sorted |-> TRUE]
Names(c)   == DOMAIN c.ent

-----------------------------------------------------------------------------
(* Record sets and entries. *)
EntryFields == {"neg", "local", "wild", "ts", "ttl", "rrs", "ext", "nrr", "cs", "ns", "nocache"}
SetFields   == {"n", "ts", "ttl", "neg", "local", "additional", "root", "nopurge", "nocache"}
SizeOf(rs)    == 1 + rs.n
Sizes(rrs, S) == SumFunctionOnSet([t \in DOMAIN rrs |-> SizeOf(rrs[t])], S)
Claims(es, S) == SumFunctionOnSet([n \in DOMAIN es |-> es[n].cs], S)
TrueSize(e)   == 1 + Sizes(e.rrs, DOMAIN e.rrs) + (IF e.ext THEN 1 ELSE 0)
TimedOut(ts, ttl) == ts + Max({ttl, Lat}) < now
Expired(rs)   == ~rs.nopurge /\ ~rs.local /\ TimedOut(rs.ts, rs.ttl)
Excludes(t, u) == \E A, B \in {Alias, Record, Ptr} : A # B /\ t \in A /\ u \in B
Coherent(rrs) == \A t, u \in DOMAIN rrs : Excludes(t, u) => rrs[t].neg \/ rrs[u].neg
Clamp(low, ttl) == IF ttl < low THEN low ELSE IF ttl > MaxTtl THEN MaxTtl ELSE ttl

(* adjust_ttl; adjust_dom_ttl, of a domain that does not exist *)
Adjusted(rs) == [rs EXCEPT !.ttl = IF rs.nocache THEN 0
                                   ELSE Clamp(IF rs.neg THEN Min({MinTtl, NegTtl}) ELSE MinTtl, @),
                           !.nocache = FALSE]
DomTtl(e) == IF ~e.neg THEN e.ttl ELSE IF e.nocache THEN 0 ELSE Clamp(Min({MinTtl, NegTtl}), e.ttl)

(* What is added to the cache: a domain known not to exist has no records, and what one *)
(* answer says of a name does not contradict itself (add_cache stores it unexamined if  *)
(* it knew nothing of the name).                                                        *)
IsCent(e) ==
  /\ DOMAIN e = EntryFields /\ e.neg \in BOOLEAN /\ e.local \in BOOLEAN /\ e.ext \in BOOLEAN
  /\ DOMAIN e.rrs \subseteq Type
  /\ \A t \in DOMAIN e.rrs : /\ DOMAIN e.rrs[t] = SetFields
                             /\ e.rrs[t].neg \in BOOLEAN /\ e.rrs[t].local \in BOOLEAN
  /\ e.neg => DOMAIN e.rrs = {}
  /\ Coherent(e.rrs)
ASSUME AnswersFit == \A a \in Answers : a[1] \in Name /\ IsCent(a[2])
ASSUME ConfigFits == Config \in Seq(Range(Config)) /\ \A p \in Range(Config) : p[1] \in Name /\ IsCent(p[2])
ASSUME FileFits   == DOMAIN OldFile \subseteq Name /\ \A n \in DOMAIN OldFile : IsCent(OldFile[n])
Section == UNION {Range(cmd) : cmd \in Commands}
ASSUME CommandsFit ==
  /\ \A cmd \in Commands : cmd \in Seq(Section) /\ cmd # <<>>
  /\ \A s \in Section : s.op = "add" => s.name \in Name /\ IsCent(s.cent)

(* What is added counts its sets, and what they take; but in the cents that              *)
(* add_reverse_cache makes the local sets that come with the name are not counted.       *)
CountsItself(e) == e.nrr = Cardinality(DOMAIN e.rrs) /\ e.cs = TrueSize(e)
Surely(e) == {t \in DOMAIN e.rrs : ~e.rrs[t].local \/ t \in Alias \cup Record \cup Ptr}
HasSizes(e) == \A t \in DOMAIN e.rrs : e.rrs[t].n \in Nat
IsSized(e) == /\ HasSizes(e) /\ e.nrr \in Nat /\ e.cs \in Int
              /\ e.neg => e.nrr = 0
              /\ Cardinality(Surely(e)) <= e.nrr
Reversed == {Config[i][1] : i \in {j \in DOMAIN Config : ~CountsItself(Config[j][2])}}
ASSUME AnswersCount  == \A a \in Answers : IsSized(a[2]) /\ CountsItself(a[2])
ASSUME ConfigCounts  == \A p \in Range(Config) : IsSized(p[2])
ASSUME CommandsCount == \A s \in Section : s.op = "add" => IsSized(s.cent) /\ CountsItself(s.cent)
ASSUME FileCounts    == \A n \in DOMAIN OldFile : HasSizes(OldFile[n])
ASSUME BoundsGiven   == Perm \in Nat /\ Extra \in Nat

-----------------------------------------------------------------------------
(* The elements of a sequence that are not in S, in their order; and op applied to c   *)
(* and each element of a sequence in turn.                                             *)
Without(seq, S) ==
  LET w[i \in 0..Len(seq)] == IF i = 0 THEN <<>>
                             ELSE IF seq[i] \in S THEN w[i - 1] ELSE Append(w[i - 1], seq[i])
  IN  w[Len(seq)]
Walk(op(_, _), c, seq) ==
  LET w[i \in 0..Len(seq)] == IF i = 0 THEN c ELSE op(w[i - 1], seq[i])
  IN  w[Len(seq)]

(* The list.  A new element goes behind the last one that is not younger.  *)
Key == Type \cup {Whole}
Ts(c, le) == IF le[2] = Whole THEN c.ent[le[1]].ts ELSE c.ent[le[1]].rrs[le[2]].ts
LocalEntry(c, le) == c.ent[le[1]].local \/ (le[2] # Whole /\ c.ent[le[1]].rrs[le[2]].local)
InsertByAge(c, l, le) ==
  InsertAt(l, SelectLastInSeq(l, LAMBDA x : Ts(c, le) >= Ts(c, x)) + 1, le)
InsertRRL(c, le) ==
  IF LocalEntry(c, le) THEN c
  ELSE [c EXCEPT !.l = IF c.sorted THEN InsertByAge(c, @, le) ELSE Append(@, le)]
ByAge(c, l) == Walk(LAMBDA sorted, le : InsertByAge(c, sorted, le), <<>>, l)
Sorted(c) == IF c.sorted THEN c ELSE [c EXCEPT !.sorted = TRUE, !.l = ByAge(c, @)]

(* Taking sets out of an entry; cache_size is the caller's business. *)
DelRRsets(c, n, S) ==
  LET e == c.ent[n]
  IN  [c EXCEPT !.l = Without(@, {n} \X S),
                !.ent[n] = [e EXCEPT !.rrs = Restrict(@, DOMAIN @ \ S),
                                     !.nrr = @ - Cardinality(S),
                                     !.cs = @ - Sizes(e.rrs, S)]]
DropRRset(c, n, t) == [DelRRsets(c, n, {t}) EXCEPT !.size = @ - SizeOf(c.ent[n].rrs[t])]

(* del_cache_ent, del_cent and free_cent *)
DelEntries(c, S) == [c EXCEPT !.ent = Restrict(@, Names(c) \ S),
                              !.l = Without(@, S \X Key),
                              !.size = @ - Claims(c.ent, S),
                              !.num = @ - Cardinality(S)]
DelEntry(c, n) == DelEntries(c, {n})

-----------------------------------------------------------------------------
(* purge_cent: what it takes away, and what it would. *)
Dated(e) == e.neg /\ ~e.local /\ TimedOut(e.ts, e.ttl)
Lost(e)  == {t \in DOMAIN e.rrs : Expired(e.rrs[t])}
ExtIdle(e) == e.ext /\ (DOMAIN e.rrs \ Lost(e)) \cap ExtType = {}
Vanishes(e) == DOMAIN e.rrs \subseteq Lost(e) /\ (~e.neg \/ Dated(e))
Stale(c, n) ==  \* the entry refers to name servers that are no longer known
  LET e == c.ent[n]  m == e.ns
  IN  /\ ~e.local /\ m # NoName
      /\ ~(m \in Names(c) /\ "NS" \in DOMAIN c.ent[m].rrs
           /\ LET rs == c.ent[m].rrs["NS"]
              IN  rs.n > 0 /\ (rs.local \/ ~TimedOut(rs.ts, rs.ttl)))
(* Mutant: the first pass of a lookup does not look at the name servers. *)
NothingToPurgeHere(c, n) == LET e == c.ent[n] IN Lost(e) = {} /\ ~ExtIdle(e) /\ ~Vanishes(e)
NothingToPurge(c, n) ==
  LET e == c.ent[n] IN Lost(e) = {} /\ ~ExtIdle(e) /\ ~Vanishes(e) /\ ~Stale(c, n)

(* Mutant: the array that is freed still counts in cache_size. *)
PurgeRRsetsButArray(c, n) ==
  LET e == c.ent[n]  d == DelRRsets(c, n, Lost(e))
  IN  [d EXCEPT !.size = @ - Sizes(e.rrs, Lost(e)), !.ent[n].ext = @ /\ ~ExtIdle(e),
                !.ent[n].cs = @ - (IF ExtIdle(e) THEN 1 ELSE 0)]
PurgeRRsets(c, n) ==
  LET e == c.ent[n]
      freed == Sizes(e.rrs, Lost(e)) + (IF ExtIdle(e) THEN 1 ELSE 0)
      d == DelRRsets(c, n, Lost(e))
  IN  [d EXCEPT !.size = @ - freed, !.ent[n].ext = @ /\ ~ExtIdle(e),
                !.ent[n].cs = @ - (IF ExtIdle(e) THEN 1 ELSE 0)]
PurgeCent(c, n, delete) ==
  LET d == PurgeRRsets(c, n)
  IN  IF delete /\ Vanishes(c.ent[n]) THEN DelEntry(d, n)
      ELSE IF Stale(d, n) THEN [d EXCEPT !.ent[n].ns = NoName] ELSE d

(* purge_cache: first what has expired, then the oldest, until the size fits. *)
DropIfEmpty(c, n, may) == IF c.ent[n].nrr = 0 /\ may THEN DelEntry(c, n) ELSE c
PurgeExpired(c, le) ==
  LET n == le[1]
      d == IF le[2] # Whole /\ Expired(c.ent[n].rrs[le[2]]) THEN DropRRset(c, n, le[2]) ELSE c
  IN  IF LocalEntry(c, le) THEN c ELSE DropIfEmpty(d, n, ~c.ent[n].neg \/ Dated(c.ent[n]))
PurgeOldest(c, le) ==
  IF LocalEntry(c, le) THEN c
  ELSE DropIfEmpty(IF le[2] # Whole THEN DropRRset(c, le[1], le[2]) ELSE c, le[1], TRUE)
FirstWalk(c, limit, lazy) ==
  Walk(LAMBDA x, le : IF lazy /\ x.size <= limit THEN x ELSE PurgeExpired(x, le), c, c.l)
SecondWalk(c, limit) == Walk(LAMBDA x, le : IF x.size <= limit THEN x ELSE PurgeOldest(x, le), c, c.l)
(* Mutant: the second walk is forgotten. *)
PurgeCacheOnce(c, limit, lazy) == FirstWalk(c, limit, lazy)
PurgeCache(c, limit, lazy) ==
  LET d == FirstWalk(c, limit, lazy)
  IN  IF d.size <= limit THEN d ELSE SecondWalk(Sorted(d), limit)
Fit(c) == PurgeCache(c, Perm + Extra, TRUE)

-----------------------------------------------------------------------------
(* add_cache *)
ListAll(c, n, keys) == Walk(LAMBDA x, k : InsertRRL(x, <<n, k>>), c, keys)
AddNew(c, n, cent) ==
  LET e == [cent EXCEPT !.ttl = DomTtl(cent), !.nocache = @ /\ ~cent.neg, !.rrs = [t \in DOMAIN @ |-> Adjusted(@[t])]]
      d == [c EXCEPT !.ent = [m \in Names(c) \cup {n} |-> IF m = n THEN e ELSE c.ent[m]],
                     !.num = @ + 1, !.size = @ + e.cs]
      listed == IF e.neg THEN <<Whole>> ELSE Without(Types, Type \ DOMAIN e.rrs)
  IN  IF cent.nrr = 0 /\ ~cent.neg THEN c
      ELSE ListAll(d, n, listed)

(* Which of two sets of one type stays. *)
Precedes(old, new) ==
  \/ ~new.local /\ old.local
  \/ new.additional /\ (~old.additional \/ (~new.root /\ old.root)) /\ ~TimedOut(old.ts, old.ttl)

(* cr_check_add: the sets a new one conflicts with, and whether it may replace them. *)
Conflicting(e, t) == {u \in DOMAIN e.rrs : ~e.rrs[u].neg /\ Excludes(t, u)}
Left(rs) == LET left == rs.ttl + rs.ts - now IN IF left > 0 THEN left ELSE 0
MayReplace(e, new, S) ==
  \/ new.local
  \/ /\ ~e.local /\ \A u \in S : ~e.rrs[u].local
     /\ S = {} \/ new.ttl > MapThenSumSet(LAMBDA u : Left(e.rrs[u]), S) \div Cardinality(S)

(* add_cent_rrset_by_index, the records, adjust_ttl and insert_rrl *)
(* Mutant: the element of a negative domain stays in the list. *)
PutRRsetKeepingWhole(c, n, t, new) ==
  LET e == c.ent[n]
      grown == t \in ExtType /\ ~e.ext
      f == [e EXCEPT !.neg = FALSE, !.ext = @ \/ t \in ExtType,
                     !.rrs = [u \in DOMAIN @ \cup {t} |-> IF u = t THEN Adjusted(new) ELSE @[u]],
                     !.cs = @ + SizeOf(new) + (IF grown THEN 1 ELSE 0), !.nrr = @ + 1]
  IN  InsertRRL([c EXCEPT !.ent[n] = f], <<n, t>>)
PutRRset(c, n, t, new) ==
  LET e == c.ent[n]
      grown == t \in ExtType /\ ~e.ext
      f == [e EXCEPT !.neg = FALSE, !.ext = @ \/ t \in ExtType,
                     !.rrs = [u \in DOMAIN @ \cup {t} |-> IF u = t THEN Adjusted(new) ELSE @[u]],
                     !.cs = @ + SizeOf(new) + (IF grown THEN 1 ELSE 0), !.nrr = @ + 1]
  IN  InsertRRL([c EXCEPT !.l = Without(@, {<<n, Whole>>}), !.ent[n] = f],
                <<n, t>>)
(* Mutant: what the new set conflicts with stays. *)
MergeRRsetBeside(c, n, t, new) ==
  LET have == t \in DOMAIN c.ent[n].rrs
      d == IF have THEN DelRRsets(c, n, {t}) ELSE c
  IN  IF have /\ Precedes(c.ent[n].rrs[t], new) THEN c
      ELSE IF new.neg \/ MayReplace(d.ent[n], new, Conflicting(d.ent[n], t)) THEN PutRRset(d, n, t, new)
      ELSE d
MergeRRset(c, n, t, new) ==
  LET have == t \in DOMAIN c.ent[n].rrs
      d == IF have THEN DelRRsets(c, n, {t}) ELSE c
      S == Conflicting(d.ent[n], t)
  IN  IF have /\ Precedes(c.ent[n].rrs[t], new) THEN c
      ELSE IF new.neg THEN PutRRset(d, n, t, new)
      ELSE IF MayReplace(d.ent[n], new, S) THEN PutRRset(DelRRsets(d, n, S), n, t, new)
      ELSE d
Nearer(m, k) == IF k # NoName /\ (m = NoName \/ m \in Range(Up[k])) THEN k ELSE m
MergeAll(c, n, cent) ==
  Walk(LAMBDA x, t : IF t \in DOMAIN cent.rrs THEN MergeRRset(x, n, t, cent.rrs[t]) ELSE x, c, Types)
Merge(c, n, cent) ==
  LET p == PurgeCent(c, n, FALSE)
      d == MergeAll([p EXCEPT !.size = @ - p.ent[n].cs], n, cent)
  IN  [d EXCEPT !.size = @ + d.ent[n].cs, !.ent[n].wild = @ \/ cent.wild,
                !.ent[n].ns = Nearer(@, cent.ns)]
AddCache(c, n, cent) ==
  IF n \notin Names(c) THEN Fit(AddNew(c, n, cent))
  ELSE IF ~cent.neg THEN Fit(Merge(c, n, cent))
  ELSE IF \E t \in DOMAIN c.ent[n].rrs : c.ent[n].rrs[t].local THEN c
  ELSE Fit(AddNew(DelEntry(c, n), n, cent))

-----------------------------------------------------------------------------
(* Where lookup_cache finds what it says of a name: in its entry, or in that of the    *)
(* nearest suffix known, if that is negative, has wildcards or is local.               *)
Nearest(c, n) == LET i == SelectInSeq(Up[n], LAMBDA m : m \in Names(c))
                 IN  IF i = 0 THEN NoName ELSE Up[n][i]
Target(c, n) ==
  LET m == Nearest(c, n)
  IN  IF n \in Names(c) THEN n
      ELSE IF m = NoName \/ c.ent[m].neg THEN m
      ELSE IF c.ent[m].wild THEN (IF Star[m] \in Names(c) THEN Star[m] ELSE NoName)
      ELSE IF c.ent[m].local THEN m ELSE NoName

(* The file: what write_disk_cache writes of an entry, and read_disk_cache makes of it. *)
(* Records that are not local are not read back into an entry that is.                  *)
SavedMostUsed(e) == [e EXCEPT !.rrs = Restrict(@, {t \in DOMAIN @ : ~@[t].local /\ t \notin ExtType})]  \* mutant
SavedEnt(e)  == [e EXCEPT !.rrs = Restrict(@, {t \in DOMAIN @ : ~@[t].local})]
Worth(e)  == IF e.neg THEN ~e.local ELSE \E t \in DOMAIN e.rrs : ~e.rrs[t].local
File(c)   == [n \in {m \in Names(c) : Worth(c.ent[m])} |-> SavedEnt(c.ent[n])]
Read(e)   ==
  LET f == [e EXCEPT !.rrs = [t \in DOMAIN e.rrs |-> [e.rrs[t] EXCEPT !.n = IF e.local THEN 0 ELSE @]],
                     !.ext = DOMAIN e.rrs \cap ExtType # {}, !.nrr = Cardinality(DOMAIN e.rrs)]
  IN  [f EXCEPT !.cs = TrueSize(f)]
AddAll(c, cents) == Walk(LAMBDA x, p : AddCache(x, p[1], p[2]), c, cents)
Load(file) ==
  LET c == AddAll(EmptyCache, Config)
      order == SetToSeq(DOMAIN file)
  IN  Sorted(AddAll([c EXCEPT !.sorted = FALSE],
                    [i \in DOMAIN order |-> <<order[i], Read(file[order[i]])>>]))

-----------------------------------------------------------------------------
CacheTypeOK ==
  /\ DOMAIN ent \subseteq Name /\ \A n \in DOMAIN ent : DOMAIN ent[n].rrs \subseteq Type
  /\ cache_size \in Int /\ ent_num \in Nat /\ now \in 1..MaxTime
  /\ purging \subseteq Name /\ restarted \in BOOLEAN

CacheInit == /\ now = 1
        /\ LET c == Load(OldFile)
           IN  ent = c.ent /\ rrset_l = c.l /\ cache_size = c.size /\ ent_num = c.num
        /\ purging = {} /\ ctl = <<>> /\ restarted = FALSE

Unchanged == UNCHANGED <<now, purging, ctl, restarted>>

(* A query that began a moment ago, or just now, adds what it got. *)
At(cent, time) == [cent EXCEPT !.ts = IF cent.neg THEN time ELSE 0,
                               !.rrs = [t \in DOMAIN @ |-> [@[t] EXCEPT !.ts = time]]]
Add == /\ \E a \in Answers, time \in {now - 1, now} \ {0} : Become(AddCache(Cache, a[1], At(a[2], time)))
       /\ Unchanged

(* lookup_cache: first with the read lock; if something is to be purged, again with the *)
(* other lock, after any number of steps of other threads.                              *)
Lookup == \E n \in Name : LET m == Target(Cache, n)
                          IN  /\ m # NoName /\ ~NothingToPurge(Cache, m)
                              /\ purging' = purging \cup {n} /\ Cardinality(purging') <= MaxPurging
                              /\ UNCHANGED <<ent, rrset_l, cache_size, ent_num, now, ctl, restarted>>
LookupAgain ==
  \E n \in purging : LET m == Target(Cache, n)
                     IN  /\ Become(IF m = NoName THEN Cache ELSE PurgeCent(Cache, m, TRUE))
                         /\ purging' = purging \ {n}
                         /\ UNCHANGED <<now, ctl, restarted>>

(* The control thread: one command at a time, one locked section at a step. *)
Sections(op) == {cmd \in IF ctl = <<>> THEN Commands ELSE {ctl} : Head(cmd).op = op}

AddLocal == /\ \E cmd \in Sections("add") :
                 /\ ctl' = Tail(cmd)
                 /\ Become(AddCache(Cache, Head(cmd).name, Head(cmd).cent))
            /\ UNCHANGED <<now, purging, restarted>>

(* set_cent_flags(DF_WILD); a command that finds no entry is abandoned. *)
SetWild == /\ \E cmd \in Sections("wild") :
                LET n == Head(cmd).name
                IN  IF n \in Names(Cache)
                    THEN ctl' = Tail(cmd) /\ Become([Cache EXCEPT !.ent[n].wild = TRUE])
                    ELSE ctl' = <<>> /\ Become(Cache)
           /\ UNCHANGED <<now, purging, restarted>>

DelCache == /\ \E cmd \in Sections("del") :
                 LET n == Head(cmd).name
                 IN  ctl' = Tail(cmd) /\ Become(IF n \in Names(Cache) THEN DelEntry(Cache, n) ELSE Cache)
            /\ UNCHANGED <<now, purging, restarted>>

(* invalidate_record leaves the list as it is. *)
Outdated(e) == [e EXCEPT !.ts = IF e.neg THEN 0 ELSE @,
                         !.rrs = [t \in DOMAIN @ |-> [@[t] EXCEPT !.ts = 0]]]
InvalidateRecord ==
  /\ \E cmd \in Sections("inval") :
       LET n == Head(cmd).name
       IN  /\ ctl' = Tail(cmd)
           /\ Become(IF n \in Names(Cache) THEN [Cache EXCEPT !.ent[n] = Outdated(@)] ELSE Cache)
  /\ UNCHANGED <<now, purging, restarted>>

(* empty_cache, one bucket: the names that the list of the command includes. *)
EmptyBucket ==
  /\ \E cmd \in Sections("empty") :
       LET gone == {n \in Names(Cache) : Bucket[n] = Head(cmd).bucket /\ n \in Head(cmd).names}
       IN  ctl' = Tail(cmd) /\ Become(DelEntries(Cache, gone))
  /\ UNCHANGED <<now, purging, restarted>>

Tick == /\ now < MaxTime /\ now' = now + 1
        /\ UNCHANGED <<ent, rrset_l, cache_size, ent_num, purging, ctl, restarted>>

(* The process ends and starts again (once): it saves the cache after purging it to the *)
(* size of the file, or it dies while writing, or before (as when it does not get the   *)
(* lock).  A lookup under way is lost, as if it had not begun.                          *)
Start(file) == /\ ~restarted /\ restarted' = TRUE
               /\ Become(Load(file))
               /\ purging = {} /\ ctl' = <<>> /\ UNCHANGED <<now, purging>>
Written == File(PurgeCache(Cache, Perm, FALSE))
Restart == Start(Written)
Crash   == Start(OldFile)
CrashWriting == \E part \in SUBSET DOMAIN Written : Start(Restrict(Written, part))

Control == AddLocal \/ SetWild \/ DelCache \/ InvalidateRecord \/ EmptyBucket
CacheNext == Add \/ Lookup \/ LookupAgain \/ Control \/ Tick \/ Restart \/ Crash \/ CrashWriting
CacheSpec == CacheInit /\ [][CacheNext]_cacheVars

-----------------------------------------------------------------------------
(* The ledger: cache_size is the sum of the sizes the entries claim, and ent_num counts *)
(* them; an entry claims its true size and number of sets, but for those that           *)
(* add_reverse_cache makes.                                                             *)
SizeIsRight == /\ cache_size = Claims(ent, DOMAIN ent)
               /\ ent_num = Cardinality(DOMAIN ent)
               /\ \A n \in DOMAIN ent \ Reversed : CountsItself(ent[n])

(* insert_rrl, remove_rrl: the list holds exactly what may be purged, each once, so that *)
(* no walk meets what is freed and nothing is out of reach of the purge.                 *)
Purgeable == {<<n, t>> : n \in DOMAIN ent, t \in Type \cup {Whole}} \cap
             UNION {IF ent[n].local THEN {}
                    ELSE IF ent[n].neg THEN {<<n, Whole>>}
                    ELSE {<<n, t>> : t \in {u \in DOMAIN ent[n].rrs : ~ent[n].rrs[u].local}} : n \in DOMAIN ent}
ListIsRight == /\ Range(rrset_l) = Purgeable
               /\ Len(rrset_l) = Cardinality(Purgeable)

(* purge_cache: the cache fits, or only what is local is left. *)
SizeBounded == cache_size > Perm + Extra => rrset_l = <<>>

(* cache.c:157, 151: the ledger counts what the entries take, the list by age holds      *)
(* exactly what may be purged, each once, and the cache stays within its size, whatever  *)
(* is added, merged, replaced, purged, deleted and loaded.                               *)
BooksAgree == SizeIsRight /\ ListIsRight /\ SizeBounded

(* cr_check_add: what add_cache leaves in an entry never contradicts itself. *)
NoConflicts == \A n \in DOMAIN ent : Coherent(ent[n].rrs)

(* lookup_cache: what either pass hands out has not expired, and the name servers it   *)
(* refers to are known.                                                                *)
Fresh(c, m) == Lost(c.ent[m]) = {} /\ ~Dated(c.ent[m]) /\ ~Stale(c, m)
ServedFresh ==
  \A n \in Name : LET m == Target(Cache, n)
                      d == PurgeCent(Cache, m, TRUE)
                  IN  m # NoName =>
                        IF NothingToPurge(Cache, m) THEN Fresh(Cache, m)
                        ELSE m \in Names(d) => Fresh(d, m) /\ NothingToPurge(d, m)

(* add_cache: no domain that the control thread has negated (pdnsd-ctl neg) leaves the  *)
(* cache by what queries and lookups do: "Local records have precedence" (cache.c:1937). *)
Negated(c) == {n \in DOMAIN c : c[n].neg /\ c[n].local}
NegatedStays == [][Negated(ent) \subseteq Negated(ent') \/ ~(Add \/ LookupAgain)]_cacheVars

(* write_disk_cache, read_disk_cache: what has not expired and is in the cache when it   *)
(* has shrunk to the size of the file is there after the restart, as old as it was.      *)
Lasting(c) == {p \in Name \X Type :
                 LET n == p[1]  t == p[2]
                 IN  /\ n \in Names(c) /\ ~c.ent[n].local
                     /\ t \in DOMAIN c.ent[n].rrs /\ ~c.ent[n].rrs[t].local /\ ~Expired(c.ent[n].rrs[t])}
RestartKeeps ==
  [][restarted' # restarted /\ Restart =>
       LET c == PurgeCache(Cache, Perm, FALSE)
       IN  \A p \in Lasting(c) : LET n == p[1]  t == p[2]
                                 IN  /\ n \in DOMAIN ent'
                                     /\ t \in DOMAIN ent'[n].rrs
                                     /\ ent'[n].rrs[t].ts = c.ent[n].rrs[t].ts]_cacheVars
=============================================================================
