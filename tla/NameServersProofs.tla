-------------------------- MODULE NameServersProofs --------------------------
(***************************************************************************)
(* What pdnsd's table of name servers guarantees for any number of threads *)
(* that answer queries and any configurations: whoever uses the table is   *)
(* counted, the table is not replaced under them, and a test that was      *)
(* asked for is not forgotten.                                             *)
(*                                                                         *)
(* A step takes one thread from a place to another and may wake the status *)
(* thread or the control thread (Goes); what it does to the table keeps    *)
(* its shape (Keeps) unless nobody uses it.                                *)
(***************************************************************************)
EXTENDS NameServers, FiniteSetTheorems, SequenceTheorems, WellFoundedInduction, TLAPS

-----------------------------------------------------------------------------
(* Tables *)

(* A function over the indices of a sequence, with elements of T, is a sequence of these. *)
LEMMA MappedSeq ==
  ASSUME NEW S, NEW T, NEW s \in Seq(S), NEW u,
         u = [k \in DOMAIN s |-> u[k]], \A k \in DOMAIN s : u[k] \in T
  PROVE  u \in Seq(T) /\ DOMAIN u = DOMAIN s
<1>1. Len(s) \in Nat /\ DOMAIN s = 1..Len(s)
  BY LenProperties
<1>2. u \in [1..Len(s) -> T]
  BY <1>1
<1> QED BY <1>1, <1>2, SeqDef

(* Table u has the sections and the addresses of table s. *)
Keeps(s, u) ==
  /\ u \in Seq(ServParm) /\ DOMAIN u = DOMAIN s
  /\ \A i \in DOMAIN s :
       /\ u[i].test = s[i].test /\ u[i].interval = s[i].interval /\ u[i].preset = s[i].preset
       /\ DOMAIN u[i].atup = DOMAIN s[i].atup
       /\ \A j \in DOMAIN s[i].atup : u[i].atup[j].a = s[i].atup[j].a

(* Such a table has the same shape, and the same sections need tests. *)
LEMMA KeepsShape ==
  ASSUME NEW s, NEW u, Keeps(s, u)
  PROVE  Shape(u) = Shape(s)
BY DEF Keeps, Shape

(* A table keeps its own shape. *)
LEMMA KeepsItself ==
  ASSUME NEW s \in Seq(ServParm)
  PROVE  Keeps(s, s)
BY DEF Keeps

(* In section x instead of y only the results and times of addresses are replaced. *)
NewResults(y, x) ==
  /\ x = [y EXCEPT !.atup = x.atup]
  /\ x.atup = [j \in DOMAIN y.atup |-> x.atup[j]]
  /\ \A j \in DOMAIN y.atup : x.atup[j] \in ServerAddr /\ x.atup[j].a = y.atup[j].a

(* Then the table keeps its shape. *)
LEMMA ResultsKeep ==
  ASSUME NEW s \in Seq(ServParm), NEW u,
         u = [i \in DOMAIN s |-> u[i]],
         \A i \in DOMAIN s : NewResults(s[i], u[i])
  PROVE  Keeps(s, u)
<1>1. ASSUME NEW i \in DOMAIN s
      PROVE  /\ u[i] \in ServParm
             /\ u[i].test = s[i].test /\ u[i].interval = s[i].interval /\ u[i].preset = s[i].preset
             /\ DOMAIN u[i].atup = DOMAIN s[i].atup
  <2>1. s[i] \in ServParm
    BY LenProperties, ElementOfSeq
  <2>2. s[i].atup \in Seq(ServerAddr)
    BY <2>1 DEF ServParm
  <2>3. u[i].atup \in Seq(ServerAddr) /\ DOMAIN u[i].atup = DOMAIN s[i].atup
    BY <1>1, <2>2, MappedSeq DEF NewResults
  <2> DEFINE a == u[i].atup
  <2>4. u[i] = [s[i] EXCEPT !.atup = a]
    BY <1>1 DEF NewResults
  <2> HIDE DEF a
  <2>5. a \in Seq(ServerAddr)
    BY <2>3 DEF a
  <2>6. u[i] \in ServParm /\ u[i].test = s[i].test /\ u[i].interval = s[i].interval /\ u[i].preset = s[i].preset
    BY <2>1, <2>4, <2>5 DEF ServParm
  <2> QED BY <2>3, <2>6
<1>2. u \in Seq(ServParm) /\ DOMAIN u = DOMAIN s
  BY <1>1, MappedSeq
<1> QED BY <1>1, <1>2 DEF Keeps, NewResults

(* An address of the table. *)
LEMMA AtupTyped ==
  ASSUME NEW s \in Seq(ServParm), NEW i \in DOMAIN s
  PROVE  /\ s[i] \in ServParm /\ s[i].atup \in Seq(ServerAddr)
         /\ \A j \in DOMAIN s[i].atup : s[i].atup[j] \in ServerAddr
<1>1. s[i] \in ServParm
  BY LenProperties, ElementOfSeq
<1>2. s[i].atup \in Seq(ServerAddr)
  BY <1>1 DEF ServParm
<1> QED BY <1>1, <1>2, LenProperties, ElementOfSeq

(* The outcome of a test, noted at the addresses it speaks for; or only its time. *)
LEMMA NotedKeeps ==
  ASSUME servers \in Seq(ServParm), NEW p, NEW up \in BOOLEAN,
         NEW u \in {Noted(p, SetStamp), Noted(p, LAMBDA x : SetResult(x, up)),
                    Noted(p, LAMBDA x : SetStamp(SetResult(x, up)))}
  PROVE  Keeps(servers, u)
<1>1. u = [i \in DOMAIN servers |-> u[i]]
  BY DEF Noted
<1>2. ASSUME NEW i \in DOMAIN servers
      PROVE  NewResults(servers[i], u[i])
  <2>1. servers[i] \in ServParm /\ \A j \in DOMAIN servers[i].atup : servers[i].atup[j] \in ServerAddr
    BY AtupTyped
  <2>2. CASE i = p.i
    <3>1. CASE u = Noted(p, SetStamp)
      <4>1. \A x \in ServerAddr : SetStamp(x) \in ServerAddr /\ SetStamp(x).a = x.a
        BY DEF SetStamp, ServerAddr, Stamps
      <4> QED BY <2>1, <2>2, <3>1, <4>1 DEF Noted, ServParm, NewResults
    <3>2. CASE u = Noted(p, LAMBDA x : SetResult(x, up))
      <4>1. \A x \in ServerAddr : SetResult(x, up) \in ServerAddr /\ SetResult(x, up).a = x.a
        BY DEF SetResult, ServerAddr, Stamps
      <4> QED BY <2>1, <2>2, <3>2, <4>1 DEF Noted, ServParm, NewResults
    <3>3. CASE u = Noted(p, LAMBDA x : SetStamp(SetResult(x, up)))
      <4>1. \A x \in ServerAddr : /\ SetStamp(SetResult(x, up)) \in ServerAddr
                                  /\ SetStamp(SetResult(x, up)).a = x.a
        BY DEF SetStamp, SetResult, ServerAddr, Stamps
      <4> QED BY <2>1, <2>2, <3>3, <4>1 DEF Noted, ServParm, NewResults
    <3> QED BY <3>1, <3>2, <3>3
  <2>3. CASE i # p.i
    BY <2>1, <2>3 DEF Noted, ServParm, NewResults
  <2> QED BY <2>2, <2>3
<1> QED BY <1>1, <1>2, ResultsKeep

(* A mark, on some of the addresses. *)
MarkedTo(m, y, x) ==
  /\ x = [y EXCEPT !.atup = x.atup]
  /\ x.atup = [j \in DOMAIN y.atup |-> x.atup[j]]
  /\ \A j \in DOMAIN y.atup : x.atup[j] \in {y.atup[j], Marked(y.atup[j], m)}

(* Marks keep the shape of the table. *)
LEMMA MarksKeep ==
  ASSUME servers \in Seq(ServParm), NEW m \in Marks, NEW u,
         u = [i \in DOMAIN servers |-> u[i]],
         \A i \in DOMAIN servers : MarkedTo(m, servers[i], u[i])
  PROVE  Keeps(servers, u)
<1>1. ASSUME NEW i \in DOMAIN servers
      PROVE  NewResults(servers[i], u[i])
  <2>1. \A j \in DOMAIN servers[i].atup : servers[i].atup[j] \in ServerAddr
    BY AtupTyped
  <2>2. \A x \in ServerAddr : Marked(x, m) \in ServerAddr /\ Marked(x, m).a = x.a
    BY DEF Marked, ServerAddr, Stamps, Marks
  <2> QED BY <2>1, <2>2 DEF MarkedTo, NewResults
<1> QED BY <1>1, ResultsKeep

(* Time that passes. *)
LEMMA AgeKeeps ==
  ASSUME servers \in Seq(ServParm), NEW i \in DOMAIN servers, NEW j \in DOMAIN Atup(i)
  PROVE  Keeps(servers, [servers EXCEPT ![i].atup[j].ts = "due"])
<1> DEFINE u == [servers EXCEPT ![i].atup[j].ts = "due"]
<1>1. u = [k \in DOMAIN servers |-> u[k]]
  OBVIOUS
<1>2. ASSUME NEW k \in DOMAIN servers
      PROVE  NewResults(servers[k], u[k])
  <2>1. servers[k] \in ServParm /\ \A l \in DOMAIN servers[k].atup : servers[k].atup[l] \in ServerAddr
    BY AtupTyped
  <2>2. CASE k = i
    <3>1. \A x \in ServerAddr : [x EXCEPT !.ts = "due"] \in ServerAddr /\ [x EXCEPT !.ts = "due"].a = x.a
      BY DEF ServerAddr, Stamps
    <3> DEFINE x == servers[k].atup[j]
               aged == [servers[k].atup EXCEPT ![j] = [x EXCEPT !.ts = "due"]]
    <3>2. u[k] = [servers[k] EXCEPT !.atup = aged]
      BY <2>2
    <3>3. j \in DOMAIN servers[k].atup /\ x \in ServerAddr
      BY <2>1, <2>2 DEF Atup
    <3>4. \A l \in DOMAIN servers[k].atup :
            aged[l] \in ServerAddr /\ aged[l].a = servers[k].atup[l].a
      BY <2>1, <3>1, <3>3
    <3>5. aged = [l \in DOMAIN servers[k].atup |-> aged[l]]
      OBVIOUS
    <3> HIDE DEF u, aged
    <3>6. u[k].atup = aged
      BY <2>1, <3>2 DEF ServParm
    <3> QED BY <3>2, <3>4, <3>5, <3>6 DEF NewResults
  <2>3. CASE k # i
    BY <2>1, <2>3 DEF ServParm, NewResults
  <2> QED BY <2>2, <2>3
<1> HIDE DEF u
<1>3. Keeps(servers, u)
  BY <1>1, <1>2, ResultsKeep
<1> QED BY <1>3 DEF u

(* A table read from the file. *)
LEMMA LoadedTyped ==
  ASSUME NEW c \in Configs
  PROVE  Loaded(c) \in Seq(ServParm)
<1> DEFINE u == Loaded(c)
           Section == [test : Tests, interval : Intervals, preset : BOOLEAN, addrs : Seq(Addr)]
<1>1. c \in Seq(Section)
  BY ConfigsTyped
<1>2. u = [i \in DOMAIN c |-> u[i]]
  BY DEF Loaded
<1>3. ASSUME NEW i \in DOMAIN c
      PROVE  u[i] \in ServParm
  <2>1. c[i] \in Section
    BY <1>1, LenProperties, ElementOfSeq
  <2>2. c[i].addrs \in Seq(Addr)
    BY <2>1
  <2> DEFINE v == [j \in DOMAIN c[i].addrs |-> LoadedAddr(c[i], c[i].addrs[j])]
  <2>3. \A j \in DOMAIN c[i].addrs : c[i].addrs[j] \in Addr
    BY <2>2, LenProperties, ElementOfSeq
  <2>4. v = [j \in DOMAIN c[i].addrs |-> v[j]] /\ \A j \in DOMAIN c[i].addrs : v[j] \in ServerAddr
    BY <2>1, <2>3 DEF LoadedAddr, ServerAddr, Stamps
  <2> HIDE DEF v
  <2>5. v \in Seq(ServerAddr)
    BY <2>2, <2>4, MappedSeq
  <2>6. u[i] = [test |-> c[i].test, interval |-> c[i].interval, preset |-> c[i].preset, atup |-> v]
    BY DEF Loaded, v
  <2> QED BY <2>1, <2>5, <2>6 DEF ServParm
<1> HIDE DEF u, Section
<1>4. u \in Seq(ServParm)
  BY <1>1, <1>2, <1>3, MappedSeq
<1> QED BY <1>4 DEF u

(* Other addresses for one section: the sections stay. *)
LEMMA PutAddrsTyped ==
  ASSUME servers \in Seq(ServParm), NEW c, c.i \in DOMAIN servers, c.addrs \in AddrLists, c.m \in Marks
  PROVE  /\ PutAddrs(c) \in Seq(ServParm) /\ DOMAIN PutAddrs(c) = DOMAIN servers
         /\ \A i \in DOMAIN servers : /\ PutAddrs(c)[i].test = servers[i].test
                                      /\ PutAddrs(c)[i].interval = servers[i].interval
         /\ \A i \in DOMAIN servers \ {c.i} : PutAddrs(c)[i] = servers[i]
         /\ PutAddrs(c)[c.i].atup = [j \in DOMAIN c.addrs |-> NewAddr(servers[c.i], c.addrs[j], c.m)]
<1> DEFINE u == PutAddrs(c)
           v == [j \in DOMAIN c.addrs |-> NewAddr(servers[c.i], c.addrs[j], c.m)]
<1>1. c.addrs \in Seq(Addr) /\ servers[c.i] \in ServParm
  BY ConfigsTyped, AtupTyped
<1>2. \A j \in DOMAIN c.addrs : c.addrs[j] \in Addr
  BY <1>1, LenProperties, ElementOfSeq
<1>3. \A j \in DOMAIN c.addrs : v[j] \in ServerAddr
  BY <1>1, <1>2 DEF NewAddr, Marked, Marks, ServerAddr, Stamps, ServParm
<1>4. v = [j \in DOMAIN c.addrs |-> v[j]]
  OBVIOUS
<1>5. u = [servers EXCEPT ![c.i].atup = v]
  BY DEF PutAddrs
<1> HIDE DEF u, v
<1>6. v \in Seq(ServerAddr)
  BY <1>1, <1>3, <1>4, MappedSeq
<1>7. u[c.i] = [servers[c.i] EXCEPT !.atup = v] /\ \A i \in DOMAIN servers \ {c.i} : u[i] = servers[i]
  BY <1>5
<1>8. u[c.i] \in ServParm /\ u[c.i].atup = v
      /\ u[c.i].test = servers[c.i].test /\ u[c.i].interval = servers[c.i].interval
  BY <1>1, <1>6, <1>7 DEF ServParm
<1>9. u = [i \in DOMAIN servers |-> u[i]] /\ \A i \in DOMAIN servers : u[i] \in ServParm
  BY <1>5, <1>7, <1>8, AtupTyped
<1>10. u \in Seq(ServParm) /\ DOMAIN u = DOMAIN servers
  BY <1>9, MappedSeq
<1> QED BY <1>7, <1>8, <1>10 DEF u, v

-----------------------------------------------------------------------------
(* Threads and places *)

Threads == Tester \cup {Ctl}
InUse   == {"testing", "reading", "reporting"}
One(x)  == IF x \in InUse THEN 1 ELSE 0

PlacesOf(t) == IF t = Stat THEN StatPlaces ELSE IF t = Ctl THEN CtlPlaces ELSE QueryPlaces

(* A place, or where a signal or a start takes the thread from there. *)
Woken(x, y) == y = x \/ <<x, y>> \in {<<"asleep", "awake">>, <<"waiting", "woken">>, <<"none", "starting">>}

(* Thread t goes to place q, and some threads are woken or started. *)
Goes(t, q) == /\ DOMAIN at' = Threads
              /\ Woken(q, at'[t])
              /\ \A u \in Threads \ {t} : Woken(at[u], at'[u])

(* Users and mutex follow a thread that goes there. *)
Books(t, q) ==
  /\ server_data_users' = server_data_users + One(q) - One(at[t])
  /\ \/ q = "scanning" /\ t \in Tester /\ lock \in {Free, t} /\ lock' = t
     \/ q # "scanning" /\ at[t] = "scanning" /\ lock' = Free
     \/ q # "scanning" /\ at[t] # "scanning" /\ lock' = lock

(* The step takes t to q. *)
StepTo(t, q) == t \in Threads /\ q \in PlacesOf(t) /\ Goes(t, q) /\ Books(t, q)

(* Being woken keeps a thread out of the table, or in it, and with the mutex or without. *)
LEMMA WokenKeeps ==
  ASSUME NEW x, NEW y, Woken(x, y)
  PROVE  /\ One(y) = One(x)
         /\ y \in InUse <=> x \in InUse
         /\ y = "testing" <=> x = "testing"
         /\ y = "scanning" <=> x = "scanning"
         /\ \A t : x \in PlacesOf(t) => y \in PlacesOf(t)
BY DEF Woken, One, InUse, PlacesOf, StatPlaces, CtlPlaces, QueryPlaces

(* Where the threads are, by TypeOK. *)
LEMMA PlacesTyped ==
  /\ TypeOK => DOMAIN at = Threads /\ \A t \in Threads : at[t] \in PlacesOf(t)
  /\ DOMAIN at = Threads /\ (\A t \in Threads : at[t] \in PlacesOf(t)) =>
       /\ at[Stat] \in StatPlaces /\ at[Ctl] \in CtlPlaces /\ \A t \in Query : at[t] \in QueryPlaces
BY ThreadsDiffer DEF TypeOK, Threads, PlacesOf, Tester

(* The mutex is with the one thread that scans the table. *)
LockPlace == \A t \in Tester : lock = t <=> at[t] = "scanning"

(* A step of a thread leaves every thread at a place of its own. *)
LEMMA StepPlaces ==
  ASSUME TypeOK, NEW t, NEW q, StepTo(t, q)
  PROVE  /\ DOMAIN at' = Threads /\ at'[Stat] \in StatPlaces /\ at'[Ctl] \in CtlPlaces
         /\ \A u \in Query : at'[u] \in QueryPlaces
<1>1. \A u \in Threads : at'[u] \in PlacesOf(u)
  BY PlacesTyped, WokenKeeps DEF StepTo, Books, Goes
<1> QED BY <1>1, ThreadsDiffer DEF StepTo, Books, Goes, Threads, PlacesOf, Tester

(* A step of a thread leaves the mutex with the thread that scans. *)
LEMMA StepLock ==
  ASSUME TypeOK, LockPlace, NEW t, NEW q, StepTo(t, q)
  PROVE  LockPlace' /\ lock' \in Tester \cup {Free}
<1>1. \A u \in Tester \ {t} : at'[u] = "scanning" <=> at[u] = "scanning"
  BY WokenKeeps DEF StepTo, Books, Goes, Threads
<1>2. at'[t] = "scanning" <=> q = "scanning"
  BY WokenKeeps DEF StepTo, Books, Goes
<1>3. Free \notin Tester /\ lock \in Tester \cup {Free}
  BY ThreadsDiffer DEF TypeOK, Tester
<1>4. at[t] = "scanning" => t \in Tester
  <2>1. at[t] \in PlacesOf(t)
    BY PlacesTyped DEF StepTo, Books
  <2>2. Ctl \notin Tester /\ Ctl # Stat
    BY ThreadsDiffer DEF Tester
  <2>3. t = Ctl => at[t] # "scanning"
    BY <2>1, <2>2 DEF PlacesOf, CtlPlaces
  <2> QED BY <2>2, <2>3 DEF StepTo, Books, Threads
<1>5. CASE q = "scanning" /\ t \in Tester /\ lock \in {Free, t} /\ lock' = t
  BY <1>1, <1>2, <1>3, <1>5 DEF LockPlace
<1>6. CASE q # "scanning" /\ at[t] = "scanning" /\ lock' = Free
  <2>1. lock = t /\ \A u \in Tester \ {t} : at[u] # "scanning"
    BY <1>4, <1>6 DEF LockPlace
  <2>2. \A u \in Tester : at'[u] # "scanning"
    BY <1>1, <1>2, <1>6, <2>1
  <2> QED BY <1>3, <1>6, <2>2 DEF LockPlace
<1>7. CASE q # "scanning" /\ at[t] # "scanning" /\ lock' = lock
  BY <1>1, <1>2, <1>3, <1>7 DEF LockPlace
<1> QED BY <1>5, <1>6, <1>7 DEF StepTo, Books

(* The users of the table, as a set. *)
Users == {t \in Tester \cup {Ctl} : InTable(t)}

(* They are finitely many. *)
LEMMA UsersFinite ==
  /\ IsFiniteSet(Users) /\ Cardinality(Users) \in Nat
  /\ IsFiniteSet(Users') /\ Cardinality(Users') \in Nat
<1>1. IsFiniteSet(Tester \cup {Ctl})
  <2>1. IsFiniteSet(Query \cup {Stat})
    BY QueriesFinite, FS_AddElement
  <2> QED BY <2>1, FS_AddElement DEF Tester
<1>2. Users \in SUBSET (Tester \cup {Ctl}) /\ Users' \in SUBSET (Tester \cup {Ctl})
  BY DEF Users
<1>3. IsFiniteSet(Users) /\ IsFiniteSet(Users')
  BY <1>1, <1>2, FS_Subset
<1> QED BY <1>3, FS_CardinalityType

(* A step of a thread keeps their number right. *)
LEMMA StepCounts ==
  ASSUME TypeOK, UsersCounted, NEW t, NEW q, StepTo(t, q)
  PROVE  UsersCounted' /\ server_data_users' \in Nat
<1> DEFINE A == Users
           B == Users'
<1>1. t \in A <=> at[t] \in InUse
  BY DEF Users, InTable, InUse, StepTo, Books, Threads
<1>2. t \in B <=> q \in InUse
  BY WokenKeeps DEF Users, InTable, InUse, StepTo, Books, Goes, Threads
<1>3. A \ {t} = B \ {t}
  BY WokenKeeps DEF Users, InTable, InUse, StepTo, Books, Goes, Threads
<1>4. /\ IsFiniteSet(A) /\ Cardinality(A) \in Nat
      /\ IsFiniteSet(B) /\ Cardinality(B) \in Nat
  BY UsersFinite
<1>5. server_data_users = Cardinality(A)
  BY DEF UsersCounted, Users
<1>6. UsersCounted' <=> server_data_users' = Cardinality(B)
  BY DEF UsersCounted, Users
<1> HIDE DEF A, B
<1>7. Cardinality(A \ {t}) = IF t \in A THEN Cardinality(A) - 1 ELSE Cardinality(A)
  BY <1>4, FS_RemoveElement
<1>8. Cardinality(B \ {t}) = IF t \in B THEN Cardinality(B) - 1 ELSE Cardinality(B)
  BY <1>4, FS_RemoveElement
<1>9. server_data_users' = Cardinality(B)
  <2>1. Cardinality(A) - One(at[t]) = Cardinality(B) - One(q)
    BY <1>1, <1>2, <1>3, <1>4, <1>7, <1>8 DEF One
  <2>2. server_data_users' = Cardinality(A) + One(q) - One(at[t]) /\ One(q) \in Nat /\ One(at[t]) \in Nat
    BY <1>5 DEF StepTo, Books, One
  <2> QED BY <1>4, <2>1, <2>2
<1> QED BY <1>4, <1>6, <1>9

(* With no user counted nobody is in the table. *)
LEMMA NoUsers ==
  ASSUME UsersCounted, server_data_users = 0
  PROVE  \A t \in Tester \cup {Ctl} : ~InTable(t)
<1>1. Users = {}
  BY UsersFinite, FS_EmptySet DEF UsersCounted, Users
<1> QED BY <1>1 DEF Users

-----------------------------------------------------------------------------
(* The least of some places in the table *)

(* A set of natural numbers has a least one. *)
LEMMA NatLeast ==
  ASSUME NEW T \in SUBSET Nat, T # {}
  PROVE  \E m \in T : \A n \in T : m <= n
<1> DEFINE R == OpToRel(<, Nat)
<1>1. \A m, n \in Nat : <<n, m>> \in R <=> n < m
  BY DEF OpToRel
<1>2. IsWellFoundedOn(R, Nat)
  BY NatLessThanWellFounded
<1> HIDE DEF R
<1>3. PICK m \in T : \A n \in T : ~(<<n, m>> \in R)
  BY <1>2, WFMin
<1>4. \A n \in T : ~(n < m)
  BY <1>1, <1>3, ZenonT(30)
<1> QED BY <1>4

(* So Least finds one of them. *)
LEMMA LeastIn ==
  ASSUME NEW S, S # {}, \A p \in S : p.i \in Nat /\ p.j \in Nat
  PROVE  Least(S) \in S
<1> DEFINE I == {p.i : p \in S}
<1>1. PICK m \in I : \A n \in I : m <= n
  BY NatLeast
<1> DEFINE J == {p.j : p \in {q \in S : q.i = m}}
<1>2. PICK k \in J : \A n \in J : k <= n
  <2>1. J \in SUBSET Nat /\ J # {}
    BY <1>1
  <2> QED BY <2>1, NatLeast
<1>3. PICK p \in S : p.i = m /\ p.j = k
  BY <1>2
<1>4. \A q \in S : p.i < q.i \/ (p.i = q.i /\ p.j <= q.j)
  <2> TAKE q \in S
  <2>1. p.i <= q.i /\ p.i \in Nat /\ q.i \in Nat /\ q.j \in Nat
    BY <1>1, <1>3
  <2>2. q.i = m => p.j <= q.j
    BY <1>2, <1>3
  <2> QED BY <1>3, <2>1, <2>2
<1> QED BY <1>4 DEF Least

-----------------------------------------------------------------------------
(* The inductive invariant *)

Position == [i : Nat, j : Nat, whole : BOOLEAN]

(* A pass or a test is at a section and an address of the table. *)
Inside(p, s)  == p.i \in DOMAIN s /\ p.j \in DOMAIN s[p.i].atup
ScansInTable  == \A t \in Tester : at[t] = "testing" \/ (at[t] = "scanning" /\ pos[t].whole) => Inside(pos[t], servers)

(* server_status_ping says whether the status thread is in a long test. *)
PingCounted   == server_status_ping = IF at[Stat] = "testing" /\ MayTakeLong(servers[pos[Stat].i]) THEN 1 ELSE 0

(* The control thread only works once main has noted the status thread; from then on     *)
(* that thread is not there if it is not known.                                          *)
MainKnows     == /\ main = "before" => at[Stat] = "none"
                 /\ main = "after" /\ servstat_thrid = "main" => at[Stat] = "none"
                 /\ main # "after" => at[Ctl] = "idle"

(* A command that waits is for a section of the table. *)
ChangeOf(c) == c.op = "change" /\ c.i \in DOMAIN servers /\ c.addrs \in AddrLists /\ c.m \in Marks
ReloadOf(c) == c.op = "reload" /\ c.config \in Configs
CommandKept == at[Ctl] \in {"waiting", "woken"} => ChangeOf(cmd) \/ ReloadOf(cmd)

IInv == /\ TypeOK /\ pos \in [Tester -> Position]
        /\ LockPlace /\ UsersCounted /\ ScansInTable /\ PingCounted /\ MainKnows /\ CommandKept

(* What the step does to the variables that have nothing to do with places. *)
Flags == /\ {signal_interrupt, retest_flag, short} \subseteq BOOLEAN
         /\ servstat_thrid \in {"main", "stat"} /\ main \in {"before", "creating", "after"}

(* A step of t keeps the places of the other testers in the table. *)
PosOf(t) == pos' \in [Tester -> Position] /\ \A u \in Tester \ {t} : pos'[u] = pos[u]

(* An ordinary step: it takes no thread into or out of a test or a pass, and keeps the table. *)
Ordinary(t, q) ==
  /\ StepTo(t, q) /\ Keeps(servers, servers')
  /\ q \notin {"testing", "scanning"} /\ at[t] # "testing"
  /\ PosOf(t) /\ UNCHANGED server_status_ping

(* One of a pass of tests: t goes on with its pass, or begins a test. *)
Testing(t, q) ==
  /\ StepTo(t, q) /\ Keeps(servers, servers') /\ t \in Tester
  /\ q \in {"testing", "scanning"}
  /\ PosOf(t) /\ (q = "testing" \/ pos'[t].whole => Inside(pos'[t], servers))

(* One that replaces the table, with nobody in it. *)
Replacing ==
  /\ StepTo(Ctl, "idle") /\ servers' \in Seq(ServParm)
  /\ server_data_users = 0 /\ lock = Free
  /\ UNCHANGED <<pos, server_status_ping>>

(* Where the testers are after a step. *)
LEMMA TestersStay ==
  ASSUME TypeOK, NEW t, NEW q, StepTo(t, q)
  PROVE  /\ \A u \in Tester \ {t} : /\ at'[u] = "testing" <=> at[u] = "testing"
                                    /\ at'[u] = "scanning" <=> at[u] = "scanning"
         /\ at'[t] = "testing" <=> q = "testing"
         /\ at'[t] = "scanning" <=> q = "scanning"
<1>1. \A u \in Threads \ {t} : Woken(at[u], at'[u])
  BY DEF StepTo, Books, Goes
<1>2. Woken(q, at'[t])
  BY DEF StepTo, Books, Goes
<1> QED BY <1>1, <1>2, WokenKeeps DEF Threads

(* Where a thread is inside a table it is inside one of the same shape. *)
LEMMA KeepsInside ==
  ASSUME NEW s, NEW u, Keeps(s, u), NEW p
  PROVE  Inside(p, s) => Inside(p, u) /\ u[p.i].test = s[p.i].test
BY DEF Keeps, Inside

(* The status thread's count stays right when another thread steps. *)
LEMMA PingStays ==
  ASSUME IInv, NEW t \in Threads \ {Stat}, NEW q, StepTo(t, q), Keeps(servers, servers'), PosOf(t),
         UNCHANGED server_status_ping
  PROVE  PingCounted'
<1>1. at'[Stat] = "testing" <=> at[Stat] = "testing"
  BY TestersStay DEF IInv, Tester
<1>2. pos'[Stat] = pos[Stat]
  BY DEF PosOf, Tester
<1>3. CASE at[Stat] = "testing"
  <2>1. Inside(pos[Stat], servers)
    BY <1>3 DEF IInv, ScansInTable, Tester
  <2>2. servers'[pos[Stat].i].test = servers[pos[Stat].i].test
    BY <2>1, KeepsInside
  <2> QED BY <1>1, <1>2, <1>3, <2>2 DEF IInv, PingCounted, MayTakeLong
<1>4. CASE at[Stat] # "testing"
  BY <1>1, <1>4 DEF IInv, PingCounted
<1> QED BY <1>3, <1>4

(* An ordinary step keeps the invariant, as far as it is not about commands and main. *)
LEMMA OrdinaryKeeps ==
  ASSUME IInv, NEW t, NEW q, Ordinary(t, q), Flags', MainKnows', CommandKept'
  PROVE  IInv'
<1>1. TypeOK /\ LockPlace /\ UsersCounted /\ StepTo(t, q) /\ t \in Threads
  BY DEF IInv, Ordinary, StepTo, Books
<1>2. LockPlace' /\ lock' \in Tester \cup {Free} /\ UsersCounted' /\ server_data_users' \in Nat
  BY <1>1, StepLock, StepCounts
<1>3. ScansInTable'
  BY <1>1, TestersStay, KeepsInside DEF Ordinary, PosOf, IInv, ScansInTable
<1>4. PingCounted'
  <2>1. CASE t = Stat
    BY <1>1, <2>1, TestersStay DEF Ordinary, IInv, PingCounted
  <2>2. CASE t # Stat
    BY <1>1, <2>2, PingStays DEF Ordinary
  <2> QED BY <2>1, <2>2
<1>5. servers' \in Seq(ServParm)
  BY DEF Ordinary, Keeps
<1>6. server_status_ping' \in {0, 1}
  BY <1>1 DEF Ordinary, TypeOK
<1>7. TypeOK'
  BY <1>1, <1>2, <1>5, <1>6, StepPlaces DEF Flags, TypeOK, Threads
<1> QED BY <1>2, <1>3, <1>4, <1>7 DEF IInv, Ordinary, PosOf

(* So does one of a pass, when its count of long tests is right. *)
LEMMA TestingKeeps ==
  ASSUME IInv, NEW t, NEW q, Testing(t, q), PingCounted', Flags', MainKnows', CommandKept'
  PROVE  IInv'
<1>1. TypeOK /\ LockPlace /\ UsersCounted /\ StepTo(t, q)
  BY DEF IInv, Testing
<1>2. LockPlace' /\ lock' \in Tester \cup {Free} /\ UsersCounted' /\ server_data_users' \in Nat
  BY <1>1, StepLock, StepCounts
<1>3. ScansInTable'
  BY <1>1, TestersStay, KeepsInside DEF Testing, PosOf, IInv, ScansInTable
<1>4. servers' \in Seq(ServParm)
  BY DEF Testing, Keeps
<1>5. server_status_ping' \in {0, 1}
  BY DEF PingCounted
<1>6. TypeOK'
  BY <1>1, <1>2, <1>4, <1>5, StepPlaces DEF Flags, TypeOK, Threads
<1> QED BY <1>2, <1>3, <1>6 DEF IInv, Testing, PosOf

(* And one that replaces the table. *)
LEMMA ReplacingKeeps ==
  ASSUME IInv, Replacing, Flags', MainKnows', CommandKept'
  PROVE  IInv'
<1>1. TypeOK /\ LockPlace /\ UsersCounted /\ StepTo(Ctl, "idle") /\ Ctl \notin Tester
  BY ThreadsDiffer DEF IInv, Replacing, Tester
<1>2. LockPlace' /\ lock' \in Tester \cup {Free} /\ UsersCounted' /\ server_data_users' \in Nat
  BY <1>1, StepLock, StepCounts
<1>3. \A t \in Tester : at[t] \notin {"testing", "scanning"}
  <2>1. \A t \in Tester : ~InTable(t)
    BY <1>1, NoUsers DEF Replacing
  <2>2. \A t \in Tester : t # Free
    BY ThreadsDiffer DEF Tester
  <2> QED BY <1>1, <2>1, <2>2 DEF InTable, LockPlace, Replacing
<1>4. \A t \in Tester : at'[t] \notin {"testing", "scanning"}
  BY <1>1, <1>3, TestersStay
<1>5. ScansInTable' /\ PingCounted'
  BY <1>3, <1>4 DEF ScansInTable, PingCounted, Replacing, IInv, Tester
<1>6. TypeOK'
  BY <1>1, <1>2, StepPlaces DEF Replacing, Flags, TypeOK, Threads
<1> QED BY <1>2, <1>5, <1>6 DEF IInv, Replacing

-----------------------------------------------------------------------------
(* What is common to the steps that are none of the control thread's *)

(* They leave main, the commands and the known status thread alone, and start no thread. *)
Aside ==
  /\ UNCHANGED <<main, cmd, servstat_thrid>>
  /\ at[Stat] = "none" <=> at'[Stat] = "none"
  /\ at'[Ctl] = at[Ctl] \/ (at[Ctl] = "waiting" /\ at'[Ctl] = "woken")

(* So they keep what main and the control thread know. *)
LEMMA AsideKeeps ==
  ASSUME IInv, Aside, Keeps(servers, servers')
  PROVE  MainKnows' /\ CommandKept'
<1>1. MainKnows'
  BY DEF IInv, MainKnows, Aside
<1>2. DOMAIN servers' = DOMAIN servers
  BY DEF Keeps
<1>3. CommandKept'
  BY <1>2 DEF IInv, CommandKept, ChangeOf, ReloadOf, Aside
<1> QED BY <1>1, <1>3

(* No address of table u is to be tested that was not in table s. *)
NoNewTests(s, u) == \A i \in DOMAIN u : \A j \in DOMAIN u[i].atup :
                       u[i].atup[j].ts = "zero" => i \in DOMAIN s /\ j \in DOMAIN s[i].atup /\ s[i].atup[j].ts = "zero"

(* A test is not forgotten while the status thread stays, and no test is asked for *)
(* while it sleeps.                                                                *)
LEMMA Remembered ==
  ASSUME NoTestForgotten, Keeps(servers, servers'), UNCHANGED <<main, servstat_thrid>>,
         at'[Stat] = "none" => at[Stat] = "none",
         at'[Stat] = "asleep" /\ ~short' => at[Stat] = "asleep" /\ ~short /\ NoNewTests(servers, servers')
  PROVE  NoTestForgotten'
<1>1. ThreadForTesting'
  <2>1. \A i \in DOMAIN servers' : i \in DOMAIN servers /\ (NeedsTesting(servers'[i]) => NeedsTesting(servers[i]))
    BY DEF Keeps, NeedsTesting
  <2> QED BY <2>1 DEF NoTestForgotten, ThreadForTesting, Stale
<1>2. NoTestSleptOver'
  BY DEF NoTestForgotten, NoTestSleptOver, NoNewTests, Pending, Atup
<1> QED BY <1>1, <1>2 DEF NoTestForgotten

(* What every step of the system keeps. *)
Sound == /\ IInv'
         /\ Keeps(servers, servers') \/ Replacing
         /\ NoTestForgotten => NoTestForgotten'

(* An ordinary step that asks for no test, and leaves the rest alone, is sound. *)
LEMMA OrdinarySound ==
  ASSUME IInv, NEW t, NEW q, Ordinary(t, q), Aside, Flags',
         at'[Stat] = "asleep" /\ ~short' => at[Stat] = "asleep" /\ ~short /\ NoNewTests(servers, servers')
  PROVE  Sound
<1>1. Keeps(servers, servers')
  BY DEF Ordinary
<1>2. MainKnows' /\ CommandKept'
  BY <1>1, AsideKeeps
<1>3. IInv'
  BY <1>2, OrdinaryKeeps
<1>4. NoTestForgotten => NoTestForgotten'
  BY <1>1, Remembered DEF Aside
<1> QED BY <1>1, <1>3, <1>4 DEF Sound

(* So is one of a pass. *)
LEMMA TestingSound ==
  ASSUME IInv, NEW t, NEW q, Testing(t, q), PingCounted', Aside, Flags',
         at'[Stat] = "asleep" /\ ~short' => at[Stat] = "asleep" /\ ~short /\ NoNewTests(servers, servers')
  PROVE  Sound
<1>1. Keeps(servers, servers')
  BY DEF Testing
<1>2. MainKnows' /\ CommandKept'
  BY <1>1, AsideKeeps
<1>3. IInv'
  BY <1>2, TestingKeeps
<1>4. NoTestForgotten => NoTestForgotten'
  BY <1>1, Remembered DEF Aside
<1> QED BY <1>1, <1>3, <1>4 DEF Sound

-----------------------------------------------------------------------------
(* Steps of the testers *)

(* A thread that only moves; with the last user's signal to the control thread; or with *)
(* a signal to the status thread.                                                       *)
LEMMA Arrives ==
  ASSUME TypeOK, NEW t \in Threads, NEW q \in PlacesOf(t),
         at' \in {[at EXCEPT ![t] = q], WakeCtl([at EXCEPT ![t] = q]), WakeStat([at EXCEPT ![t] = q])}
  PROVE  /\ Goes(t, q)
         /\ t # Stat => at'[Stat] = at[Stat] \/ (at[Stat] = "asleep" /\ at'[Stat] = "awake")
         /\ t = Stat => at'[Stat] = q \/ (q = "asleep" /\ at'[Stat] = "awake")
         /\ t # Ctl  => at'[Ctl] = at[Ctl] \/ (at[Ctl] = "waiting" /\ at'[Ctl] = "woken")
<1>1. DOMAIN at = Threads /\ Stat \in Threads /\ Ctl \in Threads /\ Stat # Ctl
  BY ThreadsDiffer DEF TypeOK, Threads, Tester
<1>2. t = Stat => q # "waiting"
  BY ThreadsDiffer DEF PlacesOf, StatPlaces
<1>3. t = Ctl => q # "asleep"
  BY <1>1 DEF PlacesOf, CtlPlaces
<1>4. CASE at' = [at EXCEPT ![t] = q]
  BY <1>1, <1>4 DEF Goes, Woken
<1>5. CASE at' = WakeCtl([at EXCEPT ![t] = q])
  BY <1>1, <1>2, <1>5 DEF Goes, Woken, WakeCtl
<1>6. CASE at' = WakeStat([at EXCEPT ![t] = q])
  BY <1>1, <1>3, <1>6 DEF Goes, Woken, WakeStat
<1> QED BY <1>4, <1>5, <1>6

(* A test that is noted is none that is asked for. *)
LEMMA NotedCalm ==
  ASSUME servers \in Seq(ServParm), NEW p, NEW up \in BOOLEAN,
         NEW u \in {Noted(p, SetStamp), Noted(p, LAMBDA x : SetResult(x, up)),
                    Noted(p, LAMBDA x : SetStamp(SetResult(x, up)))}
  PROVE  NoNewTests(servers, u)
<1>1. Keeps(servers, u)
  BY NotedKeeps
<1>2. ASSUME NEW i \in DOMAIN u, NEW j \in DOMAIN u[i].atup, u[i].atup[j].ts = "zero"
      PROVE  i \in DOMAIN servers /\ j \in DOMAIN servers[i].atup /\ servers[i].atup[j].ts = "zero"
  <2>1. i \in DOMAIN servers /\ j \in DOMAIN servers[i].atup
    BY <1>1 DEF Keeps
  <2>2. servers[i] \in ServParm /\ servers[i].atup[j] \in ServerAddr
    BY <2>1, AtupTyped
  <2>3. CASE i = p.i
    <3>1. CASE u = Noted(p, SetStamp)
      BY <1>2, <2>1, <2>2, <2>3, <3>1 DEF Noted, SetStamp, ServerAddr, ServParm
    <3>2. CASE u = Noted(p, LAMBDA x : SetResult(x, up))
      BY <1>2, <2>1, <2>2, <2>3, <3>2 DEF Noted, SetResult, ServerAddr, ServParm
    <3>3. CASE u = Noted(p, LAMBDA x : SetStamp(SetResult(x, up)))
      <4>1. \A x \in ServerAddr : SetStamp(SetResult(x, up)).ts = "recent"
        BY DEF SetStamp, SetResult, ServerAddr
      <4> QED BY <1>2, <2>1, <2>2, <2>3, <3>3, <4>1 DEF Noted, ServParm
    <3> QED BY <3>1, <3>2, <3>3
  <2>4. CASE i # p.i
    BY <1>2, <2>1, <2>4 DEF Noted
  <2> QED BY <2>1, <2>3, <2>4
<1> QED BY <1>2 DEF NoNewTests

(* The tests ahead of a thread that has the mutex are in the table. *)
LEMMA AheadInside ==
  ASSUME IInv, NEW t \in Tester, lock = t, NEW p \in Ahead(t)
  PROVE  p \in Position /\ Inside(p, servers)
<1> DEFINE q == pos[t]
<1>1. q \in Position /\ (q.whole => Inside(q, servers))
  BY DEF IInv, LockPlace, ScansInTable
<1>2. \A i \in DOMAIN servers : i \in Nat /\ DOMAIN Atup(i) \subseteq Nat /\ (Atup(i) # <<>> => 1 \in DOMAIN Atup(i))
  <2>1. ASSUME NEW i \in DOMAIN servers
        PROVE  i \in Nat /\ DOMAIN Atup(i) \subseteq Nat /\ (Atup(i) # <<>> => 1 \in DOMAIN Atup(i))
    <3>1. Atup(i) \in Seq(ServerAddr) /\ servers \in Seq(ServParm)
      BY AtupTyped DEF IInv, TypeOK, Atup
    <3> QED BY <3>1, LenProperties, EmptySeq
  <2> QED BY <2>1
<1>3. CASE p \in SameSection(q)
  BY <1>1, <1>3 DEF SameSection, Position, Inside, Atup
<1>4. ASSUME NEW S \in SUBSET DOMAIN servers, p \in WholeSections(q, S)
      PROVE  p \in Position /\ Inside(p, servers)
  <2>1. PICK i \in S : p = [i |-> i, j |-> 1, whole |-> TRUE] /\ Atup(i) # <<>>
    BY <1>4 DEF WholeSections
  <2>2. i \in Nat /\ 1 \in DOMAIN Atup(i)
    BY <1>2, <2>1
  <2> QED BY <2>1, <2>2 DEF Position, Inside, Atup
<1>5. CASE p \in Individuals(q)
  BY <1>2, <1>5 DEF Individuals, Position, Inside, Atup
<1> HIDE DEF q
<1> QED BY <1>3, <1>4, <1>5 DEF Ahead, q

(* So is the next of them. *)
LEMMA NextInside ==
  ASSUME IInv, NEW t \in Tester, lock = t, Ahead(t) # {}
  PROVE  Least(Ahead(t)) \in Position /\ Inside(Least(Ahead(t)), servers)
<1>1. \A p \in Ahead(t) : p.i \in Nat /\ p.j \in Nat
  BY AheadInside DEF Position
<1>2. Least(Ahead(t)) \in Ahead(t)
  BY <1>1, LeastIn
<1> QED BY <1>2, AheadInside

(* A pass of the status thread begins. *)
LEMMA BeginPassSound ==
  ASSUME IInv, BeginPass
  PROVE  Sound
<1> DEFINE q == "scanning"
<1>1. TypeOK /\ LockPlace /\ Stat \in Tester /\ Stat \in Threads /\ q \in PlacesOf(Stat)
  BY DEF IInv, Tester, Threads, PlacesOf, StatPlaces
<1>2. at' = [at EXCEPT ![Stat] = q] /\ at[Stat] \in {"starting", "awake"}
  BY DEF BeginPass
<1>3. Goes(Stat, q) /\ at'[Stat] = q /\ at'[Ctl] = at[Ctl]
  BY <1>1, <1>2, Arrives, ThreadsDiffer DEF TypeOK, Tester
<1>4. StepTo(Stat, q)
  BY <1>1, <1>2, <1>3 DEF StepTo, Books, BeginPass, One, InUse, TypeOK
<1>5. Keeps(servers, servers')
  BY <1>1, KeepsItself DEF BeginPass, TypeOK
<1>6. PosOf(Stat) /\ ~pos'[Stat].whole
  BY <1>1 DEF PosOf, BeginPass, IInv, Position, Start
<1>7. Testing(Stat, q)
  BY <1>1, <1>4, <1>5, <1>6 DEF Testing
<1>8. PingCounted' /\ Aside /\ Flags'
  BY <1>1, <1>2, <1>3 DEF BeginPass, PingCounted, IInv, TypeOK, Aside, Flags
<1> QED BY <1>3, <1>7, <1>8, TestingSound

(* A test begins, or is noted at once. *)
LEMMA BeginTestSound ==
  ASSUME IInv, NEW t \in Tester, BeginTest(t)
  PROVE  Sound
<1> DEFINE p == Least(Ahead(t))
<1>1. /\ TypeOK /\ LockPlace /\ t \in Threads /\ t # Ctl /\ lock = t /\ Ahead(t) # {}
      /\ at[t] = "scanning" /\ "testing" \in PlacesOf(t) /\ "scanning" \in PlacesOf(t)
  BY ThreadsDiffer DEF IInv, BeginTest, Tester, Threads, PlacesOf, LockPlace, StatPlaces, QueryPlaces
<1>2. p \in Position /\ Inside(p, servers)
  BY <1>1, NextInside
<1> HIDE DEF p
<1>3. pos' = [pos EXCEPT ![t] = p] /\ pos'[t] = p /\ PosOf(t)
  BY <1>2 DEF BeginTest, IInv, p, PosOf
<1>4. Flags'
  BY <1>1 DEF TypeOK, Flags, BeginTest
<1>5. CASE servers[p.i].test = "none"
  <2>1. servers' = Noted(p, SetStamp) /\ UNCHANGED <<server_data_users, server_status_ping, lock, at>>
    BY <1>5 DEF BeginTest, p
  <2>2. Keeps(servers, servers') /\ NoNewTests(servers, servers')
    BY <1>1, <2>1, NotedKeeps, NotedCalm DEF TypeOK
  <2>3. StepTo(t, "scanning")
    BY <1>1, <2>1 DEF StepTo, Books, Goes, Woken, One, TypeOK, Threads
  <2>4. Testing(t, "scanning")
    BY <1>2, <1>3, <2>2, <2>3, KeepsInside DEF Testing
  <2>5. PingCounted'
    <3>1. CASE t = Stat
      BY <1>1, <2>1, <3>1 DEF IInv, PingCounted
    <3>2. CASE t # Stat
      BY <1>1, <1>3, <2>1, <2>2, <2>3, <3>2, PingStays
    <3> QED BY <3>1, <3>2
  <2>6. Aside /\ UNCHANGED short
    BY <2>1 DEF Aside, BeginTest
  <2> QED BY <1>4, <2>1, <2>2, <2>4, <2>5, <2>6, TestingSound
<1>6. CASE servers[p.i].test # "none"
  <2>1. /\ server_data_users' = server_data_users + 1
        /\ server_status_ping' = server_status_ping + (IF t = Stat /\ MayTakeLong(servers[p.i]) THEN 1 ELSE 0)
        /\ lock' = Free /\ at' = [at EXCEPT ![t] = "testing"] /\ UNCHANGED servers
    BY <1>6 DEF BeginTest, p
  <2>2. Goes(t, "testing")
    BY <1>1, <2>1, Arrives
  <2>3. StepTo(t, "testing")
    BY <1>1, <2>1, <2>2 DEF StepTo, Books, One, InUse, TypeOK
  <2>4. Keeps(servers, servers') /\ NoNewTests(servers, servers')
    BY <1>1, <2>1, KeepsItself DEF TypeOK, NoNewTests
  <2>5. Testing(t, "testing")
    BY <1>2, <1>3, <2>1, <2>3, <2>4 DEF Testing
  <2>6. DOMAIN at = Threads /\ Stat \in Threads /\ Ctl \in Threads
    BY <1>1 DEF TypeOK, Threads, Tester
  <2>7. PingCounted'
    <3>1. CASE t = Stat
      <4>1. at'[Stat] = "testing" /\ server_status_ping = 0
        BY <1>1, <2>1, <2>6, <3>1 DEF IInv, PingCounted
      <4> QED BY <1>3, <2>1, <3>1, <4>1 DEF PingCounted, MayTakeLong
    <3>2. CASE t # Stat
      <4>1. UNCHANGED server_status_ping
        BY <1>1, <2>1, <3>2 DEF TypeOK
      <4> QED BY <1>1, <1>3, <2>3, <2>4, <3>2, <4>1, PingStays
    <3> QED BY <3>1, <3>2
  <2>8. Aside /\ UNCHANGED short /\ (at'[Stat] = "asleep" => at[Stat] = "asleep")
    BY <1>1, <2>1, <2>6 DEF Aside, BeginTest
  <2> QED BY <1>4, <2>4, <2>5, <2>7, <2>8, TestingSound
<1> QED BY <1>5, <1>6

(* A test ends. *)
LEMMA EndTestSound ==
  ASSUME IInv, NEW t \in Tester, EndTest(t)
  PROVE  Sound
<1> DEFINE q == "scanning"
<1>1. /\ TypeOK /\ LockPlace /\ t \in Threads /\ t # Ctl /\ at[t] = "testing"
      /\ q \in PlacesOf(t) /\ Inside(pos[t], servers)
  BY ThreadsDiffer DEF IInv, EndTest, Tester, Threads, PlacesOf, StatPlaces, QueryPlaces, ScansInTable
<1>2. at' \in {[at EXCEPT ![t] = q], WakeCtl([at EXCEPT ![t] = q])} /\ server_data_users' = server_data_users - 1
  BY DEF EndTest, LeaveData
<1>3. Goes(t, q) /\ (t = Stat => at'[Stat] = q)
      /\ (t # Stat => at'[Stat] = at[Stat] \/ (at[Stat] = "asleep" /\ at'[Stat] = "awake"))
      /\ (at'[Ctl] = at[Ctl] \/ (at[Ctl] = "waiting" /\ at'[Ctl] = "woken"))
  BY <1>1, <1>2, Arrives
<1>4. StepTo(t, q)
  BY <1>1, <1>2, <1>3 DEF StepTo, Books, EndTest, One, InUse, TypeOK
<1>5. Keeps(servers, servers') /\ NoNewTests(servers, servers')
  <2>1. PICK up \in BOOLEAN :
          servers' \in {Noted(pos[t], LAMBDA x : SetResult(x, up)), Noted(pos[t], LAMBDA x : SetStamp(SetResult(x, up)))}
    BY DEF EndTest, Noted
  <2> QED BY <1>1, <2>1, NotedKeeps, NotedCalm DEF TypeOK
<1>6. PosOf(t) /\ UNCHANGED pos
  BY DEF PosOf, EndTest, IInv
<1>7. Testing(t, q)
  BY <1>1, <1>4, <1>5, <1>6, KeepsInside DEF Testing
<1>8. Flags'
  BY <1>1 DEF TypeOK, Flags, EndTest
<1>9. PingCounted'
  <2>1. CASE t = Stat
    <3>1. server_status_ping' = 0
      BY <1>1, <2>1 DEF IInv, PingCounted, EndTest
    <3> QED BY <1>3, <2>1, <3>1 DEF PingCounted
  <2>2. CASE t # Stat
    <3>1. UNCHANGED server_status_ping
      BY <1>1, <2>2 DEF TypeOK, EndTest
    <3> QED BY <1>1, <1>4, <1>5, <1>6, <2>2, <3>1, PingStays
  <2> QED BY <2>1, <2>2
<1>10. Aside /\ UNCHANGED short /\ (at'[Stat] = "asleep" => at[Stat] = "asleep")
  <2>1. t = Stat => at[Stat] # "none" /\ at'[Stat] # "none"
    BY <1>1, <1>3
  <2> QED BY <1>3, <2>1 DEF Aside, EndTest
<1> QED BY <1>5, <1>7, <1>8, <1>9, <1>10, TestingSound

(* A pass of the status thread ends. *)
LEMMA EndPassSound ==
  ASSUME IInv, EndPass
  PROVE  Sound
<1>1. /\ TypeOK /\ LockPlace /\ Stat \in Tester /\ Stat \in Threads /\ lock = Stat /\ at[Stat] = "scanning"
      /\ DOMAIN at = Threads /\ Ctl \in Threads \ {Stat} /\ Free # Stat
  BY ThreadsDiffer DEF IInv, EndPass, LockPlace, Tester, Threads, TypeOK
<1>2. {"none", "asleep", "scanning"} \subseteq PlacesOf(Stat)
  BY DEF PlacesOf, StatPlaces
<1>3. Keeps(servers, servers') /\ NoNewTests(servers, servers') /\ UNCHANGED servers
  BY <1>1, KeepsItself DEF EndPass, TypeOK, NoNewTests
<1>4. PosOf(Stat) /\ ~pos'[Stat].whole
  BY <1>1 DEF PosOf, EndPass, IInv, Position, Start
<1>5. UNCHANGED <<server_data_users, server_status_ping, main, cmd>> /\ server_data_users \in Int
  BY <1>1 DEF EndPass, TypeOK
<1>6. Flags'
  <2>1. {signal_interrupt, retest_flag, short, short'} \subseteq BOOLEAN
        /\ servstat_thrid \in {"main", "stat"} /\ main \in {"before", "creating", "after"}
    BY <1>1 DEF TypeOK, EndPass, Pending
  <2> QED BY <2>1 DEF Flags, EndPass
<1>7. at[Stat] # "testing" /\ server_status_ping' = 0
  BY <1>1, <1>5 DEF IInv, PingCounted
<1>8. CASE Again
  <2>1. UNCHANGED <<lock, at, servstat_thrid, short>>
    BY <1>8 DEF EndPass
  <2>2. StepTo(Stat, "scanning")
    BY <1>1, <1>2, <1>5, <2>1 DEF StepTo, Books, Goes, Woken, One
  <2>3. Testing(Stat, "scanning")
    BY <1>1, <1>3, <1>4, <2>2 DEF Testing
  <2>4. PingCounted' /\ Aside
    BY <1>1, <1>5, <1>7, <2>1 DEF PingCounted, Aside
  <2> QED BY <1>1, <1>6, <2>1, <2>3, <2>4, TestingSound
<1>9. ASSUME ~Again, NEW q \in {"none", "asleep"}, lock' = Free, at' = [at EXCEPT ![Stat] = q]
      PROVE  Ordinary(Stat, q) /\ at'[Stat] = q /\ at'[Ctl] = at[Ctl]
  <2>1. at'[Stat] = q /\ at'[Ctl] = at[Ctl] /\ Goes(Stat, q)
    BY <1>1, <1>9 DEF Goes, Woken
  <2>2. StepTo(Stat, q)
    BY <1>1, <1>2, <1>5, <1>9, <2>1 DEF StepTo, Books, One, InUse
  <2> QED BY <1>1, <1>3, <1>4, <1>5, <2>1, <2>2 DEF Ordinary
<1>10. CASE ~Again /\ ~\E i \in DOMAIN servers : NeedsTesting(servers[i])
  <2>1. lock' = Free /\ at' = [at EXCEPT ![Stat] = "none"] /\ servstat_thrid' = "main" /\ UNCHANGED short
    BY <1>10 DEF EndPass
  <2>2. Ordinary(Stat, "none") /\ at'[Stat] = "none" /\ at'[Ctl] = at[Ctl]
    BY <1>9, <1>10, <2>1
  <2>3. MainKnows'
    BY <1>1, <1>5, <2>2 DEF IInv, MainKnows
  <2>4. CommandKept'
    BY <1>3, <1>5, <2>2 DEF IInv, CommandKept, ChangeOf, ReloadOf
  <2>5. IInv'
    BY <1>6, <2>2, <2>3, <2>4, OrdinaryKeeps
  <2>6. NoTestForgotten'
    BY <1>3, <1>10, <2>2 DEF NoTestForgotten, ThreadForTesting, NoTestSleptOver, NeedsTesting
  <2> QED BY <1>3, <2>5, <2>6 DEF Sound
<1>11. CASE ~Again /\ \E i \in DOMAIN servers : NeedsTesting(servers[i])
  <2>1. lock' = Free /\ at' = [at EXCEPT ![Stat] = "asleep"] /\ short' = Pending /\ UNCHANGED servstat_thrid
    BY <1>11 DEF EndPass
  <2>2. Ordinary(Stat, "asleep") /\ at'[Stat] = "asleep" /\ at'[Ctl] = at[Ctl]
    BY <1>9, <1>11, <2>1
  <2>3. Aside
    BY <1>1, <1>5, <2>1, <2>2 DEF Aside
  <2>4. IInv'
    BY <1>3, <1>6, <2>2, <2>3, AsideKeeps, OrdinaryKeeps
  <2>5. Pending' <=> Pending
    BY <1>3 DEF Pending, Atup
  <2>6. NoTestForgotten'
    BY <2>1, <2>2, <2>5 DEF NoTestForgotten, ThreadForTesting, NoTestSleptOver
  <2> QED BY <1>3, <2>4, <2>6 DEF Sound
<1> QED BY <1>8, <1>10, <1>11

(* The timer, and the time that passes. *)
LEMMA TimerSound ==
  ASSUME IInv, Timer
  PROVE  Sound
<1> DEFINE q == "awake"
<1>1. /\ TypeOK /\ Stat \in Threads /\ q \in PlacesOf(Stat) /\ Ctl \in Threads \ {Stat}
      /\ DOMAIN at = Threads
  BY ThreadsDiffer DEF IInv, Tester, Threads, PlacesOf, StatPlaces, TypeOK
<1>2. at[Stat] = "asleep" /\ at' = [at EXCEPT ![Stat] = q] /\ UNCHANGED <<server_data_users, lock>>
  BY DEF Timer
<1>3. Goes(Stat, q) /\ at'[Stat] = q /\ at'[Ctl] = at[Ctl]
  BY <1>1, <1>2, Arrives
<1>4. StepTo(Stat, q)
  BY <1>1, <1>2, <1>3 DEF StepTo, Books, One, InUse, TypeOK
<1>5. Keeps(servers, servers') /\ PosOf(Stat)
  BY <1>1, KeepsItself DEF Timer, TypeOK, PosOf, IInv
<1>6. Ordinary(Stat, q) /\ Aside /\ Flags'
  BY <1>1, <1>2, <1>3, <1>4, <1>5 DEF Ordinary, Aside, Flags, Timer, TypeOK
<1> QED BY <1>3, <1>6, OrdinarySound

(* A step in which nobody moves is an ordinary step of the control thread. *)
LEMMA Still ==
  ASSUME IInv, Keeps(servers, servers'), UNCHANGED <<at, lock, server_data_users, server_status_ping, pos>>
  PROVE  Ordinary(Ctl, at[Ctl]) /\ DOMAIN at = Threads
<1>1. /\ TypeOK /\ Ctl \in Threads /\ at[Ctl] \in CtlPlaces /\ DOMAIN at = Threads /\ Ctl # Stat
  BY ThreadsDiffer DEF IInv, Threads, TypeOK
<1>2. at[Ctl] \in PlacesOf(Ctl) /\ at[Ctl] \notin {"testing", "scanning"} /\ Goes(Ctl, at[Ctl])
  BY <1>1 DEF PlacesOf, CtlPlaces, Goes, Woken
<1>3. StepTo(Ctl, at[Ctl])
  BY <1>1, <1>2 DEF StepTo, Books, One, TypeOK
<1> QED BY <1>1, <1>2, <1>3 DEF Ordinary, PosOf, IInv

(* Time passes for one address. *)
LEMMA AgeSound ==
  ASSUME IInv, NEW i \in DOMAIN servers, NEW j \in DOMAIN Atup(i), Age(i, j)
  PROVE  Sound
<1>1. servers \in Seq(ServParm) /\ servers' = [servers EXCEPT ![i].atup[j].ts = "due"]
  BY DEF Age, IInv, TypeOK
<1>2. Keeps(servers, servers')
  BY <1>1, AgeKeeps
<1>3. NoNewTests(servers, servers')
  <2>1. ASSUME NEW k \in DOMAIN servers', NEW l \in DOMAIN servers'[k].atup, servers'[k].atup[l].ts = "zero"
        PROVE  k \in DOMAIN servers /\ l \in DOMAIN servers[k].atup /\ servers[k].atup[l].ts = "zero"
    <3>1. k \in DOMAIN servers /\ l \in DOMAIN servers[k].atup
      BY <1>2 DEF Keeps
    <3>2. servers[k] \in ServParm /\ servers[k].atup[l] \in ServerAddr
      BY <1>1, <3>1, AtupTyped
    <3> QED BY <1>1, <2>1, <3>1, <3>2 DEF ServParm, ServerAddr, Atup
  <2> QED BY <2>1 DEF NoNewTests
<1>4. UNCHANGED <<at, lock, server_data_users, server_status_ping, pos, short>> /\ Aside /\ Flags'
  BY DEF Age, Aside, Flags, IInv, TypeOK
<1>5. Ordinary(Ctl, at[Ctl])
  BY <1>2, <1>4, Still
<1> QED BY <1>3, <1>4, <1>5, OrdinarySound

(* main starts the status thread. *)
LEMMA StartStatSound ==
  ASSUME IInv, StartStat
  PROVE  Sound
<1> DEFINE q == "starting"
<1>1. /\ TypeOK /\ Stat \in Threads /\ q \in PlacesOf(Stat) /\ Ctl \in Threads \ {Stat}
      /\ DOMAIN at = Threads
  BY ThreadsDiffer DEF IInv, Tester, Threads, PlacesOf, StatPlaces, TypeOK
<1>2. at[Stat] = "none" /\ at' = [at EXCEPT ![Stat] = q] /\ UNCHANGED <<server_data_users, lock>>
  BY DEF StartStat, IInv, MainKnows
<1>3. Goes(Stat, q) /\ at'[Stat] = q /\ at'[Ctl] = at[Ctl]
  BY <1>1, <1>2, Arrives
<1>4. StepTo(Stat, q)
  BY <1>1, <1>2, <1>3 DEF StepTo, Books, One, InUse, TypeOK
<1>5. Keeps(servers, servers') /\ PosOf(Stat) /\ UNCHANGED <<servers, cmd>>
  BY <1>1, KeepsItself DEF StartStat, TypeOK, PosOf, IInv
<1>6. Ordinary(Stat, q) /\ Flags'
  BY <1>1, <1>2, <1>4, <1>5 DEF Ordinary, Flags, StartStat, TypeOK
<1>7. MainKnows'
  BY <1>3 DEF IInv, MainKnows, StartStat
<1>8. CommandKept'
  BY <1>3, <1>5 DEF IInv, CommandKept, ChangeOf, ReloadOf
<1>9. NoTestForgotten'
  BY <1>3 DEF StartStat, NoTestForgotten, ThreadForTesting, NoTestSleptOver
<1> QED BY <1>5, <1>6, <1>7, <1>8, <1>9, OrdinaryKeeps DEF Sound

(* main notes which it is. *)
LEMMA NoteStatSound ==
  ASSUME IInv, NoteStat
  PROVE  Sound
<1>1. UNCHANGED <<at, lock, server_data_users, server_status_ping, pos, servers, cmd, short>>
      /\ main' = "after" /\ servstat_thrid' = "stat"
  BY DEF NoteStat
<1>2. Keeps(servers, servers')
  BY <1>1, KeepsItself DEF IInv, TypeOK
<1>3. Ordinary(Ctl, at[Ctl]) /\ Flags'
  BY <1>1, <1>2, Still DEF NoteStat, Flags, IInv, TypeOK
<1>4. MainKnows' /\ CommandKept'
  BY <1>1 DEF IInv, MainKnows, CommandKept, ChangeOf, ReloadOf
<1>5. NoTestForgotten => NoTestForgotten'
  BY <1>1 DEF NoTestForgotten, ThreadForTesting, Stale, NoTestSleptOver, Pending, Atup
<1> QED BY <1>2, <1>3, <1>4, <1>5, OrdinaryKeeps DEF Sound

-----------------------------------------------------------------------------
(* Steps of the threads that answer queries *)

(* A query thread that moves, with or without signals, and asks for no test. *)
LEMMA QueryMoves ==
  ASSUME IInv, NEW t \in Query, NEW q \in QueryPlaces \ {"testing", "scanning"}, at[t] # "testing",
         at' \in {[at EXCEPT ![t] = q], WakeCtl([at EXCEPT ![t] = q]), WakeStat([at EXCEPT ![t] = q])},
         Books(t, q), Keeps(servers, servers'), PosOf(t),
         UNCHANGED <<server_status_ping, signal_interrupt, retest_flag, servstat_thrid, cmd, short, main>>,
         at'[Stat] = "asleep" /\ ~short' => NoNewTests(servers, servers')
  PROVE  Sound
<1>1. TypeOK /\ t \in Threads /\ t # Stat /\ t # Ctl /\ q \in PlacesOf(t)
  BY ThreadsDiffer DEF IInv, Threads, Tester, PlacesOf
<1>2. /\ Goes(t, q)
      /\ at'[Stat] = at[Stat] \/ (at[Stat] = "asleep" /\ at'[Stat] = "awake")
      /\ at'[Ctl] = at[Ctl] \/ (at[Ctl] = "waiting" /\ at'[Ctl] = "woken")
  BY <1>1, Arrives
<1>3. Ordinary(t, q)
  BY <1>1, <1>2 DEF Ordinary, StepTo
<1>4. Aside /\ Flags'
  BY <1>1, <1>2 DEF Aside, Flags, TypeOK
<1> QED BY <1>2, <1>3, <1>4, OrdinarySound

(* A query begins: it scans the table for servers to test, or reads it. *)
LEMMA AskSound ==
  ASSUME IInv, NEW t \in Query, Ask(t)
  PROVE  Sound
<1>1. /\ TypeOK /\ t \in Threads /\ t \in Tester /\ t # Stat /\ t # Ctl /\ at[t] = "idle"
      /\ {"scanning", "reading"} \subseteq PlacesOf(t)
  BY ThreadsDiffer DEF IInv, Threads, Tester, PlacesOf, QueryPlaces, Ask
<1>2. PosOf(t) /\ ~pos'[t].whole
  BY <1>1 DEF PosOf, Ask, IInv, Position, Start
<1>3. Keeps(servers, servers') /\ NoNewTests(servers, servers')
  BY <1>1, KeepsItself DEF Ask, TypeOK, NoNewTests
<1>4. CASE OnQuery
  <2> DEFINE q == "scanning"
  <2>1. at' = [at EXCEPT ![t] = q] /\ lock = Free /\ lock' = t /\ UNCHANGED <<server_data_users, server_status_ping>>
    BY <1>1, <1>4 DEF Ask, TypeOK
  <2>2. Goes(t, q) /\ (at'[Stat] = at[Stat] \/ (at[Stat] = "asleep" /\ at'[Stat] = "awake"))
        /\ (at'[Ctl] = at[Ctl] \/ (at[Ctl] = "waiting" /\ at'[Ctl] = "woken"))
    BY <1>1, <2>1, Arrives
  <2>3. StepTo(t, q)
    BY <1>1, <2>1, <2>2 DEF StepTo, Books, One, InUse, TypeOK
  <2>4. Testing(t, q) /\ PingCounted'
    BY <1>1, <1>2, <1>3, <2>1, <2>3, PingStays DEF Testing
  <2>5. Aside /\ Flags' /\ UNCHANGED short
    BY <1>1, <2>2 DEF Aside, Flags, TypeOK, Ask
  <2> QED BY <1>3, <2>2, <2>4, <2>5, TestingSound
<1>5. CASE ~OnQuery
  <2>1. at' = [at EXCEPT ![t] = "reading"] /\ lock' = Free /\ lock = Free /\ server_data_users' = server_data_users + 1
    BY <1>5 DEF Ask
  <2>2. Books(t, "reading")
    BY <1>1, <2>1 DEF Books, One, InUse, TypeOK
  <2> QED BY <1>1, <1>2, <1>3, <2>1, <2>2, QueryMoves DEF Ask, QueryPlaces
<1> QED BY <1>4, <1>5

(* Its pass of tests ends. *)
LEMMA AllTestedSound ==
  ASSUME IInv, NEW t \in Query, AllTested(t)
  PROVE  Sound
<1>1. TypeOK /\ t \in Tester /\ at[t] = "scanning"
  BY DEF IInv, Tester, LockPlace, AllTested
<1>2. Keeps(servers, servers') /\ NoNewTests(servers, servers') /\ PosOf(t)
  BY <1>1, KeepsItself DEF AllTested, TypeOK, NoNewTests, PosOf, IInv
<1>3. Books(t, "ready")
  BY <1>1 DEF Books, One, InUse, TypeOK, AllTested
<1> QED BY <1>1, <1>2, <1>3, QueryMoves DEF AllTested, QueryPlaces

(* It reads the table, and picks a server. *)
LEMMA ReadSound ==
  ASSUME IInv, NEW t \in Query, ReadServers(t) \/ PickServer(t)
  PROVE  Sound
<1>1. TypeOK /\ t \in Tester
  BY DEF IInv, Tester
<1>2. Keeps(servers, servers') /\ NoNewTests(servers, servers') /\ PosOf(t)
  BY <1>1, KeepsItself DEF ReadServers, PickServer, LockData, UnlockData, TypeOK, NoNewTests, PosOf, IInv
<1>3. CASE ReadServers(t)
  <2>1. Books(t, "reading")
    BY <1>1, <1>3 DEF Books, One, InUse, TypeOK, ReadServers, LockData
  <2> QED BY <1>2, <1>3, <2>1, QueryMoves DEF ReadServers, LockData, QueryPlaces
<1>4. CASE PickServer(t)
  <2>1. PICK q \in {"asking", "idle"} : UnlockData(t, "reading", q) /\ UNCHANGED cmd
    BY <1>4 DEF PickServer
  <2>2. Books(t, q)
    BY <1>1, <2>1 DEF Books, One, InUse, TypeOK, UnlockData, LeaveData
  <2>3. at' \in {[at EXCEPT ![t] = q], WakeCtl([at EXCEPT ![t] = q])} /\ at[t] = "reading"
    BY <2>1 DEF UnlockData, LeaveData
  <2> QED BY <1>2, <2>1, <2>2, <2>3, QueryMoves DEF UnlockData, QueryPlaces
<1> QED BY <1>3, <1>4

(* Marking a server for a test either asks for one, or changes nothing that was asked. *)
LEMMA MarkedKeeps ==
  ASSUME servers \in Seq(ServParm), NEW m \in Marks, NEW S,
         servers' = [i \in DOMAIN servers |-> [servers[i] EXCEPT !.atup =
                       [j \in DOMAIN servers[i].atup |-> IF <<i, servers[i].atup[j].a>> \in S
                                                         THEN Marked(servers[i].atup[j], m) ELSE servers[i].atup[j]]]]
  PROVE  /\ Keeps(servers, servers')
         /\ \/ NoNewTests(servers, servers')
            \/ m = "retest" /\ \E i \in DOMAIN servers : \E j \in DOMAIN Atup(i) :
                                  <<i, Atup(i)[j].a>> \in S /\ Atup(i)[j].ts # "zero"
<1>1. \A i \in DOMAIN servers : servers[i] \in ServParm /\ \A j \in DOMAIN servers[i].atup : servers[i].atup[j] \in ServerAddr
  BY AtupTyped
<1>2. Keeps(servers, servers')
  <2>1. \A i \in DOMAIN servers : MarkedTo(m, servers[i], servers'[i])
    BY <1>1 DEF MarkedTo, ServParm
  <2> QED BY <2>1, MarksKeep
<1>3. SUFFICES ASSUME ~(m = "retest" /\ \E i \in DOMAIN servers : \E j \in DOMAIN Atup(i) :
                              <<i, Atup(i)[j].a>> \in S /\ Atup(i)[j].ts # "zero"),
                      NEW i \in DOMAIN servers', NEW j \in DOMAIN servers'[i].atup, servers'[i].atup[j].ts = "zero"
               PROVE  i \in DOMAIN servers /\ j \in DOMAIN servers[i].atup /\ servers[i].atup[j].ts = "zero"
  BY <1>2 DEF NoNewTests
<1>4. i \in DOMAIN servers /\ j \in DOMAIN servers[i].atup
  BY <1>2 DEF Keeps
<1>5. servers'[i].atup[j] = IF <<i, servers[i].atup[j].a>> \in S THEN Marked(servers[i].atup[j], m) ELSE servers[i].atup[j]
  BY <1>1, <1>4 DEF ServParm
<1>6. m # "retest" => Marked(servers[i].atup[j], m).ts = "recent"
  BY <1>1, <1>4 DEF Marked, ServerAddr
<1> QED BY <1>3, <1>4, <1>5, <1>6 DEF Atup

(* What came of a query is reported. *)
LEMMA ReportSound ==
  ASSUME IInv, NEW t \in Query, Report(t)
  PROVE  Sound
<1> DEFINE gone       == [at EXCEPT ![t] = "idle"]
           same(i, x) == x.a = asked[t].a
           S          == {<<i, asked[t].a>> : i \in DOMAIN servers}
<1>1. TypeOK /\ t \in Tester /\ at[t] = "asking"
  BY DEF IInv, Tester, Report
<1>2. PosOf(t) /\ Books(t, "idle")
  <2>1. UNCHANGED <<server_data_users, lock, pos>>
    BY Zenon DEF Report
  <2> QED BY <1>1, <2>1 DEF TypeOK, PosOf, Books, One, InUse, IInv
<1>3. SUFFICES ASSUME NEW m \in Marks, Mark(same, m), at' = IF Asks(same, m) THEN WakeStat(gone) ELSE gone
               PROVE  Sound
  <2>1. CASE at' = gone /\ UNCHANGED servers
    <3>1. Keeps(servers, servers') /\ NoNewTests(servers, servers')
      BY <1>1, <2>1, KeepsItself DEF TypeOK, NoNewTests
    <3> QED BY <1>1, <1>2, <2>1, <3>1, QueryMoves DEF Report, QueryPlaces
  <2> QED BY <1>3, <2>1 DEF Report
<1>4. \A i \in DOMAIN servers : \A j \in DOMAIN servers[i].atup :
        <<i, servers[i].atup[j].a>> \in S <=> same(i, servers[i].atup[j])
  OBVIOUS
<1>5. /\ Keeps(servers, servers')
      /\ NoNewTests(servers, servers') \/ Asks(same, m)
  <2>1. servers' = [i \in DOMAIN servers |-> [servers[i] EXCEPT !.atup =
                      [j \in DOMAIN servers[i].atup |-> IF <<i, servers[i].atup[j].a>> \in S
                                                        THEN Marked(servers[i].atup[j], m) ELSE servers[i].atup[j]]]]
    BY <1>1, <1>3, <1>4, AtupTyped DEF Mark, ServParm, TypeOK
  <2> HIDE DEF S
  <2>2. /\ Keeps(servers, servers')
        /\ \/ NoNewTests(servers, servers')
           \/ m = "retest" /\ \E i \in DOMAIN servers : \E j \in DOMAIN Atup(i) :
                                 <<i, Atup(i)[j].a>> \in S /\ Atup(i)[j].ts # "zero"
    BY <1>1, <2>1, MarkedKeeps DEF TypeOK
  <2> QED BY <1>4, <2>2 DEF Asks, Atup
<1>6. at'[Stat] = "asleep" => ~Asks(same, m)
  BY <1>1, <1>3, ThreadsDiffer DEF WakeStat, TypeOK, Tester
<1>7. at' \in {gone, WakeStat(gone)}
  BY <1>3
<1> HIDE DEF same
<1> QED BY <1>1, <1>2, <1>5, <1>6, <1>7, QueryMoves DEF Report, QueryPlaces

-----------------------------------------------------------------------------
(* Steps of the control thread *)

(* The control thread is done with its command. *)
Done(where) == /\ DOMAIN where = Threads /\ where[Ctl] = "idle"
               /\ \A t \in Threads \ {Ctl} : where[t] = at[t]

(* It moves, and wakes or starts the status thread. *)
LEMMA Wakes ==
  ASSUME IInv, main = "after", NEW where, Done(where), WakeOrStart(where)
  PROVE  /\ Goes(Ctl, "idle") /\ at'[Ctl] = "idle"
         /\ servstat_thrid' = "stat"
         /\ at'[Stat] # "asleep" /\ (at'[Stat] = "none" => at[Stat] = "none" /\ UNCHANGED servstat_thrid)
<1>1. /\ TypeOK /\ DOMAIN at = Threads /\ Ctl \in Threads /\ Stat \in Threads /\ Stat # Ctl
  BY ThreadsDiffer DEF IInv, Threads, TypeOK, Tester
<1>2. CASE servstat_thrid = "main"
  <2>1. at[Stat] = "none"
    BY <1>2 DEF IInv, MainKnows
  <2> QED BY <1>1, <1>2, <2>1 DEF Done, WakeOrStart, Goes, Woken
<1>3. CASE servstat_thrid # "main"
  BY <1>1, <1>3 DEF Done, WakeOrStart, Goes, Woken, WakeStat, TypeOK
<1> QED BY <1>2, <1>3

(* It moves, and wakes or starts the status thread if it has to. *)
LEMMA Schedules ==
  ASSUME IInv, main = "after", NEW where, Done(where), NEW asks0, Schedule(asks0, where)
  PROVE  /\ Goes(Ctl, "idle") /\ at'[Ctl] = "idle"
         /\ retest_flag' \in BOOLEAN /\ servstat_thrid' \in {"main", "stat"}
         /\ servstat_thrid' = "main" => at'[Stat] = "none"
         /\ at'[Stat] = "none" => at[Stat] = "none" /\ UNCHANGED servstat_thrid
         /\ at'[Stat] = "asleep" => at[Stat] = "asleep" /\ ~asks0
<1>1. /\ TypeOK /\ DOMAIN at = Threads /\ Ctl \in Threads /\ Stat \in Threads /\ Stat # Ctl
  BY ThreadsDiffer DEF IInv, Threads, TypeOK, Tester
<1>2. CASE asks0 /\ WakeOrStart(where) /\ retest_flag' = (retest_flag \/ servstat_thrid # "main")
  BY <1>1, <1>2, Wakes DEF TypeOK
<1>3. CASE ~asks0 /\ at' = where /\ UNCHANGED <<retest_flag, servstat_thrid>>
  BY <1>1, <1>3 DEF Done, Goes, Woken, IInv, TypeOK, MainKnows
<1> QED BY <1>2, <1>3 DEF Schedule

(* What a command leaves alone, and the mutex. *)
ByControl == /\ main = "after" /\ lock = Free
             /\ at[Ctl] \in {"idle", "waiting", "woken"}
             /\ signal_interrupt' \in BOOLEAN
             /\ UNCHANGED <<server_data_users, server_status_ping, lock, pos, short, main>>

(* Then users and mutex follow it to any place outside the table. *)
LEMMA ControlBooks ==
  ASSUME IInv, ByControl, NEW q \in {"idle", "waiting", "woken"}, Goes(Ctl, q)
  PROVE  StepTo(Ctl, q)
<1>1. TypeOK /\ Ctl \in Threads /\ q \in PlacesOf(Ctl)
  BY ThreadsDiffer DEF IInv, Threads, PlacesOf, CtlPlaces
<1> QED BY <1>1 DEF StepTo, Books, One, InUse, ByControl, TypeOK

(* The main thread knows the status thread afterwards. *)
LEMMA ControlKnows ==
  ASSUME ByControl, servstat_thrid' = "main" => at'[Stat] = "none"
  PROVE  MainKnows'
BY DEF MainKnows, ByControl

(* Marks: every test that is asked for wakes the status thread. *)
LEMMA MarkingSound ==
  ASSUME IInv, ByControl, at[Ctl] = "idle", UNCHANGED cmd, NEW asks0, Schedule(asks0, at),
         Keeps(servers, servers'), NoNewTests(servers, servers') \/ asks0
  PROVE  Sound
<1>1. Done(at) /\ Ctl \notin Tester
  BY ThreadsDiffer DEF IInv, TypeOK, Tester, Threads, Done
<1>2. main = "after"
  BY DEF ByControl
<1>3. /\ Goes(Ctl, "idle") /\ at'[Ctl] = "idle"
      /\ retest_flag' \in BOOLEAN /\ servstat_thrid' \in {"main", "stat"}
      /\ servstat_thrid' = "main" => at'[Stat] = "none"
      /\ at'[Stat] = "none" => at[Stat] = "none" /\ UNCHANGED servstat_thrid
      /\ at'[Stat] = "asleep" => at[Stat] = "asleep" /\ ~asks0
  BY <1>1, <1>2, Schedules
<1>4. Ordinary(Ctl, "idle")
  BY <1>3, ControlBooks DEF Ordinary, ByControl, PosOf, IInv
<1>5. Flags' /\ MainKnows' /\ CommandKept'
  BY <1>3, ControlKnows DEF Flags, ByControl, CommandKept, IInv, TypeOK
<1>6. IInv'
  BY <1>4, <1>5, OrdinaryKeeps
<1>7. NoTestForgotten => NoTestForgotten'
  <2>1. ASSUME NoTestForgotten PROVE ThreadForTesting'
    <3>1. \A i \in DOMAIN servers' : i \in DOMAIN servers /\ (NeedsTesting(servers'[i]) => NeedsTesting(servers[i]))
      BY DEF Keeps, NeedsTesting
    <3> QED BY <1>3, <2>1, <3>1 DEF NoTestForgotten, ThreadForTesting, Stale, ByControl
  <2>2. ASSUME NoTestForgotten PROVE NoTestSleptOver'
    BY <1>3, <2>2 DEF NoTestForgotten, NoTestSleptOver, NoNewTests, Pending, Atup, ByControl
  <2> QED BY <2>1, <2>2 DEF NoTestForgotten
<1> QED BY <1>6, <1>7 DEF Sound

(* What marking sections does to the table, and whether it asks for a test. *)
MarkedIn(T, m) ==
  servers' = [i \in DOMAIN servers |-> [servers[i] EXCEPT !.atup =
                [j \in DOMAIN servers[i].atup |-> IF i \in T THEN Marked(servers[i].atup[j], m)
                                                             ELSE servers[i].atup[j]]]]
AsksIn(T, m) == m = "retest" /\ \E i \in DOMAIN servers : i \in T /\ \E j \in DOMAIN Atup(i) : Atup(i)[j].ts # "zero"

(* The operator marks sections. *)
LEMMA MarksOfSections ==
  ASSUME IInv, NEW T, NEW m \in Marks, MarkedIn(T, m)
  PROVE  Keeps(servers, servers') /\ (NoNewTests(servers, servers') \/ AsksIn(T, m))
<1> DEFINE S == T \X Addr
<1>1. servers \in Seq(ServParm)
  BY DEF IInv, TypeOK
<1>2. \A i \in DOMAIN servers : \A j \in DOMAIN servers[i].atup :
        <<i, servers[i].atup[j].a>> \in S <=> i \in T
  BY <1>1, AtupTyped DEF ServerAddr
<1>3. servers' = [i \in DOMAIN servers |-> [servers[i] EXCEPT !.atup =
                    [j \in DOMAIN servers[i].atup |-> IF <<i, servers[i].atup[j].a>> \in S
                                                      THEN Marked(servers[i].atup[j], m) ELSE servers[i].atup[j]]]]
  BY <1>2 DEF MarkedIn
<1> HIDE DEF S
<1>4. /\ Keeps(servers, servers')
      /\ \/ NoNewTests(servers, servers')
         \/ m = "retest" /\ \E i \in DOMAIN servers : \E j \in DOMAIN Atup(i) :
                               <<i, Atup(i)[j].a>> \in S /\ Atup(i)[j].ts # "zero"
  BY <1>1, <1>3, MarkedKeeps
<1> QED BY <1>2, <1>4 DEF AsksIn, Atup

(* mark_servers, and change_servers for the addresses the section has. *)
LEMMA SectionsSound ==
  ASSUME IInv, ByControl, at[Ctl] = "idle", UNCHANGED cmd, NEW T, NEW m \in Marks,
         MarkedIn(T, m), Schedule(AsksIn(T, m), at)
  PROVE  Sound
<1> DEFINE asks0 == AsksIn(T, m)
<1>1. Keeps(servers, servers') /\ (NoNewTests(servers, servers') \/ asks0)
  BY MarksOfSections
<1>2. Schedule(asks0, at)
  OBVIOUS
<1> HIDE DEF asks0
<1> QED BY <1>1, <1>2, MarkingSound

(* mark_servers. *)
LEMMA MarkServersSound ==
  ASSUME IInv, MarkServers
  PROVE  Sound
<1>1. PICK S \in {{i} : i \in DOMAIN servers} \cup {DOMAIN servers}, m \in Marks :
        Mark(LAMBDA i, x : i \in S, m) /\ Schedule(Asks(LAMBDA i, x : i \in S, m), at)
  BY DEF MarkServers
<1>2. MarkedIn(S, m)
  BY <1>1 DEF Mark, MarkedIn
<1>3. Asks(LAMBDA i, x : i \in S, m) <=> AsksIn(S, m)
  BY DEF Asks, AsksIn
<1>4. Schedule(AsksIn(S, m), at)
  BY <1>1, <1>3 DEF Schedule
<1>5. ByControl /\ at[Ctl] = "idle" /\ UNCHANGED cmd
  <2>1. /\ Command
        /\ UNCHANGED <<server_data_users, server_status_ping, signal_interrupt, lock, pos, cmd, short, main>>
    BY Zenon DEF MarkServers
  <2> QED BY <2>1 DEF ByControl, Command, IInv, TypeOK
<1> QED BY <1>2, <1>4, <1>5, SectionsSound

(* The command is carried out, with nobody in the table. *)
LEMMA PerformSound ==
  ASSUME IInv, ByControl, Exclusive, NEW c, ChangeOf(c) \/ ReloadOf(c),
         Perform(c, [at EXCEPT ![Ctl] = "idle"])
  PROVE  Sound
<1> DEFINE where == [at EXCEPT ![Ctl] = "idle"]
<1>1. Done(where) /\ main = "after" /\ Ctl # Stat /\ servers \in Seq(ServParm)
  BY ThreadsDiffer DEF IInv, TypeOK, Threads, Done, ByControl
<1> HIDE DEF where
<1>2. CASE ReloadOf(c)
  <2>1. servers' = Loaded(c.config) /\ WakeOrStart(where) /\ UNCHANGED retest_flag
    BY <1>2 DEF Perform, ReloadOf, where
  <2>2. /\ Goes(Ctl, "idle") /\ at'[Ctl] = "idle" /\ servstat_thrid' = "stat" /\ at'[Stat] # "asleep"
    BY <1>1, <2>1, Wakes
  <2>3. Replacing
    BY <1>2, <2>1, <2>2, LoadedTyped, ControlBooks DEF Replacing, ReloadOf, ByControl, Exclusive
  <2>4. Flags' /\ MainKnows' /\ CommandKept'
    BY <2>1, <2>2, ControlKnows DEF Flags, ByControl, CommandKept, IInv, TypeOK
  <2>5. NoTestForgotten'
    BY <1>1, <2>2 DEF ByControl, NoTestForgotten, NoTestSleptOver, ThreadForTesting, Stale
  <2> QED BY <2>3, <2>4, <2>5, ReplacingKeeps DEF Sound
<1>3. CASE ChangeOf(c)
  <2> DEFINE asks0 == c.m = "retest" /\ c.addrs # <<>>
             u     == PutAddrs(c)
  <2>1. servers' = u /\ Schedule(asks0, where)
    BY <1>3 DEF Perform, ChangeOf, where
  <2>2. /\ u \in Seq(ServParm) /\ DOMAIN u = DOMAIN servers
        /\ \A i \in DOMAIN servers : u[i].test = servers[i].test /\ u[i].interval = servers[i].interval
        /\ \A i \in DOMAIN servers \ {c.i} : u[i] = servers[i]
        /\ u[c.i].atup = [j \in DOMAIN c.addrs |-> NewAddr(servers[c.i], c.addrs[j], c.m)]
    BY <1>1, <1>3, PutAddrsTyped DEF ChangeOf
  <2>3. asks0 \/ NoNewTests(servers, u)
    <3>1. SUFFICES ASSUME ~asks0, NEW i \in DOMAIN u, NEW j \in DOMAIN u[i].atup, u[i].atup[j].ts = "zero"
                   PROVE  i \in DOMAIN servers /\ j \in DOMAIN servers[i].atup /\ servers[i].atup[j].ts = "zero"
      BY DEF NoNewTests
    <3>2. CASE i = c.i
      <4>1. j \in DOMAIN c.addrs /\ u[i].atup[j] = NewAddr(servers[c.i], c.addrs[j], c.m)
        BY <2>2, <3>2
      <4>2. c.m # "retest"
        <5>1. c.addrs # <<>>
          BY <4>1
        <5> QED BY <3>1, <5>1
      <4> QED BY <3>1, <4>1, <4>2 DEF NewAddr, Marked
    <3>3. CASE i # c.i
      BY <2>2, <3>1, <3>3
    <3> QED BY <3>2, <3>3
  <2> HIDE DEF asks0, u
  <2>4. /\ Goes(Ctl, "idle") /\ at'[Ctl] = "idle"
        /\ retest_flag' \in BOOLEAN /\ servstat_thrid' \in {"main", "stat"}
        /\ servstat_thrid' = "main" => at'[Stat] = "none"
        /\ at'[Stat] = "none" => at[Stat] = "none" /\ UNCHANGED servstat_thrid
        /\ at'[Stat] = "asleep" => at[Stat] = "asleep" /\ ~asks0
    BY <1>1, <2>1, Schedules
  <2>5. Replacing
    BY <2>1, <2>2, <2>4, ControlBooks DEF Replacing, ByControl, Exclusive
  <2>6. Flags' /\ MainKnows' /\ CommandKept'
    BY <2>4, ControlKnows DEF Flags, ByControl, CommandKept, IInv, TypeOK
  <2>7. ASSUME NoTestForgotten PROVE ThreadForTesting'
    <3>1. \A i \in DOMAIN servers' : i \in DOMAIN servers /\ (NeedsTesting(servers'[i]) => NeedsTesting(servers[i]))
      BY <2>1, <2>2 DEF NeedsTesting
    <3> QED BY <2>4, <2>7, <3>1 DEF NoTestForgotten, ThreadForTesting, Stale, ByControl
  <2>8. ASSUME NoTestForgotten PROVE NoTestSleptOver'
    BY <2>1, <2>3, <2>4, <2>8 DEF NoTestForgotten, NoTestSleptOver, NoNewTests, Pending, Atup, ByControl
  <2> QED BY <2>5, <2>6, <2>7, <2>8, ReplacingKeeps DEF Sound, NoTestForgotten
<1> QED BY <1>2, <1>3

(* A command waits, or is carried out. *)
LEMMA EnterSound ==
  ASSUME IInv, ByControl, NEW c, ChangeOf(c) \/ ReloadOf(c), Enter(c)
  PROVE  Sound
<1>1. CASE Exclusive /\ Perform(c, [at EXCEPT ![Ctl] = "idle"])
  BY <1>1, PerformSound
<1>2. CASE /\ at' = [at EXCEPT ![Ctl] = "waiting"] /\ cmd' = c
           /\ UNCHANGED <<servers, retest_flag, servstat_thrid>>
  <2>1. /\ TypeOK /\ Ctl \in Threads /\ "waiting" \in PlacesOf(Ctl) /\ Ctl # Stat /\ DOMAIN at = Threads
        /\ Stat \in Threads
    BY ThreadsDiffer DEF IInv, Threads, Tester, PlacesOf, CtlPlaces, TypeOK
  <2>2. Goes(Ctl, "waiting") /\ at'[Ctl] = "waiting" /\ at'[Stat] = at[Stat]
    BY <1>2, <2>1 DEF Goes, Woken
  <2>3. Keeps(servers, servers')
    BY <1>2, <2>1, KeepsItself DEF TypeOK
  <2>4. Ordinary(Ctl, "waiting")
    BY <2>2, <2>3, ControlBooks DEF Ordinary, ByControl, PosOf, IInv
  <2>5. Flags' /\ MainKnows'
    BY <1>2, <2>1, <2>2, ControlKnows DEF Flags, ByControl, TypeOK, IInv, MainKnows
  <2>6. CommandKept'
    BY <1>2 DEF CommandKept, ChangeOf, ReloadOf
  <2>7. NoTestForgotten => NoTestForgotten'
    BY <1>2, <2>2 DEF ByControl, NoTestForgotten, NoTestSleptOver, ThreadForTesting, Stale, Pending, Atup
  <2> QED BY <2>3, <2>4, <2>5, <2>6, <2>7, OrdinaryKeeps DEF Sound
<1> QED BY <1>1, <1>2 DEF Enter

(* change_servers: other addresses, or marks for those there are. *)
LEMMA ChangeSound ==
  ASSUME IInv, Change
  PROVE  Sound
<1>1. ByControl /\ at[Ctl] = "idle"
  <2>1. /\ Command /\ signal_interrupt' \in {signal_interrupt, signal_interrupt \/ Interrupting}
        /\ UNCHANGED <<server_data_users, server_status_ping, lock, pos, short, main>>
    BY Zenon DEF Change
  <2> QED BY <2>1 DEF ByControl, Command, IInv, TypeOK, Interrupting
<1>2. PICK i \in DOMAIN servers, addrs \in AddrLists, m \in Marks :
        \/ Enter([op |-> "change", i |-> i, addrs |-> addrs, m |-> m])
        \/ /\ Mark(LAMBDA k, x : k = i, m) /\ Schedule(Asks(LAMBDA k, x : k = i, m), at)
           /\ UNCHANGED cmd
  BY Zenon DEF Change
<1>3. CASE Enter([op |-> "change", i |-> i, addrs |-> addrs, m |-> m])
  <2> DEFINE c == [op |-> "change", i |-> i, addrs |-> addrs, m |-> m]
  <2>1. ChangeOf(c) /\ Enter(c)
    BY <1>3 DEF ChangeOf
  <2> HIDE DEF c
  <2> QED BY <1>1, <2>1, EnterSound
<1>4. CASE /\ Mark(LAMBDA k, x : k = i, m) /\ Schedule(Asks(LAMBDA k, x : k = i, m), at)
           /\ UNCHANGED cmd
  <2> DEFINE T == {i}
  <2>1. MarkedIn(T, m)
    BY <1>4 DEF Mark, MarkedIn
  <2>2. Asks(LAMBDA k, x : k = i, m) <=> AsksIn(T, m)
    BY DEF Asks, AsksIn
  <2>3. Schedule(AsksIn(T, m), at)
    BY <1>4, <2>2 DEF Schedule
  <2> HIDE DEF T
  <2> QED BY <1>1, <1>4, <2>1, <2>3, SectionsSound
<1> QED BY <1>2, <1>3, <1>4

(* reload_config_file. *)
LEMMA ReloadSound ==
  ASSUME IInv, Reload
  PROVE  Sound
<1>1. ByControl
  BY DEF ByControl, Command, IInv, TypeOK, Reload, Interrupting
<1>2. PICK config \in Configs : Enter([op |-> "reload", config |-> config])
  BY DEF Reload
<1> DEFINE c == [op |-> "reload", config |-> config]
<1>3. ReloadOf(c) /\ Enter(c)
  BY <1>2 DEF ReloadOf
<1> HIDE DEF c
<1> QED BY <1>1, <1>3, EnterSound

(* The control thread tries again, or gives up. *)
LEMMA RetrySound ==
  ASSUME IInv, Retry \/ GiveUp
  PROVE  Sound
<1>1. TypeOK /\ Ctl \in Threads /\ Ctl # Stat /\ "idle" \in PlacesOf(Ctl)
  BY ThreadsDiffer DEF IInv, Threads, PlacesOf, CtlPlaces
<1>2. ByControl
  BY <1>1 DEF ByControl, Retry, GiveUp, IInv, MainKnows, TypeOK
<1>3. CASE Retry
  BY <1>2, <1>3, EnterSound DEF Retry, IInv, CommandKept
<1>4. CASE GiveUp
  <2>1. Goes(Ctl, "idle") /\ at'[Ctl] = "idle" /\ at'[Stat] = at[Stat]
    BY <1>1, <1>4 DEF GiveUp, TypeOK, Goes, Woken, Threads, Tester
  <2>2. Keeps(servers, servers')
    BY <1>1, <1>4, KeepsItself DEF GiveUp, TypeOK
  <2>3. Ordinary(Ctl, "idle")
    BY <1>2, <1>4, <2>1, <2>2, ControlBooks DEF Ordinary, ByControl, GiveUp, PosOf, IInv
  <2>4. Flags' /\ MainKnows' /\ CommandKept'
    BY <1>1, <1>4, <2>1 DEF GiveUp, Flags, TypeOK, IInv, MainKnows, CommandKept
  <2>5. NoTestForgotten => NoTestForgotten'
    BY <1>4, <2>1 DEF GiveUp, NoTestForgotten, NoTestSleptOver, ThreadForTesting, Stale, Pending, Atup
  <2> QED BY <2>2, <2>3, <2>4, <2>5, OrdinaryKeeps DEF Sound
<1> QED BY <1>3, <1>4

(* The control thread reads the table for its report. *)
LEMMA ReportConfSound ==
  ASSUME IInv, ReportConf \/ Reported
  PROVE  Sound
<1>1. /\ TypeOK /\ Ctl \in Threads /\ Ctl # Stat /\ Ctl \notin Tester
      /\ {"idle", "reporting"} \subseteq PlacesOf(Ctl)
  BY ThreadsDiffer DEF IInv, Threads, PlacesOf, CtlPlaces, Tester
<1>2. PICK q \in {"idle", "reporting"} :
        /\ at' \in {[at EXCEPT ![Ctl] = q], WakeCtl([at EXCEPT ![Ctl] = q])}
        /\ at[Ctl] = (IF q = "idle" THEN "reporting" ELSE "idle")
        /\ server_data_users' = server_data_users + One(q) - One(at[Ctl])
        /\ UNCHANGED <<servers, server_status_ping, signal_interrupt, retest_flag, servstat_thrid, lock, pos,
                       cmd, short, main>>
        /\ main = "after"
  <2>1. CASE ReportConf
    BY <1>1, <2>1 DEF ReportConf, LockData, One, InUse, Command, TypeOK
  <2>2. CASE Reported
    BY <1>1, <2>2 DEF Reported, UnlockData, LeaveData, One, InUse, TypeOK, IInv, MainKnows
  <2> QED BY <2>1, <2>2
<1>3. Goes(Ctl, q) /\ (at'[Stat] = at[Stat] \/ (at[Stat] = "asleep" /\ at'[Stat] = "awake"))
  BY <1>1, <1>2, Arrives
<1>4. at'[Ctl] = q
  BY <1>1, <1>2, <1>3 DEF WakeCtl, TypeOK, Goes, Woken
<1>5. StepTo(Ctl, q)
  BY <1>1, <1>2, <1>3 DEF StepTo, Books
<1>6. Keeps(servers, servers')
  BY <1>1, <1>2, KeepsItself DEF TypeOK
<1>7. Ordinary(Ctl, q)
  BY <1>2, <1>5, <1>6 DEF Ordinary, PosOf, IInv
<1>8. Flags' /\ MainKnows' /\ CommandKept'
  BY <1>1, <1>2, <1>3, <1>4 DEF Flags, TypeOK, IInv, MainKnows, CommandKept
<1>9. NoTestForgotten => NoTestForgotten'
  BY <1>2, <1>3 DEF NoTestForgotten, NoTestSleptOver, ThreadForTesting, Stale, Pending, Atup
<1> QED BY <1>6, <1>7, <1>8, <1>9, OrdinaryKeeps DEF Sound

-----------------------------------------------------------------------------
(* The theorems *)

(* Everything is in order when pdnsd starts. *)
LEMMA InitSound ==
  ASSUME Init
  PROVE  IInv /\ NoTestForgotten
<1>1. PICK c \in Configs : servers = Loaded(c)
  BY DEF Init
<1>2. servers \in Seq(ServParm)
  BY <1>1, LoadedTyped
<1>3. at = [t \in Tester \cup {Ctl} |-> IF t = Stat THEN "none" ELSE "idle"]
  BY DEF Init
<1>4. TypeOK
  BY <1>2, <1>3, ThreadsDiffer DEF Init, TypeOK, Tester, StatPlaces, QueryPlaces, CtlPlaces
<1>5. pos \in [Tester -> Position]
  BY DEF Init, Position, Start
<1>6. LockPlace /\ ScansInTable /\ PingCounted /\ MainKnows /\ CommandKept
  BY <1>3, ThreadsDiffer DEF Init, LockPlace, ScansInTable, PingCounted, MainKnows, CommandKept, Tester
<1>7. UsersCounted
  <2>1. {t \in Tester \cup {Ctl} : InTable(t)} = {}
    BY <1>3 DEF InTable
  <2> QED BY <2>1, FS_EmptySet DEF Init, UsersCounted
<1>8. NoTestForgotten
  BY <1>3 DEF Init, NoTestForgotten, ThreadForTesting, NoTestSleptOver, Tester
<1> QED BY <1>4, <1>5, <1>6, <1>7, <1>8 DEF IInv

(* Every step is sound. *)
LEMMA NextSound ==
  ASSUME IInv, Next
  PROVE  Sound
<1>1. Stat \in Tester /\ Query \subseteq Tester
  BY DEF Tester
<1>2. CASE StatStep
  BY <1>1, <1>2, BeginPassSound, BeginTestSound, EndTestSound, EndPassSound DEF StatStep
<1>3. CASE CtlStep \/ Operator \/ GiveUp
  BY <1>3, RetrySound, ReportConfSound, MarkServersSound, ChangeSound, ReloadSound DEF CtlStep, Operator
<1>4. CASE StartStat \/ NoteStat \/ Timer
  BY <1>4, StartStatSound, NoteStatSound, TimerSound
<1>5. ASSUME NEW t \in Query, QueryStep(t) \/ Ask(t)
      PROVE  Sound
  BY <1>1, <1>5, BeginTestSound, EndTestSound, AllTestedSound, ReadSound, ReportSound, AskSound DEF QueryStep
<1>6. ASSUME NEW i \in DOMAIN servers, NEW j \in DOMAIN Atup(i), Age(i, j)
      PROVE  Sound
  BY <1>6, AgeSound
<1> QED BY <1>2, <1>3, <1>4, <1>5, <1>6 DEF Next

(* A step that changes nothing keeps the invariant. *)
LEMMA StutterKeeps ==
  ASSUME IInv, UNCHANGED vars
  PROVE  IInv' /\ (NoTestForgotten => NoTestForgotten')
<1>1. TypeOK' /\ (pos \in [Tester -> Position])' /\ LockPlace'
  BY DEF IInv, TypeOK, LockPlace, vars
<1>2. UsersCounted' /\ ScansInTable'
  BY DEF IInv, UsersCounted, InTable, ScansInTable, Inside, vars
<1>3. PingCounted' /\ MainKnows' /\ CommandKept'
  BY DEF IInv, PingCounted, MayTakeLong, MainKnows, CommandKept, ChangeOf, ReloadOf, vars
<1>4. NoTestForgotten => NoTestForgotten'
  BY DEF NoTestForgotten, ThreadForTesting, NoTestSleptOver, Stale, Pending, Atup, vars
<1> QED BY <1>1, <1>2, <1>3, <1>4 DEF IInv

(* The invariant holds, and no test is forgotten. *)
THEOREM Invariant == Spec => [](IInv /\ NoTestForgotten)
<1>1. Init => IInv /\ NoTestForgotten
  BY InitSound
<1>2. IInv /\ NoTestForgotten /\ [Next]_vars => (IInv /\ NoTestForgotten)'
  BY NextSound, StutterKeeps DEF Sound
<1> QED BY <1>1, <1>2, PTL DEF Spec

(* Every variable keeps its type, the table and its sections included. *)
THEOREM TypeCorrect == Spec => []TypeOK
<1>1. IInv => TypeOK
  BY DEF IInv
<1> QED BY <1>1, Invariant, PTL

(* server_data_users is the number of threads that use the table without the mutex, *)
(* however many threads answer queries: the assertions before its decrements hold.  *)
THEOREM UsersAreCounted == Spec => []UsersCounted
<1>1. IInv => UsersCounted
  BY DEF IInv
<1> QED BY <1>1, Invariant, PTL

(* The table a thread reads or tests is not replaced under it: addresses and sections *)
(* change only under the mutex, when nobody is in the table.                          *)
THEOREM TableStaysForReaders == Spec => ReadersKeepData
<1> DEFINE Change0 == Shape(servers') # Shape(servers) =>
                        lock = Free /\ \A t \in Tester \cup {Ctl} : ~InTable(t)
<1>1. IInv /\ [Next]_vars => [Change0]_vars
  <2>1. SUFFICES ASSUME IInv, Next PROVE Change0
    OBVIOUS
  <2>2. Keeps(servers, servers') \/ Replacing
    BY <2>1, NextSound DEF Sound
  <2>3. CASE Keeps(servers, servers')
    BY <2>3, KeepsShape
  <2>4. CASE Replacing
    BY <2>1, <2>4, NoUsers DEF Replacing, IInv
  <2> QED BY <2>2, <2>3, <2>4
<1> QED BY <1>1, Invariant, PTL DEF Spec, ReadersKeepData

(* A test or a pass that gave the mutex back finds its section and its address in the *)
(* table when it gets the mutex again: retest goes on with a pointer into it.         *)
THEOREM TestsStayInTable == Spec => []ScansInTable
<1>1. IInv => ScansInTable
  BY DEF IInv
<1> QED BY <1>1, Invariant, PTL

(* There is a thread for every test that is due, or the one main started was noted too *)
(* late; and the status thread does not sleep over a test somebody asked for.          *)
THEOREM TestsAreRemembered == Spec => []NoTestForgotten
<1> QED BY Invariant, PTL

=============================================================================
