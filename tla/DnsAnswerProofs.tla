--------------------------- MODULE DnsAnswerProofs ---------------------------
(***************************************************************************)
(* What the threads that answer queries guarantee for any number of them:  *)
(* the counters under proc_lock count, the limits are kept, and the last   *)
(* server to close its socket tells the program to end.                    *)
(*                                                                         *)
(* A step moves at most one query from one place to another (Moved), so    *)
(* each counter changes by that query alone.                               *)
(***************************************************************************)
EXTENDS DnsAnswer, FiniteSetTheorems, TLAPS

(* Where a query may be. *)
Place == {"sent", "counted", "dropped", "waiting", "length", "body", "working", "done", "ended"}

(* Query q is at place p now, and all others where they were. *)
Moved(q, p) == query \in [Queries -> Place] /\ query' = [query EXCEPT ![q] = p]

(* 1 if place p is one of S. *)
One(p, S) == IF p \in S THEN 1 ELSE 0

Spawned == Lives \cup {"ended"}

-----------------------------------------------------------------------------
(* Counting queries *)

(* The number of queries at some places is a natural number. *)
LEMMA CountNat ==
  ASSUME NEW S
  PROVE  /\ IsFiniteSet(In(S)) /\ Cardinality(In(S)) \in Nat
         /\ IsFiniteSet(In(S)') /\ Cardinality(In(S)') \in Nat
<1>1. In(S) \in SUBSET Queries /\ In(S)' \in SUBSET Queries
  BY DEF In
<1>2. IsFiniteSet(In(S)) /\ IsFiniteSet(In(S)')
  BY <1>1, QueriesFinite, FS_Subset
<1> QED BY <1>2, FS_CardinalityType

(* A query that moves changes a count by itself. *)
LEMMA MoveCounts ==
  ASSUME NEW q \in Queries, NEW p, Moved(q, p), NEW S
  PROVE  Cardinality(In(S)') = Cardinality(In(S)) + One(p, S) - One(query[q], S)
<1> DEFINE A == In(S)
           B == In(S)'
<1>1. q \in A <=> query[q] \in S
  BY DEF In
<1>2. q \in B <=> p \in S
  BY DEF In, Moved
<1>3. A \ {q} = B \ {q}
  BY DEF In, Moved
<1>4. /\ IsFiniteSet(A) /\ Cardinality(A) \in Nat
      /\ IsFiniteSet(B) /\ Cardinality(B) \in Nat
  BY CountNat
<1> HIDE DEF A, B
<1>5. Cardinality(A \ {q}) = IF q \in A THEN Cardinality(A) - 1 ELSE Cardinality(A)
  BY <1>4, FS_RemoveElement
<1>6. Cardinality(B \ {q}) = IF q \in B THEN Cardinality(B) - 1 ELSE Cardinality(B)
  BY <1>4, FS_RemoveElement
<1>7. Cardinality(B) = Cardinality(A) + One(p, S) - One(query[q], S)
  BY <1>1, <1>2, <1>3, <1>4, <1>5, <1>6 DEF One
<1> QED BY <1>7 DEF A, B

(* The step moves q to p, and every counter follows that move; nobody begins to work or *)
(* is counted in above the limits.                                                      *)
Follows(q, p) ==
  /\ p \in Place /\ Moved(q, p)
  /\ procs' = procs + One(p, Busy) - One(query[q], Busy)
  /\ qprocs' = qprocs + One(p, Lives) - One(query[q], Lives)
  /\ spawned' = spawned + One(p, Spawned) - One(query[q], Spawned)
  /\ dropped' = dropped + One(p, {"dropped"}) - One(query[q], {"dropped"})
  /\ One(p, Busy) > One(query[q], Busy) => procs < limit.proc
  /\ One(p, Lives) > One(query[q], Lives) => qprocs < limit.proc + limit.queue

-----------------------------------------------------------------------------
(* The inductive invariant: the counters are right and the limits are kept. *)
IInv == TypeOK /\ CountersCount /\ LimitsKept

(* A query that moves keeps the counters right. *)
LEMMA FollowsCounts ==
  ASSUME TypeOK, CountersCount, NEW q \in Queries, NEW p, Follows(q, p)
  PROVE  CountersCount'
<1>1. \A S : Cardinality(In(S)') = Cardinality(In(S)) + One(p, S) - One(query[q], S)
  BY MoveCounts DEF Follows
<1>2. Cardinality(In(Busy)') = procs' /\ Cardinality(In(Lives)') = qprocs'
  BY <1>1 DEF CountersCount, Follows
<1>3. Cardinality(In(Spawned)') = spawned' /\ Cardinality(In({"dropped"})') = dropped'
  BY <1>1 DEF CountersCount, Follows, Spawned
<1> QED BY <1>2, <1>3 DEF CountersCount, Spawned, Busy, Lives

(* A query that moves keeps the counters within their limits. *)
LEMMA FollowsLimits ==
  ASSUME IInv, NEW q \in Queries, NEW p, Follows(q, p), CountersCount', UNCHANGED config
  PROVE  LimitsKept'
<1> SUFFICES ASSUME reloads = 0
             PROVE  procs' <= limit.proc /\ qprocs' <= limit.proc + limit.queue
  BY DEF LimitsKept, CountersCount, config
<1>1. /\ procs \in Nat /\ qprocs \in Nat /\ limit.proc \in Nat /\ limit.queue \in Nat
      /\ procs <= limit.proc /\ qprocs <= limit.proc + limit.queue
  BY LimitsTyped DEF IInv, TypeOK, CountersCount, LimitsKept
<1>2. \A S : One(p, S) \in {0, 1} /\ One(query[q], S) \in {0, 1}
  BY DEF One
<1>3. procs' <= limit.proc
  BY <1>1, <1>2 DEF Follows
<1>4. qprocs' <= limit.proc + limit.queue
  BY <1>1, <1>2 DEF Follows
<1> QED BY <1>3, <1>4

(* The types of the counters follow from what they count. *)
LEMMA CountersTyped ==
  ASSUME CountersCount'
  PROVE  procs' \in Nat /\ qprocs' \in Nat /\ spawned' \in Nat /\ dropped' \in Nat
BY CountNat DEF CountersCount, Busy, Lives

-----------------------------------------------------------------------------
(* Every action either moves a query like that or leaves queries and counters alone *)

(* What an action does besides moving a query. *)
Typed ==
  /\ main \in Servers \cup {"created", "sigwait", "exited", "gone"} /\ term \in BOOLEAN
  /\ open \in [Servers -> BOOLEAN] /\ thrid \in [Servers -> {"main", "own"}]
  /\ server \in [Servers -> {"none", "starting", "serving", "creating", "closed", "leaving", "ended"}]
  /\ reply \in [Queries -> {"none", "error", "answer"}]

(* The steps of main and of the servers that concern no query. *)
LEMMA ServersAlone ==
  ASSUME TypeOK,
         \/ Main
         \/ \E s \in Servers : Listen(s) \/ CloseSocket(s) \/ ForgetThread(s) \/ EndServer(s)
  PROVE  Typed' /\ UNCHANGED <<query, counters, config>>
<1>1. UNCHANGED <<query, reply, counters, config>>
  BY DEF Main, Terminate, NoServer, CreateServer, CreateServerFails, NoteThread, Listen, CloseSocket,
         ForgetThread, EndServer, threads
<1>2. reply' \in [Queries -> {"none", "error", "answer"}]
  BY <1>1 DEF TypeOK
<1>3. CASE Main
  <2>1. \A s \in Servers : Started(s) \in {"udp", "sigwait"}
    BY DEF Started
  <2>2. ASSUME NEW s \in Servers, NoServer(s) PROVE Typed'
    BY <1>2, <2>1, <2>2 DEF TypeOK, Typed, NoServer, Servers
  <2>3. ASSUME NEW s \in Servers, CreateServer(s) PROVE Typed'
    BY <1>2, <2>3 DEF TypeOK, Typed, CreateServer
  <2>4. ASSUME NEW s \in Servers, CreateServerFails(s) PROVE Typed'
    BY <1>2, <2>4 DEF TypeOK, Typed, CreateServerFails
  <2>5. ASSUME NEW s \in Servers, NoteThread(s) PROVE Typed'
    BY <1>2, <2>1, <2>5 DEF TypeOK, Typed, NoteThread, Servers
  <2>6. ASSUME Terminate PROVE Typed'
    BY <1>2, <2>6 DEF TypeOK, Typed, Terminate
  <2> QED BY <1>1, <1>3, <2>2, <2>3, <2>4, <2>5, <2>6 DEF Main
<1>4. ASSUME NEW s \in Servers, Listen(s) PROVE Typed'
  BY <1>2, <1>4 DEF TypeOK, Typed, Listen, MoveServer
<1>5. ASSUME NEW s \in Servers, CloseSocket(s) PROVE Typed'
  BY <1>2, <1>5 DEF TypeOK, Typed, CloseSocket, MoveServer
<1>6. ASSUME NEW s \in Servers, ForgetThread(s) PROVE Typed'
  BY <1>2, <1>6 DEF TypeOK, Typed, ForgetThread, MoveServer
<1>7. ASSUME NEW s \in Servers, EndServer(s) PROVE Typed'
  <2>1. open[Other(s)] \in BOOLEAN
    BY DEF TypeOK, Other, Servers
  <2> QED BY <1>2, <1>7, <2>1 DEF TypeOK, Typed, EndServer, MoveServer
<1> QED BY <1>1, <1>3, <1>4, <1>5, <1>6, <1>7

(* A server that takes a query, or drops it. *)
LEMMA ServerMoves ==
  ASSUME TypeOK, NEW s \in Servers, NEW q \in Queries,
         Accept(s, q) \/ Drop(s, q) \/ CreateThread(s, q) \/ CreateThreadFails(s, q)
  PROVE  Typed' /\ UNCHANGED config /\ \E p \in Place : Follows(q, p)
<1>1. /\ query \in [Queries -> Place] /\ procs \in Nat /\ qprocs \in Nat /\ spawned \in Nat /\ dropped \in Nat
  BY DEF TypeOK, Place
<1>2. UNCHANGED <<main, term, open, thrid, reply, config>>
  BY DEF Accept, Drop, CreateThread, CreateThreadFails
<1>3. server' \in [Servers -> {"none", "starting", "serving", "creating", "closed", "leaving", "ended"}]
  BY DEF TypeOK, Accept, Drop, CreateThread, CreateThreadFails, MoveServer
<1>4. ASSUME Accept(s, q) PROVE Follows(q, "counted")
  BY <1>1, <1>4 DEF Accept, Follows, Moved, One, Busy, Lives, Spawned, Place
<1>5. ASSUME Drop(s, q) PROVE Follows(q, "dropped")
  BY <1>1, <1>5 DEF Drop, Follows, Moved, One, Busy, Lives, Spawned, Place
<1>6. ASSUME CreateThread(s, q) PROVE Follows(q, "waiting")
  BY <1>1, <1>6 DEF CreateThread, Follows, Moved, One, Busy, Lives, Spawned, Place, counters
<1>7. ASSUME CreateThreadFails(s, q) PROVE Follows(q, "dropped")
  BY <1>1, <1>7 DEF CreateThreadFails, Follows, Moved, One, Busy, Lives, Spawned, Place
<1>8. \E p \in Place : Follows(q, p)
  BY <1>4, <1>5, <1>6, <1>7 DEF Place
<1> QED BY <1>2, <1>3, <1>8 DEF TypeOK, Typed

(* What is sent back is nothing, an error or an answer. *)
LEMMA RepliesTyped ==
  ASSUME NEW m \in Messages
  PROVE  process_query(m) \subseteq {"none", "error", "answer"}
<1>1. m.size \in {"none", "id", "whole"} /\ m.response \in BOOLEAN /\ m.z \in BOOLEAN
  BY MessagesTyped
<1>2. CASE m.size = "none"
  BY <1>2 DEF process_query
<1>3. CASE m.size = "id"
  BY <1>3 DEF process_query
<1>4. CASE m.size = "whole" /\ m.response
  BY <1>4 DEF process_query
<1>5. CASE m.size = "whole" /\ ~m.response /\ (m.opcode # "query" \/ m.z)
  BY <1>5 DEF process_query
<1>6. CASE m.size = "whole" /\ ~m.response /\ m.opcode = "query" /\ ~m.z
  BY <1>6 DEF process_query
<1> QED BY <1>1, <1>2, <1>3, <1>4, <1>5, <1>6

(* A step of the thread of a query. *)
LEMMA ThreadMoves ==
  ASSUME TypeOK, NEW q \in Queries, Thread(q)
  PROVE  Typed' /\ UNCHANGED config /\ \E p \in Place : Follows(q, p)
<1>1. /\ query \in [Queries -> Place] /\ procs \in Nat /\ qprocs \in Nat /\ spawned \in Nat /\ dropped \in Nat
  BY DEF TypeOK, Place
<1>2. UNCHANGED <<main, term, open, thrid, server, config>>
  BY DEF Thread, Begin, ReadLength, ReadBody, Answer, EndThread
<1>3. reply' \in [Queries -> {"none", "error", "answer"}]
  <2>1. CASE Answer(q)
    <3>1. PICK m \in Messages : \E r \in process_query(m) :
            reply' = [reply EXCEPT ![q] = IF Via[q] = "udp" /\ ~open["udp"] THEN "none" ELSE r]
      BY <2>1 DEF Answer
    <3>2. process_query(m) \subseteq {"none", "error", "answer"}
      BY RepliesTyped
    <3> QED BY <3>1, <3>2 DEF TypeOK
  <2>2. CASE ~Answer(q)
    BY <2>2 DEF TypeOK, Thread, Begin, ReadLength, ReadBody, EndThread
  <2> QED BY <2>1, <2>2
<1>4. ASSUME Begin(q) PROVE Follows(q, IF Via[q] = "tcp" THEN "length" ELSE "working")
  BY <1>1, <1>4 DEF Begin, Move, Follows, Moved, One, Busy, Lives, Spawned, Place
<1>5. ASSUME NEW from \in Busy, NEW to \in Busy, Move(q, from, to), UNCHANGED counters
      PROVE  Follows(q, to)
  BY <1>1, <1>5 DEF Move, Follows, Moved, One, Busy, Lives, Spawned, Place, counters
<1>6. ASSUME EndThread(q) PROVE Follows(q, "ended")
  BY <1>1, <1>6 DEF EndThread, Move, Follows, Moved, One, Busy, Lives, Spawned, Place
<1>7. ASSUME ReadLength(q) \/ ReadBody(q) \/ Answer(q)
      PROVE  \E from, to \in Busy : Move(q, from, to) /\ UNCHANGED counters
  BY <1>7 DEF ReadLength, ReadBody, Answer, Busy
<1>8. \E p \in Place : Follows(q, p)
  BY <1>4, <1>5, <1>6, <1>7 DEF Thread, Place, Busy
<1> QED BY <1>2, <1>3, <1>8 DEF TypeOK, Typed

(* A step that moves a query keeps the invariant. *)
LEMMA FollowsKeeps ==
  ASSUME IInv, Typed', UNCHANGED config, NEW q \in Queries, NEW p, Follows(q, p)
  PROVE  IInv'
<1>1. CountersCount'
  BY FollowsCounts DEF IInv
<1>2. LimitsKept'
  BY <1>1, FollowsLimits
<1>3. query' \in [Queries -> Place]
  BY DEF Follows, Moved
<1>4. TypeOK'
  BY <1>1, <1>3, CountersTyped DEF Typed, IInv, TypeOK, Place, config
<1> QED BY <1>1, <1>2, <1>4 DEF IInv

(* A step that moves none does too. *)
LEMMA AloneKeeps ==
  ASSUME IInv, Typed', UNCHANGED <<query, counters, config>>
  PROVE  IInv'
<1>1. \A S : In(S)' = In(S)
  BY DEF In
<1> QED BY <1>1 DEF IInv, TypeOK, Typed, CountersCount, LimitsKept, counters, config, Busy, Lives

(* Reload sets the limits as it likes, and is counted. *)
LEMMA ReloadKeeps ==
  ASSUME IInv, Reload
  PROVE  IInv'
<1>1. UNCHANGED <<main, term, open, thrid, server, query, reply, procs, qprocs, spawned, dropped>>
  BY DEF Reload, threads, counters
<1>2. \A S : In(S)' = In(S)
  BY <1>1 DEF In
<1>3. limit' \in Limits /\ reloads' = reloads + 1 /\ reloads' \in 0..MaxReloads /\ reloads' # 0
  BY ReloadsNat DEF Reload, IInv, TypeOK
<1>4. TypeOK'
  BY <1>1, <1>3 DEF IInv, TypeOK
<1> QED BY <1>1, <1>2, <1>3, <1>4 DEF IInv, CountersCount, LimitsKept, Busy, Lives

-----------------------------------------------------------------------------
(* The invariant holds *)

(* At first no query has come. *)
LEMMA InitHolds == Init => IInv
<1> SUFFICES ASSUME Init PROVE IInv
  OBVIOUS
<1>1. TypeOK
  <2>1. main \in Servers \cup {"created", "sigwait", "exited", "gone"}
    BY DEF Init, Servers
  <2>2. reloads \in 0..MaxReloads
    BY ReloadsNat DEF Init
  <2> QED BY <2>1, <2>2 DEF Init, TypeOK
<1>2. In(Busy) = {} /\ In(Lives) = {} /\ In(Lives \cup {"ended"}) = {} /\ In({"dropped"}) = {}
  BY DEF Init, In, Busy, Lives
<1>3. Cardinality({}) = 0
  BY FS_EmptySet
<1>4. CountersCount
  BY <1>2, <1>3 DEF Init, CountersCount
<1>5. limit.proc \in Nat /\ limit.queue \in Nat
  BY LimitsTyped DEF Init
<1>6. LimitsKept
  BY <1>2, <1>3, <1>5 DEF LimitsKept
<1> QED BY <1>1, <1>4, <1>6 DEF IInv

(* Every step keeps it. *)
LEMMA NextKeeps == IInv /\ [Next]_vars => IInv'
<1> SUFFICES ASSUME IInv, [Next]_vars PROVE IInv'
  OBVIOUS
<1>1. TypeOK
  BY DEF IInv
<1>2. CASE Main
  BY <1>1, <1>2, ServersAlone, AloneKeeps
<1>3. CASE Reload
  BY <1>3, ReloadKeeps
<1>4. ASSUME NEW s \in Servers, Server(s) \/ CloseSocket(s) PROVE IInv'
  <2>1. CASE Listen(s) \/ CloseSocket(s) \/ ForgetThread(s) \/ EndServer(s)
    BY <1>1, <2>1, ServersAlone, AloneKeeps
  <2>2. ASSUME NEW q \in Queries, Accept(s, q) \/ Drop(s, q) \/ CreateThread(s, q) \/ CreateThreadFails(s, q)
        PROVE  IInv'
    BY <1>1, <2>2, ServerMoves, FollowsKeeps
  <2> QED BY <1>4, <2>1, <2>2 DEF Server
<1>5. ASSUME NEW q \in Queries, Thread(q) PROVE IInv'
  BY <1>1, <1>5, ThreadMoves, FollowsKeeps
<1>6. CASE UNCHANGED vars
  <2>1. Typed' /\ UNCHANGED <<query, counters, config>>
    BY <1>1, <1>6 DEF vars, threads, counters, config, TypeOK, Typed
  <2> QED BY <2>1, AloneKeeps
<1> QED BY <1>2, <1>3, <1>4, <1>5, <1>6 DEF Next

(* In every state the variables keep their types, the counters are right and the limits kept. *)
LEMMA Invariant == Spec => []IInv
<1> QED BY InitHolds, NextKeeps, PTL DEF Spec

(* Every variable keeps its type: no counter gets below 0, however threads end. *)
THEOREM TypeCorrect == Spec => []TypeOK
<1>1. IInv => TypeOK
  BY DEF IInv
<1> QED BY <1>1, Invariant, PTL

(* What a server or a thread takes under proc_lock is given back once (decrease_procs, *)
(* udp_server_thread, tcp_server_thread), whichever of them fail.                      *)
THEOREM CountersAreRight == Spec => []CountersCount
<1>1. IInv => CountersCount
  BY DEF IInv
<1> QED BY <1>1, Invariant, PTL

(* As long as the configuration is not loaded again, no more than proc_limit threads are *)
(* at work and procq_limit more wait, whatever number of clients ask at once.            *)
THEOREM LimitsAreKept == Spec => []LimitsKept
<1>1. IInv => LimitsKept
  BY DEF IInv
<1> QED BY <1>1, Invariant, PTL

-----------------------------------------------------------------------------
(* The last server ends the program *)

(* Once both sockets are closed main was told to end, or a server is about to look. *)
EndIsNear == (\A s \in Servers : ~open[s]) => term \/ \E s \in Servers : server[s] \in {"closed", "leaving"}

(* Every step keeps that. *)
LEMMA EndStaysNear == EndIsNear /\ TypeOK /\ [Next]_vars => EndIsNear'
<1> SUFFICES ASSUME EndIsNear, TypeOK, [Next]_vars, \A s \in Servers : ~open'[s]
             PROVE  term' \/ \E s \in Servers : server'[s] \in {"closed", "leaving"}
  BY DEF EndIsNear
<1> DEFINE Near(s) == server[s] \in {"closed", "leaving"}
<1>1. ASSUME UNCHANGED open, term => term', \A s \in Servers : Near(s) => server'[s] \in {"closed", "leaving"}
      PROVE  term' \/ \E s \in Servers : server'[s] \in {"closed", "leaving"}
  BY <1>1 DEF EndIsNear
<1>2. CASE Main
  <2>1. ASSUME NEW s \in Servers, CreateServer(s) PROVE FALSE
    BY <1>2, <2>1 DEF CreateServer
  <2>2. UNCHANGED open /\ UNCHANGED server /\ (term => term')
    BY <1>2, <2>1 DEF Main, Terminate, NoServer, CreateServerFails, NoteThread
  <2> QED BY <1>1, <2>2
<1>3. CASE Reload \/ (\E q \in Queries : Thread(q)) \/ UNCHANGED vars
  <2>1. UNCHANGED <<open, server, term>>
    BY <1>3 DEF Reload, Thread, Begin, ReadLength, ReadBody, Answer, EndThread, vars
  <2> QED BY <1>1, <2>1
<1>4. ASSUME NEW s \in Servers, CloseSocket(s) \/ ForgetThread(s)
      PROVE  server'[s] \in {"closed", "leaving"}
  BY <1>4 DEF CloseSocket, ForgetThread, MoveServer, TypeOK
<1>5. ASSUME NEW s \in Servers, EndServer(s) PROVE term'
  <2>1. open' = open /\ Other(s) \in Servers
    BY <1>5 DEF EndServer, Other, Servers
  <2> QED BY <1>5, <2>1 DEF EndServer
<1>6. ASSUME NEW s \in Servers,
             \/ Listen(s)
             \/ \E q \in Queries : Accept(s, q) \/ Drop(s, q) \/ CreateThread(s, q) \/ CreateThreadFails(s, q)
      PROVE  term' \/ \E t \in Servers : server'[t] \in {"closed", "leaving"}
  <2>1. UNCHANGED <<open, term>> /\ \A t \in Servers : Near(t) => server'[t] = server[t]
    BY <1>6 DEF Listen, Accept, Drop, CreateThread, CreateThreadFails, MoveServer, TypeOK
  <2> QED BY <1>1, <2>1
<1> QED BY <1>2, <1>3, <1>4, <1>5, <1>6 DEF Next, Server

(* When both sockets are closed, main was told to end or a server that has yet to end     *)
(* will tell it: two servers that end at once never leave it to each other.               *)
THEOREM LastServerTellsMain == Spec => []EndIsNear
<1>1. Init => EndIsNear
  BY DEF Init, EndIsNear
<1> QED BY <1>1, EndStaysNear, TypeCorrect, PTL DEF Spec
=============================================================================
