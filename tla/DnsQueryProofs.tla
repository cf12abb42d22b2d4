---------------------------- MODULE DnsQueryProofs ----------------------------
(***************************************************************************)
(* What a resolution guarantees for any servers, any replies and any number *)
(* of hops: no activation leaves a socket open, none looks up what another  *)
(* is looking up, and the best of the answers received is taken.            *)
(*                                                                         *)
(* The stack of activations is a Chain: each activation is well formed      *)
(* (FrameInv), and all but the running one await the one above them.        *)
(***************************************************************************)
EXTENDS DnsQuery, FiniteSetTheorems, WellFoundedInduction, TLAPS

States  == {"initial", "tcpwrite", "tcpread", "tcpbody", "udpreceive", "done", "canceled"}
Query   == [srv : Addrs, st : States, qm : Methods, rd : BOOLEAN, edns : BOOLEAN, failed : {0, 3},
            aa : BOOLEAN, tc : BOOLEAN, ra : BOOLEAN, auth : 1..2, nt : 0..2]
Judging == [i : Nat, neg : BOOLEAN, has : BOOLEAN, auth : {"yes", "no"}, ns : Seq(Names), serv : Seq(Addrs)]
Answer  == [i : Nat, neg : BOOLEAN, has : BOOLEAN, qual : Nat, serv : Seq(Addrs)]
Working == {"sending", "polling", "serving", "timing"}
Frame   == [kind : {"top", "name", "follow"}, name : Names, type : Types \cup {"A"}, hops : Nat,
            kept : BOOLEAN, q : Seq(Query), j : Nat, mc : Nat, at : Working \cup {"ending", "followed"},
            todo : SUBSET Nat, retried : BOOLEAN, rv : ReturnCodes, cur : Judging, saved : Answer,
            late : SUBSET Nat, heard : SUBSET Nat, seen : SUBSET Nat]

(* The queries of an activation: those up to mc were begun.                            *)
Counters(f) == /\ 1 <= f.j /\ f.j <= f.mc /\ f.mc <= Len(f.q) /\ f.todo \subseteq 1..f.mc
               /\ f.cur.i \in 0..f.mc /\ f.saved.i \in 0..f.mc

(* A query that is about to be executed is not over, and one whose answer is judged is. *)
Begun(f) == /\ \A k \in f.mc + 1..Len(f.q) : f.q[k].st = "initial"
            /\ f.at \in Working => \A k \in DOMAIN f.q : f.q[k].st # "canceled"
            /\ f.at \in {"sending", "serving"} => \A k \in f.todo \ {f.cur.i} : f.q[k].st # "done"
            /\ f.cur.i # 0 => f.at \in Working /\ f.q[f.cur.i].st = "done"
            /\ f.at = "followed" => LiveIn(f) = {}

(* The answer saved is the best one seen; an answer that is better than 14, the quality *)
(* of a truncated one that satisfies, ends the activation.                             *)
Best(f) == /\ f.at \in Working => /\ \A v \in f.seen : v <= 14 /\ v <= f.saved.qual
                                  /\ f.saved.i = 0 => f.seen = {}
           /\ f.at \notin Working /\ f.saved.i # 0 => \A v \in f.seen : v <= f.saved.qual

(* Servers are only looked up and asked while there are hops left.                     *)
HopsLeft(f) == f.cur.ns # <<>> \/ f.cur.serv # <<>> \/ f.saved.serv # <<>> => f.hops > 0

FrameInv(f) == f \in Frame /\ Counters(f) /\ Begun(f) /\ Best(f) /\ HopsLeft(f)

(* What an activation does while one of this kind is above it.                         *)
Awaits(f, kind) == IF kind = "name" THEN f.cur.i # 0 /\ f.cur.ns # <<>>
                                    ELSE f.at = "ending" /\ LiveIn(f) = {}

Apart(s) == \A d, e \in DOMAIN s :
  d < e /\ s[e].kind = "name" => ~(s[d].name = s[e].name /\ s[d].type = s[e].type)

Chain(s) == /\ s \in Seq(Frame)
            /\ \A d \in DOMAIN s : FrameInv(s[d]) /\ s[d].hops <= MaxHops - (d - 1)
            /\ \A d \in DOMAIN s : d + 1 \in DOMAIN s => Awaits(s[d], s[d + 1].kind)
            /\ Apart(s)

(* The queries under way in the activations of s.                                      *)
OpenIn(s) == UNION {{d} \X LiveIn(s[d]) : d \in DOMAIN s}

IInv == /\ Chain(stack)
        /\ IsFiniteSet(OpenIn(stack)) /\ open = Cardinality(OpenIn(stack))
        /\ global \in Configs /\ had \in Statuses /\ outcome \in ReturnCodes \cup {"none"}

-----------------------------------------------------------------------------
(* Induction, and the members of a sequence                                  *)

(* The order of the natural numbers is well founded.                                   *)
LEMMA NaturalOrder == \E R : IsWellFoundedOn(R, Nat) /\ \A m, n \in Nat : <<m, n>> \in R <=> m < n
<1>1. \A m, n \in Nat : <<m, n>> \in OpToRel(<, Nat) <=> m < n
  BY Zenon DEF OpToRel
<1> QED BY <1>1, NatLessThanWellFounded, Zenon

LEMMA LeastNatural ==
  ASSUME NEW S, S \subseteq Nat, S # {}
  PROVE  \E m \in S : \A n \in S : m <= n
<1>1. PICK R : IsWellFoundedOn(R, Nat) /\ \A m, n \in Nat : <<m, n>> \in R <=> m < n
  BY NaturalOrder
<1>2. PICK m \in S : \A n \in S : ~(<<n, m>> \in R)
  <2>1. \A r, s, t : IsWellFoundedOn(r, s) /\ t \subseteq s /\ t # {}
                       => \E x \in t : \A y \in t : ~(<<y, x>> \in r)
    BY WFMin, Zenon
  <2>2. IsWellFoundedOn(R, Nat)
    BY <1>1
  <2> QED BY <2>1, <2>2, Zenon
<1>3. ASSUME NEW n \in S PROVE m <= n
  <2>1. ~(n < m)
    BY <1>1, <1>2
  <2> QED BY <2>1
<1> QED BY <1>3

(* So a set of natural numbers with 0 and the successor of each member has them all.    *)
LEMMA InductionOnSets ==
  ASSUME NEW S, S \subseteq Nat, 0 \in S, \A n \in S : n + 1 \in S
  PROVE  S = Nat
<1> SUFFICES ASSUME S # Nat PROVE FALSE
  OBVIOUS
<1>1. PICK n \in Nat \ S : \A k \in Nat \ S : n <= k
  <2>1. Nat \ S \subseteq Nat /\ Nat \ S # {}
    OBVIOUS
  <2> QED BY <2>1, LeastNatural
<1>2. n - 1 \in S /\ n # 0
  BY <1>1
<1> QED BY <1>1, <1>2

(* How Those goes through a sequence.                                                  *)
Choice(seq, S, f, n) ==
  IF n = 0 THEN <<>>
  ELSE IF seq[n] \in S THEN Append(f[n - 1], seq[n]) ELSE f[n - 1]

Chooses(seq, S, T, n, f) == f \in [0..n -> Seq(T)] /\ \A k \in 0..n : f[k] = Choice(seq, S, f, k)

LEMMA ChoicesExist ==
  ASSUME NEW T, NEW seq \in Seq(T), NEW S
  PROVE  \A n \in 0..Len(seq) : \E f : Chooses(seq, S, T, n, f)
<1> DEFINE G == {n \in Nat : n <= Len(seq) => \E f : Chooses(seq, S, T, n, f)}
<1>1. 0 \in G
  <2> DEFINE f == [k \in 0..0 |-> <<>>]
  <2>1. Chooses(seq, S, T, 0, f)
    BY DEF Chooses, Choice
  <2> QED BY <2>1
<1>2. ASSUME NEW n \in G PROVE n + 1 \in G
  <2>0. n \in Nat /\ (n <= Len(seq) => \E f : Chooses(seq, S, T, n, f))
    OBVIOUS
  <2> HIDE DEF G
  <2>1. ASSUME n + 1 <= Len(seq) PROVE \E g : Chooses(seq, S, T, n + 1, g)
    <3>0. n <= Len(seq) /\ n + 1 \in 1..Len(seq) /\ seq[n + 1] \in T
      BY <2>0, <2>1
    <3>1. PICK f : Chooses(seq, S, T, n, f)
      BY <2>0, <3>0
    <3>2. PICK new : new = IF seq[n + 1] \in S THEN Append(f[n], seq[n + 1]) ELSE f[n]
      OBVIOUS
    <3>3. new \in Seq(T)
      BY <2>0, <3>0, <3>1, <3>2 DEF Chooses
    <3> DEFINE g == [k \in 0..n + 1 |-> IF k = n + 1 THEN new ELSE f[k]]
    <3>4. g \in [0..n + 1 -> Seq(T)]
      BY <2>0, <3>1, <3>3 DEF Chooses
    <3>5. ASSUME NEW k \in 0..n + 1 PROVE g[k] = Choice(seq, S, g, k)
      <4>1. CASE k = n + 1
        <5>1. g[k] = new /\ g[k - 1] = f[n]
          BY <2>0, <4>1
        <5> HIDE DEF g
        <5> QED BY <2>0, <3>2, <4>1, <5>1 DEF Choice
      <4>2. CASE k # n + 1
        <5>1. k \in 0..n /\ g[k] = f[k] /\ (k # 0 => g[k - 1] = f[k - 1])
          BY <2>0, <4>2
        <5> HIDE DEF g
        <5> QED BY <3>1, <5>1 DEF Chooses, Choice
      <4> QED BY <4>1, <4>2
    <3> HIDE DEF g
    <3>6. Chooses(seq, S, T, n + 1, g)
      BY <3>4, <3>5 DEF Chooses
    <3> QED BY <3>6
  <2> QED BY <2>0, <2>1 DEF G
<1>3. G \subseteq Nat
  OBVIOUS
<1> HIDE DEF G
<1>4. G = Nat
  BY <1>1, <1>2, <1>3, InductionOnSets
<1> QED BY <1>4 DEF G

(* The members of a sequence of T are of T.                                            *)
LEMMA ThoseType ==
  ASSUME NEW T, NEW seq \in Seq(T), NEW S
  PROVE  Those(seq, S) \in Seq(T)
<1> DEFINE those[n \in 0..Len(seq)] ==
             IF n = 0 THEN <<>>
             ELSE IF seq[n] \in S THEN Append(those[n - 1], seq[n]) ELSE those[n - 1]
<1>0. Len(seq) \in Nat
  OBVIOUS
<1>1. Those(seq, S) = those[Len(seq)]
  BY DEF Those
<1>2. those = [n \in 0..Len(seq) |->
                 IF n = 0 THEN <<>>
                 ELSE IF seq[n] \in S THEN Append(those[n - 1], seq[n]) ELSE those[n - 1]]
  <2>1. PICK f : Chooses(seq, S, T, Len(seq), f)
    <3> HIDE DEF those
    <3>1. Len(seq) \in 0..Len(seq)
      BY <1>0
    <3> QED BY <3>1, ChoicesExist
  <2>2. f = [n \in 0..Len(seq) |->
               IF n = 0 THEN <<>>
               ELSE IF seq[n] \in S THEN Append(f[n - 1], seq[n]) ELSE f[n - 1]]
    <3> HIDE DEF those
    <3> QED BY <2>1 DEF Chooses, Choice
  <2> QED BY <2>2
<1> HIDE DEF those
<1> DEFINE G == {n \in Nat : n <= Len(seq) => those[n] \in Seq(T)}
<1>3. 0 \in G
  BY <1>0, <1>2
<1>4. ASSUME NEW n \in G PROVE n + 1 \in G
  <2>0. n \in Nat /\ (n <= Len(seq) => those[n] \in Seq(T))
    OBVIOUS
  <2> HIDE DEF G
  <2>1. ASSUME n + 1 <= Len(seq) PROVE those[n + 1] \in Seq(T)
    <3>1. n + 1 \in 1..Len(seq) /\ seq[n + 1] \in T /\ those[n] \in Seq(T)
      BY <1>0, <2>0, <2>1
    <3>2. those[n + 1] = IF seq[n + 1] \in S THEN Append(those[n], seq[n + 1]) ELSE those[n]
      <4>1. \A k \in 0..Len(seq) : those[k] = Choice(seq, S, those, k)
        BY <1>2 DEF Choice
      <4>2. n + 1 \in 0..Len(seq) /\ n + 1 # 0 /\ (n + 1) - 1 = n
        BY <1>0, <2>0, <3>1
      <4> QED BY <4>1, <4>2 DEF Choice
    <3> QED BY <3>1, <3>2
  <2> QED BY <2>0, <2>1 DEF G
<1>5. G \subseteq Nat
  OBVIOUS
<1> HIDE DEF G
<1>6. G = Nat
  BY <1>3, <1>4, <1>5, InductionOnSets
<1> QED BY <1>0, <1>1, <1>6 DEF G

-----------------------------------------------------------------------------
(* One query                                                                 *)

(* What p_query_sm returns: the query waits for its server, or it is over.             *)
StepOK(s) == /\ s.qs \in Query
             /\ \/ s.rv = "AGAIN" /\ Live(s.qs)
                \/ s.rv \in {"SERVFAIL", "REPLY"} /\ s.qs.st = "done"
(* What p_exec_query returns: an answer only for a query that is over.                 *)
ResultOK(e) == /\ e.qs \in Query /\ e.rv \in ReturnCodes /\ e.ns \in Seq(Names)
               /\ e.heard \in BOOLEAN /\ e.neg \in BOOLEAN /\ e.has \in BOOLEAN /\ e.sub \in BOOLEAN
               /\ e.qs.st # "canceled" /\ (e.rv = "OK" => e.qs.st = "done")
Replies == [rcode : ReplyCodes, aa : BOOLEAN, tc : BOOLEAN, ra : BOOLEAN,
            has : BOOLEAN, sub : BOOLEAN, ns : Seq(Names)]

LEMMA FailsOK == \A qs \in Query : \A s \in Fails(qs) : StepOK(s) /\ s.rv = "SERVFAIL"
<1> SUFFICES ASSUME NEW qs \in Query, NEW s \in Fails(qs) PROVE StepOK(s) /\ s.rv = "SERVFAIL"
  OBVIOUS
<1>1. PICK n \in {qs.nt, 0} : s = Step([qs EXCEPT !.nt = n], "done", "SERVFAIL")
  BY DEF Fails
<1>2. PICK r : r = [[qs EXCEPT !.nt = n] EXCEPT !.st = "done"]
  OBVIOUS
<1>3. r \in Query /\ r.st = "done"
  <2>1. n \in 0..2
    BY DEF Query
  <2> QED BY <1>2, <2>1 DEF Query, States
<1> QED BY <1>1, <1>2, <1>3 DEF Step, StepOK

LEMMA WaitsOK ==
  ASSUME NEW S \in SUBSET {"tcpwrite", "tcpread", "tcpbody", "udpreceive"}
  PROVE  \A qs \in Query : \A s \in Waits(qs, S) : StepOK(s) /\ s.rv = "AGAIN"
<1> SUFFICES ASSUME NEW qs \in Query, NEW s \in Waits(qs, S) PROVE StepOK(s) /\ s.rv = "AGAIN"
  OBVIOUS
<1>1. PICK st \in S : s = Step(qs, st, "AGAIN")
  BY DEF Waits
<1>2. PICK r : r = [qs EXCEPT !.st = st]
  OBVIOUS
<1>3. r \in Query /\ r.st = st
  BY <1>2 DEF Query, States
<1> QED BY <1>1, <1>2, <1>3 DEF Step, StepOK, Live

LEMMA SendUdpOK == \A qs \in Query : \A s \in SendUdp(qs) : StepOK(s) /\ s.rv # "REPLY"
BY FailsOK, WaitsOK DEF SendUdp

LEMMA TcpFailedOK == \A qs \in Query : \A s \in TcpFailed(qs) : StepOK(s) /\ s.rv # "REPLY"
<1>1. \A qs \in Query : [qs EXCEPT !.qm = "udp_only"] \in Query
  BY DEF Query, Methods
<1> QED BY <1>1, FailsOK, SendUdpOK DEF TcpFailed

LEMMA SendTcpOK == \A qs \in Query : \A s \in SendTcp(qs) : StepOK(s) /\ s.rv # "REPLY"
BY FailsOK, WaitsOK, TcpFailedOK DEF SendTcp

LEMMA SendOK == \A qs \in Query : \A s \in Send(qs) : StepOK(s) /\ s.rv # "REPLY"
BY SendUdpOK, SendTcpOK DEF Send

(* A query that is not over makes a step.                                              *)
LEMMA StepsOK ==
  ASSUME NEW qs \in Query, qs.st \notin {"done", "canceled"}, NEW s \in p_query_sm(qs)
  PROVE  StepOK(s)
<1>1. \A x : x \in {Step(qs, "done", "REPLY")} => StepOK(x)
  <2> SUFFICES StepOK(Step(qs, "done", "REPLY"))
    OBVIOUS
  <2>1. PICK r : r = [qs EXCEPT !.st = "done"]
    OBVIOUS
  <2>2. r \in Query /\ r.st = "done"
    BY <2>1 DEF Query, States
  <2> QED BY <2>1, <2>2 DEF Step, StepOK
<1>2. CASE qs.st = "initial"
  BY <1>2, SendOK DEF p_query_sm
<1>3. CASE qs.st = "tcpwrite"
  BY <1>3, SendTcpOK DEF p_query_sm
<1>4. CASE qs.st = "tcpread"
  <2>1. p_query_sm(qs) = Waits(qs, {"tcpread", "tcpbody"}) \cup {Step(qs, "done", "REPLY")} \cup TcpFailed(qs)
    BY <1>4 DEF p_query_sm
  <2> QED BY <1>1, <2>1, WaitsOK, TcpFailedOK
<1>5. CASE qs.st = "tcpbody"
  <2>1. p_query_sm(qs) = Waits(qs, {"tcpbody"}) \cup {Step(qs, "done", "REPLY")} \cup TcpFailed(qs)
    BY <1>5 DEF p_query_sm
  <2> QED BY <1>1, <2>1, WaitsOK, TcpFailedOK
<1>6. CASE qs.st = "udpreceive"
  <2>1. p_query_sm(qs) = Waits(qs, {"udpreceive"}) \cup {Step(qs, "done", "REPLY")} \cup Fails(qs)
    BY <1>6 DEF p_query_sm
  <2> QED BY <1>1, <2>1, WaitsOK, FailsOK
<1> QED BY <1>2, <1>3, <1>4, <1>5, <1>6 DEF Query, States

LEMMA PlainResult ==
  ASSUME NEW qs \in Query, NEW rv \in ReturnCodes, NEW heard \in BOOLEAN,
         qs.st # "canceled", rv = "OK" => qs.st = "done"
  PROVE  ResultOK(Result(qs, rv, heard))
BY DEF Result, ResultOK

LEMMA ResentOK == \A qs \in Query : \A e \in Resent(qs) : ResultOK(e)
<1> SUFFICES ASSUME NEW qs \in Query, NEW e \in Resent(qs) PROVE ResultOK(e)
  OBVIOUS
<1>1. PICK s \in Send(qs) : e = Result(s.qs, s.rv, TRUE)
  BY DEF Resent
<1>2. StepOK(s) /\ s.rv # "REPLY"
  BY SendOK
<1> QED BY <1>1, <1>2, PlainResult DEF StepOK, Live, ReturnCodes

(* What is read of a reply.                                                            *)
LEMMA ReadOK ==
  ASSUME NEW qs \in Query, qs.st = "done", NEW r \in Replies
  PROVE  ResultOK(Read(qs, r))
<1>1. PICK x : x = WithFlags(qs, r)
  OBVIOUS
<1>2. x \in Query /\ x.st = "done"
  <2>1. PICK aa, ra \in BOOLEAN : aa = (r.aa /\ qs.failed = 0) /\ ra = (qs.rd /\ r.ra)
    OBVIOUS
  <2>2. x = [qs EXCEPT !.aa = aa, !.tc = r.tc, !.ra = ra]
    BY <1>1, <2>1 DEF WithFlags
  <2>3. r.tc \in BOOLEAN
    BY DEF Replies
  <2> HIDE <1>1, <2>1
  <2> QED BY <2>2, <2>3 DEF Query
<1>3. ResultOK(NameError(x))
  BY <1>2 DEF NameError, Result, ResultOK, ReturnCodes, Query
<1>4. ResultOK(Sections(x, r))
  <2>1. NsList(x, r) \in Seq(Names)
    BY DEF NsList, Replies
  <2> QED BY <1>2, <2>1 DEF Sections, Result, ResultOK, ReturnCodes, Replies
<1> QED BY <1>1, <1>3, <1>4 DEF Read

LEMMA RepliedOK ==
  ASSUME NEW qs \in Query, qs.st = "done", NEW r \in Replies, r.rcode # "BAD", NEW e \in Replied(qs, r)
  PROVE  ResultOK(e)
<1>1. [qs EXCEPT !.rd = FALSE] \in Query /\ [qs EXCEPT !.edns = FALSE] \in Query
  <2>1. [qs EXCEPT !.rd = FALSE] \in Query
    BY DEF Query
  <2>2. [qs EXCEPT !.edns = FALSE] \in Query
    BY DEF Query
  <2> QED BY <2>1, <2>2
<1>2. PICK x : x = [qs EXCEPT !.failed = 3]
  OBVIOUS
<1>3. x \in Query /\ x.st = "done"
  BY <1>2 DEF Query
<1>4. CASE r.rcode \in {"OK", "NAMEERR"}
  BY <1>4, ReadOK DEF Replied, NoRecursion, NoEdns, FailedButAnswers
<1>5. CASE r.rcode \notin {"OK", "NAMEERR"}
  <2>1. \/ e \in Resent([qs EXCEPT !.rd = FALSE]) \/ e \in Resent([qs EXCEPT !.edns = FALSE])
        \/ e = Read(x, r) \/ e = Result(qs, r.rcode, TRUE)
    BY <1>2, <1>5 DEF Replied
  <2>2. r.rcode \in ReturnCodes
    BY DEF Replies, ReplyCodes, ReturnCodes
  <2>3. ResultOK(Result(qs, r.rcode, TRUE))
    BY <2>2, PlainResult
  <2> QED BY <1>1, <1>3, <2>1, <2>3, ResentOK, ReadOK
<1> QED BY <1>4, <1>5

(* A query that is not over is executed, whatever its server sends.                    *)
LEMMA ExecOK ==
  ASSUME NEW qs \in Query, qs.st \notin {"done", "canceled"}, NEW e \in p_exec_query(qs)
  PROVE  ResultOK(e)
<1>1. PICK s \in p_query_sm(qs) :
        e \in IF s.rv = "REPLY" THEN UNION {Received(s.qs, r) : r \in Answers[qs.srv]}
                                ELSE {Result(s.qs, s.rv, FALSE)}
  BY DEF p_exec_query
<1>2. StepOK(s)
  BY StepsOK
<1>3. CASE s.rv # "REPLY"
  <2>1. e = Result(s.qs, s.rv, FALSE) /\ s.qs \in Query /\ s.qs.st # "canceled"
        /\ s.rv \in {"AGAIN", "SERVFAIL"}
    BY <1>1, <1>2, <1>3 DEF StepOK, Live
  <2> QED BY <2>1, PlainResult DEF ReturnCodes
<1>4. CASE s.rv = "REPLY"
  <2>1. PICK r \in Answers[qs.srv] : e \in Received(s.qs, r)
    BY <1>1, <1>4
  <2>2. r \in Replies
    BY RepliesTyped DEF Replies, Query
  <2>3. s.qs \in Query /\ s.qs.st = "done"
    BY <1>2, <1>4 DEF StepOK
  <2>4. CASE r.rcode = "BAD"
    BY <2>1, <2>3, <2>4, PlainResult DEF Received, Discarded, ReturnCodes
  <2>5. CASE r.rcode # "BAD"
    <3>1. PICK x : x = [s.qs EXCEPT !.nt = 0]
      OBVIOUS
    <3>2. x \in Query /\ x.st = "done"
      BY <2>3, <3>1 DEF Query
    <3> QED BY <2>1, <2>2, <2>5, <3>1, <3>2, RepliedOK DEF Received
  <2> QED BY <2>4, <2>5
<1> QED BY <1>3, <1>4

-----------------------------------------------------------------------------
(* The stack                                                                 *)

LastOf(s)     == s[Len(s)]
WithLast(s, g) == [s EXCEPT ![Len(s)] = g]
Same(f, g)    == g.kind = f.kind /\ g.name = f.name /\ g.type = f.type /\ g.hops = f.hops

LEMMA ChainLast ==
  ASSUME NEW s, Chain(s), s # <<>>
  PROVE  /\ s \in Seq(Frame) /\ Len(s) \in Nat \ {0} /\ Len(s) \in DOMAIN s /\ DOMAIN s = 1..Len(s)
         /\ FrameInv(LastOf(s)) /\ LastOf(s).hops <= MaxHops - (Len(s) - 1)
<1>1. s \in Seq(Frame) /\ Len(s) \in Nat \ {0} /\ DOMAIN s = 1..Len(s)
  BY DEF Chain
<1> QED BY <1>1 DEF Chain, LastOf

(* The running activation changes, but not what it resolves.                           *)
LEMMA ChainSet ==
  ASSUME NEW s, Chain(s), s # <<>>, NEW g, FrameInv(g), Same(LastOf(s), g)
  PROVE  Chain(WithLast(s, g)) /\ WithLast(s, g) # <<>> /\ LastOf(WithLast(s, g)) = g
<1>1. /\ s \in Seq(Frame) /\ Len(s) \in Nat \ {0} /\ Len(s) \in DOMAIN s /\ DOMAIN s = 1..Len(s)
      /\ LastOf(s).hops <= MaxHops - (Len(s) - 1)
  BY ChainLast
<1>2. PICK t : t = WithLast(s, g)
  OBVIOUS
<1>3. /\ t \in Seq(Frame) /\ Len(t) = Len(s) /\ DOMAIN t = DOMAIN s
      /\ \A d \in DOMAIN s : t[d] = IF d = Len(s) THEN g ELSE s[d]
  BY <1>1, <1>2 DEF WithLast, FrameInv
<1>4. \A d \in DOMAIN t : FrameInv(t[d]) /\ t[d].hops <= MaxHops - (d - 1)
  BY <1>1, <1>3 DEF Chain, Same
<1>5. \A d \in DOMAIN t : t[d].kind = s[d].kind /\ t[d].name = s[d].name /\ t[d].type = s[d].type
  BY <1>3 DEF Same, LastOf
<1>6. \A d \in DOMAIN t : d + 1 \in DOMAIN t => Awaits(t[d], t[d + 1].kind)
  <2> SUFFICES ASSUME NEW d \in DOMAIN t, d + 1 \in DOMAIN t PROVE Awaits(t[d], t[d + 1].kind)
    OBVIOUS
  <2>1. d # Len(s) /\ t[d] = s[d] /\ t[d + 1].kind = s[d + 1].kind
    BY <1>1, <1>3, <1>5
  <2> QED BY <1>3, <2>1 DEF Chain
<1>7. Apart(t)
  BY <1>3, <1>5 DEF Chain, Apart
<1>8. t # <<>> /\ LastOf(t) = g
  BY <1>1, <1>3 DEF LastOf
<1> QED BY <1>2, <1>3, <1>4, <1>6, <1>7, <1>8 DEF Chain

(* One more activation.                                                                *)
LEMMA ChainPush ==
  ASSUME NEW s, Chain(s), NEW g, FrameInv(g), g.hops <= MaxHops - Len(s),
         s # <<>> => Awaits(LastOf(s), g.kind),
         g.kind = "name" => \A d \in DOMAIN s : ~(s[d].name = g.name /\ s[d].type = g.type)
  PROVE  Chain(Append(s, g))
<1>1. s \in Seq(Frame) /\ Len(s) \in Nat /\ DOMAIN s = 1..Len(s)
  BY DEF Chain
<1>2. PICK t : t = Append(s, g)
  OBVIOUS
<1>3. /\ t \in Seq(Frame) /\ Len(t) = Len(s) + 1 /\ DOMAIN t = 1..Len(s) + 1
      /\ \A d \in DOMAIN t : t[d] = IF d = Len(s) + 1 THEN g ELSE s[d]
  BY <1>1, <1>2 DEF FrameInv
<1>4. \A d \in DOMAIN t : d \in DOMAIN s \/ d = Len(s) + 1
  BY <1>1, <1>3
<1>5. \A d \in DOMAIN t : FrameInv(t[d]) /\ t[d].hops <= MaxHops - (d - 1)
  BY <1>1, <1>3, <1>4 DEF Chain
<1>6. \A d \in DOMAIN t : d + 1 \in DOMAIN t => Awaits(t[d], t[d + 1].kind)
  <2> SUFFICES ASSUME NEW d \in DOMAIN t, d + 1 \in DOMAIN t PROVE Awaits(t[d], t[d + 1].kind)
    OBVIOUS
  <2>1. d \in DOMAIN s /\ t[d] = s[d]
    BY <1>1, <1>3
  <2>2. CASE d = Len(s)
    <3>1. s # <<>> /\ t[d] = LastOf(s) /\ t[d + 1] = g
      BY <1>1, <1>3, <2>1, <2>2 DEF LastOf
    <3> QED BY <3>1
  <2>3. CASE d # Len(s)
    <3>1. d + 1 \in DOMAIN s /\ t[d + 1] = s[d + 1]
      BY <1>1, <1>3, <2>1, <2>3
    <3> QED BY <2>1, <3>1 DEF Chain
  <2> QED BY <2>2, <2>3
<1>7. Apart(t)
  <2> SUFFICES ASSUME NEW d \in DOMAIN t, NEW e \in DOMAIN t, d < e, t[e].kind = "name"
               PROVE  ~(t[d].name = t[e].name /\ t[d].type = t[e].type)
    BY DEF Apart
  <2>1. d \in DOMAIN s /\ t[d] = s[d]
    BY <1>1, <1>3
  <2>2. CASE e = Len(s) + 1
    BY <1>3, <2>1, <2>2
  <2>3. CASE e # Len(s) + 1
    BY <1>3, <1>4, <2>1, <2>3 DEF Chain, Apart
  <2> QED BY <2>2, <2>3
<1> QED BY <1>2, <1>3, <1>5, <1>6, <1>7 DEF Chain

(* The running activation returns to the one that awaits it.                           *)
BelowIn(s) == SubSeq(s, 1, Len(s) - 1)

LEMMA ChainPop ==
  ASSUME NEW s, Chain(s), s # <<>>
  PROVE  /\ Chain(BelowIn(s)) /\ DOMAIN BelowIn(s) = 1..Len(s) - 1 /\ Len(BelowIn(s)) = Len(s) - 1
         /\ \A d \in 1..Len(s) - 1 : BelowIn(s)[d] = s[d]
         /\ BelowIn(s) # <<>> => Awaits(LastOf(BelowIn(s)), LastOf(s).kind)
<1>1. s \in Seq(Frame) /\ Len(s) \in Nat \ {0} /\ DOMAIN s = 1..Len(s)
  BY ChainLast
<1>2. PICK t : t = BelowIn(s)
  OBVIOUS
<1>3. /\ t \in Seq(Frame) /\ Len(t) = Len(s) - 1 /\ DOMAIN t = 1..Len(s) - 1
      /\ \A d \in DOMAIN t : t[d] = s[d]
  BY <1>1, <1>2 DEF BelowIn
<1>4. \A d \in DOMAIN t : d \in DOMAIN s /\ (d + 1 \in DOMAIN t => d + 1 \in DOMAIN s)
  BY <1>1, <1>3
<1>5. Chain(t)
  BY <1>3, <1>4 DEF Chain, Apart
<1>6. t # <<>> => Awaits(LastOf(t), LastOf(s).kind)
  <2> SUFFICES ASSUME t # <<>> PROVE Awaits(LastOf(t), LastOf(s).kind)
    OBVIOUS
  <2>1. Len(t) # 0
    BY <1>3
  <2>2. Len(t) \in DOMAIN s /\ Len(t) + 1 \in DOMAIN s /\ Len(t) + 1 = Len(s) /\ Len(t) \in DOMAIN t
    BY <1>1, <1>3, <2>1
  <2>3. Awaits(s[Len(t)], s[Len(t) + 1].kind)
    BY <2>2 DEF Chain
  <2> QED BY <1>3, <2>2, <2>3 DEF LastOf
<1> QED BY <1>2, <1>3, <1>5, <1>6

-----------------------------------------------------------------------------
(* Counting the queries under way                                            *)

LEMMA OpenMembers == \A s, d, k : <<d, k>> \in OpenIn(s) <=> d \in DOMAIN s /\ k \in LiveIn(s[d])
BY DEF OpenIn

LEMMA OpenPairs == \A s : \A x \in OpenIn(s) : \E d \in DOMAIN s : \E k \in LiveIn(s[d]) : x = <<d, k>>
BY DEF OpenIn

LEMMA SamePairs ==
  ASSUME NEW A, NEW B,
         \A x \in A : \E d, k : x = <<d, k>>, \A x \in B : \E d, k : x = <<d, k>>,
         \A d, k : <<d, k>> \in A <=> <<d, k>> \in B
  PROVE  A = B
<1>1. ASSUME NEW x \in A PROVE x \in B
  <2>1. PICK d, k : x = <<d, k>>
    OBVIOUS
  <2>2. <<d, k>> \in B
    BY <2>1
  <2> QED BY <2>1, <2>2
<1>2. ASSUME NEW x \in B PROVE x \in A
  <2>1. PICK d, k : x = <<d, k>>
    OBVIOUS
  <2>2. <<d, k>> \in A
    BY <2>1
  <2> QED BY <2>1, <2>2
<1> QED BY <1>1, <1>2

LEMMA SameOpenPairs ==
  ASSUME NEW s, NEW t, \A d, k : <<d, k>> \in OpenIn(t) <=> <<d, k>> \in OpenIn(s)
  PROVE  OpenIn(t) = OpenIn(s)
<1>1. /\ \A x \in OpenIn(s) : \E d, k : x = <<d, k>>
      /\ \A x \in OpenIn(t) : \E d, k : x = <<d, k>>
  BY OpenPairs
<1>2. PICK A, B : A = OpenIn(t) /\ B = OpenIn(s)
  OBVIOUS
<1>3. A = B
  BY <1>1, <1>2, SamePairs, Zenon
<1> QED BY <1>2, <1>3

LEMMA LiveFinite ==
  ASSUME NEW f, f.q \in Seq(Query)
  PROVE  IsFiniteSet(LiveIn(f)) /\ Cardinality(LiveIn(f)) \in Nat
<1>1. Len(f.q) \in Nat /\ DOMAIN f.q = 1..Len(f.q)
  OBVIOUS
<1>2. IsFiniteSet(1..Len(f.q))
  BY <1>1, FS_Interval
<1>3. LiveIn(f) \subseteq 1..Len(f.q)
  BY <1>1 DEF LiveIn
<1> QED BY <1>2, <1>3, FS_Subset, FS_CardinalityType

(* One query of the running activation was executed.                                   *)
LEMMA OneQueryCounts ==
  ASSUME NEW s, Chain(s), s # <<>>, IsFiniteSet(OpenIn(s)), NEW g, NEW i \in DOMAIN LastOf(s).q,
         DOMAIN g.q = DOMAIN LastOf(s).q,
         \A k \in DOMAIN g.q : k # i => g.q[k].st = LastOf(s).q[k].st
  PROVE  /\ IsFiniteSet(OpenIn(WithLast(s, g)))
         /\ Cardinality(OpenIn(WithLast(s, g)))
              = Cardinality(OpenIn(s)) + Sockets(g.q[i]) - Sockets(LastOf(s).q[i])
<1>1. PICK n : n = Len(s)
  OBVIOUS
<1>2. PICK t : t = WithLast(s, g)
  OBVIOUS
<1>3. n \in DOMAIN s /\ DOMAIN t = DOMAIN s /\ \A d \in DOMAIN s : t[d] = IF d = n THEN g ELSE s[d]
  BY <1>1, <1>2, ChainLast DEF WithLast
<1>4. \A k \in DOMAIN g.q : k # i => (k \in LiveIn(g) <=> k \in LiveIn(s[n]))
  BY <1>1 DEF LiveIn, LastOf, Live
<1>5. PICK x : x = <<n, i>>
  OBVIOUS
<1>6. \A d, k : <<d, k>> # x => (<<d, k>> \in OpenIn(t) <=> <<d, k>> \in OpenIn(s))
  <2> SUFFICES ASSUME NEW d, NEW k, <<d, k>> # x
               PROVE  <<d, k>> \in OpenIn(t) <=> <<d, k>> \in OpenIn(s)
    OBVIOUS
  <2>1. CASE d = n
    <3>1. k # i
      BY <1>5, <2>1
    <3> QED BY <1>1, <1>3, <1>4, <2>1, <3>1, OpenMembers DEF LiveIn, LastOf
  <2>2. CASE d # n
    BY <1>3, <2>2, OpenMembers
  <2> QED BY <2>1, <2>2
<1>7. OpenIn(t) \ {x} = OpenIn(s) \ {x}
  BY <1>6, OpenPairs
<1>8. IsFiniteSet(OpenIn(s) \ {x})
  BY FS_RemoveElement
<1>9. IsFiniteSet(OpenIn(t))
  <2>1. OpenIn(t) \subseteq (OpenIn(s) \ {x}) \cup {x}
    BY <1>7
  <2>2. IsFiniteSet((OpenIn(s) \ {x}) \cup {x})
    BY <1>8, FS_AddElement
  <2> QED BY <2>1, <2>2, FS_Subset
<1>10. x \in OpenIn(s) <=> Live(LastOf(s).q[i])
  BY <1>1, <1>3, <1>5, OpenMembers DEF LiveIn, LastOf
<1>11. x \in OpenIn(t) <=> Live(g.q[i])
  BY <1>3, <1>5, OpenMembers DEF LiveIn
<1>12. Cardinality(OpenIn(s) \ {x}) = Cardinality(OpenIn(s)) - Sockets(LastOf(s).q[i])
  BY <1>10, FS_RemoveElement, FS_CardinalityType DEF Sockets
<1>13. Cardinality(OpenIn(t) \ {x}) = Cardinality(OpenIn(t)) - Sockets(g.q[i])
  BY <1>9, <1>11, FS_RemoveElement, FS_CardinalityType DEF Sockets
<1>14. /\ Cardinality(OpenIn(s)) \in Nat /\ Cardinality(OpenIn(t)) \in Nat
       /\ Sockets(g.q[i]) \in Int /\ Sockets(LastOf(s).q[i]) \in Int
  BY <1>9, FS_CardinalityType DEF Sockets
<1>15. Cardinality(OpenIn(t)) = Cardinality(OpenIn(s)) + Sockets(g.q[i]) - Sockets(LastOf(s).q[i])
  <2>1. PICK a, b, c : a = Cardinality(OpenIn(s)) /\ b = Cardinality(OpenIn(t)) /\ c = Cardinality(OpenIn(s) \ {x})
    OBVIOUS
  <2>2. c = Cardinality(OpenIn(t) \ {x})
    BY <1>7, <2>1
  <2>3. c = a - Sockets(LastOf(s).q[i]) /\ c = b - Sockets(g.q[i])
    BY <1>12, <1>13, <2>1, <2>2
  <2>4. b = a + Sockets(g.q[i]) - Sockets(LastOf(s).q[i])
    BY <1>14, <2>1, <2>3
  <2> QED BY <2>1, <2>4
<1> QED BY <1>2, <1>9, <1>15

(* The running activation changes, but none of its sockets.                            *)
LEMMA SameOpen ==
  ASSUME NEW s, Chain(s), s # <<>>, NEW g, LiveIn(g) = LiveIn(LastOf(s))
  PROVE  OpenIn(WithLast(s, g)) = OpenIn(s)
<1>1. PICK t : t = WithLast(s, g)
  OBVIOUS
<1>2. DOMAIN t = DOMAIN s /\ \A d \in DOMAIN s : LiveIn(t[d]) = LiveIn(s[d])
  <2>1. Len(s) \in DOMAIN s
    BY ChainLast
  <2> QED BY <1>1, <2>1 DEF WithLast, LastOf
<1> QED BY <1>1, <1>2 DEF OpenIn

(* It closes all of them, and may return.                                              *)
LEMMA CloseCounts ==
  ASSUME NEW s, Chain(s), s # <<>>, IsFiniteSet(OpenIn(s)), NEW rest,
         rest = OpenIn(s) \ ({Len(s)} \X LiveIn(LastOf(s)))
  PROVE  /\ IsFiniteSet(rest) /\ Cardinality(rest) = Cardinality(OpenIn(s)) - Cardinality(LiveIn(LastOf(s)))
         /\ OpenIn(BelowIn(s)) = rest
         /\ \A g : LiveIn(g) = {} => OpenIn(WithLast(s, g)) = rest
<1>1. PICK L, n : L = LiveIn(LastOf(s)) /\ n = Len(s)
  OBVIOUS
<1>2. n \in DOMAIN s /\ s[n] = LastOf(s) /\ n \in Nat \ {0} /\ DOMAIN s = 1..n
  BY <1>1, ChainLast DEF LastOf
<1>3. IsFiniteSet(L) /\ Cardinality(L) \in Nat
  BY <1>1, ChainLast, LiveFinite DEF FrameInv, Frame
<1>4. {n} \X L \subseteq OpenIn(s)
  BY <1>1, <1>2, OpenMembers
<1>5. IsFiniteSet({n} \X L) /\ Cardinality({n} \X L) = Cardinality(L)
  <2>1. IsFiniteSet({n}) /\ Cardinality({n}) = 1
    BY FS_Singleton
  <2>2. IsFiniteSet({n} \X L) /\ Cardinality({n} \X L) = Cardinality({n}) * Cardinality(L)
    BY <1>3, <2>1, FS_Product
  <2> QED BY <1>3, <2>1, <2>2
<1>6. IsFiniteSet(rest) /\ Cardinality(rest) = Cardinality(OpenIn(s)) - Cardinality(L)
  <2>1. OpenIn(s) \cap ({n} \X L) = {n} \X L
    BY <1>4
  <2>2. PICK O, P : O = OpenIn(s) /\ P = {n} \X L
    OBVIOUS
  <2>3. IsFiniteSet(O) /\ IsFiniteSet(P) /\ rest = O \ P /\ O \cap P = P /\ Cardinality(P) = Cardinality(L)
    BY <1>1, <1>5, <2>1, <2>2
  <2>4. IsFiniteSet(O \ P) /\ Cardinality(O \ P) = Cardinality(O) - Cardinality(O \cap P)
    BY <2>3, FS_Difference
  <2> QED BY <2>2, <2>3, <2>4
<1>7. \A d, k : <<d, k>> \in rest <=> d \in DOMAIN s \ {n} /\ k \in LiveIn(s[d])
  BY <1>1, <1>2, OpenMembers
<1>8. \A x \in rest : \E d, k : x = <<d, k>>
  BY OpenPairs
<1>9. OpenIn(BelowIn(s)) = rest
  <2>1. DOMAIN BelowIn(s) = DOMAIN s \ {n} /\ \A d \in DOMAIN BelowIn(s) : BelowIn(s)[d] = s[d]
    <3>1. DOMAIN BelowIn(s) = 1..Len(s) - 1 /\ \A d \in 1..Len(s) - 1 : BelowIn(s)[d] = s[d]
      BY ChainPop
    <3>2. 1..n - 1 = (1..n) \ {n}
      BY <1>2
    <3>3. PICK t : t = BelowIn(s)
      OBVIOUS
    <3>4. DOMAIN t = 1..n - 1 /\ \A d \in 1..n - 1 : t[d] = s[d]
      BY <1>1, <3>1, <3>3
    <3> HIDE <3>1
    <3> QED BY <1>2, <3>2, <3>3, <3>4
  <2>2. \A d, k : <<d, k>> \in OpenIn(BelowIn(s)) <=> <<d, k>> \in rest
    <3>1. PICK t : t = BelowIn(s)
      OBVIOUS
    <3>2. \A d, k : <<d, k>> \in OpenIn(t) <=> d \in DOMAIN t /\ k \in LiveIn(t[d])
      BY OpenMembers
    <3>3. DOMAIN t = DOMAIN s \ {n} /\ \A d \in DOMAIN t : t[d] = s[d]
      BY <2>1, <3>1
    <3> SUFFICES ASSUME NEW d, NEW k PROVE <<d, k>> \in OpenIn(t) <=> <<d, k>> \in rest
      BY <3>1
    <3>4. <<d, k>> \in OpenIn(t) <=> d \in DOMAIN t /\ k \in LiveIn(t[d])
      BY <3>2
    <3>5. <<d, k>> \in rest <=> d \in DOMAIN s \ {n} /\ k \in LiveIn(s[d])
      BY <1>7
    <3> HIDE <3>1, <3>2
    <3> QED BY <3>3, <3>4, <3>5
  <2>3. \A x \in OpenIn(BelowIn(s)) : \E d, k : x = <<d, k>>
    BY OpenPairs
  <2>4. PICK A : A = OpenIn(BelowIn(s))
    OBVIOUS
  <2>5. A = rest
    BY <1>8, <2>2, <2>3, <2>4, SamePairs
  <2> QED BY <2>4, <2>5
<1>10. ASSUME NEW g, LiveIn(g) = {} PROVE OpenIn(WithLast(s, g)) = rest
  <2>1. PICK t : t = WithLast(s, g)
    OBVIOUS
  <2>2. DOMAIN t = DOMAIN s /\ \A d \in DOMAIN s : t[d] = IF d = n THEN g ELSE s[d]
    BY <1>1, <1>2, <2>1 DEF WithLast
  <2>3. \A d, k : <<d, k>> \in OpenIn(t) <=> <<d, k>> \in rest
    <3> SUFFICES ASSUME NEW d, NEW k PROVE <<d, k>> \in OpenIn(t) <=> <<d, k>> \in rest
      OBVIOUS
    <3>1. CASE d = n
      BY <1>2, <1>7, <1>10, <2>2, <3>1, OpenMembers
    <3>2. CASE d # n
      BY <1>2, <1>7, <2>2, <3>2, OpenMembers
    <3> QED BY <3>1, <3>2
  <2>4. \A x \in OpenIn(t) : \E d, k : x = <<d, k>>
    BY OpenPairs
  <2>5. PICK A : A = OpenIn(t)
    OBVIOUS
  <2>6. A = rest
    BY <1>8, <2>3, <2>4, <2>5, SamePairs
  <2> QED BY <2>1, <2>5, <2>6
<1> QED BY <1>1, <1>6, <1>9, <1>10

(* An activation that begins has no socket open.                                       *)
LEMMA PushCounts ==
  ASSUME NEW s \in Seq(Frame), NEW g, LiveIn(g) = {}
  PROVE  OpenIn(Append(s, g)) = OpenIn(s)
<1>1. PICK t : t = Append(s, g)
  OBVIOUS
<1>2. /\ DOMAIN s = 1..Len(s) /\ Len(s) \in Nat /\ DOMAIN t = 1..Len(s) + 1
      /\ \A d \in DOMAIN t : t[d] = IF d = Len(s) + 1 THEN g ELSE s[d]
  <2>1. s \in Seq(Frame \cup {g})
    OBVIOUS
  <2> QED BY <1>1, <2>1
<1>3. \A d, k : <<d, k>> \in OpenIn(t) <=> <<d, k>> \in OpenIn(s)
  <2> SUFFICES ASSUME NEW d, NEW k PROVE <<d, k>> \in OpenIn(t) <=> <<d, k>> \in OpenIn(s)
    OBVIOUS
  <2>1. CASE d = Len(s) + 1
    BY <1>2, <2>1, OpenMembers
  <2>2. CASE d # Len(s) + 1
    BY <1>2, <2>2, OpenMembers
  <2> QED BY <2>1, <2>2
<1>4. OpenIn(t) = OpenIn(s)
  BY <1>3, SameOpenPairs, Zenon
<1> QED BY <1>1, <1>4

-----------------------------------------------------------------------------
(* The steps of an activation                                                *)

LEMMA FrameParts ==
  ASSUME NEW f, FrameInv(f)
  PROVE  /\ f.q \in Seq(Query) /\ Len(f.q) \in Nat /\ DOMAIN f.q = 1..Len(f.q)
         /\ f.j \in Nat /\ f.mc \in Nat /\ f.hops \in Nat /\ f.cur.i \in Nat /\ f.saved.i \in Nat
         /\ f.cur \in Judging /\ f.saved \in Answer /\ f.seen \in SUBSET Nat
         /\ \A k \in 1..f.mc : k \in DOMAIN f.q /\ f.q[k] \in Query
BY DEF FrameInv, Frame, Counters, Judging, Answer

LEMMA NothingTyped == NoAnswer \in Answer /\ NoReply \in Judging
BY DEF NoAnswer, NoReply, Answer, Judging

(* The activation is about to end with this answer.                                    *)
LEMMA GiveOK ==
  ASSUME NEW f \in Frame, Counters(f), \A k \in f.mc + 1..Len(f.q) : f.q[k].st = "initial",
         NEW rv \in ReturnCodes, NEW a \in Answer, a.i \in 0..f.mc,
         a.serv # <<>> => f.hops > 0, a.i # 0 => \A v \in f.seen : v <= a.qual
  PROVE  FrameInv(Give(f, rv, a)) /\ Same(f, Give(f, rv, a)) /\ Give(f, rv, a).q = f.q
<1>1. PICK g : g = Give(f, rv, a)
  OBVIOUS
<1>2. /\ g.q = f.q /\ g.at = "ending" /\ g.todo = {} /\ g.cur = NoReply /\ g.saved = a /\ g.seen = f.seen
      /\ g.j = f.j /\ g.mc = f.mc /\ g.hops = f.hops /\ Same(f, g)
  BY <1>1 DEF Give, Frame, Same
<1>3. g \in Frame
  BY <1>1, NothingTyped DEF Give, Frame
<1>4. Counters(g) /\ Begun(g)
  BY <1>2 DEF Counters, Begun, NoReply, Working, Frame
<1>5. Best(g) /\ HopsLeft(g)
  BY <1>2 DEF Best, HopsLeft, NoReply, Working
<1> QED BY <1>1, <1>2, <1>3, <1>4, <1>5 DEF FrameInv

(* The servers after those of this batch.                                              *)
LEMMA NextBatchOK ==
  ASSUME NEW f, FrameInv(f), f.at \in Working, f.cur.i = 0, global \in Configs
  PROVE  FrameInv(NextBatch(f)) /\ Same(f, NextBatch(f)) /\ NextBatch(f).q = f.q
<1>1. PICK g : g = NextBatch(f)
  OBVIOUS
<1>2. f \in Frame /\ f.mc \in Nat /\ Len(f.q) \in Nat /\ 1 <= f.mc /\ f.mc <= Len(f.q) /\ f.saved.i \in 0..f.mc
      /\ f.todo \subseteq 1..f.mc
  BY FrameParts DEF FrameInv, Counters
<1>3. CASE f.mc = Len(f.q)
  <2>1. /\ g.q = f.q /\ g.at = "ending" /\ g.todo = f.todo /\ g.cur = f.cur /\ g.saved = f.saved /\ g.seen = f.seen
        /\ g.j = f.j /\ g.mc = f.mc /\ g.hops = f.hops /\ Same(f, g)
    BY <1>1, <1>2, <1>3 DEF NextBatch, Frame, Same
  <2>2. g \in Frame
    BY <1>1, <1>2, <1>3 DEF NextBatch, Frame
  <2>3. Counters(g) /\ Begun(g) /\ Best(g) /\ HopsLeft(g)
    BY <2>1 DEF FrameInv, Counters, Begun, Best, HopsLeft, Working
  <2> QED BY <1>1, <2>1, <2>2, <2>3 DEF FrameInv
<1>4. CASE f.mc # Len(f.q)
  <2>1. PICK mc : mc = IF f.mc + global.par < Len(f.q) THEN f.mc + global.par ELSE Len(f.q)
    OBVIOUS
  <2>2. global.par \in Nat \ {0}
    BY ConfigsTyped
  <2>3. mc \in Nat /\ f.mc + 1 <= mc /\ mc <= Len(f.q)
    BY <1>2, <1>4, <2>1, <2>2
  <2>4. g = [f EXCEPT !.j = f.mc + 1, !.mc = mc, !.at = "sending", !.todo = (f.mc + 1)..mc]
    BY <1>1, <1>4, <2>1 DEF NextBatch
  <2>5. /\ g.q = f.q /\ g.at = "sending" /\ g.todo = (f.mc + 1)..mc /\ g.cur = f.cur /\ g.saved = f.saved
        /\ g.seen = f.seen /\ g.j = f.mc + 1 /\ g.mc = mc /\ g.hops = f.hops /\ Same(f, g)
    BY <1>2, <2>4 DEF Frame, Same
  <2>6. g \in Frame
    <3>1. (f.mc + 1)..mc \in SUBSET Nat
      BY <1>2, <2>3
    <3>2. f.mc + 1 \in Nat /\ mc \in Nat /\ "sending" \in Working \cup {"ending", "followed"}
      BY <1>2, <2>3 DEF Working
    <3> QED BY <1>2, <2>4, <3>1, <3>2 DEF Frame
  <2>7. Counters(g)
    BY <1>2, <2>3, <2>5 DEF Counters
  <2>8. Begun(g)
    <3>1. \A k \in f.mc + 1..Len(f.q) : f.q[k].st = "initial"
      BY DEF FrameInv, Begun
    <3>2. \A k \in mc + 1..Len(f.q) : k \in f.mc + 1..Len(f.q)
      BY <1>2, <2>3
    <3>3. \A k \in (f.mc + 1)..mc : k \in f.mc + 1..Len(f.q)
      BY <1>2, <2>3
    <3> QED BY <2>5, <3>1, <3>2, <3>3 DEF FrameInv, Begun, Working
  <2>9. Best(g) /\ HopsLeft(g)
    BY <2>5 DEF FrameInv, Best, HopsLeft, Working
  <2> QED BY <1>1, <2>5, <2>6, <2>7, <2>8, <2>9 DEF FrameInv
<1> QED BY <1>3, <1>4

(* It goes on to another part of its work.                                             *)
Now(f, at, todo) == [f EXCEPT !.at = at, !.todo = todo]

LEMMA GoesOn ==
  ASSUME NEW f, FrameInv(f), f.at \in Working, NEW at \in Working, NEW todo \in SUBSET (1..f.mc),
         at \in {"sending", "serving"} => \A k \in todo \ {f.cur.i} : f.q[k].st # "done"
  PROVE  FrameInv(Now(f, at, todo)) /\ Same(f, Now(f, at, todo)) /\ Now(f, at, todo).q = f.q
<1>0. PICK g : g = Now(f, at, todo)
  OBVIOUS
<1>1. f \in Frame /\ todo \in SUBSET Nat
  BY FrameParts DEF FrameInv
<1>2. /\ g.q = f.q /\ g.at = at /\ g.todo = todo /\ g.cur = f.cur /\ g.saved = f.saved /\ g.seen = f.seen
      /\ g.j = f.j /\ g.mc = f.mc /\ g.hops = f.hops /\ Same(f, g)
  BY <1>0, <1>1 DEF Now, Frame, Same
<1>3. g \in Frame
  BY <1>0, <1>1 DEF Now, Frame
<1>4. Counters(g) /\ Begun(g) /\ Best(g) /\ HopsLeft(g)
  <2>1. Counters(g)
    BY <1>2 DEF FrameInv, Counters
  <2>2. Begun(g)
    BY <1>2 DEF FrameInv, Begun, Working
  <2>3. Best(g) /\ HopsLeft(g)
    BY <1>2 DEF FrameInv, Best, HopsLeft
  <2> QED BY <2>1, <2>2, <2>3
<1> QED BY <1>0, <1>2, <1>3, <1>4 DEF FrameInv

LEMMA SettleOK ==
  ASSUME NEW f, FrameInv(f), global \in Configs
  PROVE  FrameInv(Settle(f)) /\ Same(f, Settle(f)) /\ Settle(f).q = f.q
<1>1. CASE f.todo # {} \/ f.cur.i # 0 \/ f.at \notin {"sending", "serving"}
  BY <1>1 DEF Settle, Same
<1>2. CASE ~(f.todo # {} \/ f.cur.i # 0 \/ f.at \notin {"sending", "serving"}) /\ Active(f) # {}
  <2>1. PICK g : g = [f EXCEPT !.at = "polling"]
    OBVIOUS
  <2>2. Settle(f) = g
    BY <1>2, <2>1 DEF Settle
  <2>3. f \in Frame /\ f.at \in Working /\ f.todo \in SUBSET (1..f.mc)
    BY <1>2 DEF FrameInv, Counters, Working
  <2>4. g = Now(f, "polling", f.todo)
    BY <2>1, <2>3 DEF Now, Frame
  <2>5. "polling" \in Working /\ "polling" \notin {"sending", "serving"}
    BY DEF Working
  <2>6. FrameInv(Now(f, "polling", f.todo)) /\ Same(f, Now(f, "polling", f.todo))
        /\ Now(f, "polling", f.todo).q = f.q
    BY <2>3, <2>5, GoesOn
  <2> QED BY <2>2, <2>4, <2>6
<1>3. CASE ~(f.todo # {} \/ f.cur.i # 0 \/ f.at \notin {"sending", "serving"}) /\ Active(f) = {}
  <2>1. Settle(f) = NextBatch(f) /\ f.at \in Working /\ f.cur.i = 0
    BY <1>3 DEF Settle, Working
  <2> QED BY <2>1, NextBatchOK
<1> QED BY <1>1, <1>2, <1>3

(* A query was executed: its server was asked, or what it sent was read.               *)
LEMMA HeardParts ==
  ASSUME NEW f, FrameInv(f), NEW i \in f.todo, NEW e, ResultOK(e), NEW h, h = Heard(f, i, e)
  PROVE  /\ h \in Frame /\ Counters(h) /\ Best(h) /\ HopsLeft(h) /\ Same(f, h) /\ i \in 1..f.mc
         /\ h.q = [f.q EXCEPT ![i] = e.qs] /\ h.rv = e.rv /\ h.at = f.at /\ h.todo = f.todo
         /\ h.cur = f.cur /\ h.mc = f.mc /\ h.saved = f.saved /\ h.seen = f.seen /\ Len(h.q) = Len(f.q)
         /\ DOMAIN h.q = DOMAIN f.q
         /\ \A k \in DOMAIN h.q : h.q[k] = IF k = i THEN e.qs ELSE f.q[k]
         /\ \A k \in h.mc + 1..Len(h.q) : h.q[k].st = "initial"
<1>1. /\ f \in Frame /\ f.mc \in Nat /\ f.q \in Seq(Query) /\ Len(f.q) \in Nat /\ DOMAIN f.q = 1..Len(f.q)
      /\ i \in 1..f.mc /\ f.mc <= Len(f.q) /\ i \in Nat
  BY FrameParts DEF FrameInv, Counters
<1>2. PICK q : q = [f.q EXCEPT ![i] = e.qs]
  OBVIOUS
<1>3. /\ q \in Seq(Query) /\ Len(q) = Len(f.q) /\ DOMAIN q = DOMAIN f.q
      /\ \A k \in DOMAIN q : q[k] = IF k = i THEN e.qs ELSE f.q[k]
  <2>1. e.qs \in Query /\ i \in DOMAIN f.q
    BY <1>1 DEF ResultOK
  <2> QED BY <1>1, <1>2, <2>1
<1>4. PICK heard \in SUBSET Nat : h = [f EXCEPT !.q = q, !.rv = e.rv, !.heard = heard]
  <2>1. PICK heard : heard = IF e.heard THEN f.heard \cup {i} ELSE f.heard
    OBVIOUS
  <2>2. heard \in SUBSET Nat
    BY <1>1, <2>1 DEF Frame
  <2>3. h = [f EXCEPT !.q = q, !.rv = e.rv, !.heard = heard]
    BY <1>1, <1>2, <2>1 DEF Heard, Frame
  <2> QED BY <2>2, <2>3
<1>5. /\ h.q = q /\ h.rv = e.rv /\ h.at = f.at /\ h.todo = f.todo /\ h.cur = f.cur /\ h.mc = f.mc /\ h.j = f.j
      /\ h.saved = f.saved /\ h.seen = f.seen /\ h.hops = f.hops /\ Same(f, h)
  BY <1>1, <1>4 DEF Frame, Same
<1>6. h \in Frame
  <2>1. e.rv \in ReturnCodes
    BY DEF ResultOK
  <2> QED BY <1>1, <1>3, <1>4, <2>1 DEF Frame
<1>7. Counters(h) /\ Best(h) /\ HopsLeft(h)
  <2>1. Counters(h)
    BY <1>3, <1>5 DEF FrameInv, Counters
  <2> QED BY <1>5, <2>1 DEF FrameInv, Best, HopsLeft
<1>8. \A k \in h.mc + 1..Len(h.q) : h.q[k].st = "initial"
  <2> SUFFICES ASSUME NEW k \in f.mc + 1..Len(f.q) PROVE q[k].st = "initial"
    BY <1>3, <1>5
  <2>1. k # i /\ k \in DOMAIN q /\ f.q[k].st = "initial"
    BY <1>1, <1>3 DEF FrameInv, Begun
  <2> QED BY <1>3, <2>1
<1> QED BY <1>1, <1>2, <1>3, <1>5, <1>6, <1>7, <1>8

LEMMA ReplyOK ==
  ASSUME NEW f, NEW i \in Nat, NEW e, ResultOK(e), f.hops \in Nat
  PROVE  /\ Reply(f, i, e) \in Judging /\ Reply(f, i, e).i = i /\ Reply(f, i, e).serv = <<>>
         /\ Reply(f, i, e).ns # <<>> => f.hops > 0
<1>1. PICK ns : ns = IF e.qs.failed <= 1 /\ NeedsServers(f, e.qs, e) /\ f.hops > 0 THEN e.ns ELSE <<>>
  OBVIOUS
<1>2. PICK auth : auth = IF e.qs.failed <= 1 /\ ~NeedsServers(f, e.qs, e) THEN "yes" ELSE "no"
  OBVIOUS
<1>3. Reply(f, i, e) = [i |-> i, neg |-> e.neg, has |-> e.has, serv |-> <<>>, auth |-> auth, ns |-> ns]
  BY <1>1, <1>2 DEF Reply
<1>4. ns \in Seq(Names) /\ (ns # <<>> => f.hops > 0) /\ auth \in {"yes", "no"}
  BY <1>1, <1>2 DEF ResultOK
<1> QED BY <1>3, <1>4 DEF Judging, ResultOK

LEMMA ExecutedOK ==
  ASSUME NEW f, FrameInv(f), f.at \in Working, f.cur.i = 0, NEW i \in f.todo, NEW e, ResultOK(e),
         global \in Configs
  PROVE  /\ FrameInv(Executed(f, i, e)) /\ Same(f, Executed(f, i, e))
         /\ Executed(f, i, e).q = [f.q EXCEPT ![i] = e.qs]
<1>1. PICK h : h = Heard(f, i, e)
  OBVIOUS
<1>2. /\ h \in Frame /\ Counters(h) /\ Best(h) /\ HopsLeft(h) /\ Same(f, h) /\ i \in 1..f.mc
      /\ h.q = [f.q EXCEPT ![i] = e.qs] /\ h.rv = e.rv /\ h.at = f.at /\ h.todo = f.todo
      /\ h.cur = f.cur /\ h.mc = f.mc /\ h.saved = f.saved /\ h.seen = f.seen /\ Len(h.q) = Len(f.q)
      /\ DOMAIN h.q = DOMAIN f.q
      /\ \A k \in DOMAIN h.q : h.q[k] = IF k = i THEN e.qs ELSE f.q[k]
      /\ \A k \in h.mc + 1..Len(h.q) : h.q[k].st = "initial"
  BY <1>1, HeardParts
<1>3. /\ f.mc \in Nat /\ f.mc <= Len(f.q) /\ DOMAIN f.q = 1..Len(f.q) /\ Len(f.q) \in Nat /\ i \in DOMAIN f.q
      /\ f.hops \in Nat /\ f.todo \subseteq 1..f.mc /\ i # 0 /\ i \in Nat
  BY <1>2, FrameParts DEF FrameInv, Counters
<1>4. \A k \in DOMAIN h.q : h.q[k].st # "canceled"
  BY <1>2 DEF FrameInv, Begun, ResultOK
<1>5. f.at \in {"sending", "serving"} => \A k \in f.todo \ {i} : h.q[k].st # "done"
  <2> SUFFICES ASSUME f.at \in {"sending", "serving"}, NEW k \in f.todo \ {i} PROVE h.q[k].st # "done"
    OBVIOUS
  <2>1. k # 0 /\ k \in DOMAIN h.q
    BY <1>2, <1>3
  <2>2. k \in f.todo \ {f.cur.i}
    BY <2>1
  <2>3. f.q[k].st # "done"
    BY <2>2 DEF FrameInv, Begun
  <2> QED BY <1>2, <2>1, <2>3
<1>6. CASE e.rv = "OK"
  <2>1. PICK c : c = Reply(f, i, e)
    OBVIOUS
  <2>2. c \in Judging /\ c.i = i /\ c.serv = <<>> /\ (c.ns # <<>> => f.hops > 0)
    BY <1>3, <2>1, ReplyOK
  <2>3. PICK g : g = [h EXCEPT !.cur = c]
    OBVIOUS
  <2>4. Executed(f, i, e) = g
    BY <1>1, <1>6, <2>1, <2>3 DEF Executed
  <2>5. /\ g.q = h.q /\ g.at = h.at /\ g.todo = h.todo /\ g.cur = c /\ g.mc = h.mc /\ g.j = h.j
        /\ g.saved = h.saved /\ g.seen = h.seen /\ g.hops = f.hops /\ Same(f, g)
    BY <1>2, <2>3 DEF Frame, Same
  <2>6. g \in Frame
    BY <1>2, <2>2, <2>3 DEF Frame
  <2>7. Counters(g)
    <3>1. c.i \in 0..g.mc
      BY <1>2, <1>3, <2>2, <2>5
    <3> QED BY <1>2, <2>5, <3>1 DEF Counters
  <2>8. Begun(g)
    <3>1. g.q[i].st = "done"
      BY <1>2, <1>3, <1>6, <2>5 DEF ResultOK
    <3>2. g.at # "followed"
      BY <1>2, <2>5 DEF Working
    <3> QED BY <1>2, <1>4, <1>5, <2>2, <2>5, <3>1, <3>2 DEF Begun
  <2>9. Best(g) /\ HopsLeft(g)
    BY <1>2, <2>2, <2>5 DEF Best, HopsLeft, Same
  <2> QED BY <1>2, <2>4, <2>5, <2>6, <2>7, <2>8, <2>9 DEF FrameInv
<1>7. CASE e.rv = "NAMEERR"
  <2>1. Executed(f, i, e) = Give(h, "NAMEERR", NoAnswer)
    BY <1>1, <1>7 DEF Executed
  <2>2. NoAnswer \in Answer /\ NoAnswer.i = 0 /\ NoAnswer.serv = <<>> /\ 0 \in 0..h.mc
    BY <1>2, <1>3, NothingTyped DEF NoAnswer
  <2>3. "NAMEERR" \in ReturnCodes
    BY DEF ReturnCodes
  <2>4. FrameInv(Give(h, "NAMEERR", NoAnswer)) /\ Same(h, Give(h, "NAMEERR", NoAnswer))
        /\ Give(h, "NAMEERR", NoAnswer).q = h.q
    BY <1>2, <2>2, <2>3, GiveOK
  <2> QED BY <1>2, <2>1, <2>4 DEF Same
<1>8. CASE e.rv \notin {"OK", "NAMEERR"}
  <2>1. PICK g : g = [h EXCEPT !.todo = h.todo \ {i}]
    OBVIOUS
  <2>2. Executed(f, i, e) = Settle(g)
    BY <1>1, <1>8, <2>1 DEF Executed
  <2>3. /\ g.q = h.q /\ g.at = h.at /\ g.todo = h.todo \ {i} /\ g.cur = f.cur /\ g.mc = h.mc /\ g.j = h.j
        /\ g.saved = h.saved /\ g.seen = h.seen /\ g.hops = h.hops /\ Same(f, g)
    BY <1>2, <2>1 DEF Frame, Same
  <2>4. g \in Frame
    BY <1>2, <2>1 DEF Frame
  <2>5. Counters(g)
    BY <1>2, <2>3 DEF Counters
  <2>6. Begun(g)
    <3>1. g.at # "followed"
      BY <1>2, <2>3 DEF Working
    <3> QED BY <1>2, <1>4, <1>5, <2>3, <3>1 DEF Begun
  <2>7. Best(g) /\ HopsLeft(g)
    BY <1>2, <2>3 DEF Best, HopsLeft
  <2>8. FrameInv(g)
    BY <2>4, <2>5, <2>6, <2>7 DEF FrameInv
  <2>9. FrameInv(Settle(g)) /\ Same(g, Settle(g)) /\ Settle(g).q = g.q
    BY <2>8, SettleOK
  <2> QED BY <1>2, <2>2, <2>3, <2>9 DEF Same
<1> QED BY <1>6, <1>7, <1>8

(* An answer no better than a truncated one that satisfies is kept if none saved is    *)
(* better.                                                                             *)
LEMMA SavesBest ==
  ASSUME NEW f, FrameInv(f), f.at \in Working, NEW a \in Answer, a.qual <= 14, a.i \in 1..f.mc,
         a.serv # <<>> => f.hops > 0,
         NEW b, b = IF Better(a, f.saved) THEN a ELSE f.saved
  PROVE  /\ b \in Answer /\ b.i \in 1..f.mc /\ (b.serv # <<>> => f.hops > 0)
         /\ \A v \in f.seen \cup {a.qual} : v <= 14 /\ v <= b.qual
<1>1. /\ f.saved \in Answer /\ f.saved.i \in 0..f.mc /\ f.seen \in SUBSET Nat
      /\ (f.saved.serv # <<>> => f.hops > 0)
      /\ (\A v \in f.seen : v <= 14 /\ v <= f.saved.qual) /\ (f.saved.i = 0 => f.seen = {})
  BY FrameParts DEF FrameInv, Counters, Best, HopsLeft
<1>2. a.qual \in Nat /\ f.saved.qual \in Nat
  BY <1>1 DEF Answer
<1>3. CASE Better(a, f.saved)
  BY <1>1, <1>2, <1>3 DEF Better
<1>4. CASE ~Better(a, f.saved)
  BY <1>1, <1>2, <1>4 DEF Better
<1> QED BY <1>3, <1>4

(* The quality of an answer: better than 14 only if it ends the activation.            *)
LEMMA QualityOK ==
  ASSUME NEW qs \in Query, NEW authok \in BOOLEAN
  PROVE  /\ Quality(qs, authok) \in Nat
         /\ IF authok /\ qs.failed = 0 /\ ~TruncatedUdp(qs) THEN Quality(qs, authok) >= 14
            ELSE Quality(qs, authok) <= 14
<1>1. qs.failed \in {0, 3} /\ qs.tc \in BOOLEAN
  BY DEF Query
<1>2. PICK u, v : u = (IF authok THEN 8 ELSE 0) /\ v = (IF qs.tc THEN 0 ELSE 1)
  OBVIOUS
<1>3. Quality(qs, authok) = u + 2 * (3 - qs.failed) + v
  BY <1>2 DEF Quality
<1>4. u \in {0, 8} /\ v \in {0, 1} /\ (authok <=> u = 8) /\ (qs.tc <=> v = 0)
  BY <1>1, <1>2
<1>5. TruncatedUdp(qs) => v = 0
  BY <1>4 DEF TruncatedUdp
<1> HIDE <1>2
<1> QED BY <1>1, <1>3, <1>4, <1>5

(* An answer is judged: the queries under way stay so.                                 *)
LEMMA JudgedOK ==
  ASSUME NEW f, FrameInv(f), f.cur.i # 0, f.cur.ns = <<>>, global \in Configs
  PROVE  FrameInv(Judged(f)) /\ Same(f, Judged(f)) /\ LiveIn(Judged(f)) = LiveIn(f)
<1>1. PICK c, qs : c = f.cur /\ qs = f.q[f.cur.i]
  OBVIOUS
<1>2. PICK authok \in BOOLEAN : authok = (c.auth = "yes" \/ c.serv # <<>>)
  OBVIOUS
<1>3. PICK a : a = [i |-> c.i, neg |-> c.neg, has |-> c.has, qual |-> Quality(qs, authok), serv |-> c.serv]
  OBVIOUS
<1>4. PICK g : g = [f EXCEPT !.cur = NoReply, !.seen = f.seen \cup {a.qual}]
  OBVIOUS
<1>5. PICK b : b = IF Better(a, f.saved) THEN a ELSE f.saved
  OBVIOUS
<1>6. PICK kept : kept = [g EXCEPT !.saved = b]
  OBVIOUS
<1>7. /\ f \in Frame /\ Len(f.q) \in Nat /\ DOMAIN f.q = 1..Len(f.q) /\ f.q \in Seq(Query) /\ f.mc \in Nat
      /\ f.mc <= Len(f.q) /\ c.i \in 1..f.mc /\ c \in Judging /\ qs \in Query /\ c.i \in DOMAIN f.q
      /\ f.at \in Working /\ qs.st = "done" /\ f.seen \in SUBSET Nat /\ (c.serv # <<>> => f.hops > 0)
  BY <1>1, FrameParts DEF FrameInv, Counters, Begun, HopsLeft
<1>8. /\ a \in Answer /\ a.i = c.i /\ a.qual = Quality(qs, authok) /\ a.qual \in Nat
      /\ (a.serv # <<>> => f.hops > 0)
  <2>1. Quality(qs, authok) \in Nat
    BY <1>7, QualityOK
  <2> QED BY <1>3, <1>7, <2>1 DEF Answer, Judging
<1>9. /\ g \in Frame /\ g.q = f.q /\ g.at = f.at /\ g.todo = f.todo /\ g.cur = NoReply /\ g.mc = f.mc /\ g.j = f.j
      /\ g.saved = f.saved /\ g.seen = f.seen \cup {a.qual} /\ g.hops = f.hops /\ Same(f, g)
  <2>1. f.seen \cup {a.qual} \in SUBSET Nat
    BY <1>7, <1>8
  <2>2. g \in Frame
    BY <1>4, <1>7, <2>1, NothingTyped DEF Frame
  <2> QED BY <1>4, <1>7, <2>2 DEF Frame, Same
<1>10. Judged(f) = IF authok /\ qs.failed = 0 /\ ~TruncatedUdp(qs) THEN Give(g, "OK", a)
                   ELSE IF TruncatedUdp(qs) THEN [kept EXCEPT !.q[c.i] = SwitchToTcp(qs)]
                   ELSE Settle([kept EXCEPT !.todo = f.todo \ {c.i}])
  <2>1. kept = [g EXCEPT !.saved = IF Better(a, f.saved) THEN a ELSE f.saved]
    BY <1>5, <1>6
  <2> QED BY <1>1, <1>2, <1>3, <1>4, <2>1 DEF Judged
<1>11. CASE authok /\ qs.failed = 0 /\ ~TruncatedUdp(qs)
  <2>1. a.qual >= 14
    BY <1>7, <1>8, <1>11, QualityOK
  <2>2. \A v \in g.seen : v <= a.qual
    BY <1>7, <1>8, <1>9, <2>1 DEF FrameInv, Best
  <2>3. Counters(g)
    BY <1>7, <1>9 DEF FrameInv, Counters, NoReply
  <2>4. \A k \in g.mc + 1..Len(g.q) : g.q[k].st = "initial"
    BY <1>9 DEF FrameInv, Begun
  <2>5. "OK" \in ReturnCodes /\ a.i \in 0..g.mc
    BY <1>7, <1>8, <1>9 DEF ReturnCodes
  <2>6. FrameInv(Give(g, "OK", a)) /\ Same(g, Give(g, "OK", a)) /\ Give(g, "OK", a).q = g.q
    BY <1>8, <1>9, <2>2, <2>3, <2>4, <2>5, GiveOK
  <2>7. Judged(f) = Give(g, "OK", a)
    BY <1>10, <1>11
  <2> QED BY <1>9, <2>6, <2>7 DEF Same, LiveIn
<1>12. ASSUME ~(authok /\ qs.failed = 0 /\ ~TruncatedUdp(qs))
       PROVE  /\ kept \in Frame /\ kept.q = f.q /\ kept.at = f.at /\ kept.todo = f.todo /\ kept.cur = NoReply
              /\ kept.mc = f.mc /\ kept.hops = f.hops /\ Same(f, kept) /\ Counters(kept)
              /\ Best(kept) /\ HopsLeft(kept)
  <2>1. a.qual <= 14
    BY <1>7, <1>8, <1>12, QualityOK
  <2>2. /\ b \in Answer /\ b.i \in 1..f.mc /\ (b.serv # <<>> => f.hops > 0)
        /\ \A v \in f.seen \cup {a.qual} : v <= 14 /\ v <= b.qual
    BY <1>5, <1>7, <1>8, <2>1, SavesBest
  <2>3. /\ kept.q = f.q /\ kept.at = f.at /\ kept.todo = f.todo /\ kept.cur = NoReply /\ kept.mc = f.mc
        /\ kept.j = f.j /\ kept.saved = b /\ kept.seen = f.seen \cup {a.qual} /\ kept.hops = f.hops
        /\ Same(f, kept)
    BY <1>6, <1>9 DEF Frame, Same
  <2>4. kept \in Frame
    BY <1>6, <1>9, <2>2 DEF Frame
  <2>5. Counters(kept)
    BY <1>7, <2>2, <2>3 DEF FrameInv, Counters, NoReply
  <2>6. Best(kept)
    BY <1>7, <2>2, <2>3 DEF Best
  <2>7. HopsLeft(kept)
    BY <2>2, <2>3 DEF HopsLeft, NoReply
  <2> QED BY <2>3, <2>4, <2>5, <2>6, <2>7
<1>13. /\ \A k \in f.mc + 1..Len(f.q) : f.q[k].st = "initial"
       /\ \A k \in DOMAIN f.q : f.q[k].st # "canceled"
       /\ f.at \in {"sending", "serving"} => \A k \in f.todo \ {c.i} : f.q[k].st # "done"
  BY <1>1, <1>7 DEF FrameInv, Begun
<1>14. CASE TruncatedUdp(qs)
  <2>1. PICK new : new = SwitchToTcp(qs)
    OBVIOUS
  <2>2. new \in Query /\ new.st = "initial"
    BY <1>7, <2>1 DEF SwitchToTcp, Query, States, Methods
  <2>3. PICK q : q = [f.q EXCEPT ![c.i] = new]
    OBVIOUS
  <2>4. /\ q \in Seq(Query) /\ Len(q) = Len(f.q) /\ DOMAIN q = DOMAIN f.q
        /\ \A k \in DOMAIN q : q[k] = IF k = c.i THEN new ELSE f.q[k]
    BY <1>7, <2>2, <2>3
  <2>5. PICK h : h = [kept EXCEPT !.q = q]
    OBVIOUS
  <2>6. /\ kept \in Frame /\ kept.q = f.q /\ kept.at = f.at /\ kept.todo = f.todo /\ kept.cur = NoReply
        /\ kept.mc = f.mc /\ kept.hops = f.hops /\ Same(f, kept) /\ Counters(kept)
        /\ Best(kept) /\ HopsLeft(kept)
    BY <1>12, <1>14
  <2>7. Judged(f) = h
    <3>1. Judged(f) = [kept EXCEPT !.q[c.i] = SwitchToTcp(qs)]
      BY <1>10, <1>14
    <3>2. [kept EXCEPT !.q[c.i] = SwitchToTcp(qs)] = [kept EXCEPT !.q = [kept.q EXCEPT ![c.i] = SwitchToTcp(qs)]]
      BY <2>6 DEF Frame
    <3> QED BY <2>1, <2>3, <2>5, <2>6, <3>1, <3>2
  <2>8. /\ h \in Frame /\ h.q = q /\ h.at = f.at /\ h.todo = f.todo /\ h.cur = NoReply /\ h.mc = kept.mc
        /\ h.j = kept.j /\ h.saved = kept.saved /\ h.seen = kept.seen /\ h.hops = kept.hops /\ Same(f, h)
    <3>1. h \in Frame
      BY <2>4, <2>5, <2>6 DEF Frame
    <3> QED BY <2>5, <2>6, <3>1 DEF Frame, Same
  <2>9. Counters(h) /\ Best(h) /\ HopsLeft(h)
    <3>1. Counters(h)
      BY <2>4, <2>6, <2>8 DEF Counters
    <3>2. Best(h)
      BY <2>6, <2>8 DEF Best
    <3>3. HopsLeft(h)
      BY <2>6, <2>8 DEF HopsLeft
    <3> QED BY <3>1, <3>2, <3>3
  <2>10. Begun(h)
    <3>1. \A k \in h.mc + 1..Len(h.q) : h.q[k].st = "initial"
      <4>1. h.mc = f.mc /\ h.q = q /\ Len(q) = Len(f.q)
        BY <2>4, <2>6, <2>8
      <4> SUFFICES ASSUME NEW k \in f.mc + 1..Len(f.q) PROVE q[k].st = "initial"
        BY <4>1
      <4>2. k \in DOMAIN q /\ k # c.i
        BY <1>7, <2>4
      <4> QED BY <1>13, <2>4, <4>2
    <3>2. \A k \in DOMAIN h.q : h.q[k].st # "canceled"
      BY <1>13, <2>2, <2>4, <2>8
    <3>3. h.at \in {"sending", "serving"} => \A k \in h.todo : h.q[k].st # "done"
      <4>1. h.todo \subseteq DOMAIN h.q
        BY <1>7, <2>4, <2>8 DEF FrameInv, Counters
      <4> QED BY <1>13, <2>2, <2>4, <2>8, <4>1
    <3>4. h.cur.i = 0 /\ h.at # "followed"
      BY <1>7, <2>8 DEF NoReply, Working
    <3> QED BY <3>1, <3>2, <3>3, <3>4 DEF Begun
  <2>11. LiveIn(h) = LiveIn(f)
    <3>1. \A k \in DOMAIN q : Live(q[k]) <=> Live(f.q[k])
      BY <1>1, <1>7, <2>2, <2>4 DEF Live
    <3> QED BY <2>4, <2>8, <3>1 DEF LiveIn
  <2> QED BY <2>7, <2>8, <2>9, <2>10, <2>11 DEF FrameInv
<1>15. CASE ~(authok /\ qs.failed = 0 /\ ~TruncatedUdp(qs)) /\ ~TruncatedUdp(qs)
  <2>1. PICK h : h = [kept EXCEPT !.todo = f.todo \ {c.i}]
    OBVIOUS
  <2>2. /\ kept \in Frame /\ kept.q = f.q /\ kept.at = f.at /\ kept.todo = f.todo /\ kept.cur = NoReply
        /\ kept.mc = f.mc /\ kept.hops = f.hops /\ Same(f, kept) /\ Counters(kept)
        /\ Best(kept) /\ HopsLeft(kept)
    BY <1>12, <1>15
  <2>3. Judged(f) = Settle(h)
    BY <1>10, <1>15, <2>1
  <2>4. /\ h \in Frame /\ h.q = f.q /\ h.at = f.at /\ h.todo = f.todo \ {c.i} /\ h.cur = NoReply /\ h.mc = kept.mc
        /\ h.j = kept.j /\ h.saved = kept.saved /\ h.seen = kept.seen /\ h.hops = kept.hops /\ Same(f, h)
    <3>1. f.todo \ {c.i} \in SUBSET Nat
      BY <2>2 DEF Frame
    <3>2. h \in Frame
      BY <2>1, <2>2, <3>1 DEF Frame
    <3> QED BY <2>1, <2>2, <3>2 DEF Frame, Same
  <2>5. Counters(h) /\ Best(h) /\ HopsLeft(h)
    <3>1. Counters(h)
      BY <2>2, <2>4 DEF Counters
    <3> QED BY <2>2, <2>4, <3>1 DEF Best, HopsLeft
  <2>6. Begun(h)
    BY <1>7, <1>13, <2>2, <2>4 DEF Begun, NoReply, Working
  <2>7. FrameInv(h)
    BY <2>4, <2>5, <2>6 DEF FrameInv
  <2>8. FrameInv(Settle(h)) /\ Same(h, Settle(h)) /\ Settle(h).q = h.q
    BY <2>7, SettleOK
  <2> QED BY <2>3, <2>4, <2>8 DEF Same, LiveIn
<1> QED BY <1>11, <1>14, <1>15

LEMMA MakesSeq ==
  ASSUME NEW T, NEW n \in Nat, NEW s, s = [k \in 1..n |-> s[k]], \A k \in 1..n : s[k] \in T
  PROVE  s \in Seq(T) /\ Len(s) = n
OBVIOUS

(* The timeouts are noted: no query is begun or ends.                                  *)
LEMMA TimedOutOK ==
  ASSUME NEW f, FrameInv(f), f.at \in Working, f.cur.i = 0
  PROVE  FrameInv(TimedOut(f)) /\ Same(f, TimedOut(f)) /\ LiveIn(TimedOut(f)) = LiveIn(f)
<1>1. /\ f \in Frame /\ Len(f.q) \in Nat /\ DOMAIN f.q = 1..Len(f.q) /\ f.q \in Seq(Query) /\ f.mc \in Nat
      /\ f.j \in Nat /\ 1 <= f.j /\ f.mc <= Len(f.q)
  BY FrameParts DEF FrameInv, Counters
<1>2. PICK q : q = Noted(f)
  OBVIOUS
<1>3. q \in Seq(Query) /\ Len(q) = Len(f.q) /\ DOMAIN q = DOMAIN f.q /\ \A k \in DOMAIN q : q[k].st = f.q[k].st
  <2>1. \A x \in Query : [x EXCEPT !.nt = 2] \in Query /\ [x EXCEPT !.nt = 2].st = x.st
    BY DEF Query
  <2>2. DOMAIN q = DOMAIN f.q /\ \A k \in DOMAIN q : q[k] \in Query /\ q[k].st = f.q[k].st
    BY <1>1, <1>2, <2>1 DEF Noted
  <2>3. q = [k \in 1..Len(f.q) |-> q[k]]
    BY <1>1, <1>2 DEF Noted
  <2>4. q \in Seq(Query)
    <3>1. \A k \in 1..Len(f.q) : q[k] \in Query
      BY <1>1, <2>2
    <3> QED BY <1>1, <2>3, <3>1, MakesSeq
  <2> QED BY <1>1, <2>2, <2>4
<1>4. PICK retry : retry = {k \in f.j..f.mc : Tentative(f.q[k])}
  OBVIOUS
<1>5. retry \subseteq 1..f.mc /\ Silent(f) \in SUBSET Nat
  BY <1>1, <1>4 DEF Silent
<1>6. PICK late : late = f.late \cup Silent(f)
  OBVIOUS
<1>7. PICK h : h = [f EXCEPT !.at = "timing", !.rv = "SERVFAIL", !.q = q, !.late = late,
                             !.todo = retry, !.retried = (retry # {})]
  OBVIOUS
<1>8. TimedOut(f) = h
  <2>1. f.late \cup Silent(f) = late
    BY <1>6
  <2> QED BY <1>1, <1>2, <1>4, <1>6, <1>7 DEF TimedOut, Frame
<1>9. /\ h.q = q /\ h.at = "timing" /\ h.todo = retry /\ h.cur = f.cur /\ h.mc = f.mc /\ h.j = f.j
      /\ h.saved = f.saved /\ h.seen = f.seen /\ h.hops = f.hops /\ Same(f, h)
  BY <1>1, <1>7 DEF Frame, Same
<1>10. h \in Frame
  <2>1. late \in SUBSET Nat /\ retry \in SUBSET Nat
    BY <1>1, <1>5, <1>6 DEF Frame
  <2>2. "timing" \in Working \cup {"ending", "followed"} /\ "SERVFAIL" \in ReturnCodes
    BY DEF Working, ReturnCodes
  <2> QED BY <1>1, <1>3, <1>7, <2>1, <2>2 DEF Frame
<1>11. Counters(h)
  BY <1>3, <1>5, <1>9 DEF FrameInv, Counters
<1>12. Begun(h)
  <2>1. /\ \A k \in f.mc + 1..Len(f.q) : f.q[k].st = "initial"
        /\ \A k \in DOMAIN f.q : f.q[k].st # "canceled"
    BY DEF FrameInv, Begun
  <2>2. \A k \in f.mc + 1..Len(f.q) : k \in DOMAIN f.q
    BY <1>1
  <2> QED BY <1>3, <1>9, <2>1, <2>2 DEF Begun
<1>13. Best(h) /\ HopsLeft(h)
  BY <1>9 DEF FrameInv, Best, HopsLeft, Working
<1>14. LiveIn(h) = LiveIn(f)
  BY <1>3, <1>9 DEF LiveIn, Live
<1> QED BY <1>8, <1>9, <1>10, <1>11, <1>12, <1>13, <1>14 DEF FrameInv

(* All that are under way are cancelled.                                               *)
LEMMA ClosedOK ==
  ASSUME NEW f, FrameInv(f), f.at = "ending"
  PROVE  /\ FrameInv(Closed(f)) /\ Same(f, Closed(f)) /\ Closed(f).at = "ending"
         /\ LiveIn(Closed(f)) = {} /\ Cancelled(f) = LiveIn(f)
<1>1. /\ f \in Frame /\ Len(f.q) \in Nat /\ DOMAIN f.q = 1..Len(f.q) /\ f.q \in Seq(Query) /\ f.mc \in Nat
      /\ f.mc <= Len(f.q) /\ \A k \in f.mc + 1..Len(f.q) : f.q[k].st = "initial"
  BY FrameParts DEF FrameInv, Counters, Begun
<1>2. Cancelled(f) = LiveIn(f)
  <2>1. \A k \in f.mc + 1..Len(f.q) : ~Live(f.q[k])
    BY <1>1 DEF Live
  <2>2. \A k \in DOMAIN f.q : k \in 1..f.mc \/ k \in f.mc + 1..Len(f.q)
    BY <1>1
  <2> QED BY <1>1, <2>1, <2>2 DEF Cancelled, LiveIn
<1>3. PICK q : q = [k \in DOMAIN f.q |-> IF k \in Cancelled(f) THEN [f.q[k] EXCEPT !.st = "canceled"] ELSE f.q[k]]
  OBVIOUS
<1>4. /\ q \in Seq(Query) /\ Len(q) = Len(f.q) /\ DOMAIN q = DOMAIN f.q
      /\ \A k \in DOMAIN q : IF Live(f.q[k]) THEN q[k].st = "canceled" ELSE q[k] = f.q[k]
  <2>1. \A x \in Query : [x EXCEPT !.st = "canceled"] \in Query /\ [x EXCEPT !.st = "canceled"].st = "canceled"
    BY DEF Query, States
  <2>2. /\ DOMAIN q = DOMAIN f.q /\ \A k \in DOMAIN q : q[k] \in Query
        /\ \A k \in DOMAIN q : IF Live(f.q[k]) THEN q[k].st = "canceled" ELSE q[k] = f.q[k]
    BY <1>1, <1>2, <1>3, <2>1 DEF LiveIn
  <2>3. q = [k \in 1..Len(f.q) |-> q[k]]
    BY <1>1, <1>3
  <2>4. q \in Seq(Query)
    <3>1. \A k \in 1..Len(f.q) : q[k] \in Query
      BY <1>1, <2>2
    <3> QED BY <1>1, <2>3, <3>1, MakesSeq
  <2> QED BY <1>1, <2>2, <2>4
<1>5. PICK h : h = [f EXCEPT !.q = q]
  OBVIOUS
<1>6. Closed(f) = h
  BY <1>3, <1>5 DEF Closed
<1>7. /\ h.q = q /\ h.at = f.at /\ h.todo = f.todo /\ h.cur = f.cur /\ h.mc = f.mc /\ h.j = f.j
      /\ h.saved = f.saved /\ h.seen = f.seen /\ h.hops = f.hops /\ Same(f, h) /\ h \in Frame
  BY <1>1, <1>4, <1>5 DEF Frame, Same
<1>8. Counters(h)
  BY <1>4, <1>7 DEF FrameInv, Counters
<1>9. Begun(h)
  <2>1. \A k \in f.mc + 1..Len(f.q) : k \in DOMAIN q /\ ~Live(f.q[k])
    BY <1>1, <1>4 DEF Live
  <2>2. f.cur.i = 0
    BY DEF FrameInv, Begun, Working
  <2> QED BY <1>1, <1>4, <1>7, <2>1, <2>2 DEF Begun, Working
<1>10. Best(h) /\ HopsLeft(h)
  BY <1>7 DEF FrameInv, Best, HopsLeft
<1>11. LiveIn(h) = {}
  BY <1>4, <1>7 DEF LiveIn, Live
<1> QED BY <1>2, <1>6, <1>7, <1>8, <1>9, <1>10, <1>11 DEF FrameInv

(* An activation begins.                                                               *)
Fresh(q) == q \in Seq(Query) /\ \A k \in DOMAIN q : q[k].st = "initial"

Begins(f, kind, name, type, hops) ==
  FrameInv(f) /\ LiveIn(f) = {} /\ f.kind = kind /\ f.name = name /\ f.type = type /\ f.hops = hops

LEMMA NewFrameOK ==
  ASSUME NEW kind \in {"top", "name", "follow"}, NEW name \in Names, NEW type \in Types \cup {"A"},
         NEW hops \in Nat, NEW kept \in BOOLEAN, NEW q, Fresh(q), q # <<>>, global \in Configs
  PROVE  Begins(NewFrame(kind, name, type, hops, kept, q), kind, name, type, hops)
<1>0. PICK f : f = NewFrame(kind, name, type, hops, kept, q)
  OBVIOUS
<1>1. q \in Seq(Query) /\ Len(q) \in Nat \ {0} /\ DOMAIN q = 1..Len(q) /\ \A k \in DOMAIN q : q[k].st = "initial"
  BY DEF Fresh
<1>2. PICK mc : mc = IF global.par < Len(q) THEN global.par ELSE Len(q)
  OBVIOUS
<1>3. mc \in Nat /\ 1 <= mc /\ mc <= Len(q)
  <2>1. global.par \in Nat \ {0}
    BY ConfigsTyped
  <2> QED BY <1>1, <1>2, <2>1
<1>4. f = [kind |-> kind, name |-> name, type |-> type, hops |-> hops, kept |-> kept, q |-> q,
           j |-> 1, mc |-> mc, at |-> "sending", todo |-> 1..mc, retried |-> FALSE, rv |-> "SERVFAIL",
           cur |-> NoReply, saved |-> NoAnswer, late |-> {}, heard |-> {}, seen |-> {}]
  BY <1>0, <1>2 DEF NewFrame
<1>5. f \in Frame
  <2>1. 1..mc \in SUBSET Nat /\ 1 \in Nat
    BY <1>3
  <2>2. "sending" \in Working \cup {"ending", "followed"} /\ "SERVFAIL" \in ReturnCodes
    BY DEF Working, ReturnCodes
  <2> QED BY <1>1, <1>3, <1>4, <2>1, <2>2, NothingTyped DEF Frame
<1>6. Counters(f)
  BY <1>1, <1>3, <1>4 DEF Counters, NoReply, NoAnswer
<1>7. Begun(f)
  <2>1. \A k \in mc + 1..Len(q) : k \in DOMAIN q
    BY <1>1, <1>3
  <2>2. \A k \in 1..mc : k \in DOMAIN q
    BY <1>1, <1>3
  <2> QED BY <1>1, <1>4, <2>1, <2>2 DEF Begun, NoReply
<1>8. Best(f) /\ HopsLeft(f)
  BY <1>4 DEF Best, HopsLeft, NoReply, NoAnswer, Working
<1>9. LiveIn(f) = {}
  BY <1>1, <1>4 DEF LiveIn, Live
<1>10. f.kind = kind /\ f.name = name /\ f.type = type /\ f.hops = hops
  BY <1>4
<1> QED BY <1>0, <1>5, <1>6, <1>7, <1>8, <1>9, <1>10 DEF Begins, FrameInv

LEMMA NewQueryOK ==
  ASSUME global \in Configs, NEW a \in Addrs, NEW auth \in 1..2, NEW nt \in 0..2, NEW edns \in BOOLEAN
  PROVE  NewQuery(a, auth, nt, edns) \in Query /\ NewQuery(a, auth, nt, edns).st = "initial"
<1>1. global.method \in Methods
  BY ConfigsTyped
<1> QED BY <1>1 DEF NewQuery, Query, States

(* The servers of the configuration that are up, and those of a referral.              *)
LEMMA ConfiguredOK ==
  ASSUME global \in Configs, NEW up
  PROVE  Fresh(Configured(up))
<1>1. PICK p : p = Those(global.servers, [a : up, nt : 0..2, edns : BOOLEAN])
  OBVIOUS
<1>2. p \in Seq([a : Addrs, nt : 0..2, edns : BOOLEAN])
  <2>1. global.servers \in Seq([a : Addrs, nt : 0..2, edns : BOOLEAN])
    BY ConfigsTyped
  <2> QED BY <1>1, <2>1, ThoseType
<1>3. PICK c : c = Configured(up)
  OBVIOUS
<1>4. c = [i \in DOMAIN p |-> NewQuery(p[i].a, 1, p[i].nt, p[i].edns)]
  BY <1>1, <1>3 DEF Configured
<1>5. \A i \in DOMAIN p : p[i].a \in Addrs /\ p[i].nt \in 0..2 /\ p[i].edns \in BOOLEAN
  <2>1. \A i \in DOMAIN p : p[i] \in [a : Addrs, nt : 0..2, edns : BOOLEAN]
    <3>1. PICK T : T = [a : Addrs, nt : 0..2, edns : BOOLEAN]
      OBVIOUS
    <3>2. p \in Seq(T)
      BY <1>2, <3>1
    <3>3. \A i \in DOMAIN p : p[i] \in T
      BY <3>2
    <3> QED BY <3>1, <3>3
  <2> QED BY <2>1
<1>6. \A i \in DOMAIN p : c[i] \in Query /\ c[i].st = "initial"
  BY <1>4, <1>5, NewQueryOK
<1>7. DOMAIN p = 1..Len(p) /\ Len(p) \in Nat /\ DOMAIN c = 1..Len(p) /\ c = [i \in 1..Len(p) |-> c[i]]
  BY <1>2, <1>4
<1>8. c \in Seq(Query)
  BY <1>6, <1>7, MakesSeq
<1> QED BY <1>3, <1>6, <1>7, <1>8 DEF Fresh

LEMMA ReferredOK ==
  ASSUME global \in Configs, NEW f, FrameInv(f), f.saved.i # 0
  PROVE  Fresh(Referred(f))
<1>1. PICK p, edns : p = f.saved.serv /\ edns = f.q[f.saved.i].edns
  OBVIOUS
<1>2. p \in Seq(Addrs) /\ edns \in BOOLEAN
  <2>1. f.saved.i \in 1..f.mc
    BY FrameParts DEF FrameInv, Counters
  <2> QED BY <1>1, <2>1, FrameParts DEF Answer, Query
<1>3. PICK c : c = Referred(f)
  OBVIOUS
<1>4. c = [i \in DOMAIN p |-> NewQuery(p[i], 2, 0, edns)]
  BY <1>1, <1>3 DEF Referred
<1>5. \A i \in DOMAIN p : p[i] \in Addrs
  BY <1>2
<1>6. \A i \in DOMAIN p : c[i] \in Query /\ c[i].st = "initial"
  BY <1>2, <1>4, <1>5, NewQueryOK
<1>7. DOMAIN p = 1..Len(p) /\ Len(p) \in Nat /\ DOMAIN c = 1..Len(p) /\ c = [i \in 1..Len(p) |-> c[i]]
  BY <1>2, <1>4
<1>8. c \in Seq(Query)
  BY <1>6, <1>7, MakesSeq
<1> QED BY <1>3, <1>6, <1>7, <1>8 DEF Fresh

(* The addresses found for a server's name are added to those to ask.                  *)
LEMMA WithAddressesOK ==
  ASSUME NEW s, Chain(s), s # <<>>, LastOf(s).cur.i # 0, LastOf(s).cur.ns # <<>>, NEW name \in Names, NEW res
  PROVE  /\ FrameInv(WithAddresses(s, name, res)) /\ Same(LastOf(s), WithAddresses(s, name, res))
         /\ WithAddresses(s, name, res).q = LastOf(s).q
<1>1. PICK f : f = LastOf(s)
  OBVIOUS
<1>2. FrameInv(f) /\ f \in Frame /\ f.cur \in Judging /\ f.hops > 0 /\ f.cur.i # 0 /\ f.cur.ns # <<>>
  BY <1>1, ChainLast, FrameParts DEF FrameInv, HopsLeft
<1>3. PICK new : new = {a \in Addrs : ~AlreadyAsked(s, a) /\ \A i \in DOMAIN f.cur.serv : f.cur.serv[i] # a}
  OBVIOUS
<1>4. PICK found : found = IF res.rc \in Resolved /\ ~res.neg /\ res.has THEN Those(AddrsOf[name], new) ELSE <<>>
  OBVIOUS
<1>5. found \in Seq(Addrs)
  <2>1. AddrsOf[name] \in Seq(Addrs)
    BY NamesTyped
  <2>2. Those(AddrsOf[name], new) \in Seq(Addrs)
    BY <2>1, ThoseType
  <2> QED BY <1>4, <2>2
<1>6. PICK c : c = [f.cur EXCEPT !.ns = Tail(f.cur.ns), !.serv = f.cur.serv \o found]
  OBVIOUS
<1>7. c \in Judging /\ c.i = f.cur.i
  <2>1. Tail(f.cur.ns) \in Seq(Names) /\ f.cur.serv \o found \in Seq(Addrs)
    BY <1>2, <1>5 DEF Judging
  <2> QED BY <1>2, <1>6, <2>1 DEF Judging
<1>8. PICK g : g = [f EXCEPT !.cur = c]
  OBVIOUS
<1>9. WithAddresses(s, name, res) = g
  <2>1. WithAddresses(s, name, res) = [f EXCEPT !.cur.ns = Tail(@), !.cur.serv = @ \o found]
    BY <1>1, <1>3, <1>4 DEF WithAddresses, LastOf
  <2>2. [f EXCEPT !.cur.ns = Tail(@), !.cur.serv = @ \o found] = [f EXCEPT !.cur = c]
    BY <1>2, <1>6 DEF Frame, Judging
  <2> QED BY <1>8, <2>1, <2>2
<1>10. /\ g \in Frame /\ g.q = f.q /\ g.at = f.at /\ g.todo = f.todo /\ g.cur = c /\ g.mc = f.mc /\ g.j = f.j
       /\ g.saved = f.saved /\ g.seen = f.seen /\ g.hops = f.hops /\ Same(f, g)
  BY <1>2, <1>7, <1>8 DEF Frame, Same
<1>11. Counters(g)
  BY <1>2, <1>7, <1>10 DEF FrameInv, Counters
<1>12. Begun(g)
  BY <1>2, <1>7, <1>10 DEF FrameInv, Begun, LiveIn, Live, Working
<1>13. Best(g) /\ HopsLeft(g)
  BY <1>2, <1>10 DEF FrameInv, Best, HopsLeft
<1> QED BY <1>1, <1>9, <1>10, <1>11, <1>12, <1>13 DEF FrameInv

(* The servers of a referral have been asked.                                          *)
Answered(f, rc, neg, has) ==
  [f EXCEPT !.at = "followed", !.rv = rc, !.cur = [NoReply EXCEPT !.neg = neg, !.has = has]]

LEMMA AnsweredOK ==
  ASSUME NEW f, FrameInv(f), f.at = "ending", LiveIn(f) = {}, NEW rc \in ReturnCodes,
         NEW neg \in BOOLEAN, NEW has \in BOOLEAN
  PROVE  /\ FrameInv(Answered(f, rc, neg, has)) /\ Same(f, Answered(f, rc, neg, has))
         /\ Answered(f, rc, neg, has).q = f.q
<1>0. PICK g : g = Answered(f, rc, neg, has)
  OBVIOUS
<1>1. f \in Frame
  BY DEF FrameInv
<1>2. PICK c : c = [NoReply EXCEPT !.neg = neg, !.has = has]
  OBVIOUS
<1>3. c \in Judging /\ c.i = 0 /\ c.ns = <<>> /\ c.serv = <<>>
  BY <1>2, NothingTyped DEF NoReply, Judging
<1>4. /\ g.q = f.q /\ g.at = "followed" /\ g.todo = f.todo /\ g.cur = c /\ g.mc = f.mc /\ g.j = f.j
      /\ g.saved = f.saved /\ g.seen = f.seen /\ g.hops = f.hops /\ Same(f, g)
  BY <1>0, <1>1, <1>2 DEF Answered, Frame, Same
<1>5. g \in Frame
  <2>1. rc \in ReturnCodes /\ "followed" \in Working \cup {"ending", "followed"}
    OBVIOUS
  <2> QED BY <1>0, <1>1, <1>2, <1>3, <2>1 DEF Answered, Frame
<1>6. f.mc \in Nat
  BY FrameParts
<1>7. Counters(g)
  BY <1>3, <1>4, <1>6 DEF FrameInv, Counters
<1>8. Begun(g)
  BY <1>3, <1>4 DEF FrameInv, Begun, LiveIn, Working
<1>9. Best(g) /\ HopsLeft(g)
  BY <1>3, <1>4 DEF FrameInv, Best, HopsLeft, Working
<1> QED BY <1>0, <1>4, <1>5, <1>7, <1>8, <1>9 DEF FrameInv

-----------------------------------------------------------------------------
(* Calls and returns                                                         *)

ResOK(res) == res.rc \in ReturnCodes /\ res.neg \in BOOLEAN /\ res.has \in BOOLEAN
Kinds      == {"top", "name", "follow"}
Outcomes   == ReturnCodes \cup {"none"}
(* The stack is still one, with the sockets that s has.                                *)
Carried(s) == Chain(stack') /\ OpenIn(stack') = OpenIn(s) /\ outcome' \in Outcomes

LEMMA ResTyped ==
  /\ \A rc \in ReturnCodes, neg, has \in BOOLEAN : ResOK(Res(rc, neg, has))
  /\ \A kept \in BOOLEAN : ResOK(Failed(kept))
BY DEF ResOK, Res, Failed, ReturnCodes

LEMMA DeliverOK ==
  ASSUME outcome \in Outcomes, NEW s, Chain(s), NEW kind \in Kinds, s # <<>> => Awaits(LastOf(s), kind),
         NEW name \in Names, NEW res, ResOK(res), Deliver(s, kind, name, res)
  PROVE  Carried(s)
<1>1. CASE s = <<>>
  BY <1>1 DEF Deliver, Carried, Outcomes, ResOK
<1>2. CASE s # <<>>
  <2>1. outcome' \in Outcomes
    BY <1>2 DEF Deliver
  <2>2. CASE kind = "name"
    <3>1. PICK g : g = WithAddresses(s, name, res)
      OBVIOUS
    <3>2. stack' = WithLast(s, g)
      BY <1>2, <2>2, <3>1 DEF Deliver, WithLast
    <3>3. LastOf(s).cur.i # 0 /\ LastOf(s).cur.ns # <<>>
      BY <1>2, <2>2 DEF Awaits
    <3>4. FrameInv(g) /\ Same(LastOf(s), g) /\ g.q = LastOf(s).q
      BY <1>2, <3>1, <3>3, WithAddressesOK
    <3>5. Chain(WithLast(s, g)) /\ OpenIn(WithLast(s, g)) = OpenIn(s)
      BY <1>2, <3>4, ChainSet, SameOpen DEF LiveIn
    <3> QED BY <2>1, <3>2, <3>5 DEF Carried
  <2>3. CASE kind # "name"
    <3>1. PICK g : g = [s[Len(s)] EXCEPT !.at = "followed", !.rv = res.rc,
                                         !.cur = [NoReply EXCEPT !.neg = res.neg, !.has = res.has]]
      OBVIOUS
    <3>2. stack' = WithLast(s, g)
      BY <1>2, <2>3, <3>1 DEF Deliver, WithLast
    <3>3. LastOf(s).at = "ending" /\ LiveIn(LastOf(s)) = {} /\ FrameInv(LastOf(s))
      BY <1>2, <2>3, ChainLast DEF Awaits
    <3>4. FrameInv(g) /\ Same(LastOf(s), g) /\ g.q = LastOf(s).q
      <4>1. g = Answered(LastOf(s), res.rc, res.neg, res.has)
        BY <3>1 DEF LastOf, Answered
      <4> QED BY <3>3, <4>1, AnsweredOK DEF ResOK
    <3>5. Chain(WithLast(s, g)) /\ OpenIn(WithLast(s, g)) = OpenIn(s)
      BY <1>2, <3>4, ChainSet, SameOpen DEF LiveIn
    <3> QED BY <2>1, <3>2, <3>5 DEF Carried
  <2> QED BY <2>2, <2>3
<1> QED BY <1>1, <1>2

(* A name is looked up: it is known, or an activation begins.                          *)
LEMMA CallOK ==
  ASSUME outcome \in Outcomes, global \in Configs, NEW s, Chain(s), NEW kind \in Kinds,
         s # <<>> => Awaits(LastOf(s), kind), NEW name \in Names, NEW type \in Types \cup {"A"},
         NEW hops \in Nat, hops <= MaxHops - Len(s), NEW status \in Statuses, NEW q, Fresh(q),
         kind = "name" => \A d \in DOMAIN s : ~(s[d].name = name /\ s[d].type = type),
         Call(s, kind, name, type, hops, status, q)
  PROVE  Carried(s)
<1>1. \/ \E res : ResOK(res) /\ Deliver(s, kind, name, res)
      \/ /\ q # <<>> /\ stack' = Append(s, NewFrame(kind, name, type, hops, status = "kept", q))
         /\ UNCHANGED outcome
  <2>1. /\ ResOK(Res("CACHED", FALSE, TRUE)) /\ ResOK(Res("NAMEERR", FALSE, FALSE))
        /\ ResOK(Failed(status = "kept"))
    BY ResTyped DEF ReturnCodes
  <2> QED BY <2>1 DEF Call
<1>2. CASE \E res : ResOK(res) /\ Deliver(s, kind, name, res)
  BY <1>2, DeliverOK
<1>3. CASE /\ q # <<>> /\ stack' = Append(s, NewFrame(kind, name, type, hops, status = "kept", q))
           /\ UNCHANGED outcome
  <2>1. PICK kept \in BOOLEAN : kept = (status = "kept")
    OBVIOUS
  <2>2. PICK f : f = NewFrame(kind, name, type, hops, kept, q)
    OBVIOUS
  <2>3. FrameInv(f) /\ LiveIn(f) = {} /\ f.kind = kind /\ f.name = name /\ f.type = type /\ f.hops = hops
    <3>1. kind \in {"top", "name", "follow"} /\ q # <<>>
      BY <1>3 DEF Kinds
    <3>2. Begins(NewFrame(kind, name, type, hops, kept, q), kind, name, type, hops)
      BY <3>1, NewFrameOK
    <3> QED BY <2>2, <3>2 DEF Begins
  <2>4. Chain(Append(s, f))
    BY <2>3, ChainPush
  <2>5. OpenIn(Append(s, f)) = OpenIn(s)
    BY <2>3, PushCounts DEF Chain
  <2>6. stack' = Append(s, f)
    BY <1>3, <2>1, <2>2
  <2> QED BY <1>3, <2>4, <2>5, <2>6 DEF Carried
<1> QED BY <1>1, <1>2, <1>3

-----------------------------------------------------------------------------
(* The actions                                                               *)

LEMMA Inside ==
  ASSUME IInv, stack # <<>>
  PROVE  /\ Chain(stack) /\ FrameInv(Top) /\ Top = LastOf(stack) /\ Top.hops <= MaxHops - (Len(stack) - 1)
         /\ Top \in Frame /\ Top.name \in Names /\ Top.type \in Types \cup {"A"} /\ Top.kind \in Kinds
         /\ Top.rv \in ReturnCodes /\ Top.kept \in BOOLEAN /\ Len(stack) \in Nat
<1>1. Chain(stack)
  BY DEF IInv
<1>2. FrameInv(LastOf(stack)) /\ Len(stack) \in Nat /\ LastOf(stack).hops <= MaxHops - (Len(stack) - 1)
  BY <1>1, ChainLast
<1>3. Top = LastOf(stack)
  BY DEF Top, LastOf
<1>4. Top \in Frame
  BY <1>2, <1>3 DEF FrameInv
<1> QED BY <1>1, <1>2, <1>3, <1>4 DEF Frame, Kinds

(* Only the running activation changes, and none of its sockets.                       *)
LEMMA SetTopOK ==
  ASSUME IInv, stack # <<>>, NEW g, FrameInv(g), Same(Top, g), LiveIn(g) = LiveIn(Top), SetTop(g),
         UNCHANGED <<open, global, had, outcome>>
  PROVE  IInv'
<1>1. PICK s : s = stack
  OBVIOUS
<1>2. Chain(s) /\ s # <<>> /\ Same(LastOf(s), g) /\ LiveIn(g) = LiveIn(LastOf(s)) /\ stack' = WithLast(s, g)
  BY <1>1, Inside DEF SetTop, WithLast
<1>3. Chain(WithLast(s, g)) /\ OpenIn(WithLast(s, g)) = OpenIn(s)
  BY <1>2, ChainSet, SameOpen
<1> QED BY <1>1, <1>2, <1>3 DEF IInv

LEMMA CarriedOK ==
  ASSUME NEW s, Carried(s), IsFiniteSet(OpenIn(s)), open' = Cardinality(OpenIn(s)),
         global' \in Configs, had' \in Statuses
  PROVE  IInv'
BY DEF Carried, IInv, Outcomes

LEMMA LeastIn == ASSUME NEW S, S \subseteq Nat, S # {} PROVE Least(S) \in S
<1>1. \E i \in S : \A k \in S : i <= k
  BY LeastNatural
<1> QED BY <1>1 DEF Least

LEMMA ExecKeeps ==
  ASSUME IInv, NEW at \in {"sending", "serving", "timing"}, Exec(at)
  PROVE  IInv'
<1>1. PICK s, f : s = stack /\ f = LastOf(stack)
  OBVIOUS
<1>2. s # <<>> /\ Chain(s) /\ FrameInv(f) /\ f.at = at /\ f.cur.i = 0 /\ f.todo # {} /\ f = Top /\ f.at \in Working
  BY <1>1, Inside DEF Exec, Running, Working
<1>3. PICK i : i = Least(f.todo)
  OBVIOUS
<1>4. i \in f.todo /\ i \in 1..f.mc /\ i \in DOMAIN f.q /\ f.q[i] \in Query /\ i # 0
  <2>1. f.todo \subseteq 1..f.mc /\ f.mc \in Nat
    BY <1>2, FrameParts DEF FrameInv, Counters
  <2>2. f.todo \subseteq Nat
    BY <2>1
  <2>3. i \in f.todo
    BY <1>2, <1>3, <2>2, LeastIn
  <2>4. i \in 1..f.mc /\ i # 0
    BY <2>1, <2>3
  <2> QED BY <1>2, <2>3, <2>4, FrameParts
<1>5. PICK qs : qs = IF at = "timing" THEN SwitchToUdp(f.q[i]) ELSE f.q[i]
  OBVIOUS
<1>6. qs \in Query /\ qs.st \notin {"done", "canceled"}
  <2>1. CASE at = "timing"
    <3>1. SwitchToUdp(f.q[i]) \in Query /\ SwitchToUdp(f.q[i]).st = "initial"
      BY <1>4 DEF SwitchToUdp, Query, States, Methods
    <3> QED BY <1>5, <2>1, <3>1
  <2>2. CASE at # "timing"
    BY <1>2, <1>4, <1>5, <2>2 DEF FrameInv, Begun
  <2> QED BY <2>1, <2>2
<1>7. PICK e \in p_exec_query(qs) : /\ SetTop(Executed(f, i, e))
                                    /\ open' = open + Sockets(e.qs) - Sockets(f.q[i])
  BY <1>2, <1>3, <1>5 DEF Exec
<1>8. ResultOK(e)
  BY <1>6, ExecOK
<1>9. PICK g : g = Executed(f, i, e)
  OBVIOUS
<1>10. FrameInv(g) /\ Same(f, g) /\ g.q = [f.q EXCEPT ![i] = e.qs]
  <2>1. global \in Configs
    BY DEF IInv
  <2> QED BY <1>2, <1>4, <1>8, <1>9, <2>1, ExecutedOK
<1>11. Chain(WithLast(s, g))
  BY <1>1, <1>2, <1>10, ChainSet
<1>12. /\ DOMAIN g.q = DOMAIN f.q /\ \A k \in DOMAIN g.q : k # i => g.q[k].st = f.q[k].st
       /\ g.q[i] = e.qs
  BY <1>4, <1>10
<1>13. IsFiniteSet(OpenIn(s)) /\ open = Cardinality(OpenIn(s))
  BY <1>1 DEF IInv
<1>14. /\ IsFiniteSet(OpenIn(WithLast(s, g)))
       /\ Cardinality(OpenIn(WithLast(s, g)))
            = Cardinality(OpenIn(s)) + Sockets(g.q[i]) - Sockets(LastOf(s).q[i])
  BY <1>1, <1>2, <1>4, <1>12, <1>13, OneQueryCounts
<1>15. open' = Cardinality(OpenIn(WithLast(s, g)))
  BY <1>1, <1>7, <1>12, <1>13, <1>14
<1>16. stack' = WithLast(s, g)
  BY <1>1, <1>7, <1>9 DEF SetTop, WithLast
<1>17. UNCHANGED <<global, had, outcome>>
  BY DEF Exec
<1> QED BY <1>11, <1>14, <1>15, <1>16, <1>17 DEF IInv

LEMMA PollEventsKeeps == ASSUME IInv, PollEvents PROVE IInv'
<1>1. stack # <<>> /\ Top.at = "polling" /\ Top.cur.i = 0 /\ UNCHANGED <<open, global, had, outcome>>
  BY DEF PollEvents, Running
<1>2. PICK E \in SUBSET Active(Top) \ {{}} : SetTop([Top EXCEPT !.at = "serving", !.todo = E])
  BY DEF PollEvents
<1>3. PICK f : f = Top
  OBVIOUS
<1>4. FrameInv(f) /\ f.at \in Working /\ E \in SUBSET (1..f.mc) /\ \A k \in E \ {f.cur.i} : f.q[k].st # "done"
  BY <1>1, <1>3, Inside DEF Active, Working
<1>5. /\ FrameInv(Now(f, "serving", E)) /\ Same(f, Now(f, "serving", E)) /\ Now(f, "serving", E).q = f.q
  BY <1>4, GoesOn DEF Working
<1>6. SetTop(Now(f, "serving", E))
  BY <1>2, <1>3 DEF Now
<1> QED BY <1>1, <1>3, <1>5, <1>6, SetTopOK DEF LiveIn

LEMMA PollFailsKeeps == ASSUME IInv, PollFails PROVE IInv'
<1>1. stack # <<>> /\ SetTop(Give(Top, "SERVFAIL", NoAnswer)) /\ UNCHANGED <<open, global, had, outcome>>
  BY DEF PollFails, Running
<1>2. PICK f : f = Top
  OBVIOUS
<1>3. FrameInv(f) /\ f \in Frame /\ f.mc \in Nat
  BY <1>1, <1>2, Inside, FrameParts
<1>4. Counters(f) /\ \A k \in f.mc + 1..Len(f.q) : f.q[k].st = "initial"
  BY <1>3 DEF FrameInv, Begun
<1>5. NoAnswer \in Answer /\ NoAnswer.i = 0 /\ NoAnswer.serv = <<>> /\ 0 \in 0..f.mc /\ "SERVFAIL" \in ReturnCodes
  BY <1>3, NothingTyped DEF NoAnswer, ReturnCodes
<1>6. FrameInv(Give(f, "SERVFAIL", NoAnswer)) /\ Same(f, Give(f, "SERVFAIL", NoAnswer))
      /\ Give(f, "SERVFAIL", NoAnswer).q = f.q
  BY <1>3, <1>4, <1>5, GiveOK
<1> QED BY <1>1, <1>2, <1>6, SetTopOK DEF LiveIn

LEMMA PollTimesOutKeeps == ASSUME IInv, PollTimesOut PROVE IInv'
<1>1. /\ stack # <<>> /\ Top.at = "polling" /\ Top.cur.i = 0 /\ SetTop(TimedOut(Top))
      /\ UNCHANGED <<open, global, had, outcome>>
  BY DEF PollTimesOut, Running
<1>2. FrameInv(Top)
  BY <1>1, Inside
<1>3. FrameInv(TimedOut(Top)) /\ Same(Top, TimedOut(Top)) /\ LiveIn(TimedOut(Top)) = LiveIn(Top)
  BY <1>1, <1>2, TimedOutOK DEF Working
<1> QED BY <1>1, <1>3, SetTopOK

LEMMA TimedKeeps == ASSUME IInv, Timed PROVE IInv'
<1>1. /\ stack # <<>> /\ Top.at = "timing" /\ Top.cur.i = 0 /\ Top.todo = {}
      /\ UNCHANGED <<open, global, had, outcome>>
  BY DEF Timed, Running
<1>2. FrameInv(Top) /\ Top \in Frame
  BY <1>1, Inside
<1>3. CASE SetTop(NextBatch(Top))
  <2>1. global \in Configs
    BY DEF IInv
  <2>2. FrameInv(NextBatch(Top)) /\ Same(Top, NextBatch(Top)) /\ NextBatch(Top).q = Top.q
    BY <1>1, <1>2, <2>1, NextBatchOK DEF Working
  <2> QED BY <1>1, <1>3, <2>2, SetTopOK DEF LiveIn
<1>4. CASE SetTop([Top EXCEPT !.at = "polling"])
  <2>1. PICK f : f = Top
    OBVIOUS
  <2>2. f.at \in Working /\ {} \in SUBSET (1..f.mc) /\ "polling" \in Working /\ "polling" \notin {"sending", "serving"}
    BY <1>1, <2>1 DEF Working
  <2>3. FrameInv(Now(f, "polling", {})) /\ Same(f, Now(f, "polling", {})) /\ Now(f, "polling", {}).q = f.q
    BY <1>2, <2>1, <2>2, GoesOn
  <2>4. SetTop(Now(f, "polling", {}))
    <3>1. Now(f, "polling", {}) = [f EXCEPT !.at = "polling"]
      BY <1>1, <1>2, <2>1 DEF Now, Frame
    <3> QED BY <1>4, <2>1, <3>1
  <2> QED BY <1>1, <2>1, <2>3, <2>4, SetTopOK DEF LiveIn
<1> QED BY <1>3, <1>4 DEF Timed

LEMMA JudgeKeeps == ASSUME IInv, Judge PROVE IInv'
<1>1. /\ stack # <<>> /\ Top.cur.i # 0 /\ Top.cur.ns = <<>> /\ SetTop(Judged(Top))
      /\ UNCHANGED <<open, global, had, outcome>>
  BY DEF Judge
<1>2. FrameInv(Top) /\ global \in Configs
  BY <1>1, Inside DEF IInv
<1>3. FrameInv(Judged(Top)) /\ Same(Top, Judged(Top)) /\ LiveIn(Judged(Top)) = LiveIn(Top)
  BY <1>1, <1>2, JudgedOK
<1> QED BY <1>1, <1>3, SetTopOK

LEMMA StartKeeps == ASSUME IInv, Start PROVE IInv'
<1>1. stack = <<>> /\ UNCHANGED <<open, global>>
  BY DEF Start
<1>2. PICK status \in InCache[Question], type \in Types, up \in UpSets :
        /\ had' = status
        /\ Call(<<>>, "top", Question, type, MaxHops, status, Configured(up))
  BY DEF Start
<1>3. PICK s : s = <<>>
  OBVIOUS
<1>4. Chain(s) /\ global \in Configs /\ outcome \in Outcomes /\ IsFiniteSet(OpenIn(s)) /\ open = Cardinality(OpenIn(s))
  BY <1>1, <1>3 DEF IInv, Outcomes
<1>5. status \in Statuses /\ Question \in Names
  BY NamesTyped
<1>6. MaxHops \in Nat /\ MaxHops <= MaxHops - Len(s) /\ "top" \in Kinds /\ "top" # "name"
  BY <1>3, BoundsNat DEF Kinds
<1>7. PICK q : q = Configured(up)
  OBVIOUS
<1>8. Fresh(q)
  BY <1>4, <1>7, ConfiguredOK
<1>9. Call(s, "top", Question, type, MaxHops, status, q)
  BY <1>2, <1>3, <1>7
<1>10. Carried(s)
  BY <1>3, <1>4, <1>5, <1>6, <1>8, <1>9, CallOK
<1> QED BY <1>1, <1>2, <1>4, <1>5, <1>10, CarriedOK

LEMMA LookUpServerKeeps == ASSUME IInv, LookUpServer PROVE IInv'
<1>1. stack # <<>> /\ Top.cur.i # 0 /\ Top.cur.ns # <<>> /\ UNCHANGED <<open, global, had>>
  BY DEF LookUpServer
<1>2. PICK s, f, name : s = stack /\ f = Top /\ name = Head(Top.cur.ns)
  OBVIOUS
<1>3. /\ Chain(s) /\ s # <<>> /\ FrameInv(f) /\ f = LastOf(s) /\ f \in Frame /\ f.cur \in Judging
      /\ f.hops \in Nat /\ f.hops > 0 /\ f.hops <= MaxHops - (Len(s) - 1) /\ Len(s) \in Nat
  BY <1>1, <1>2, Inside, FrameParts DEF FrameInv, HopsLeft
<1>4. name \in Names /\ Tail(f.cur.ns) \in Seq(Names)
  BY <1>1, <1>2, <1>3 DEF Judging
<1>5. CASE BeingResolved(stack, name)
  <2>1. SetTop([Top EXCEPT !.cur.ns = Tail(@)]) /\ UNCHANGED outcome
    BY <1>2, <1>5 DEF LookUpServer
  <2>2. PICK c : c = [f.cur EXCEPT !.ns = Tail(f.cur.ns)]
    OBVIOUS
  <2>3. c \in Judging /\ c.i = f.cur.i /\ c.serv = f.cur.serv
    BY <1>3, <1>4, <2>2 DEF Judging
  <2>4. PICK g : g = [f EXCEPT !.cur = c]
    OBVIOUS
  <2>5. SetTop(g)
    <3>1. [f EXCEPT !.cur.ns = Tail(@)] = [f EXCEPT !.cur = c]
      BY <1>3, <2>2 DEF Frame, Judging
    <3> QED BY <1>2, <2>1, <2>4, <3>1
  <2>6. /\ g \in Frame /\ g.q = f.q /\ g.at = f.at /\ g.todo = f.todo /\ g.cur = c /\ g.mc = f.mc /\ g.j = f.j
        /\ g.saved = f.saved /\ g.seen = f.seen /\ g.hops = f.hops /\ Same(f, g)
    BY <1>3, <2>3, <2>4 DEF Frame, Same
  <2>7. Counters(g)
    BY <1>3, <2>3, <2>6 DEF FrameInv, Counters
  <2>8. Begun(g)
    BY <1>1, <1>2, <1>3, <2>3, <2>6 DEF FrameInv, Begun, Working
  <2>9. Best(g) /\ HopsLeft(g)
    BY <1>3, <2>3, <2>6 DEF FrameInv, Best, HopsLeft
  <2>10. FrameInv(g) /\ LiveIn(g) = LiveIn(f)
    BY <2>6, <2>7, <2>8, <2>9 DEF FrameInv, LiveIn
  <2> QED BY <1>1, <1>2, <2>1, <2>5, <2>6, <2>10, SetTopOK
<1>6. CASE ~BeingResolved(stack, name)
  <2>1. PICK status \in InCache[name], up \in UpSets :
          Call(stack, "name", name, "A", Top.hops - 1, status, Configured(up))
    BY <1>2, <1>6 DEF LookUpServer
  <2>2. PICK q, hops : q = Configured(up) /\ hops = f.hops - 1
    OBVIOUS
  <2>3. Call(s, "name", name, "A", hops, status, q)
    BY <1>2, <2>1, <2>2
  <2>4. status \in Statuses
    BY <1>4, NamesTyped
  <2>5. global \in Configs /\ outcome \in Outcomes /\ IsFiniteSet(OpenIn(s)) /\ open = Cardinality(OpenIn(s))
    BY <1>2 DEF IInv, Outcomes
  <2>6. Fresh(q)
    BY <2>2, <2>5, ConfiguredOK
  <2>7. hops \in Nat /\ hops <= MaxHops - Len(s)
    BY <1>3, <2>2, BoundsNat
  <2>8. \A d \in DOMAIN s : ~(s[d].name = name /\ s[d].type = "A")
    BY <1>2, <1>6 DEF BeingResolved
  <2>9. Awaits(LastOf(s), "name") /\ "name" \in Kinds /\ "A" \in Types \cup {"A"}
    BY <1>1, <1>2, <1>3 DEF Awaits, Kinds
  <2>10. Carried(s)
    BY <1>3, <1>4, <2>3, <2>4, <2>5, <2>6, <2>7, <2>8, <2>9, CallOK
  <2>11. open' = Cardinality(OpenIn(s)) /\ global' \in Configs /\ had' \in Statuses
    BY <1>1, <2>5 DEF IInv
  <2> QED BY <2>5, <2>10, <2>11, CarriedOK
<1> QED BY <1>5, <1>6

(* The running activation has closed what it opened and returns.                       *)
LEMMA ReturnKeeps ==
  ASSUME IInv, stack # <<>>, NEW res, ResOK(res), Return(res), UNCHANGED <<global, had>>,
         open' = open - Cardinality(LiveIn(Top))
  PROVE  IInv'
<1>1. PICK s, f : s = stack /\ f = Top
  OBVIOUS
<1>2. Chain(s) /\ s # <<>> /\ f = LastOf(s) /\ f.name \in Names /\ f.kind \in Kinds /\ f.kept \in BOOLEAN
  BY <1>1, Inside
<1>3. IsFiniteSet(OpenIn(s)) /\ open = Cardinality(OpenIn(s)) /\ outcome \in Outcomes
      /\ global' \in Configs /\ had' \in Statuses
  BY <1>1 DEF IInv, Outcomes
<1>4. PICK below, got : below = BelowIn(s) /\ got = IF res.rc = "SERVFAIL" THEN Failed(f.kept) ELSE res
  OBVIOUS
<1>5. Chain(below) /\ (below # <<>> => Awaits(LastOf(below), f.kind))
  BY <1>2, <1>4, ChainPop
<1>6. ResOK(got)
  BY <1>2, <1>4, ResTyped
<1>7. Deliver(below, f.kind, f.name, got)
  BY <1>1, <1>4 DEF Return, Below, BelowIn
<1>8. Carried(below)
  BY <1>2, <1>3, <1>5, <1>6, <1>7, DeliverOK
<1>9. PICK rest : rest = OpenIn(s) \ ({Len(s)} \X LiveIn(LastOf(s)))
  OBVIOUS
<1>10. /\ IsFiniteSet(rest) /\ Cardinality(rest) = Cardinality(OpenIn(s)) - Cardinality(LiveIn(LastOf(s)))
       /\ OpenIn(BelowIn(s)) = rest
  BY <1>2, <1>3, <1>9, CloseCounts
<1>11. IsFiniteSet(OpenIn(below)) /\ open' = Cardinality(OpenIn(below))
  BY <1>1, <1>2, <1>3, <1>4, <1>10
<1> QED BY <1>3, <1>8, <1>11, CarriedOK

LEMMA FinishKeeps == ASSUME IInv, Finish PROVE IInv'
<1>1. /\ stack # <<>> /\ Top.at = "ending" /\ open' = open - Cardinality(Cancelled(Top))
      /\ UNCHANGED <<global, had>>
  BY DEF Finish, Running
<1>2. PICK s, f : s = stack /\ f = Top
  OBVIOUS
<1>3. /\ Chain(s) /\ s # <<>> /\ FrameInv(f) /\ f = LastOf(s) /\ f \in Frame /\ f.name \in Names /\ f.hops \in Nat
      /\ f.type \in Types \cup {"A"} /\ f.rv \in ReturnCodes /\ f.saved \in Answer
      /\ f.hops <= MaxHops - (Len(s) - 1) /\ Len(s) \in Nat
  BY <1>1, <1>2, Inside, FrameParts
<1>4. /\ FrameInv(Closed(f)) /\ Same(f, Closed(f)) /\ Closed(f).at = "ending"
      /\ LiveIn(Closed(f)) = {} /\ Cancelled(f) = LiveIn(f)
  BY <1>1, <1>2, <1>3, ClosedOK
<1>5. open' = open - Cardinality(LiveIn(Top))
  BY <1>1, <1>2, <1>4
<1>6. CASE /\ Top.saved.i # 0 /\ Top.saved.serv # <<>>
           /\ \E status \in InCache[Top.name] :
                Call([stack EXCEPT ![Len(stack)] = Closed(Top)], "follow", Top.name, Top.type, Top.hops - 1,
                     status, Referred(Top))
  <2>1. PICK status \in InCache[Top.name] :
          Call([stack EXCEPT ![Len(stack)] = Closed(Top)], "follow", Top.name, Top.type, Top.hops - 1,
               status, Referred(Top))
    BY <1>6
  <2>2. PICK t, q, hops : t = WithLast(s, Closed(f)) /\ q = Referred(f) /\ hops = f.hops - 1
    OBVIOUS
  <2>3. Call(t, "follow", f.name, f.type, hops, status, q)
    BY <1>2, <2>1, <2>2 DEF WithLast
  <2>4. status \in Statuses
    BY <1>2, <1>3, NamesTyped
  <2>5. global \in Configs /\ outcome \in Outcomes /\ IsFiniteSet(OpenIn(s)) /\ open = Cardinality(OpenIn(s))
        /\ global' \in Configs /\ had' \in Statuses
    BY <1>1, <1>2 DEF IInv, Outcomes
  <2>6. Fresh(q)
    BY <1>2, <1>3, <1>6, <2>2, <2>5, ReferredOK
  <2>7. Chain(t) /\ t # <<>> /\ LastOf(t) = Closed(f)
    BY <1>3, <1>4, <2>2, ChainSet
  <2>8. Len(t) = Len(s)
    BY <1>3, <2>2 DEF WithLast, Chain
  <2>9. hops \in Nat /\ hops <= MaxHops - Len(t)
    <3>1. f.hops > 0
      BY <1>2, <1>3, <1>6 DEF FrameInv, HopsLeft
    <3> QED BY <1>3, <2>2, <2>8, <3>1, BoundsNat
  <2>10. Awaits(LastOf(t), "follow") /\ "follow" \in Kinds /\ "follow" # "name"
    BY <1>4, <2>7 DEF Awaits, Kinds
  <2>11. Carried(t)
    BY <1>3, <2>3, <2>4, <2>5, <2>6, <2>7, <2>9, <2>10, CallOK
  <2>12. PICK rest : rest = OpenIn(s) \ ({Len(s)} \X LiveIn(LastOf(s)))
    OBVIOUS
  <2>13. /\ IsFiniteSet(rest) /\ Cardinality(rest) = Cardinality(OpenIn(s)) - Cardinality(LiveIn(LastOf(s)))
         /\ OpenIn(t) = rest
    BY <1>3, <1>4, <2>2, <2>5, <2>12, CloseCounts
  <2>14. IsFiniteSet(OpenIn(t)) /\ open' = Cardinality(OpenIn(t))
    BY <1>2, <1>3, <1>5, <2>5, <2>13
  <2> QED BY <2>5, <2>11, <2>14, CarriedOK
<1>7. CASE Return(Res("OK", Top.saved.neg, Top.saved.has))
  <2>1. ResOK(Res("OK", Top.saved.neg, Top.saved.has))
    BY <1>2, <1>3, ResTyped DEF Answer, ReturnCodes
  <2> QED BY <1>1, <1>5, <1>7, <2>1, ReturnKeeps
<1>8. CASE Return(Res(Top.rv, FALSE, FALSE))
  <2>1. ResOK(Res(Top.rv, FALSE, FALSE))
    BY <1>2, <1>3, ResTyped
  <2> QED BY <1>1, <1>5, <1>8, <2>1, ReturnKeeps
<1> QED BY <1>6, <1>7, <1>8 DEF Finish

LEMMA FollowedKeeps == ASSUME IInv, Followed PROVE IInv'
<1>1. stack # <<>> /\ Top.at = "followed" /\ UNCHANGED <<open, global, had>>
  BY DEF Followed, Running
<1>2. FrameInv(Top) /\ Top.rv \in ReturnCodes /\ Top \in Frame
  BY <1>1, Inside
<1>3. open' = open - Cardinality(LiveIn(Top))
  <2>1. LiveIn(Top) = {}
    BY <1>1, <1>2 DEF FrameInv, Begun
  <2>2. open \in Nat /\ Cardinality({}) = 0
    BY FS_EmptySet, FS_CardinalityType DEF IInv
  <2> QED BY <1>1, <2>1, <2>2
<1>4. ResOK(Res(Top.rv, Top.cur.neg, Top.cur.has)) /\ ResOK(Res("OK", Top.saved.neg, Top.saved.has))
  BY <1>2, ResTyped DEF Frame, Judging, Answer, ReturnCodes
<1>5. \/ Return(Res(Top.rv, Top.cur.neg, Top.cur.has))
      \/ Return(Res("OK", Top.saved.neg, Top.saved.has))
  BY DEF Followed
<1> QED BY <1>1, <1>3, <1>4, <1>5, ReturnKeeps

-----------------------------------------------------------------------------
(* The theorems                                                              *)

LEMMA InitHolds == Init => IInv
<1> SUFFICES ASSUME Init PROVE IInv
  OBVIOUS
<1>1. stack = <<>> /\ open = 0 /\ global \in Configs /\ had \in Statuses /\ outcome \in ReturnCodes \cup {"none"}
  BY DEF Init, Statuses
<1>2. Chain(stack)
  BY <1>1 DEF Chain, Apart
<1>3. OpenIn(stack) = {}
  BY <1>1 DEF OpenIn
<1> QED BY <1>1, <1>2, <1>3, FS_EmptySet DEF IInv

LEMMA StepKeeps == IInv /\ [Next]_vars => IInv'
<1> SUFFICES ASSUME IInv, [Next]_vars PROVE IInv'
  OBVIOUS
<1>1. CASE Start
  BY <1>1, StartKeeps
<1>2. CASE SendNext \/ HandleNext \/ RetryUdp
  BY <1>2, ExecKeeps DEF SendNext, HandleNext, RetryUdp
<1>3. CASE PollEvents \/ PollFails \/ PollTimesOut \/ Timed
  BY <1>3, PollEventsKeeps, PollFailsKeeps, PollTimesOutKeeps, TimedKeeps
<1>4. CASE LookUpServer
  BY <1>4, LookUpServerKeeps
<1>5. CASE Judge
  BY <1>5, JudgeKeeps
<1>6. CASE Finish \/ Followed
  BY <1>6, FinishKeeps, FollowedKeeps
<1>7. CASE UNCHANGED vars
  BY <1>7 DEF IInv, vars
<1> QED BY <1>1, <1>2, <1>3, <1>4, <1>5, <1>6, <1>7 DEF Next

LEMMA Inductive == Spec => []IInv
BY InitHolds, StepKeeps, PTL DEF Spec

(* However long the chain of referrals and of servers to look up, the activations, the  *)
(* queries and the results are what p_recursive_query expects, and the activations are  *)
(* no more than its hops allow.                                                         *)
THEOREM TypeCorrect == Spec => []TypeOK
<1>1. IInv => TypeOK
  <2> SUFFICES ASSUME IInv PROVE TypeOK
    OBVIOUS
  <2>1. open \in Nat
    BY FS_CardinalityType DEF IInv
  <2>2. ASSUME NEW d \in DOMAIN stack PROVE FrameOK(stack[d]) /\ stack[d].hops <= MaxHops - (d - 1)
    <3>1. PICK f : f = stack[d]
      OBVIOUS
    <3>2. FrameInv(f) /\ f \in Frame /\ f.hops <= MaxHops - (d - 1) /\ d \in Nat \ {0} /\ f.hops \in Nat
      BY <3>1, FrameParts DEF IInv, Chain, FrameInv
    <3>3. f.hops \in 0..MaxHops
      BY <3>2, BoundsNat
    <3>4. \A i \in DOMAIN f.q : QueryOK(f.q[i])
      <4>1. \A i \in DOMAIN f.q : f.q[i] \in Query
        BY <3>2, FrameParts
      <4> QED BY <4>1 DEF Query, QueryOK, States
    <3> QED BY <3>1, <3>2, <3>3, <3>4 DEF FrameOK, FrameInv, Frame, Counters, Working
  <2> QED BY <2>1, <2>2 DEF TypeOK, IInv
<1> QED BY <1>1, Inductive, PTL

(* save_query_result: of the answers that do not satisfy, in whatever order they come,  *)
(* none that is better than the one taken is dropped.                                   *)
THEOREM BestIsTaken == Spec => []BestAnswerWins
<1>1. IInv => BestAnswerWins
  BY DEF IInv, Chain, FrameInv, Best, BestAnswerWins, Working
<1> QED BY <1>1, Inductive, PTL

(* p_recursive_query: whatever way an activation ends, its sockets are closed, and none *)
(* looks up what one above it is looking up already.                                    *)
THEOREM NothingLeftOpen == Spec => []ActivationsNest
<1>1. IInv => ActivationsNest
  <2> SUFFICES ASSUME IInv PROVE ActivationsNest
    OBVIOUS
  <2>1. SocketsAreQueries
    BY DEF IInv, OpenIn, SocketsAreQueries
  <2>2. NoCycle
    BY DEF IInv, Chain, Apart, NoCycle
  <2> QED BY <2>1, <2>2 DEF ActivationsNest
<1> QED BY <1>1, Inductive, PTL
=============================================================================
