------------------------------- MODULE DnsQuery -------------------------------
(***************************************************************************)
(* How a thread of pdnsd resolves a name (dns_query.c).  p_recursive_query *)
(* asks the servers of a list, par_queries at a time, over UDP or TCP; it  *)
(* polls those that have not answered, keeps the best answer that does not *)
(* satisfy, and moves on to more servers when the poll times out.  An      *)
(* answer without the records asked for makes auth_ok resolve the names of *)
(* the servers it points to and the thread asks those for the same name,   *)
(* so activations of p_recursive_query nest: stack holds them, the running *)
(* one last, each with the call it waits for.  hops bounds the nesting.    *)
(*                                                                         *)
(* Left out: replies that arrive the moment a query is written, poll       *)
(* events on no socket, exhausted memory, root servers found in the cache, *)
(* reject lists, delegation-only zones, paranoid mode, local NS records    *)
(* and IPv6.  What the cache holds is given by InCache (module DnsCache),  *)
(* which servers are up by UpSets (module NameServers).                    *)
(***************************************************************************)
EXTENDS Integers, Sequences, FiniteSets

CONSTANTS Question, Types,  \* the name to resolve; the types it may be asked for
          UpSets,           \* the addresses that may be up
          AddrsOf,          \* the addresses of each name of a server
          Answers,          \* the replies each address may send
          InCache,          \* what the cache may hold for each name
          MaxHops,          \* bound: MAXHOPS
          Configs           \* what the configuration may hold: the servers, par_queries, query_method
                            \* and whether the global timeout exceeds those of the servers

Names == DOMAIN InCache
Addrs == DOMAIN Answers

Methods    == {"udp_only", "tcp_only", "udp_tcp", "tcp_udp"}
ReplyCodes == {"OK", "NAMEERR", "SERVFAIL", "REFUSED", "FORMAT", "BAD"}
(* lookup_cache_status: nothing or a record that timed out, one that did and is kept,  *)
(* one that need not be asked for, a local negation.                                   *)
Statuses   == {"none", "kept", "fresh", "negated"}

ASSUME BoundsNat    == MaxHops \in Nat
ASSUME ConfigsTyped ==
  Configs \subseteq [servers : Seq([a : Addrs, nt : 0..2, edns : BOOLEAN]),
                     par : Nat \ {0}, method : Methods, long : BOOLEAN]
ASSUME RepliesTyped ==
  \A a \in Addrs : Answers[a] \subseteq [rcode : ReplyCodes, aa : BOOLEAN, tc : BOOLEAN, ra : BOOLEAN,
                                       has : BOOLEAN, sub : BOOLEAN, ns : Seq(Names)]
ASSUME NamesTyped ==
  Question \in Names /\ \A n \in Names : AddrsOf[n] \in Seq(Addrs) /\ InCache[n] \subseteq Statuses

VARIABLES stack,          \* the activations of p_recursive_query
          open,           \* the sockets of queries that are open
          global,         \* the configuration in use
          had,            \* what the cache held for the question
          outcome         \* what the resolution returned, or "none"
vars == <<stack, open, global, had, outcome>>

Top        == stack[Len(stack)]
Below      == SubSeq(stack, 1, Len(stack) - 1)
SetTop(f)  == stack' = [stack EXCEPT ![Len(stack)] = f]
Resolved   == {"OK", "CACHED", "STALE"}
Least(S)   == CHOOSE i \in S : \A k \in S : i <= k

(* The members of a sequence that are in S, in their order. *)
Those(seq, S) ==
  LET those[n \in 0..Len(seq)] ==
        IF n = 0 THEN <<>>
        ELSE IF seq[n] \in S THEN Append(those[n - 1], seq[n]) ELSE those[n - 1]
  IN  those[Len(seq)]

NoAnswer == [i |-> 0, neg |-> FALSE, has |-> FALSE, qual |-> 0, serv |-> <<>>]
NoReply  == [i |-> 0, neg |-> FALSE, has |-> FALSE, auth |-> "no", ns |-> <<>>, serv |-> <<>>]

(* add_qserv                                                                *)
NewQuery(a, auth, nt, edns) ==
  [srv |-> a, st |-> "initial", qm |-> global.method, rd |-> TRUE, edns |-> edns, failed |-> 0,
   aa |-> FALSE, tc |-> FALSE, ra |-> FALSE, auth |-> auth, nt |-> nt]

NewFrame(kind, name, type, hops, kept, q) ==
  LET mc == IF global.par < Len(q) THEN global.par ELSE Len(q)
  IN  [kind |-> kind, name |-> name, type |-> type, hops |-> hops, kept |-> kept, q |-> q,
       j |-> 1, mc |-> mc, at |-> "sending", todo |-> 1..mc, retried |-> FALSE, rv |-> "SERVFAIL",
       cur |-> NoReply, saved |-> NoAnswer, late |-> {}, heard |-> {}, seen |-> {}]

Init == global \in Configs /\ stack = <<>> /\ open = 0 /\ had = "none" /\ outcome = "none"

-----------------------------------------------------------------------------
(* One query: p_query_sm. *)
Live(qs)      == qs.st \in {"tcpwrite", "tcpread", "tcpbody", "udpreceive"}
UseUdp(qs)    == qs.qm \in {"udp_only", "udp_tcp"}
Tentative(qs) == qs.qm = "tcp_udp" /\ qs.st \in {"tcpwrite", "tcpread"}

SwitchToUdp(qs) == [qs EXCEPT !.qm = "udp_only", !.st = "initial"]
SwitchToTcp(qs) == [qs EXCEPT !.qm = "tcp_only", !.st = "initial", !.failed = 0, !.rd = TRUE]

Step(qs, st, rv) == [qs |-> [qs EXCEPT !.st = st], rv |-> rv]
(* An error ends the query; one that says the server cannot be reached marks it down. *)
Fails(qs)        == {Step([qs EXCEPT !.nt = n], "done", "SERVFAIL") : n \in {qs.nt, 0}}
Waits(qs, S)     == {Step(qs, st, "AGAIN") : st \in S}
SendUdp(qs)      == Waits(qs, {"udpreceive"}) \cup Fails(qs)
(* tcp_failed: a server that refuses TCP is asked over UDP.                            *)
TcpFailed(qs)    == IF qs.qm = "tcp_udp" THEN SendUdp([qs EXCEPT !.qm = "udp_only"]) ELSE Fails(qs)
SendTcp(qs)      == Waits(qs, {"tcpwrite", "tcpread"}) \cup TcpFailed(qs) \cup Fails(qs)
Send(qs)         == IF UseUdp(qs) THEN SendUdp(qs) ELSE SendTcp(qs)

p_query_sm(qs) ==
  CASE qs.st = "initial"    -> Send(qs)
    [] qs.st = "tcpwrite"   -> SendTcp(qs)
    [] qs.st = "tcpread"    -> Waits(qs, {"tcpread", "tcpbody"}) \cup {Step(qs, "done", "REPLY")} \cup TcpFailed(qs)
    [] qs.st = "tcpbody"    -> Waits(qs, {"tcpbody"}) \cup {Step(qs, "done", "REPLY")} \cup TcpFailed(qs)
    [] qs.st = "udpreceive" -> Waits(qs, {"udpreceive"}) \cup {Step(qs, "done", "REPLY")} \cup Fails(qs)

(* p_exec_query.  Its results: the query, the return code, what an answer says, and    *)
(* whether the server was heard.                                                       *)
Result(qs, rv, heard) == [qs |-> qs, rv |-> rv, heard |-> heard, neg |-> FALSE, has |-> FALSE, ns |-> <<>>, sub |-> FALSE]

WithFlags(qs, r) == [qs EXCEPT !.aa = r.aa /\ qs.failed = 0, !.tc = r.tc, !.ra = qs.rd /\ r.ra]
(* A domain that does not exist is remembered if the server is authoritative.          *)
NameError(qs) == [Result(qs, IF qs.aa THEN "OK" ELSE "NAMEERR", TRUE) EXCEPT !.neg = qs.aa]
(* The servers named in the answer and authority sections, unless a server failed.     *)
NsList(qs, r) == IF qs.failed <= 1 THEN r.ns ELSE <<>>
Sections(qs, r) == [Result(qs, "OK", TRUE) EXCEPT !.has = r.has, !.sub = r.sub, !.ns = NsList(qs, r)]
Read(qs, r) == IF r.rcode = "NAMEERR" THEN NameError(WithFlags(qs, r)) ELSE Sections(WithFlags(qs, r), r)

Resent(qs)             == {Result(s.qs, s.rv, TRUE) : s \in Send(qs)}
NoRecursion(qs, r)     == r.rcode \in {"SERVFAIL", "REFUSED"} /\ qs.rd /\ ~r.ra
NoEdns(qs, r)          == r.rcode \in {"REFUSED", "FORMAT"} /\ qs.edns
FailedButAnswers(qs,r) == r.rcode \in {"SERVFAIL", "REFUSED"} /\ r.has /\ qs.auth = 2

Replied(qs, r) ==
  CASE r.rcode \in {"OK", "NAMEERR"} -> {Read(qs, r)}
    [] NoRecursion(qs, r)            -> Resent([qs EXCEPT !.rd = FALSE])
    [] ~NoRecursion(qs, r) /\ NoEdns(qs, r) -> Resent([qs EXCEPT !.edns = FALSE])
    [] ~NoRecursion(qs, r) /\ ~NoEdns(qs, r) /\ FailedButAnswers(qs, r) -> {Read([qs EXCEPT !.failed = 3], r)}
    [] OTHER                         -> {Result(qs, r.rcode, TRUE)}

Discarded(qs) == {Result(qs, "SERVFAIL", FALSE)}
(* A reply with a proper header: its server is up.                                     *)
Received(qs, r) == IF r.rcode = "BAD" THEN Discarded(qs) ELSE Replied([qs EXCEPT !.nt = 0], r)

p_exec_query(qs) ==
  UNION {IF s.rv = "REPLY" THEN UNION {Received(s.qs, r) : r \in Answers[qs.srv]}
                           ELSE {Result(s.qs, s.rv, FALSE)} : s \in p_query_sm(qs)}

Sockets(qs) == IF Live(qs) THEN 1 ELSE 0

-----------------------------------------------------------------------------
(* Calls: p_dns_cached_resolve with the servers of the configuration (p_dns_resolve)   *)
(* or with those of a referral, and what its caller makes of the result.               *)
Res(rc, neg, has) == [rc |-> rc, neg |-> neg, has |-> has]

(* The activations for the same name from which this one follows.                      *)
QueriesFor(s) == {s[d].q : d \in {e \in DOMAIN s : \A k \in (e + 1)..Len(s) : s[k].kind = "follow"}}
AlreadyAsked(s, a) == \E q \in QueriesFor(s) : \E i \in DOMAIN q : q[i].st = "done" /\ q[i].srv = a

(* auth_ok: the addresses found for a server's name join the list.                     *)
WithAddresses(s, name, res) ==
  LET f == s[Len(s)]
      new   == {a \in Addrs : ~AlreadyAsked(s, a) /\ \A i \in DOMAIN f.cur.serv : f.cur.serv[i] # a}
      found == IF res.rc \in Resolved /\ ~res.neg /\ res.has THEN Those(AddrsOf[name], new) ELSE <<>>
  IN  [f EXCEPT !.cur.ns = Tail(@), !.cur.serv = @ \o found]

Deliver(s, kind, name, res) ==
  \/ s = <<>> /\ stack' = s /\ outcome' = res.rc
  \/ /\ s # <<>> /\ UNCHANGED outcome
     /\ stack' = [s EXCEPT ![Len(s)] = IF kind = "name" THEN WithAddresses(s, name, res)
                    ELSE [s[Len(s)] EXCEPT !.at = "followed", !.rv = res.rc, !.cur = [NoReply EXCEPT !.neg = res.neg, !.has = res.has]]]

(* A record kept although it timed out stands in for a server's failure.               *)
Failed(kept) == Res(IF kept THEN "STALE" ELSE "SERVFAIL", FALSE, kept)

Call(s, kind, name, type, hops, status, q) ==
  \/ status = "fresh"   /\ Deliver(s, kind, name, Res("CACHED", FALSE, TRUE))
  \/ status = "negated" /\ Deliver(s, kind, name, Res("NAMEERR", FALSE, FALSE))
  \/ status \in {"none", "kept"} /\ q = <<>> /\ Deliver(s, kind, name, Failed(status = "kept"))
  \/ /\ status \in {"none", "kept"} /\ q # <<>>
     /\ stack' = Append(s, NewFrame(kind, name, type, hops, status = "kept", q)) /\ UNCHANGED outcome

Configured(up) == LET p == Those(global.servers, [a : up, nt : 0..2, edns : BOOLEAN])
                  IN  [i \in DOMAIN p |-> NewQuery(p[i].a, 1, p[i].nt, p[i].edns)]
Referred(f) == [i \in DOMAIN f.saved.serv |-> NewQuery(f.saved.serv[i], 2, 0, f.q[f.saved.i].edns)]

Return(res) == Deliver(Below, Top.kind, Top.name, IF res.rc = "SERVFAIL" THEN Failed(Top.kept) ELSE res)

Start == /\ had = "none" /\ outcome = "none" /\ stack = <<>>
         /\ \E status \in InCache[Question], type \in Types, up \in UpSets :
              /\ had' = status
              /\ Call(<<>>, "top", Question, type, MaxHops, status, Configured(up))
         /\ UNCHANGED <<open, global>>

-----------------------------------------------------------------------------
(* p_recursive_query.                                                                  *)
Active(f)    == {k \in 1..f.mc : f.q[k].st # "done"}
NextBatch(f) == IF f.mc = Len(f.q) THEN [f EXCEPT !.at = "ending"]
                ELSE LET mc == IF f.mc + global.par < Len(f.q) THEN f.mc + global.par ELSE Len(f.q)
                     IN  [f EXCEPT !.j = f.mc + 1, !.mc = mc, !.at = "sending", !.todo = (f.mc + 1)..mc]
(* After the last query of a pass: poll the active ones, or move on.                   *)
Settle(f) == IF f.todo # {} \/ f.cur.i # 0 \/ f.at \notin {"sending", "serving"} THEN f
             ELSE IF Active(f) # {} THEN [f EXCEPT !.at = "polling"] ELSE NextBatch(f)
Give(f, rv, a) == [f EXCEPT !.at = "ending", !.todo = {}, !.cur = NoReply, !.rv = rv, !.saved = a]

(* auth_ok: is the answer good as it is, or which servers are to be asked?             *)
AnswerWanted(f, qs, e) == qs.auth > 0 /\ ~e.neg /\ (f.type = "ANY" \/ ~e.has)
AuthTrusted(qs, e)     == qs.aa /\ (qs.auth # 2 \/ e.ns = <<>> \/ ~e.sub)
NeedsServers(f, qs, e) == AnswerWanted(f, qs, e) /\ ~AuthTrusted(qs, e)
Reply(f, i, e) ==
  [i |-> i, neg |-> e.neg, has |-> e.has, serv |-> <<>>,
   auth |-> IF e.qs.failed <= 1 /\ ~NeedsServers(f, e.qs, e) THEN "yes" ELSE "no",
   ns   |-> IF e.qs.failed <= 1 /\ NeedsServers(f, e.qs, e) /\ f.hops > 0 THEN e.ns ELSE <<>>]

Heard(f, i, e) == [f EXCEPT !.q[i] = e.qs, !.rv = e.rv, !.heard = IF e.heard THEN @ \cup {i} ELSE @]
Executed(f, i, e) ==
  CASE e.rv = "OK"      -> [Heard(f, i, e) EXCEPT !.cur = Reply(f, i, e)]
    [] e.rv = "NAMEERR" -> Give(Heard(f, i, e), "NAMEERR", NoAnswer)
    [] OTHER            -> Settle([Heard(f, i, e) EXCEPT !.todo = @ \ {i}])

Running(at) == stack # <<>> /\ Top.at = at /\ Top.cur.i = 0

(* The next query of the pass is sent, or its event is handled.                        *)
Exec(at) == /\ Running(at) /\ Top.todo # {}
            /\ LET i == Least(Top.todo)
                   qs == IF at = "timing" THEN SwitchToUdp(Top.q[i]) ELSE Top.q[i]
               IN \E e \in p_exec_query(qs) :
                    /\ SetTop(Executed(Top, i, e))
                    /\ open' = open + Sockets(e.qs) - Sockets(Top.q[i])
            /\ UNCHANGED <<global, had, outcome>>
SendNext   == Exec("sending")
HandleNext == Exec("serving")
RetryUdp   == Exec("timing")

PollEvents == /\ Running("polling")
              /\ \E E \in SUBSET Active(Top) \ {{}} : SetTop([Top EXCEPT !.at = "serving", !.todo = E])
              /\ UNCHANGED <<open, global, had, outcome>>
PollFails  == Running("polling") /\ SetTop(Give(Top, "SERVFAIL", NoAnswer)) /\ UNCHANGED <<open, global, had, outcome>>

(* Servers of this batch that have not answered are noted for a test; those tried over *)
(* TCP are asked again over UDP; the rest stay open while more servers are tried.      *)
Silent(f)   == {k \in f.j..f.mc : f.q[k].st # "done"}
Noted(f)    == [k \in DOMAIN f.q |-> IF k \in Silent(f) /\ f.q[k].nt # 0 THEN [f.q[k] EXCEPT !.nt = 2] ELSE f.q[k]]
TimedOut(f) == LET retry == {k \in f.j..f.mc : Tentative(f.q[k])}
               IN  [f EXCEPT !.at = "timing", !.rv = "SERVFAIL", !.q = Noted(f), !.late = @ \cup Silent(f),
                             !.todo = retry, !.retried = retry # {}]
PollTimesOut == Running("polling") /\ SetTop(TimedOut(Top)) /\ UNCHANGED <<open, global, had, outcome>>

(* Mutant: the poll goes on with the same servers as long as the global timeout is long. *)
PollsOn(f) == f.mc = Len(f.q) /\ global.long
(* After the timeouts: the next servers, unless UDP retries may still be answered.     *)
MayPollOn(f) == f.mc = Len(f.q) /\ f.retried /\ global.long /\ Active(f) # {}
Timed == /\ Running("timing") /\ Top.todo = {}
         /\ \/ SetTop(NextBatch(Top))
            \/ MayPollOn(Top) /\ SetTop([Top EXCEPT !.at = "polling"])
         /\ UNCHANGED <<open, global, had, outcome>>

(* Mutant: the names higher up are not passed on. *)
BeingResolvedHere(s, name) == s[Len(s)].name = name /\ s[Len(s)].type = "A"
(* auth_ok looks up the next server's name, unless the name is being resolved already. *)
BeingResolved(s, name) == \E d \in DOMAIN s : s[d].name = name /\ s[d].type = "A"
LookUpServer ==
  /\ stack # <<>> /\ Top.cur.i # 0 /\ Top.cur.ns # <<>>
  /\ LET name == Head(Top.cur.ns)
     IN  IF BeingResolved(stack, name) THEN SetTop([Top EXCEPT !.cur.ns = Tail(@)]) /\ UNCHANGED outcome
         ELSE \E status \in InCache[name], up \in UpSets :
                Call(stack, "name", name, "A", Top.hops - 1, status, Configured(up))
  /\ UNCHANGED <<open, global, had>>

Quality(qs, authok) == (IF authok THEN 8 ELSE 0) + 2 * (3 - qs.failed) + (IF qs.tc THEN 0 ELSE 1)
(* Mutant: the last answer is kept. *)
BetterOrNot(a, old) == TRUE
Better(a, old)      == old.i = 0 \/ a.qual > old.qual
TruncatedUdp(qs)    == qs.qm = "udp_tcp" /\ qs.tc

(* What auth_ok says decides: take the answer, or keep the best one and go on.         *)
Judged(f) ==
  LET c == f.cur
      qs == f.q[c.i]
      authok == c.auth = "yes" \/ c.serv # <<>>
      a == [i |-> c.i, neg |-> c.neg, has |-> c.has, qual |-> Quality(qs, authok), serv |-> c.serv]
      g == [f EXCEPT !.cur = NoReply, !.seen = f.seen \cup {a.qual}]
      kept == [g EXCEPT !.saved = IF Better(a, f.saved) THEN a ELSE f.saved]
  IN  IF authok /\ qs.failed = 0 /\ ~TruncatedUdp(qs) THEN Give(g, "OK", a)
      ELSE IF TruncatedUdp(qs) THEN [kept EXCEPT !.q[c.i] = SwitchToTcp(qs)]
      ELSE Settle([kept EXCEPT !.todo = f.todo \ {c.i}])
Judge == /\ stack # <<>> /\ Top.cur.i # 0 /\ Top.cur.ns = <<>> /\ Top.at # "followed"
         /\ SetTop(Judged(Top)) /\ UNCHANGED <<open, global, had, outcome>>

(* Mutant: only queries of the last batch. *)
CancelledOfBatch(f) == {k \in f.j..f.mc : Live(f.q[k])}
(* cancel_queries: whatever is still under way, of earlier batches too.                *)
Cancelled(f) == {k \in 1..f.mc : Live(f.q[k])}
Closed(f)    == [f EXCEPT !.q = [k \in DOMAIN f.q |-> IF k \in Cancelled(f) THEN [f.q[k] EXCEPT !.st = "canceled"] ELSE f.q[k]]]
Finish ==
  /\ Running("ending")
  /\ open' = open - Cardinality(Cancelled(Top))
  /\ \/ /\ Top.saved.i # 0 /\ Top.saved.serv # <<>>
        /\ \E status \in InCache[Top.name] :
             Call([stack EXCEPT ![Len(stack)] = Closed(Top)], "follow", Top.name, Top.type, Top.hops - 1, status, Referred(Top))
     \/ Top.saved.i # 0 /\ Top.saved.serv = <<>> /\ Return(Res("OK", Top.saved.neg, Top.saved.has))
     \/ Top.saved.i = 0 /\ Return(Res(Top.rv, FALSE, FALSE))
  /\ UNCHANGED <<global, had>>

(* The servers of the authority section were asked.  If they failed, the first answer  *)
(* stands when its server claimed authority or recursion.                              *)
Copied(f)   == f.q[f.saved.i].aa \/ f.q[f.saved.i].ra
Followed == /\ Running("followed")
            /\ IF Top.rv \in {"OK", "CACHED", "NAMEERR"} \/ ~Copied(Top)
               THEN Return(Res(Top.rv, Top.cur.neg, Top.cur.has))
               ELSE Return(Res("OK", Top.saved.neg, Top.saved.has))
            /\ UNCHANGED <<open, global, had>>

Next == \/ Start \/ SendNext \/ HandleNext \/ RetryUdp
        \/ PollEvents \/ PollFails \/ PollTimesOut \/ Timed
        \/ LookUpServer \/ Judge \/ Finish \/ Followed
(* The thread runs, and a poll does not return for ever without timing out: the time   *)
(* left is reckoned from the first poll.                                               *)
Spec == Init /\ [][Next]_vars /\ WF_vars(Next) /\ SF_vars(PollTimesOut)

-----------------------------------------------------------------------------
ReturnCodes == {"OK", "NAMEERR", "SERVFAIL", "REFUSED", "FORMAT", "AGAIN", "CACHED", "STALE"}
QueryOK(qs) == /\ qs.srv \in Addrs /\ qs.failed \in {0, 3} /\ qs.nt \in 0..2 /\ qs.auth \in 1..2
               /\ qs.st \in {"initial", "tcpwrite", "tcpread", "tcpbody", "udpreceive", "done", "canceled"}
FrameOK(f)  == /\ f.at \in {"sending", "polling", "serving", "timing", "ending", "followed"}
               /\ f.hops \in 0..MaxHops /\ f.name \in Names /\ f.rv \in ReturnCodes
               /\ 1 <= f.j /\ f.j <= f.mc /\ f.mc <= Len(f.q) /\ f.todo \subseteq 1..f.mc
               /\ f.saved.i \in 0..f.mc /\ f.cur.i \in 0..f.mc
               /\ \A i \in DOMAIN f.q : QueryOK(f.q[i])

(* The activations, their queries and the results have their types, and no activation  *)
(* is deeper than the hops allow (p_recursive_query, MAXHOPS).                         *)
TypeOK == /\ \A d \in DOMAIN stack : FrameOK(stack[d]) /\ stack[d].hops <= MaxHops - (d - 1)
          /\ open \in Nat /\ global \in Configs /\ had \in Statuses /\ outcome \in ReturnCodes \cup {"none"}

LiveIn(f) == {k \in DOMAIN f.q : Live(f.q[k])}
(* Every open socket belongs to a query under way in some activation: an activation    *)
(* that returns, for whatever reason, leaves none behind (cancel_queries).             *)
SocketsAreQueries == open = Cardinality(UNION {{d} \X LiveIn(stack[d]) : d \in DOMAIN stack})

(* The answer p_recursive_query settles on is no worse than any it received, in        *)
(* whatever order, over UDP or TCP, the replies came (save_query_result).              *)
BestAnswerWins == \A d \in DOMAIN stack :
  LET f == stack[d] IN f.at \in {"ending", "followed"} /\ f.saved.i # 0 => \A v \in f.seen : v <= f.saved.qual

(* No address of a server's name is looked up in the course of looking it up: of the   *)
(* lookups under way, one per name and type (qhlist).                                  *)
NoCycle == \A d, e \in DOMAIN stack :
  d < e /\ stack[e].kind = "name" => ~(stack[d].name = stack[e].name /\ stack[d].type = stack[e].type)

(* p_recursive_query: an activation that returns, however it does, leaves no socket     *)
(* open, and none looks up an address that one above it is looking up.                  *)
ActivationsNest == SocketsAreQueries /\ NoCycle

(* A name is resolved in the end, one way or the other, though servers stay silent,    *)
(* refer to each other or are polled over and over.                                    *)
ResolveEnds == (had # "none") ~> (outcome # "none")

(* A record kept although it timed out is used when no new one is available: a         *)
(* resolution that had one does not end in a server's failure (dns_query.c 3528-3533). *)
KeptIsUsed == had = "kept" => outcome \in Resolved \cup {"NAMEERR", "none"}
=============================================================================
