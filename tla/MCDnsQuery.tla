------------------------------ MODULE MCDnsQuery ------------------------------
(***************************************************************************)
(* Instances of DnsQuery, DnsReply and DnsMessage for TLC: how a name is   *)
(* resolved, how an answer is composed of what was found, and how the      *)
(* answer becomes bytes and is read.  Each behaviour is of one of the      *)
(* three; the others have come to their end.                               *)
(***************************************************************************)
EXTENDS DnsQuery, TLC

VARIABLES asked, at, i, hops, qname, cached, msg, sva, ar,
          w_at, w_asked, w_limit, w_msg, cb, kept, mentioned, extras, opt, sent,
          ptr, nm, cur, left, seen, cents, w_edns, rc

Plain    == [rcode |-> "OK", aa |-> FALSE, tc |-> FALSE, ra |-> FALSE, has |-> FALSE, sub |-> FALSE, ns |-> <<>>]
Good     == [Plain EXCEPT !.ra = TRUE, !.has = TRUE]
Short    == [Good EXCEPT !.tc = TRUE]
Refer(n) == [Plain EXCEPT !.ns = n, !.sub = TRUE]
Lame(n)  == [Refer(n) EXCEPT !.aa = TRUE]
Unknown  == [Plain EXCEPT !.rcode = "NAMEERR"]
NotThere == [Unknown EXCEPT !.aa = TRUE]
Refuses  == [Plain EXCEPT !.rcode = "REFUSED", !.has = TRUE]
Barfs    == [Plain EXCEPT !.rcode = "FORMAT"]
Bad      == [Plain EXCEPT !.rcode = "BAD"]

Server(a, nt, edns) == [a |-> a, nt |-> nt, edns |-> edns]

(* Two servers asked at a time over UDP, and over TCP when the reply was truncated;    *)
(* and two asked one after the other over TCP, and over UDP when that fails.           *)
SomeConfigs == {[servers |-> <<Server("a", 1, FALSE), Server("b", 0, TRUE)>>, par |-> 2, method |-> "udp_tcp", long |-> FALSE],
                [servers |-> <<Server("c", 1, FALSE), Server("d", 1, FALSE)>>, par |-> 1, method |-> "tcp_udp", long |-> TRUE]}
SomeUp      == {{"a", "b", "c", "d"}, {}}
SomeAddrsOf == [q |-> <<>>, m |-> <<"c">>, n |-> <<"c", "a">>]
SomeInCache == [q |-> {"none", "kept"}, m |-> {"fresh", "negated"}, n |-> {"none"}]
SomeAnswers == [a |-> {Short, Refer(<<"m", "n">>)}, b |-> {Barfs, Refer(<<"q", "n">>), Unknown},
                c |-> {Refuses, Bad, Lame(<<"m">>)}, d |-> {Good, NotThere, Refer(<<"m">>)}]
SomeTypes   == {"A"}

(* One server, which may refuse. *)
OneConfig   == {[servers |-> <<Server("b", 1, FALSE)>>, par |-> 1, method |-> "udp_only", long |-> FALSE]}
OneAnswers  == [a |-> {}, b |-> {Refuses, Good}, c |-> {}, d |-> {}]

-----------------------------------------------------------------------------
(* What DnsReply is asked, and what the cache and the servers give. *)
Nothing == [A |-> <<>>, CNAME |-> <<>>, NS |-> <<>>, SOA |-> <<>>, MX |-> <<>>]
Entry(n, rrs) == [rc |-> "OK", name |-> n, local |-> FALSE, rrs |-> rrs, ns |-> "none", soa |-> "none"]
Missing       == [rc |-> "none"]
NoName(soa)   == [rc |-> "NAMEERR", soa |-> soa]
Failure       == [rc |-> "SERVFAIL"]

(* a leads to b and b back to a, or either has addresses, a also from local records;   *)
(* z is the domain of both, with two servers, one of them b.                           *)
AliasA   == Entry("a", [Nothing EXCEPT !["CNAME"] = <<"b">>])
AliasM   == Entry("a", [Nothing EXCEPT !["CNAME"] = <<"m">>, !["NS"] = <<"m">>])
LocalA   == [Entry("a", [Nothing EXCEPT !["CNAME"] = <<"m">>]) EXCEPT !.local = TRUE]
HostB    == [Entry("b", [Nothing EXCEPT !["A"] = <<1, 2>>]) EXCEPT !.ns = "z", !.soa = "z"]
LoopB    == Entry("b", [Nothing EXCEPT !["CNAME"] = <<"a">>])
MailM    == [Entry("m", [Nothing EXCEPT !["MX"] = <<"b">>]) EXCEPT !.ns = "z", !.soa = "z"]
HostM    == [Entry("m", [Nothing EXCEPT !["A"] = <<3>>, !["NS"] = <<"m">>]) EXCEPT !.local = TRUE]
ZoneZ    == Entry("z", [Nothing EXCEPT !["NS"] = <<"b", "m">>, !["SOA"] = <<"s">>])

SomeFound == [a |-> {AliasA, AliasM, LocalA}, b |-> {HostB, LoopB, NoName("z")},
              m |-> {MailM, HostM, Failure, NoName("none")}, z |-> {ZoneZ}]
SomeHeld  == [a |-> {Missing}, b |-> {HostB}, m |-> {HostM, Missing}, z |-> {ZoneZ, Missing}]

(* One question, or two, of all but a few kinds.                                       *)
Questions == [name : DOMAIN SomeFound, type : {"A", "MX", "CNAME", "ALL"}]
Lists == {<<q>> : q \in Questions} \cup {<<p, q>> : p, q \in Questions \ [name : {"z", "b"}, type : {"MX", "CNAME"}]}
SomeQueries == [questions : Lists, rd : {TRUE}, edns : BOOLEAN, limit : {0, 4, 6}]
               \cup [questions : {<<q>> : q \in Questions}, rd : {FALSE}, edns : {FALSE}, limit : {0}]
               \cup [questions : {<<[name |-> "z", type |-> "AXFR"]>>}, rd : {TRUE}, edns : {TRUE}, limit : {0}]

R == INSTANCE DnsReply WITH Queries <- SomeQueries, Found <- SomeFound, Held <- SomeHeld, MaxHops <- 2

(* The names and records that DnsMessage writes: labels a, A and bb. *)
a    == <<97>>
Up   == <<65>>
bb   == <<98, 98>>
Z    == <<bb>>
AZ   == <<a, bb>>
UZ   == <<Up, bb>>
AAZ  == <<a, a, bb>>
BUZ  == <<bb, Up, bb>>
AA   == <<a, a>>
Root == <<>>
Rec(o, tp, pre, names, post) == [owner |-> o, type |-> tp, pre |-> pre, names |-> names, post |-> post]
SomeAsked  == {<<AZ>>, <<BUZ, Root>>}
SomeOwners == {Rec(UZ, 2, <<>>, <<n>>, <<>>) : n \in {BUZ, AA}}
              \cup {Rec(Z, 6, <<>>, <<AZ, AAZ>>, [k \in 1..20 |-> k])}
SomeRecords == {Rec(AZ, 1, <<7, 7, 7, 7>>, <<>>, <<>>), Rec(AZ, 5, <<>>, <<BUZ>>, <<>>),
                Rec(UZ, 15, <<0, 9>>, <<AAZ>>, <<>>), Rec(AA, 33, <<0, 1, 0, 2, 0, 3>>, <<AA>>, <<>>),
                Rec(AZ, 35, <<0, 1, 0, 2, 1, 8, 0, 2, 8, 8>>, <<Root>>, <<>>), Rec(Z, 30, <<>>, <<AA>>, <<5, 6>>),
                Rec(Z, 16, <<3, 1, 2, 3>>, <<>>, <<>>), Rec(BUZ, 26, <<0, 4>>, <<AZ, UZ>>, <<>>)}

W == INSTANCE DnsMessage WITH at <- w_at, asked <- w_asked, limit <- w_limit, msg <- w_msg,
       edns <- w_edns, Asked <- SomeAsked, Records <- SomeRecords, Owners <- SomeOwners,
       MaxRecords <- 2, MaxExtras <- 2, Limits <- {0, 64}, Header <- 12, MaxOffset <- 48,
       NameBuf <- 16, MaxHops <- 4, Damage <- {22, 192}, MaxDamaged <- 1

composing == <<asked, at, i, hops, qname, cached, msg, sva, ar>>
wire      == <<w_at, w_asked, w_limit, w_msg, cb, kept, mentioned, extras, opt, sent, ptr, nm, cur, left, seen, cents, w_edns, rc>>
all       == <<vars, composing, wire>>

ResolvedAll == /\ global = CHOOSE c \in Configs : TRUE
               /\ stack = <<>> /\ open = 0 /\ had = "fresh" /\ outcome = "CACHED"
Composed ==
  /\ asked = [questions |-> <<[name |-> "z", type |-> "A"]>>, rd |-> TRUE, edns |-> FALSE, limit |-> 0]
  /\ at = "sent" /\ i = 1 /\ hops = 0 /\ qname = "z" /\ cached = Missing /\ sva = {} /\ ar = <<>>
  /\ msg = [an |-> <<>>, ns |-> <<>>, ar |-> <<>>, opt |-> FALSE, rcode |-> "OK", aa |-> TRUE, tc |-> FALSE]
WasRead ==
  /\ w_at = "done" /\ w_asked = <<>> /\ w_limit = 0 /\ w_msg = <<>> /\ cb = <<>> /\ kept = <<>> /\ mentioned = {}
  /\ extras = 0 /\ opt = FALSE /\ sent = "whole" /\ ptr = 0 /\ nm = W!Start(0, 0) /\ cur = W!NoRecord
  /\ left = 0 /\ seen = <<>> /\ cents = {} /\ w_edns = FALSE /\ rc = "OK"

MCInit ==
  \/ Init        /\ Composed /\ WasRead
  \/ ResolvedAll /\ R!Init   /\ WasRead
  \/ ResolvedAll /\ Composed /\ W!Init
MCNext ==
  \/ Next   /\ UNCHANGED <<composing, wire>>
  \/ R!Next /\ UNCHANGED <<vars, wire>>
  \/ W!Next /\ UNCHANGED <<vars, composing>>
MCSpec == MCInit /\ [][MCNext]_all /\ WF_vars(Next) /\ SF_vars(PollTimesOut) /\ WF_wire(W!Read)

(* A name resolved, and nothing else. *)
QuerySpec == Init /\ Composed /\ WasRead /\ [][Next /\ UNCHANGED <<composing, wire>>]_all

(* compose_answer: every record of the answer section is about a name that was asked   *)
(* for or that a CNAME before it leads to, and no record is twice in the authority and *)
(* additional sections, though the cache changes between one lookup and the next; what *)
(* has to be cut carries no additional records.                                        *)
AnswerCoherent == R!ChainConnected /\ R!NoDoubles /\ R!ExtrasFit

(* Properties of DnsMessage: what pdnsd writes it reads back, of a message that was    *)
(* cut the records before the cut.                                                     *)
ReadsBack   == W!ReadsBack
(* The reader stays inside the message, its name buffer and the name's field.          *)
ReadsInside == W!ReadsInside
(* Reading ends, also when the pointers of a damaged message lead in a circle.         *)
ReadingEnds == W!ReadingEnds
=============================================================================
