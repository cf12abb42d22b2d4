---------------------------- MODULE MCDnsInputs ----------------------------
(* What TLC gives to DnsCache: a domain d, a host a in it, the wildcard name w of d, and *)
(* the reverse name p of the local host.                                                 *)
EXTENDS Integers, FiniteSets

SomeNames == {"a", "d", "w", "p"}
Parents == [a |-> <<"d">>, d |-> <<>>, w |-> <<"d">>, p |-> <<>>]
Wildcard == [a |-> "none", d |-> "w", w |-> "none", p |-> "none"]
InBucket == [a |-> 1, d |-> 2, w |-> 1, p |-> 2]
TypesInOrder == <<"A", "NS", "CNAME", "PTR", "TXT">>

(* Record sets and entries as the parser of answers and commands builds them. *)
RR(n, ttl) == [n |-> n, ts |-> 0, ttl |-> ttl, neg |-> n = 0, local |-> FALSE, additional |-> FALSE,
               root |-> FALSE, nopurge |-> FALSE, nocache |-> FALSE]
LocalRR(n) == [RR(n, 1) EXCEPT !.local = TRUE]
Ad(rs)     == [rs EXCEPT !.additional = TRUE]
Cent(rrs, ns, size) ==
  [neg |-> FALSE, local |-> FALSE, wild |-> FALSE, ts |-> 0, ttl |-> 0, rrs |-> rrs,
   ext |-> "TXT" \in DOMAIN rrs, nrr |-> Cardinality(DOMAIN rrs), cs |-> size, ns |-> ns,
   nocache |-> FALSE]
Neg(ttl)  == [Cent(<<>>, "none", 1) EXCEPT !.neg = TRUE, !.ttl = ttl]
Owned(e)  == [e EXCEPT !.local = TRUE]

SomeAnswers ==
  {<<"a", Cent([A |-> RR(1, 1), TXT |-> RR(0, 0)], "d", 5)>>, <<"a", Cent([CNAME |-> RR(1, 2)], "none", 3)>>, <<"a", Neg(1)>>,
   <<"a", [Neg(2) EXCEPT !.nocache = TRUE]>>,
   <<"d", Cent([NS |-> [Ad(RR(1, 2)) EXCEPT !.nopurge = TRUE]], "none", 3)>>}

Adding(n, e) == [op |-> "add", name |-> n, cent |-> e]
LocalHost == [Owned(Cent([PTR |-> LocalRR(1), NS |-> LocalRR(1)], "none", 3)) EXCEPT !.nrr = 1]
ConfigLocal == <<<<"p", LocalHost>>>>
FileLeft == [d |-> Neg(1)]
SomeCommands ==
  {<<Adding("a", Owned(Cent([A |-> LocalRR(1)], "none", 3)))>>,
   <<[op |-> "wild", name |-> "d"], Adding("w", Cent([A |-> LocalRR(1)], "none", 3))>>,
   <<[op |-> "del", name |-> "a"]>>, <<[op |-> "inval", name |-> "d"]>>,
   <<[op |-> "empty", bucket |-> 1, names |-> {"a", "d"}],
     [op |-> "empty", bucket |-> 2, names |-> {"a", "d"}]>>}
CommandsNeg == {<<Adding("a", Owned(Neg(1)))>>}
=============================================================================
