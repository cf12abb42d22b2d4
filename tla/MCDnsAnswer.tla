----------------------------- MODULE MCDnsAnswer -----------------------------
(* Instances of DnsAnswer for TLC. *)
EXTENDS DnsAnswer

(* What DnsAnswer's clients do. *)
Query    == [size |-> "whole", response |-> FALSE, opcode |-> "query", z |-> FALSE, rcode |-> "OK",
             records |-> FALSE, question |-> "some", edns |-> "none"]
SomeMessages == {Query, [Query EXCEPT !.size = "none"], [Query EXCEPT !.size = "id"],
                 [Query EXCEPT !.response = TRUE], [Query EXCEPT !.opcode = "status"],
                 [Query EXCEPT !.rcode = "REFUSED"], [Query EXCEPT !.edns = "bad"]}

(* Two connections, one of which stays silent, and a datagram. *)
SomeVia    == [t1 |-> "tcp", t2 |-> "tcp", u1 |-> "udp"]
SomeLimits == {[proc |-> 1, queue |-> 1], [proc |-> 2, queue |-> 0]}
=============================================================================
