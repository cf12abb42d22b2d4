------------------------------- MODULE DnsReply -------------------------------
(***************************************************************************)
(* How pdnsd composes the answer to a client's query (compose_answer of    *)
(* dns_answer.c).  For each question the name is resolved; while the       *)
(* entry has only a CNAME the chain is followed, up to max_hops times.     *)
(* The servers or the SOA record of the last name go to the authority      *)
(* section, addresses of names that were mentioned to the additional one.  *)
(* Other threads change the cache between any two looks at it.             *)
(*                                                                         *)
(* Sizes are counted in records.  Left out: exhausted memory, the types    *)
(* MAILA, MAILB and AAAA, the owners of local zones, the age of records.   *)
(***************************************************************************)
EXTENDS Integers, Sequences, SequencesExt

CONSTANTS Queries,        \* what may be asked: the questions, rd, edns, and the size a datagram
                          \* may have or 0 over TCP
          Found,          \* what dns_cached_resolve may return for each name
          Held,           \* what lookup_cache may return for each name
          MaxHops         \* MAX_HOPS

Names == DOMAIN Found
AnswerTypes == {"A", "CNAME", "NS", "SOA", "MX"}

VARIABLES asked,          \* the query
          at,             \* the part of compose_answer that runs
          i, hops, qname, \* the question, the hops left, the name it has come to
          cached,         \* the cache entry in hand
          msg,            \* the answer: its records by section, whether there is an OPT record
                          \* in the additional section, rcode, aa and tc
          sva,            \* the records marked as added
          ar              \* what is left for the authority and additional sections
vars == <<asked, at, i, hops, qname, cached, msg, sva, ar>>

Rr(n, tp, d) == [name |-> n, type |-> tp, data |-> d]
RrSet(e, tp) == [k \in DOMAIN e.rrs[tp] |-> Rr(e.name, tp, e.rrs[tp][k])]
have_rr(e, tp) == tp \in AnswerTypes /\ e.rrs[tp] # <<>>

Size(m) == Len(asked.questions) + Len(m.an) + Len(m.ns) + Len(m.ar) + (IF m.opt THEN 1 ELSE 0)
Fits(m) == asked.limit = 0 \/ Size(m) <= asked.limit

CurrentQuestion == asked.questions[i]

Init ==
  /\ asked \in Queries
  /\ at = "check" /\ i = 1 /\ hops = MaxHops /\ qname = asked.questions[1].name
  /\ cached = [rc |-> "none"]
  /\ msg = [an |-> <<>>, ns |-> <<>>, ar |-> <<>>, opt |-> FALSE, rcode |-> "OK", aa |-> TRUE, tc |-> FALSE]
  /\ sva = {} /\ ar = <<>>

-----------------------------------------------------------------------------
(* A question that cannot be answered ends it. *)
Check ==
  /\ at = "check"
  /\ IF \E k \in DOMAIN asked.questions : asked.questions[k].type \notin AnswerTypes \cup {"ALL"}
     THEN at' = "ready" /\ msg' = [msg EXCEPT !.rcode = "NOTSUPP", !.aa = FALSE]
     ELSE at' = "ask" /\ UNCHANGED msg
  /\ UNCHANGED <<asked, i, hops, qname, cached, sva, ar>>

(* The name does not exist or could not be resolved; what earlier questions and names  *)
(* of the chain gave stays in the answer.                                              *)
AskFails(e) ==
  /\ e.rc # "OK"
  /\ at' = "ready"
  /\ \/ e.rc = "NAMEERR" /\ e.soa # "none"
        /\ \E h \in Held[e.soa] :
             msg' = [msg EXCEPT !.rcode = e.rc, !.aa = FALSE, !.opt = asked.edns,
                                !.ns = msg.ns \o (IF h.rc = "OK" THEN RrSet(h, "SOA") ELSE <<>>)]
     \/ e.rc = "NAMEERR" /\ e.soa = "none"
        /\ msg' = [msg EXCEPT !.rcode = e.rc, !.aa = FALSE, !.opt = asked.edns]
     \/ e.rc # "NAMEERR" /\ msg' = [msg EXCEPT !.rcode = e.rc, !.aa = FALSE]
  /\ UNCHANGED <<i, hops, qname, cached, sva, ar>>

(* add_rrset: a set, from any of its records on if rnd_recs; add_to_response.  The    *)
(* sets of a question for all of them are in no particular order.                      *)
Rotations(s) == IF s = <<>> THEN {s} ELSE {SubSeq(s, k, Len(s)) \o SubSeq(s, 1, k - 1) : k \in DOMAIN s}
AllSets(e) == RrSet(e, "A") \o RrSet(e, "CNAME") \o RrSet(e, "NS") \o RrSet(e, "SOA") \o RrSet(e, "MX")
ToAdd(e, tp) ==
  CASE tp = "ALL"                     -> {AllSets(e)}
    [] tp # "ALL" /\ have_rr(e, tp)   -> Rotations(RrSet(e, tp))
    [] tp # "ALL" /\ ~have_rr(e, tp)  -> Rotations(RrSet(e, "CNAME"))
Marked(s)    == {r \in ToSet(s) : r.type \in {"NS", "A"}}
Mentions(s)  == LET ref == SelectSeq(s, LAMBDA r : r.type \in {"NS", "MX"})
                IN  [k \in DOMAIN ref |-> [tp |-> "ADD", of |-> "none", to |-> ref[k].data]]

Follows(e) == asked.rd /\ CurrentQuestion.type \notin {"CNAME", "ALL"}
              /\ ~have_rr(e, CurrentQuestion.type) /\ have_rr(e, "CNAME")

AddToResponse(e) ==
  \E s \in ToAdd(e, CurrentQuestion.type) :
     /\ msg' = [msg EXCEPT !.an = msg.an \o s, !.aa = msg.aa /\ e.local]
     /\ sva' = sva \cup Marked(s)
     /\ ar' = ar \o Mentions(s)

NextQuestion ==
  IF i < Len(asked.questions)
  THEN at' = "ask" /\ i' = i + 1 /\ hops' = MaxHops /\ qname' = asked.questions[i + 1].name
  ELSE at' = "authority" /\ UNCHANGED <<i, hops, qname>>

(* Mutant: the name that follows is looked up again. *)
AskAgain(e) ==
  /\ e.rc = "OK"
  /\ AddToResponse(e)
  /\ \/ Follows(e) /\ hops > 0 /\ hops' = hops - 1 /\ UNCHANGED <<at, i, cached>>
        /\ \E h \in {f \in Found[qname] : f.rc = "OK"} : have_rr(h, "CNAME") /\ qname' = h.rrs["CNAME"][1]
     \/ Follows(e) /\ hops = 0 /\ NextQuestion /\ UNCHANGED cached
     \/ ~Follows(e) /\ at' = "owner" /\ cached' = e /\ UNCHANGED <<i, hops, qname>>
AskOk(e) ==
  /\ e.rc = "OK"
  /\ AddToResponse(e)
  /\ \/ Follows(e) /\ hops > 0 /\ hops' = hops - 1 /\ qname' = e.rrs["CNAME"][1] /\ UNCHANGED <<at, i, cached>>
     \/ Follows(e) /\ hops = 0 /\ NextQuestion /\ UNCHANGED cached
     \/ ~Follows(e) /\ at' = "owner" /\ cached' = e /\ UNCHANGED <<i, hops, qname>>

Ask == at = "ask" /\ \E e \in Found[qname] : (AskFails(e) \/ AskOk(e)) /\ UNCHANGED asked

(* The servers of the last name of the chain, or the SOA record when it has nothing    *)
(* that was asked for: its own, or those the cache now holds of the domain above.      *)
Above(e, tp) == LET p == IF tp = "NS" THEN e.ns ELSE e.soa IN IF p = "none" THEN e.name ELSE p
Owned(s)     == [k \in DOMAIN s |-> [tp |-> s[k].type, of |-> s[k].name, to |-> s[k].data]]
FindOwner ==
  /\ at = "owner"
  /\ LET tp == IF CurrentQuestion.type # "ALL" /\ ~have_rr(cached, CurrentQuestion.type) THEN "SOA" ELSE "NS"
     IN  \E h \in IF have_rr(cached, tp) THEN {cached} ELSE Held[Above(cached, tp)] :
           ar' = ar \o (IF h.rc = "OK" THEN Owned(RrSet(h, tp)) ELSE <<>>)
  /\ cached' = [rc |-> "none"]
  /\ NextQuestion
  /\ UNCHANGED <<asked, msg, sva>>

-----------------------------------------------------------------------------
(* add_additional_rr, for a record of the authority section. *)
(* Mutant: only the additional section is checked. *)
AddedUnchecked(s, r) == [list |-> Append(s.list, r), sva |-> s.sva \cup {r}]
Added(s, r) == IF r \in s.sva THEN s ELSE [list |-> Append(s.list, r), sva |-> s.sva \cup {r}]

Authority ==
  /\ at = "authority"
  /\ LET of  == SelectSeq(ar, LAMBDA x : x.tp # "ADD")
         rrs == [k \in DOMAIN of |-> Rr(of[k].of, of[k].tp, of[k].to)]
         res == FoldLeft(Added, [list |-> msg.ns, sva |-> sva], rrs)
         m   == [msg EXCEPT !.ns = res.list]
         opt == asked.limit = 0 \/ Size(m) < asked.limit
     IN  /\ sva' = res.sva
         /\ msg' = [m EXCEPT !.opt = opt /\ asked.edns]
         /\ ar' = IF opt THEN SelectSeq(ar, LAMBDA x : x.tp # "SOA") ELSE <<>>
  /\ at' = "additional"
  /\ UNCHANGED <<asked, i, hops, qname, cached>>

(* add_additional_a, for one name: a record that does not fit is left out, and marked. *)
(* Mutant: the records of one name are all added when the first one fits. *)
AddressFirst(s, r) ==
  IF r \in s.sva THEN s
  ELSE LET m == [s.m EXCEPT !.ar = Append(s.m.ar, r)]
       IN  [m |-> IF Fits(s.m) THEN m ELSE s.m, sva |-> s.sva \cup {r}]
Address(s, r) ==
  IF r \in s.sva THEN s
  ELSE LET m == [s.m EXCEPT !.ar = Append(s.m.ar, r)]
       IN  [m |-> IF Fits(m) THEN m ELSE s.m, sva |-> s.sva \cup {r}]

Additional ==
  /\ at = "additional" /\ ar # <<>>
  /\ \E h \in Held[Head(ar).to] :
       \/ h.rc # "OK" /\ UNCHANGED <<msg, sva>>
       \/ h.rc = "OK" /\ \E s \in Rotations(RrSet(h, "A")) :
            LET res == FoldLeft(Address, [m |-> msg, sva |-> sva], s)
            IN  msg' = res.m /\ sva' = res.sva
  /\ ar' = Tail(ar)
  /\ UNCHANGED <<asked, at, i, hops, qname, cached>>

Composed ==
  /\ at = "additional" /\ ar = <<>>
  /\ at' = "ready"
  /\ UNCHANGED <<asked, i, hops, qname, cached, msg, sva, ar>>

(* udp_answer_thread cuts what is too long for a datagram. *)
Send ==
  /\ at = "ready"
  /\ at' = "sent" /\ msg' = [msg EXCEPT !.tc = ~Fits(msg)]
  /\ UNCHANGED <<asked, i, hops, qname, cached, sva, ar>>

Next == Check \/ Ask \/ FindOwner \/ Authority \/ Additional \/ Composed \/ Send
Spec == Init /\ [][Next]_vars

-----------------------------------------------------------------------------
(* Every record of the answer section is about a name that was asked for or one that a *)
(* CNAME before it leads to, although the cache changes while the chain is followed;   *)
(* and a circle of CNAMEs is left after max_hops of them.                              *)
ChainConnected ==
  /\ \A k \in DOMAIN msg.an :
       \/ \E q \in ToSet(asked.questions) : msg.an[k].name = q.name
       \/ \E l \in 1..(k - 1) : msg.an[l].type = "CNAME" /\ msg.an[l].data = msg.an[k].name
  /\ Len(SelectSeq(msg.an, LAMBDA r : r.type = "CNAME")) <= Len(asked.questions) * (MaxHops + 1)

(* dns_answer.c:668: "no double additionals".  No record is twice in the authority and *)
(* additional sections, and no address or server of the answer is there once more,     *)
(* however often the questions and the records mention a name.                         *)
NoDoubles ==
  LET extras == msg.ns \o msg.ar
  IN  IsInjective(extras) /\ Marked(msg.an) \cap ToSet(extras) = {}

(* A datagram that has to be cut carries no additional records, which would be cut     *)
(* first: they are added only while there is room.  (That a name does not exist is     *)
(* reported with the OPT record whatever the size.)                                    *)
ExtrasFit == at = "sent" /\ msg.rcode = "OK" /\ msg.tc => msg.ar = <<>> /\ ~msg.opt
=============================================================================
