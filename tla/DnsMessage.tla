------------------------------ MODULE DnsMessage ------------------------------
(***************************************************************************)
(* A DNS message as bytes: how pdnsd writes one (compress_name of dns.c,   *)
(* add_rr of dns_answer.c) and how it reads one (decompress_name of dns.c, *)
(* decode_query of dns_answer.c, rrs2cent of dns_query.c).  A name is a    *)
(* sequence of labels, a label a sequence of characters; a byte with       *)
(* offset o is msg[o + 1].                                                 *)
(*                                                                         *)
(* The writer remembers where it put a name, and later names end in a      *)
(* pointer to the part that they share with it.  An additional record that *)
(* makes a datagram too long is taken back; what was remembered of its     *)
(* names is not.  Left out: times to live (0), classes but IN, exhausted   *)
(* memory, the types whose names are written as they are (IPSECKEY, RRSIG, *)
(* NSEC).                                                                  *)
(***************************************************************************)
EXTENDS Integers, Sequences, SequencesExt

CONSTANTS Asked,           \* the lists of names that may be asked for
          Records,         \* the records of the answer section
          Owners,          \* the NS and SOA records of the authority section
          MaxRecords,      \* bound: how many records are added in these two
          MaxExtras,       \* bound: how many additional records are added
          Limits,          \* how long a datagram may be, 0 over TCP
          Header,          \* the length of the message's header
          MaxOffset,       \* 0x3fff: the furthest a pointer reaches
          NameBuf,         \* DNSNAMEBUFSIZE
          MaxHops,         \* 255: how many pointers a name may go through
          Damage,          \* the values that a byte may be changed to on the way
          MaxDamaged       \* bound: how many records a changed message has

VARIABLES at,              \* what is being written or read
          asked, limit,    \* the questions, the length allowed
          msg,             \* the message
          cb,              \* where names were put
          kept,            \* the records in the message
          mentioned,       \* the names whose addresses are to be added
          extras,          \* how many additional records were tried
          opt,             \* whether the message has an OPT record
          sent,            \* "whole", "cut" or "damaged"
          ptr, nm, cur,    \* the reader's place, the name and the record it reads
          left,            \* how many records are left to read
          seen, cents,     \* the questions and the records read
          edns, rc         \* an OPT record was read; the result
vars == <<at, asked, limit, msg, cb, kept, mentioned, extras, opt, sent, ptr, nm, cur, left, seen, cents, edns, rc>>
reading == <<ptr, nm, cur, left, seen, cents, edns, rc>>

tolower(c)  == IF c \in 65..90 THEN c + 32 ELSE c
Lower(n)    == [k \in DOMAIN n |-> [j \in DOMAIN n[k] |-> tolower(n[k][j])]]

(* The bytes of a name's labels, and of the whole name. *)
Labels(n)   == FlattenSeq([k \in DOMAIN n |-> <<Len(n[k])>> \o n[k]])
Encoded(n)  == Labels(n) \o <<0>>
Shortened(n, k) == SubSeq(n, 1, Len(n) - k)
PutInt16(i) == <<i \div 256, i % 256>>
Zeros(k)    == [j \in 1..k |-> 0]

-----------------------------------------------------------------------------
(* compress_name: the name remembered first of those that share most labels at the     *)
(* end, provided the pointer reaches there.                                            *)
domain_match(s, d) ==
  CHOOSE k \in 0..Len(s) :
    /\ k <= Len(d) /\ \A j \in 1..k : s[Len(s) + 1 - j] = d[Len(d) + 1 - j]
    /\ k < Len(s) /\ k < Len(d) => s[Len(s) - k] # d[Len(d) - k]

(* Mutant of Longest: of names that share as many labels the last is taken. *)
LongestLast(list, n) ==
  FoldLeft(LAMBDA best, e :
             LET k == domain_match(Lower(n), Lower(e.name))
                 o == e.index + Len(Labels(Shortened(e.name, k)))
             IN  IF k > 0 /\ k >= best.match /\ o <= MaxOffset THEN [match |-> k, offs |-> o] ELSE best,
           [match |-> 0, offs |-> 0], list)
Longest(list, n) ==
  FoldLeft(LAMBDA best, e :
             LET k == domain_match(Lower(n), Lower(e.name))
                 o == e.index + Len(Labels(Shortened(e.name, k)))
             IN  IF k > best.match /\ o <= MaxOffset THEN [match |-> k, offs |-> o] ELSE best,
           [match |-> 0, offs |-> 0], list)

Compressed(w, n, best) ==
  [msg |-> w.msg \o (IF best.match = 0 THEN Encoded(n)
                     ELSE Labels(Shortened(n, best.match)) \o <<192 + best.offs \div 256, best.offs % 256>>),
   cb  |-> IF best.match > 0 /\ best.match = Len(n) THEN w.cb ELSE Append(w.cb, [index |-> Len(w.msg), name |-> n])]
compress_name(w, n) == Compressed(w, n, Longest(w.cb, n))

(* A record: its owner and type, and its data, bytes before, between and after names.  *)
RrHdr(tp, len) == PutInt16(tp) \o PutInt16(1) \o Zeros(4) \o PutInt16(len)
RrHdrLen == 10
(* The length of the data is put in when it is known.                                  *)
WithLength(start, data, r) ==
  LET rdata == SubSeq(data.msg, Len(start.msg) + RrHdrLen + 1, Len(data.msg)) \o r.post
  IN  [msg |-> start.msg \o RrHdr(r.type, Len(rdata)) \o rdata, cb |-> data.cb]
WithData(start, r) ==
  WithLength(start, FoldLeft(compress_name, [start EXCEPT !.msg = @ \o Zeros(RrHdrLen) \o r.pre], r.names), r)
add_rr(w, r) == WithData(compress_name(w, r.owner), r)

OptRr == <<0>> \o RrHdr(41, 0)

-----------------------------------------------------------------------------
Start(n, end) == [lptr |-> n, end |-> end, next |-> n, hops |-> 0, len |-> 0, name |-> <<>>,
                  rc |-> IF n >= end THEN "TRUNC" ELSE ""]
NoRecord == [owner |-> <<>>, type |-> 0, pre |-> <<>>, names |-> <<>>, post |-> <<>>]

Init ==
  /\ at = "question"
  /\ asked \in Asked /\ limit \in Limits
  /\ msg = Zeros(Header) /\ cb = <<>> /\ kept = <<>> /\ mentioned = {} /\ extras = 0
  /\ opt = FALSE /\ sent = "whole"
  /\ ptr = Header /\ nm = Start(0, 0) /\ cur = NoRecord /\ left = 0
  /\ seen = <<>> /\ cents = {} /\ edns = FALSE /\ rc = "OK"

(* compose_answer repeats the questions. *)
PutQuestion(w, n) == LET c == compress_name(w, n) IN [c EXCEPT !.msg = c.msg \o PutInt16(1) \o PutInt16(1)]
RepeatQuestions ==
  /\ at = "question" /\ at' = "answer"
  /\ LET w == FoldLeft(PutQuestion, [msg |-> msg, cb |-> cb], asked)
     IN  msg' = w.msg /\ cb' = w.cb
  /\ UNCHANGED <<asked, limit, kept, mentioned, extras, opt, sent, reading>>

(* A record of the answer or the authority section stays, however long the message is. *)
(* The names in NS, MD, MF, MB, MX and SRV records are noted (ar_recs).                *)
Noted == {2, 3, 4, 7, 15, 33}
Keep(r) ==
  LET w == add_rr([msg |-> msg, cb |-> cb], r)
  IN  /\ msg' = w.msg /\ cb' = w.cb /\ kept' = Append(kept, r)
      /\ mentioned' = mentioned \cup (IF r.type \in Noted THEN ToSet(r.names) ELSE {})
      /\ UNCHANGED <<asked, limit, extras, opt, sent, reading>>
Answer ==
  /\ at = "answer" /\ Len(kept) < MaxRecords
  /\ \E r \in Records : Keep(r) /\ UNCHANGED at
Authority ==
  /\ at \in {"answer", "authority"} /\ Len(kept) < MaxRecords
  /\ \E r \in Owners : Keep(r) /\ at' = "authority"

(* The OPT record, if the client sent one, if there is room. *)
Opt ==
  /\ at \in {"answer", "authority"} /\ at' = "additional"
  /\ \/ limit # 0 /\ Len(msg) + Len(OptRr) > limit /\ mentioned' = {} /\ UNCHANGED <<msg, opt>>
     \/ (limit = 0 \/ Len(msg) + Len(OptRr) <= limit)
        /\ UNCHANGED mentioned
        /\ opt' \in BOOLEAN /\ msg' = IF opt' THEN msg \o OptRr ELSE msg
  /\ UNCHANGED <<asked, limit, cb, kept, extras, sent, reading>>

(* Addresses of names that were mentioned; one that does not fit is taken back. *)
Additional ==
  /\ at = "additional" /\ extras < MaxExtras
  /\ \E n \in mentioned :
       LET r == [NoRecord EXCEPT !.owner = n, !.type = 1, !.pre = Zeros(4)]
           w == add_rr([msg |-> msg, cb |-> cb], r)
           stays == limit = 0 \/ Len(w.msg) <= limit
       IN  /\ cb' = w.cb
           /\ msg'  = IF stays THEN w.msg ELSE msg
           /\ kept' = IF stays THEN Append(kept, r) ELSE kept
  /\ extras' = extras + 1
  /\ UNCHANGED <<at, asked, limit, mentioned, opt, sent, reading>>

(* udp_answer_thread cuts what is too long; the way to the reader may cut more, or     *)
(* change a byte.                                                                      *)
Send ==
  /\ at = "additional"
  /\ \/ limit # 0 /\ Len(msg) > limit /\ msg' = SubSeq(msg, 1, limit) /\ sent' = "cut"
     \/ (limit = 0 \/ Len(msg) <= limit) /\ UNCHANGED <<msg, sent>>
     \/ /\ Len(kept) <= MaxDamaged
        /\ \/ \E n \in Header..(Len(msg) - 1) : msg' = SubSeq(msg, 1, n) /\ sent' = "cut"
           \/ \E o \in (Header + 1)..Len(msg), b \in Damage : msg' = ReplaceAt(msg, o, b) /\ sent' = "damaged"
  /\ at' = "read"
  /\ cb' = <<>> /\ mentioned' = {} /\ extras' = 0
  /\ left' = Len(kept) + (IF opt THEN 1 ELSE 0)
  /\ UNCHANGED <<asked, limit, kept, opt, ptr, nm, cur, seen, cents, edns, rc>>

-----------------------------------------------------------------------------
(* decompress_name, one label or pointer at a time.  Until the first pointer the name  *)
(* is inside its field, which ends at nm.end, and nm.next is the place after it.       *)
Byte(o) == msg[o + 1]
Inside(n) == n.hops = 0
Failed(n, code) == [n EXCEPT !.rc = code]

Ended(n) == [n EXCEPT !.rc = "OK", !.len = n.len + 1, !.next = IF Inside(n) THEN n.lptr + 1 ELSE n.next]

(* Mutant of Copied: the byte after the label is not asked for. *)
CopiedTight(n, lb) ==
  CASE Inside(n) /\ n.end - n.lptr - 1 < lb -> Failed(n, "TRUNC")
    [] n.lptr + lb >= Len(msg)              -> Failed(n, "FORMAT")
    [] n.len + 1 + lb > NameBuf - 1         -> Failed(n, "FORMAT")
    [] OTHER -> [n EXCEPT !.lptr = n.lptr + 1 + lb, !.len = n.len + 1 + lb,
                          !.name = Append(n.name, SubSeq(msg, n.lptr + 2, n.lptr + 1 + lb))]
Copied(n, lb) ==
  CASE Inside(n) /\ n.end - n.lptr - 1 <= lb -> Failed(n, "TRUNC")
    [] n.lptr + 1 + lb >= Len(msg)           -> Failed(n, "FORMAT")
    [] n.len + 1 + lb > NameBuf - 1          -> Failed(n, "FORMAT")
    [] OTHER -> [n EXCEPT !.lptr = n.lptr + 1 + lb, !.len = n.len + 1 + lb,
                          !.name = Append(n.name, SubSeq(msg, n.lptr + 2, n.lptr + 1 + lb))]

(* Mutant of Jumped: the pointers are not counted. *)
JumpedOn(n, lb) ==
  CASE Inside(n) /\ n.lptr + 1 >= n.end -> Failed(n, "TRUNC")
    [] n.lptr + 1 >= Len(msg)           -> Failed(n, "FORMAT")
    [] OTHER ->
       LET offs == (lb - 192) * 256 + Byte(n.lptr + 1)
       IN  IF offs >= Len(msg) THEN Failed(n, "FORMAT")
           ELSE [n EXCEPT !.lptr = offs, !.hops = 1, !.next = IF Inside(n) THEN n.lptr + 2 ELSE n.next]
Jumped(n, lb) ==
  CASE Inside(n) /\ n.lptr + 1 >= n.end -> Failed(n, "TRUNC")
    [] n.lptr + 1 >= Len(msg)           -> Failed(n, "FORMAT")
    [] n.hops >= MaxHops                -> Failed(n, "FORMAT")
    [] OTHER ->
       LET offs == (lb - 192) * 256 + Byte(n.lptr + 1)
       IN  IF offs >= Len(msg) THEN Failed(n, "FORMAT")
           ELSE [n EXCEPT !.lptr = offs, !.hops = n.hops + 1, !.next = IF Inside(n) THEN n.lptr + 2 ELSE n.next]

decompress_name ==
  /\ at \in {"qname", "owner", "rdname"} /\ nm.rc = ""
  /\ LET lb == Byte(nm.lptr)
     IN  nm' = CASE lb = 0          -> Ended(nm)
                 [] lb \in 1..63    -> Copied(nm, lb)
                 [] lb \in 64..191  -> Failed(nm, "FORMAT")
                 [] lb >= 192       -> Jumped(nm, lb)
  /\ UNCHANGED <<at, asked, limit, msg, cb, kept, mentioned, extras, opt, sent, ptr, cur, left, seen, cents, edns, rc>>

-----------------------------------------------------------------------------
writing == <<asked, limit, msg, cb, kept, mentioned, extras, opt, sent>>
Done(code) == at' = "done" /\ rc' = code

(* decode_query and rrs2cent go from one question or record to the next. *)
NextItem ==
  /\ at = "read"
  /\ \/ Len(seen) < Len(asked) /\ at' = "qname" /\ nm' = Start(ptr, Len(msg)) /\ UNCHANGED rc
     \/ Len(seen) = Len(asked) /\ left > 0 /\ at' = "owner" /\ nm' = Start(ptr, Len(msg)) /\ UNCHANGED rc
     \/ Len(seen) = Len(asked) /\ left = 0 /\ Done("OK") /\ UNCHANGED nm
  /\ UNCHANGED <<writing, ptr, cur, left, seen, cents, edns>>

(* A name in the data of a record has to end there. *)
NameBad ==
  /\ at \in {"qname", "owner", "rdname"} /\ nm.rc \in {"TRUNC", "FORMAT"}
  /\ Done(IF at = "rdname" THEN "FORMAT" ELSE nm.rc)
  /\ UNCHANGED <<writing, ptr, nm, cur, left, seen, cents, edns>>

QuestionRead ==
  /\ at = "qname" /\ nm.rc = "OK"
  /\ \/ Len(msg) - nm.next < 4 /\ Done("TRUNC") /\ UNCHANGED <<ptr, seen>>
     \/ Len(msg) - nm.next >= 4 /\ at' = "read" /\ ptr' = nm.next + 4 /\ seen' = Append(seen, Lower(nm.name)) /\ UNCHANGED rc
  /\ UNCHANGED <<writing, nm, cur, left, cents, edns>>

(* What the types' data consists of: bytes, names, bytes. *)
GetInt16(o) == Byte(o) * 256 + Byte(o + 1)
Cached   == (1..51) \ (38..41)
OneName  == {2, 3, 4, 5, 7, 8, 9, 12, 15, 18, 21, 30, 33, 35, 36}
TwoNames == {6, 14, 17, 26}
Count(tp) == IF tp \in TwoNames THEN 2 ELSE IF tp \in OneName THEN 1 ELSE 0

(* The bytes before the first name, of NAPTR four and three strings, each with its     *)
(* length; -1 if the record is too short.                                              *)
Before(tp, o, len) ==
  LET n == CASE tp \in {15, 18, 21, 36, 26} -> 2
             [] tp = 33 -> 6
             [] tp = 35 -> FoldLeft(LAMBDA p, j : IF p < 0 \/ p >= len THEN -1 ELSE p + Byte(o + p) + 1, 4, <<1, 2, 3>>)
             [] OTHER   -> 0
  IN  IF n > len THEN -1 ELSE n
After(tp, rest) == CASE tp = 6 -> rest = 20 [] tp = 30 -> TRUE [] OTHER -> rest = 0
RightLength(tp, len) == (tp = 1 => len = 4) /\ (tp = 28 => len = 16)

(* rr_to_cache: one entry for each name, no double records. *)
rr_to_cache(r) == cents' = cents \cup {[r EXCEPT !.owner = Lower(r.owner), !.names = [k \in DOMAIN r.names |-> Lower(r.names[k])]]}

(* The record whose owner was read: an OPT record is noted, one of another class or of *)
(* a type that is not kept is skipped, one without names is taken as it is.            *)
Skip(end) == at' = "read" /\ ptr' = end /\ left' = left - 1
OwnerRead ==
  /\ at = "owner" /\ nm.rc = "OK"
  /\ LET o    == nm.next
         len  == GetInt16(o + 8)
         data == o + RrHdrLen
         tp   == GetInt16(o)
         r    == [NoRecord EXCEPT !.owner = nm.name, !.type = tp]
         pre  == Before(tp, data, len)
     IN  \/ Len(msg) - o < RrHdrLen /\ Done("TRUNC") /\ UNCHANGED <<ptr, nm, cur, left, cents, edns>>
         \/ /\ Len(msg) - o >= RrHdrLen
            /\ \/ Len(msg) - data < len /\ Done("TRUNC") /\ UNCHANGED <<ptr, nm, cur, left, cents, edns>>
               \/ /\ Len(msg) - data >= len /\ tp = 41
                  /\ edns' = TRUE /\ Skip(data + len) /\ UNCHANGED <<nm, cur, cents, rc>>
               \/ /\ Len(msg) - data >= len /\ tp # 41 /\ (tp \notin Cached \/ GetInt16(o + 2) # 1)
                  /\ Skip(data + len) /\ UNCHANGED <<nm, cur, cents, edns, rc>>
               \/ /\ Len(msg) - data >= len /\ tp \in Cached /\ GetInt16(o + 2) = 1 /\ Count(tp) = 0
                  /\ \/ RightLength(tp, len) /\ Skip(data + len) /\ UNCHANGED rc
                        /\ rr_to_cache([r EXCEPT !.pre = SubSeq(msg, data + 1, data + len)])
                     \/ ~RightLength(tp, len) /\ Done("FORMAT") /\ UNCHANGED <<ptr, left, cents>>
                  /\ UNCHANGED <<nm, cur, edns>>
               \/ /\ Len(msg) - data >= len /\ tp \in Cached /\ GetInt16(o + 2) = 1 /\ Count(tp) > 0
                  /\ \/ pre < 0 /\ Done("FORMAT") /\ UNCHANGED <<ptr, nm, cur>>
                     \/ pre >= 0 /\ at' = "rdname" /\ UNCHANGED rc
                        /\ cur' = [r EXCEPT !.pre = SubSeq(msg, data + 1, data + pre)]
                        /\ nm' = Start(data + pre, data + len)
                        /\ ptr' = data + len
                  /\ UNCHANGED <<left, cents, edns>>
  /\ UNCHANGED <<writing, seen>>

(* A name of the record's data was read; after the last one only what belongs there    *)
(* may be left.                                                                        *)
DataNameRead ==
  /\ at = "rdname" /\ nm.rc = "OK"
  /\ LET r    == [cur EXCEPT !.names = Append(cur.names, nm.name)]
         rest == nm.end - nm.next
     IN  \/ Len(r.names) < Count(cur.type)
            /\ cur' = r /\ nm' = Start(nm.next, nm.end) /\ UNCHANGED <<at, ptr, left, cents, rc>>
         \/ /\ Len(r.names) = Count(cur.type)
            /\ \/ After(cur.type, rest) /\ Skip(ptr) /\ UNCHANGED rc
                  /\ rr_to_cache([r EXCEPT !.post = SubSeq(msg, nm.next + 1, nm.end)])
               \/ ~After(cur.type, rest) /\ Done("FORMAT") /\ UNCHANGED <<ptr, left, cents>>
            /\ UNCHANGED <<cur, nm>>
  /\ UNCHANGED <<writing, seen, edns>>

Next == \/ RepeatQuestions \/ Answer \/ Authority \/ Opt \/ Additional \/ Send
        \/ NextItem \/ decompress_name \/ NameBad \/ QuestionRead \/ OwnerRead \/ DataNameRead
Read == decompress_name \/ NextItem \/ NameBad \/ QuestionRead \/ OwnerRead \/ DataNameRead
Spec == Init /\ [][Next]_vars /\ WF_vars(Read)

-----------------------------------------------------------------------------
(* What pdnsd writes it reads back: every name comes out with the labels it had,       *)
(* whatever earlier names its pointers lead to and although names of records that were *)
(* taken back are still remembered; of a message that was cut off, the records before  *)
(* the cut.  (dns.c:265: "We rely here that the first occurence can't be compressed.")  *)
ReadsBack ==
  at = "done" /\ sent # "damaged" =>
    LET is(k) == {[kept[j] EXCEPT !.owner = Lower(kept[j].owner),
                                  !.names = [l \in DOMAIN kept[j].names |-> Lower(kept[j].names[l])]] : j \in 1..k}
    IN  \/ /\ rc = "OK" /\ cents = is(Len(kept)) /\ edns = opt
           /\ seen = [k \in DOMAIN asked |-> Lower(asked[k])]
        \/ sent = "cut" /\ rc = "TRUNC" /\ \E k \in 0..Len(kept) : cents = is(k)

(* Whatever the bytes are, the reader stays inside the message, a name fits its buffer *)
(* and does not end behind its field, whose size left is unsigned.                     *)
ReadsInside ==
  at \in {"qname", "owner", "rdname"} =>
    /\ nm.rc = "" => nm.lptr < Len(msg) /\ (nm.hops = 0 => nm.lptr < nm.end)
    /\ nm.len <= NameBuf
    /\ nm.rc = "OK" => nm.next <= nm.end

(* Reading ends, also when the pointers lead in a circle. *)
ReadingEnds == at = "read" ~> at = "done"
=============================================================================
