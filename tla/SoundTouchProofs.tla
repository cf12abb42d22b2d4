------------------------- MODULE SoundTouchProofs -------------------------
(***************************************************************************)
(* What holds of SoundTouch for every rate, tempo, length, filter and block *)
(* that the assumptions of SoundTouch allow, with machine-checked proofs.                    *)
(*                                                                         *)
(* Fits relates the lengths of the tempo changer: what it waits for holds a *)
(* sequence behind every offset and the next skip, so that all it skips is   *)
(* there and it keeps pace.  TransposeRight counts the samples written by    *)
(* the rate transposer between those read; RoomEnough compares them with the *)
(* room asked for, using that the filter holds back no more than its taps.   *)
(* Places says where samples may wait, also while a call is not finished.    *)
(***************************************************************************)
EXTENDS SoundTouch, WellFoundedInduction, TLAPS

(* The controls, each at one or at a value the program sets. *)
Controllers == [{"pitch", "rate", "tempo"} -> Values]

(* The tempo changer's lengths. *)
Stretcher ==
  [sampleRate : Nat, overlapMs : Nat, sequenceMs : Nat, seekWindowMs : Nat, autoSeq : BOOLEAN, autoSeek : BOOLEAN,
   tempo : Nat, overlapLength : Nat, seekWindowLength : Nat, seekLength : Nat, nominalSkip : Nat, sampleReq : Nat]

(* A sequence fits its input, with the skip of the next one and its rounding. *)
Fits(t) ==
  /\ t.overlapLength >= 1 /\ t.seekWindowLength >= 2 * t.overlapLength
  /\ t.sampleReq >= t.seekWindowLength + t.seekLength
  /\ t.nominalSkip < Unit * (t.sampleReq - t.overlapLength - t.seekLength + 1)

(* The types, without the parts that Places and KeepsPace pin down. *)
Types ==
  /\ ctl \in Controllers /\ channels \in {0} \cup Channels
  /\ td \in Stretcher
  /\ skipFract \in 0..Unit - 1
  /\ inputBuffer \in Nat /\ outputBuffer \in Nat /\ storeBuffer \in Nat /\ transOut \in Nat /\ iSlopeCount \in Nat
  /\ output \in {"stretch", "transpose"} /\ at \in {"idle", "stretch", "flush"}
  /\ drain \in [left : Nat, wanted : Nat] /\ spilt \in BOOLEAN

(* Between calls the first stage's output is empty; inside a call, what follows says which stage is last.
   Without channels nothing waits. *)
Places ==
  /\ at # "stretch" => IF output = "stretch" THEN transOut = 0 ELSE outputBuffer = 0
  /\ at = "stretch" => \/ then = "return" /\ output = "stretch" /\ transOut = 0
                       \/ then = "transpose" /\ output = "transpose"
                       \/ then = "crossed" /\ output = "transpose" /\ transOut = 0
  /\ channels = 0 => inputBuffer = 0 /\ outputBuffer = 0 /\ storeBuffer = 0 /\ transOut = 0
  /\ at = "flush" \/ drain.left > 0 => channels # 0

(* The inductive invariant. *)
IInv == Types /\ Places /\ Fits(td) /\ storeBuffer <= FilterTaps /\ KeepsPace /\ RoomKept

(* The constants, as the numbers they are. *)
LEMMA Numbers ==
  /\ Unit \in Nat /\ Unit >= 1 /\ Second \in Nat /\ Second >= 1 /\ FilterTaps \in Nat /\ FilterTaps >= 1
         /\ LowBits \in Nat /\ HighBits \in Nat /\ LowBits >= 1 /\ LowBits <= HighBits
         /\ Slow \in Nat /\ Fast \in Nat /\ Slow < Fast
         /\ SeqSlow \in Nat /\ SeqFast \in Nat /\ SeekSlow \in Nat /\ SeekFast \in Nat /\ SeqFast <= SeqSlow /\ SeekFast <= SeekSlow
         /\ OverlapMs \in Nat /\ Slack \in Nat /\ BufferSize \in Nat /\ FlushBlock \in Nat /\ FlushRounds \in Nat
         /\ Values \subseteq Nat \ {0}
<1>1. {Unit, Second, FilterTaps, LowBits, HighBits} \subseteq Nat \ {0}  BY UnitsNat, OverlapBits
<1>2. {Slow, Fast, SeqSlow, SeqFast, SeekSlow, SeekFast, OverlapMs, Slack} \subseteq Nat  BY UnitsNat, LengthsFall
<1>3. {BufferSize, FlushBlock, FlushRounds, MaxCalls, MaxHeld} \subseteq Nat  BY UnitsNat
<1>4. LowBits <= HighBits /\ Slow < Fast /\ SeqFast <= SeqSlow /\ SeekFast <= SeekSlow /\ Controls \subseteq Nat \ {0}  BY OverlapBits, LengthsFall, InputsTyped
<1>5. Values \subseteq Nat \ {0}  BY <1>1, <1>4 DEF Values
<1>6. Unit \in Nat \ {0} /\ Second \in Nat \ {0} /\ FilterTaps \in Nat \ {0} /\ LowBits \in Nat \ {0} /\ HighBits \in Nat \ {0}  BY <1>1
<1> QED  BY <1>2, <1>3, <1>4, <1>5, <1>6

(* What the quotient of natural numbers is. *)
LEMMA Quotient ==
  ASSUME NEW a \in Nat, NEW b \in Nat, b >= 1
  PROVE  a \div b \in Nat /\ (a \div b) * b <= a /\ a < (a \div b) * b + b /\ (a \div b) * b + (a % b) = a /\ a % b \in 0..b - 1
<1>1. PICK q \in Int, r \in Int : q = a \div b /\ r = a % b  OBVIOUS
<1>2. q * b + r = a /\ r \in 0..b - 1  BY <1>1
<1>3. q \in Nat
  <2>1. q * b > a - b  BY <1>2
  <2>2. CASE q < 0
    <3>1. q * b <= -b  BY <2>2
    <3> QED  BY <2>1, <3>1
  <2> QED  BY <2>2
<1>4. q * b <= a /\ a < q * b + b /\ q * b + r = a /\ r \in 0..b - 1  BY <1>2
<1>5. a \div b = q /\ a % b = r  BY <1>1
<1>6. a \div b \in Nat /\ a % b \in 0..b - 1  BY <1>3, <1>4, <1>5
<1>7. (a \div b) * b <= a /\ a < (a \div b) * b + b  BY <1>4, <1>5
<1>8. (a \div b) * b + (a % b) = a  BY <1>4, <1>5
<1> QED  BY <1>6, <1>7, <1>8

(* A product keeps the order of its factors. *)
LEMMA Product ==
  ASSUME NEW a \in Nat, NEW b \in Nat, NEW c \in Nat, NEW d \in Nat, a <= c, b <= d
  PROVE  a * b \in Nat /\ a * b <= c * d
<1>1. a * b <= c * b  OBVIOUS
<1>2. c * b <= c * d  OBVIOUS
<1> QED  BY <1>1, <1>2

(* The automatic lengths lie between those of the fastest and of the slowest tempo. *)
LEMMA AutomaticNatural ==
  ASSUME NEW slow \in Nat, NEW fast \in Nat, fast <= slow, NEW tempo \in Nat
  PROVE  Automatic(slow, fast, tempo) \in Nat
<1>1. Slow \in Nat /\ Fast \in Nat /\ Slow < Fast  BY Numbers
<1>2. PICK t \in Nat : t = Larger(Slow, Smaller(tempo, Fast)) /\ Slow <= t /\ t <= Fast  BY <1>1 DEF Larger, Smaller
<1>3. PICK d \in Nat : d = Fast - Slow /\ d >= 1  BY <1>1
<1>4. PICK x \in Nat : x = t - Slow /\ x <= d  BY <1>1, <1>2, <1>3
<1>5. PICK y \in Nat : y = slow - fast /\ y <= slow  OBVIOUS
<1>6. y * x \in Nat /\ y * x <= slow * d  BY <1>3, <1>4, <1>5, Product
<1>7. PICK n \in Nat : n = 2 * slow * d - 2 * y * x + d
  <2>1. 2 * slow * d - 2 * y * x = 2 * (slow * d - y * x)  BY <1>3, <1>4, <1>5
  <2>2. slow * d - y * x \in Nat  BY <1>6
  <2> QED  BY <2>1, <2>2
<1>8. Automatic(slow, fast, tempo) = n \div (2 * d)
  <2>1. Automatic(slow, fast, tempo) = (2 * slow * (Fast - Slow) - 2 * (slow - fast) * (t - Slow) + (Fast - Slow)) \div (2 * (Fast - Slow))
    BY <1>2, Zenon DEF Automatic
  <2>2. Fast - Slow = d /\ slow - fast = y /\ t - Slow = x  BY <1>3, <1>4, <1>5
  <2> QED  BY <2>1, <2>2, <1>7
<1>9. 2 * d \in Nat /\ 2 * d >= 1  BY <1>3
<1>10. n \div (2 * d) \in Nat  BY <1>7, <1>9, Quotient
<1> QED  BY <1>8, <1>10

(* The order of the natural numbers is well founded.                                   *)
LEMMA NaturalOrder == \E R : IsWellFoundedOn(R, Nat) /\ \A m, n \in Nat : <<m, n>> \in R <=> m < n
<1>1. \A m, n \in Nat : <<m, n>> \in OpToRel(<, Nat) <=> m < n
  BY Zenon DEF OpToRel
<1> QED BY <1>1, NatLessThanWellFounded, Zenon

(* Every set of natural numbers that is not empty has a least one. *)
LEMMA LeastNatural ==
  ASSUME NEW S, S \subseteq Nat, S # {}
  PROVE  \E m \in S : \A n \in S : m <= n
<1>1. PICK R : IsWellFoundedOn(R, Nat) /\ \A m, n \in Nat : <<m, n>> \in R <=> m < n
  BY NaturalOrder
<1>2. PICK m \in S : \A n \in S : ~(<<n, m>> \in R)
  <2>1. \A r, s, t : IsWellFoundedOn(r, s) /\ t \subseteq s /\ t # {}
                       => \E x \in t : \A y \in t : ~(<<y, x>> \in r)
    BY WFMin, Zenon
  <2>2. IsWellFoundedOn(R, Nat)
    BY <1>1
  <2> QED BY <2>1, <2>2, Zenon
<1>3. ASSUME NEW n \in S PROVE m <= n
  <2>1. ~(n < m)
    BY <1>1, <1>2
  <2> QED BY <2>1
<1> QED BY <1>3

(* An overlap is a power of two within the limits, and so positive. *)
LEMMA OverlapPositive ==
  ASSUME NEW samples \in Nat
  PROVE  Overlap(samples) \in Nat /\ Overlap(samples) >= 1
<1>1. LowBits \in Nat /\ HighBits \in Nat /\ LowBits >= 1 /\ LowBits <= HighBits  BY Numbers
<1> DEFINE Q(p) == /\ p = LowBits \/ 2^(2 * p - 1) <= samples * samples
                   /\ p = HighBits \/ samples * samples < 2^(2 * p + 1)
           K == {p \in LowBits..HighBits : p = HighBits \/ samples * samples < 2^(2 * p + 1)}
<1>2. \E p \in LowBits..HighBits : Q(p)
  <2>1. PICK p \in K : \A q \in K : p <= q
    <3>1. K \subseteq Nat /\ HighBits \in K  BY <1>1
    <3> HIDE DEF K
    <3> QED  BY <3>1, LeastNatural
  <2>2. CASE p = LowBits
    BY <2>1, <2>2
  <2>3. CASE p # LowBits
    <3>1. p - 1 \in LowBits..HighBits /\ p - 1 # HighBits /\ p - 1 \notin K  BY <1>1, <2>1, <2>3
    <3>2. ~(samples * samples < 2^(2 * (p - 1) + 1))  BY <3>1
    <3>3. 2 * (p - 1) + 1 = 2 * p - 1 /\ 2^(2 * p - 1) \in Int /\ samples * samples \in Int  BY <1>1
    <3>4. 2^(2 * p - 1) <= samples * samples  BY <3>2, <3>3
    <3> QED  BY <2>1, <3>4
  <2> QED  BY <2>2, <2>3
<1>3. PICK bits \in LowBits..HighBits : Overlap(samples) = 2^bits
  <2>1. Overlap(samples) = 2^(CHOOSE p \in LowBits..HighBits : Q(p))  BY DEF Overlap
  <2>2. (CHOOSE p \in LowBits..HighBits : Q(p)) \in LowBits..HighBits  BY <1>2
  <2> HIDE DEF Q
  <2> QED  BY <2>1, <2>2
<1>4. 2^bits >= 1  BY <1>3, OverlapBits
<1>5. bits \in Int /\ 2^bits \in Int  BY <1>1
<1> QED  BY <1>3, <1>4, <1>5

-----------------------------------------------------------------------------
(* The lengths that are calculated keep their types; a sequence is long enough for its overlaps. *)
LEMMA CalcSeqParametersFits ==
  ASSUME NEW t \in Stretcher
  PROVE  /\ CalcSeqParameters(t) \in Stretcher
         /\ CalcSeqParameters(t).overlapLength = t.overlapLength /\ CalcSeqParameters(t).tempo = t.tempo
         /\ CalcSeqParameters(t).sampleRate = t.sampleRate /\ CalcSeqParameters(t).overlapMs = t.overlapMs
         /\ CalcSeqParameters(t).seekWindowLength >= 2 * t.overlapLength
<1> DEFINE seq  == IF t.autoSeq THEN Automatic(SeqSlow, SeqFast, t.tempo) ELSE t.sequenceMs
           seek == IF t.autoSeek THEN Automatic(SeekSlow, SeekFast, t.tempo) ELSE t.seekWindowMs
           c    == CalcSeqParameters(t)
<1>1. /\ t.tempo \in Nat /\ t.sequenceMs \in Nat /\ t.seekWindowMs \in Nat /\ t.sampleRate \in Nat /\ t.overlapLength \in Nat
  BY DEF Stretcher
<1>2. seq \in Nat /\ seek \in Nat
  <2>1. Automatic(SeqSlow, SeqFast, t.tempo) \in Nat /\ Automatic(SeekSlow, SeekFast, t.tempo) \in Nat
    BY <1>1, Numbers, AutomaticNatural
  <2> QED  BY <1>1, <2>1
<1> HIDE DEF seq, seek
<1>3. Second \in Nat /\ Second >= 1  BY Numbers
<1>4. (t.sampleRate * seq) \div Second \in Nat /\ (t.sampleRate * seek) \div Second \in Nat
  <2>1. t.sampleRate * seq \in Nat /\ t.sampleRate * seek \in Nat  BY <1>1, <1>2
  <2> QED  BY <2>1, <1>3, Quotient
<1>5. c = [t EXCEPT !.sequenceMs = seq, !.seekWindowMs = seek,
                    !.seekWindowLength = Larger((t.sampleRate * seq) \div Second, 2 * t.overlapLength),
                    !.seekLength = (t.sampleRate * seek) \div Second]
  BY DEF CalcSeqParameters, seq, seek
<1>6. PICK w \in Nat : w = Larger((t.sampleRate * seq) \div Second, 2 * t.overlapLength) /\ w >= 2 * t.overlapLength
  BY <1>1, <1>4 DEF Larger
<1>7. PICK k \in Nat : k = (t.sampleRate * seek) \div Second  BY <1>4
<1>8. c = [t EXCEPT !.sequenceMs = seq, !.seekWindowMs = seek, !.seekWindowLength = w, !.seekLength = k]  BY <1>5, <1>6, <1>7
<1> HIDE DEF c
<1>9. c \in Stretcher  BY <1>2, <1>8 DEF Stretcher
<1>10. /\ c.overlapLength = t.overlapLength /\ c.tempo = t.tempo /\ c.sampleRate = t.sampleRate /\ c.overlapMs = t.overlapMs
       /\ c.seekWindowLength = w  BY <1>8 DEF Stretcher
<1> QED  BY <1>6, <1>9, <1>10 DEF c

(* sampleReq leaves room for a whole sequence and for the skip that follows it. *)
LEMMA SetTempoFits ==
  ASSUME NEW t \in Stretcher, t.overlapLength >= 1, NEW tempo \in Nat
  PROVE  SetTempo(t, tempo) \in Stretcher /\ Fits(SetTempo(t, tempo))
<1> DEFINE d == [t EXCEPT !.tempo = tempo]
           n == CalcSeqParameters(d)
           e == SetTempo(t, tempo)
<1>1. d \in Stretcher /\ d.overlapLength = t.overlapLength  BY DEF Stretcher
<1> HIDE DEF d
<1>2. n \in Stretcher /\ n.overlapLength = t.overlapLength /\ n.seekWindowLength >= 2 * t.overlapLength  BY <1>1, CalcSeqParametersFits
<1> HIDE DEF n
<1>3. PICK o \in Nat, w \in Nat, k \in Nat : n.overlapLength = o /\ n.seekWindowLength = w /\ n.seekLength = k /\ o >= 1 /\ w >= 2 * o
  BY <1>2 DEF Stretcher
<1>4. Unit \in Nat /\ Unit >= 1  BY Numbers
<1>5. PICK skip \in Nat : skip = tempo * (n.seekWindowLength - n.overlapLength)
  <2>1. w - o \in Nat  BY <1>3
  <2>2. tempo * (w - o) \in Nat  BY <2>1
  <2> QED  BY <2>2, <1>3
<1>6. PICK int \in Nat : int = (2 * skip + Unit) \div (2 * Unit) /\ skip < Unit * (int + 1)
  <2>1. 2 * skip + Unit \in Nat /\ 2 * Unit \in Nat /\ 2 * Unit >= 1  BY <1>4
  <2>2. PICK q \in Nat : q = (2 * skip + Unit) \div (2 * Unit) /\ 2 * skip + Unit < q * (2 * Unit) + 2 * Unit  BY <2>1, Quotient
  <2>3. q * (2 * Unit) = 2 * (Unit * q) /\ Unit * (q + 1) = Unit * q + Unit  BY <1>4
  <2>4. PICK u \in Nat : u = Unit * q  BY <1>4
  <2>5. 2 * skip + Unit < 2 * u + 2 * Unit  BY <2>2, <2>3, <2>4
  <2>6. skip < u + Unit  BY <2>5, <1>4
  <2> QED  BY <2>2, <2>3, <2>4, <2>6
<1>7. PICK r \in Nat : r = Larger(int + n.overlapLength, n.seekWindowLength) + n.seekLength /\ r >= w + k /\ r >= int + o + k
  BY <1>3 DEF Larger
<1>8. e = [n EXCEPT !.nominalSkip = skip, !.sampleReq = r]  BY <1>5, <1>6, <1>7 DEF SetTempo, n, d
<1> HIDE DEF e
<1>9. e \in Stretcher  BY <1>2, <1>8 DEF Stretcher
<1>10. e.overlapLength = o /\ e.seekWindowLength = w /\ e.seekLength = k /\ e.nominalSkip = skip /\ e.sampleReq = r
  BY <1>2, <1>3, <1>8 DEF Stretcher
<1>11. skip < Unit * (r - o - k + 1)
  <2>1. PICK z \in Nat : z = r - o - k /\ int + 1 <= z + 1  BY <1>3, <1>7
  <2>2. Unit * (int + 1) <= Unit * (z + 1)  BY <2>1, <1>4, Product
  <2>3. Unit * (int + 1) \in Nat /\ Unit * (z + 1) \in Nat  BY <2>1, <1>4
  <2> QED  BY <2>1, <2>2, <2>3, <1>6
<1>12. Fits(e)  BY <1>3, <1>7, <1>10, <1>11 DEF Fits
<1> QED  BY <1>9, <1>12 DEF e

(* setParameters and calculateOverlapLength: the lengths are calculated again with the new overlap. *)
LEMMA SetParametersFits ==
  ASSUME NEW t \in Stretcher, NEW rate \in Int, NEW seq \in Int, NEW seek \in Int, NEW overlap \in Int
  PROVE  SetParameters(t, rate, seq, seek, overlap) \in Stretcher /\ Fits(SetParameters(t, rate, seq, seek, overlap))
<1> DEFINE d == [t EXCEPT
                   !.sampleRate = IF rate > 0 THEN rate ELSE @,
                   !.overlapMs = IF overlap > 0 THEN overlap ELSE @,
                   !.sequenceMs = IF seq > 0 THEN seq ELSE @, !.autoSeq = IF seq < 0 THEN @ ELSE seq = 0,
                   !.seekWindowMs = IF seek > 0 THEN seek ELSE @, !.autoSeek = IF seek < 0 THEN @ ELSE seek = 0]
           n == CalcSeqParameters(d)
           e == [n EXCEPT !.overlapLength = Overlap((n.sampleRate * n.overlapMs) \div Second)]
<1>1. PICK r \in Nat : r = IF rate > 0 THEN rate ELSE t.sampleRate  BY DEF Stretcher
<1>11. PICK m \in Nat : m = IF overlap > 0 THEN overlap ELSE t.overlapMs  BY DEF Stretcher
<1>12. PICK s \in Nat : s = IF seq > 0 THEN seq ELSE t.sequenceMs  BY DEF Stretcher
<1>13. PICK k \in Nat : k = IF seek > 0 THEN seek ELSE t.seekWindowMs  BY DEF Stretcher
<1>14. PICK a \in BOOLEAN : a = IF seq < 0 THEN t.autoSeq ELSE seq = 0  BY DEF Stretcher
<1>15. PICK b \in BOOLEAN : b = IF seek < 0 THEN t.autoSeek ELSE seek = 0  BY DEF Stretcher
<1>16. d = [t EXCEPT !.sampleRate = r, !.overlapMs = m, !.sequenceMs = s, !.autoSeq = a, !.seekWindowMs = k, !.autoSeek = b]
  <2>1. d = [t EXCEPT !.sampleRate = IF rate > 0 THEN rate ELSE t.sampleRate,
                      !.overlapMs = IF overlap > 0 THEN overlap ELSE t.overlapMs,
                      !.sequenceMs = IF seq > 0 THEN seq ELSE t.sequenceMs, !.autoSeq = IF seq < 0 THEN t.autoSeq ELSE seq = 0,
                      !.seekWindowMs = IF seek > 0 THEN seek ELSE t.seekWindowMs, !.autoSeek = IF seek < 0 THEN t.autoSeek ELSE seek = 0]
    OBVIOUS
  <2> HIDE DEF d
  <2>2. d = [t EXCEPT !.sampleRate = r, !.overlapMs = m, !.sequenceMs = s, !.autoSeq = IF seq < 0 THEN t.autoSeq ELSE seq = 0,
                      !.seekWindowMs = k, !.autoSeek = IF seek < 0 THEN t.autoSeek ELSE seek = 0]
    BY <2>1, <1>1, <1>11, <1>12, <1>13, Zenon
  <2> QED  BY <2>2, <1>14, <1>15, Zenon
<1>2. SetParameters(t, rate, seq, seek, overlap) = SetTempo(e, n.tempo)  BY DEF SetParameters
<1> HIDE DEF d
<1>3. d \in Stretcher  BY <1>16 DEF Stretcher
<1>4. n \in Stretcher  BY <1>3, CalcSeqParametersFits
<1> HIDE DEF n
<1>5. n.sampleRate * n.overlapMs \in Nat /\ n.tempo \in Nat
  <2>1. n.sampleRate \in Nat /\ n.overlapMs \in Nat /\ n.tempo \in Nat  BY <1>4 DEF Stretcher
  <2> QED  BY <2>1
<1>6. (n.sampleRate * n.overlapMs) \div Second \in Nat  BY <1>5, Numbers, Quotient
<1>7. PICK o \in Nat : o = Overlap((n.sampleRate * n.overlapMs) \div Second) /\ o >= 1  BY <1>6, OverlapPositive
<1>8. e = [n EXCEPT !.overlapLength = o]  BY <1>7
<1> HIDE DEF e
<1>9. e \in Stretcher /\ e.overlapLength >= 1  BY <1>4, <1>7, <1>8 DEF Stretcher
<1> QED  BY <1>2, <1>5, <1>9, SetTempoFits

(* A new tempo changer. *)
LEMMA NewStretchFits ==
  NewStretch \in Stretcher /\ Fits(NewStretch)
<1> DEFINE zero == [sampleRate |-> 0, overlapMs |-> 0, sequenceMs |-> 0, seekWindowMs |-> 0, autoSeq |-> TRUE,
                    autoSeek |-> TRUE, tempo |-> Unit, overlapLength |-> 0, seekWindowLength |-> 0,
                    seekLength |-> 0, nominalSkip |-> 0, sampleReq |-> 0]
           rate == CHOOSE r \in SoundRates : \A s \in SoundRates : s <= r
<1>1. zero \in Stretcher  BY Numbers DEF Stretcher
<1>2. rate \in Int
  <2>1. \E r \in SoundRates : \A s \in SoundRates : s <= r  BY InputsTyped
  <2>2. rate \in SoundRates  BY <2>1
  <2>3. SoundRates \subseteq Nat  BY InputsTyped
  <2> HIDE DEF rate
  <2> QED  BY <2>2, <2>3
<1>3. NewStretch = SetParameters(zero, rate, 0, 0, OverlapMs)  BY DEF NewStretch
<1> HIDE DEF zero, rate
<1>4. OverlapMs \in Int /\ 0 \in Int  BY Numbers
<1> QED  BY <1>1, <1>2, <1>3, <1>4, SetParametersFits

-----------------------------------------------------------------------------
(* The samples written while the position is within the intervals: the last is not beyond them, the next would be. *)
LEMMA WithinRight ==
  ASSUME NEW slope \in Nat, NEW m \in Nat, NEW rate \in Nat, rate >= 1
  PROVE  \E w \in Nat : /\ w = Within(slope, m, rate)
                        /\ slope + w * rate > m * Unit
                        /\ w = 0 \/ slope + w * rate <= m * Unit + rate
<1>1. Unit \in Nat  BY Numbers
<1>2. PICK e \in Nat : e = m * Unit  BY <1>1
<1>3. CASE slope > e
  <2>1. Within(slope, m, rate) = 0  BY <1>2, <1>3 DEF Within
  <2>2. slope + 0 * rate > e  BY <1>3
  <2> WITNESS 0 \in Nat
  <2> QED  BY <2>1, <2>2, <1>2
<1>4. CASE slope <= e
  <2>1. PICK x \in Nat : x = e - slope  BY <1>4
  <2>2. PICK q \in Nat : q = x \div rate /\ q * rate <= x /\ x < q * rate + rate  BY Quotient
  <2>3. Within(slope, m, rate) = q + 1
    <3>1. ~(slope > e)  BY <1>4
    <3> QED  BY <1>2, <2>1, <2>2, <3>1 DEF Within
  <2>4. (q + 1) * rate = q * rate + rate  OBVIOUS
  <2>5. PICK p \in Nat : p = q * rate  OBVIOUS
  <2>6. slope + (q + 1) * rate > e /\ slope + (q + 1) * rate <= e + rate  BY <2>1, <2>2, <2>4, <2>5
  <2> WITNESS q + 1 \in Nat
  <2> QED  BY <2>3, <2>6, <1>2
<1> QED  BY <1>2, <1>3, <1>4

(* The transposer keeps pace with the samples it reads, and all it writes but one is within them. *)
LEMMA TransposeRight ==
  ASSUME NEW slope \in Nat, NEW n \in Nat, NEW rate \in Nat, rate >= 1
  PROVE  \E count \in Nat, end \in Nat :
           /\ Transpose(slope, n, rate) = [count |-> count, slope |-> end]
           /\ Ahead([count |-> count, slope |-> end], slope, n, rate) = 0
           /\ n = 0 => count = 0
           /\ count * rate <= Larger(n, 2) * Unit + rate
<1>1. Unit \in Nat /\ Unit >= 1  BY Numbers
<1>2. CASE n = 0
  <2>1. Transpose(slope, n, rate) = [count |-> 0, slope |-> slope]  BY <1>2 DEF Transpose
  <2>2. Ahead([count |-> 0, slope |-> slope], slope, n, rate) = 0  BY <1>2 DEF Ahead
  <2>3. 0 * rate <= Larger(n, 2) * Unit + rate
    <3>1. Larger(n, 2) \in Nat  BY DEF Larger
    <3>2. Larger(n, 2) * Unit \in Nat  BY <3>1, <1>1
    <3> QED  BY <3>2
  <2> QED  BY <2>1, <2>2, <2>3
<1>3. CASE n # 0
  <2>1. PICK m \in Nat : m = Larger(n - 1, 1) /\ Larger(n, 2) = m + 1 /\ m >= 1  BY <1>3 DEF Larger
  <2>2. PICK k1 \in Nat : /\ k1 = Within(slope, 1, rate) /\ slope + k1 * rate > 1 * Unit
                          /\ k1 = 0 \/ slope + k1 * rate <= 1 * Unit + rate
    BY WithinRight
  <2>3. PICK p1 \in Nat : p1 = k1 * rate  OBVIOUS
  <2>4. PICK s1 \in Nat : s1 = slope + p1 - Unit
    <3>1. slope + p1 > Unit  BY <2>2, <2>3, <1>1
    <3>2. slope + p1 - Unit \in Nat  BY <3>1, <1>1
    <3> QED  BY <3>2
  <2>5. PICK k2 \in Nat : /\ k2 = Within(s1, m, rate) /\ s1 + k2 * rate > m * Unit
                          /\ k2 = 0 \/ s1 + k2 * rate <= m * Unit + rate
    BY WithinRight
  <2>6. PICK p2 \in Nat, u \in Nat : p2 = k2 * rate /\ u = m * Unit  BY <1>1
  <2>7. PICK end \in Nat : end = s1 + p2 - u
    <3>1. s1 + p2 > u  BY <2>5, <2>6
    <3>2. s1 + p2 - u \in Nat  BY <3>1
    <3> QED  BY <3>2
  <2>8. (k1 + k2) * rate = p1 + p2 /\ (m + 1) * Unit = u + Unit
    BY <2>3, <2>6, <1>1
  <2>9. Transpose(slope, n, rate) = [count |-> k1 + k2, slope |-> end]
    <3>1. slope + k1 * rate - Unit = s1  BY <2>3, <2>4
    <3>2. s1 + k2 * rate - m * Unit = end  BY <2>6, <2>7
    <3> QED  BY <1>3, <2>1, <2>2, <2>5, <3>1, <3>2 DEF Transpose
  <2>10. Ahead([count |-> k1 + k2, slope |-> end], slope, n, rate) = 0
    <3>1. Ahead([count |-> k1 + k2, slope |-> end], slope, n, rate) = (k1 + k2) * rate - Larger(n, 2) * Unit - (end - slope)
      BY <1>3 DEF Ahead
    <3>2. (p1 + p2) - (u + Unit) - (end - slope) = 0  BY <2>4, <2>7, <1>1
    <3> QED  BY <3>1, <3>2, <2>1, <2>8
  <2>11. p1 + p2 <= u + Unit + rate
    <3>1. k1 = 0 => p1 = 0  BY <2>3
    <3>2. k2 = 0 => p2 = 0  BY <2>6
    <3>3. CASE k2 = 0
      BY <3>1, <3>2, <3>3, <2>2, <2>3, <1>1
    <3>4. CASE k2 # 0
      <4>1. s1 + p2 <= u + rate  BY <3>4, <2>5, <2>6
      <4> QED  BY <4>1, <2>4, <1>1
    <3> QED  BY <3>3, <3>4
  <2>12. (k1 + k2) * rate <= Larger(n, 2) * Unit + rate  BY <2>1, <2>8, <2>11
  <2>13. k1 + k2 \in Nat  OBVIOUS
  <2> QED  BY <2>9, <2>10, <2>12, <2>13, <1>3
<1> QED  BY <1>2, <1>3

(* There is room for all that is written, also when the filter holds back all but one of the samples put. *)
LEMMA RoomEnough ==
  ASSUME NEW n \in Nat, n >= 1, NEW c \in Nat, c <= n, NEW count \in Nat, NEW rate \in Nat, rate >= 1,
         Unit <= (Slack - 1) * rate, c = 0 => count = 0, count * rate <= Larger(c, 2) * Unit + rate
  PROVE  ~(count > Room(n, rate))
<1>1. Unit \in Nat /\ Unit >= 1 /\ Slack \in Nat  BY Numbers
<1>2. PICK x \in Nat : x = n * Unit /\ x >= Unit
  <2>1. n * Unit \in Nat /\ 1 * Unit <= n * Unit  BY <1>1, Product
  <2> QED  BY <2>1, <1>1
<1>3. PICK q \in Nat : q = x \div rate /\ x < q * rate + rate  BY <1>2, Quotient
<1>4. Room(n, rate) = q + Slack  BY <1>2, <1>3 DEF Room
<1>5. Slack >= 1
  <2>1. CASE Slack = 0
    <3>1. (Slack - 1) * rate = 0 - rate  BY <2>1
    <3> QED  BY <3>1, <1>1
  <2> QED  BY <2>1, <1>1
<1>6. SUFFICES ASSUME count > q + Slack  PROVE FALSE
  BY <1>4
<1>7. PICK d \in Nat : count = q + Slack + 1 + d  
  <2>1. count - q - Slack - 1 \in Nat /\ count = q + Slack + 1 + (count - q - Slack - 1)  BY <1>1, <1>6
  <2> QED  BY <2>1
<1>8. count * rate = q * rate + Slack * rate + rate + d * rate  BY <1>1, <1>7
<1>9. PICK a \in Nat, b \in Nat, e \in Nat, f \in Nat : a = q * rate /\ b = Slack * rate /\ e = d * rate /\ f = count * rate  BY <1>1
<1>10. f = a + b + rate + e /\ x < a + rate  BY <1>3, <1>8, <1>9
<1>11. Unit <= b - rate
  <2>1. (Slack - 1) * rate = Slack * rate - rate  BY <1>1
  <2> QED  BY <2>1, <1>9
<1>12. f <= Larger(c, 2) * Unit + rate  BY <1>9
<1>13. CASE c <= 2
  <2>1. Larger(c, 2) = 2  BY <1>13 DEF Larger
  <2>2. f <= 2 * Unit + rate  BY <2>1, <1>12
  <2> QED  BY <2>2, <1>1, <1>2, <1>10, <1>11
<1>14. CASE c > 2
  <2>1. Larger(c, 2) = c  BY <1>14 DEF Larger
  <2>2. c * Unit <= n * Unit /\ c * Unit \in Nat  BY <1>1, Product
  <2>3. f <= x + rate  BY <2>1, <2>2, <1>2, <1>12
  <2> QED  BY <2>3, <1>1, <1>10, <1>11
<1> QED  BY <1>13, <1>14

(* The states of the transposer: it holds back no more than the taps of its filter, and has kept pace and room. *)
Half == [store : Nat, out : Nat, slope : Nat, ahead : {0}, spilt : {FALSE}]
Steady(s) == s \in Half /\ s.store <= FilterTaps

(* A rate that the controls can give. *)
Given(rate) == rate \in Nat /\ rate >= 1 /\ Unit <= (Slack - 1) * rate

(* TransposerProcess: first transposed and then filtered, or the other way round. *)
LEMMA TransposerSteady ==
  ASSUME NEW s, Steady(s), NEW n \in Nat, NEW rate, Given(rate)
  PROVE  Steady(TransposerProcess(s, n, rate))
<1>1. FilterTaps \in Nat /\ Unit \in Nat  BY Numbers
<1>2. rate \in Nat /\ rate >= 1 /\ Unit <= (Slack - 1) * rate  BY DEF Given
<1>3. s \in Half /\ s.store \in Nat /\ s.out \in Nat /\ s.slope \in Nat /\ s.ahead = 0 /\ s.spilt = FALSE /\ s.store <= FilterTaps
  BY DEF Steady, Half
<1>4. CASE n = 0
  BY <1>4 DEF TransposerProcess
<1>5. CASE n # 0 /\ rate < Unit
  <2>1. PICK count \in Nat, end \in Nat :
           /\ Transpose(s.slope, n, rate) = [count |-> count, slope |-> end]
           /\ Ahead([count |-> count, slope |-> end], s.slope, n, rate) = 0
           /\ n = 0 => count = 0
           /\ count * rate <= Larger(n, 2) * Unit + rate
    BY <1>2, <1>3, TransposeRight
  <2>2. ~(count > Room(n, rate))  BY <1>2, <1>5, <2>1, RoomEnough
  <2>3. PICK have \in Nat : have = s.store + count  BY <1>3
  <2>4. PICK given \in Nat : given = Evaluate(have) /\ given <= have /\ have - given <= FilterTaps
    BY <1>1, <2>3 DEF Evaluate, EvaluateFilter
  <2>5. TransposerProcess(s, n, rate) = Upsample(s, n, rate)  BY <1>5 DEF TransposerProcess
  <2>6. Upsample(s, n, rate) = [store |-> have - given, out |-> s.out + given, slope |-> end, ahead |-> 0, spilt |-> FALSE]
    <3> DEFINE t == Transpose(s.slope, n, rate)
    <3>2. Upsample(s, n, rate) = [store |-> (s.store + t.count) - Evaluate(s.store + t.count), out |-> s.out + Evaluate(s.store + t.count),
                                  slope |-> t.slope, ahead |-> s.ahead + Ahead(t, s.slope, n, rate),
                                  spilt |-> s.spilt \/ t.count > Room(n, rate)]
      BY DEF Upsample
    <3>3. t.count = count /\ t.slope = end  BY <2>1
    <3>4. Ahead(t, s.slope, n, rate) = 0  BY <2>1
    <3> HIDE DEF t
    <3>5. s.store + t.count = have /\ Evaluate(s.store + t.count) = given  BY <2>3, <2>4, <3>3
    <3>6. s.ahead + Ahead(t, s.slope, n, rate) = 0  BY <1>3, <3>4
    <3>7. (s.spilt \/ t.count > Room(n, rate)) = FALSE  BY <1>3, <2>2, <3>3
    <3> QED  BY <3>2, <3>3, <3>5, <3>6, <3>7, Zenon
  <2>7. have - given \in Nat /\ s.out + given \in Nat  BY <1>3, <2>4
  <2> QED  BY <2>4, <2>5, <2>6, <2>7 DEF Steady, Half
<1>6. CASE n # 0 /\ ~(rate < Unit)
  <2>1. PICK have \in Nat : have = s.store + n  BY <1>3
  <2>2. PICK c \in Nat : c = Evaluate(have) /\ c <= n /\ have - c \in Nat /\ have - c <= FilterTaps
    <3>1. PICK h \in Nat : h = s.store /\ h <= FilterTaps /\ have = h + n  BY <1>3, <2>1
    <3>2. CASE have < FilterTaps
      <4>1. Evaluate(have) = 0  BY <3>2 DEF Evaluate
      <4> QED  BY <4>1, <3>2, <1>1, <2>1
    <3>3. CASE ~(have < FilterTaps)
      <4>1. Evaluate(have) = have - FilterTaps  BY <3>3 DEF Evaluate, EvaluateFilter
      <4>2. have - FilterTaps \in Nat /\ have - FilterTaps <= n /\ have - (have - FilterTaps) = FilterTaps  BY <3>1, <3>3, <1>1
      <4> QED  BY <4>1, <4>2, <1>1
    <3> QED  BY <3>2, <3>3
  <2>3. PICK count \in Nat, end \in Nat :
           /\ Transpose(s.slope, c, rate) = [count |-> count, slope |-> end]
           /\ Ahead([count |-> count, slope |-> end], s.slope, c, rate) = 0
           /\ c = 0 => count = 0
           /\ count * rate <= Larger(c, 2) * Unit + rate
    BY <1>2, <1>3, TransposeRight
  <2>4. ~(count > Room(n, rate))  BY <1>2, <1>6, <2>2, <2>3, RoomEnough
  <2>5. TransposerProcess(s, n, rate) = Downsample(s, n, rate)  BY <1>6 DEF TransposerProcess
  <2>6. Downsample(s, n, rate) = [store |-> have - c, out |-> s.out + count, slope |-> end, ahead |-> 0, spilt |-> FALSE]
    <3> DEFINE t == Transpose(s.slope, Evaluate(s.store + n), rate)
    <3>2. Downsample(s, n, rate) = [store |-> (s.store + n) - Evaluate(s.store + n), out |-> s.out + t.count, slope |-> t.slope,
                                    ahead |-> s.ahead + Ahead(t, s.slope, Evaluate(s.store + n), rate),
                                    spilt |-> s.spilt \/ t.count > Room(n, rate)]
      BY DEF Downsample
    <3>3. s.store + n = have /\ Evaluate(s.store + n) = c  BY <2>1, <2>2
    <3>4. t = [count |-> count, slope |-> end] /\ t.count = count /\ t.slope = end  BY <2>3, <3>3
    <3> HIDE DEF t
    <3>5. Ahead(t, s.slope, c, rate) = 0  BY <2>3, <3>4
    <3>6. s.ahead + Ahead(t, s.slope, Evaluate(s.store + n), rate) = 0  BY <1>3, <3>3, <3>5
    <3>7. (s.spilt \/ t.count > Room(n, rate)) = FALSE  BY <1>3, <2>4, <3>4
    <3> QED  BY <3>2, <3>3, <3>4, <3>6, <3>7, Zenon
  <2>7. s.out + count \in Nat  BY <1>3
  <2> QED  BY <2>2, <2>5, <2>6, <2>7 DEF Steady, Half
<1> QED  BY <1>4, <1>5, <1>6

-----------------------------------------------------------------------------
(* What the controls give is a rate the transposer has room for, and a tempo. *)
LEMMA ControlsGive ==
  ASSUME NEW c \in Controllers
  PROVE  Given(Rate(c)) /\ Tempo(c) \in Nat /\ Tempo(c) >= 1
<1>1. c.pitch \in Values /\ c.rate \in Values /\ c.tempo \in Values  BY DEF Controllers
<1>2. Values \subseteq Nat \ {0} /\ Unit \in Nat /\ Unit >= 1  BY Numbers
<1>3. PICK p \in Values, r \in Values, t \in Values : p = c.pitch /\ r = c.rate /\ t = c.tempo  BY <1>1
<1>4. p \in Nat /\ r \in Nat /\ t \in Nat /\ p >= 1  BY <1>2
<1>5. p * r \in Nat /\ t * Unit \in Nat  BY <1>2, <1>4
<1>6. (p * r) \div Unit \in Nat /\ (t * Unit) \div p \in Nat  BY <1>2, <1>4, <1>5, Quotient
<1>7. (p * r) \div Unit >= 1 /\ (t * Unit) \div p >= 1 /\ Unit <= (Slack - 1) * ((p * r) \div Unit)  BY RatesGiven
<1>8. Rate(c) = (p * r) \div Unit /\ Tempo(c) = (t * Unit) \div p  BY <1>3 DEF Rate, Tempo
<1> QED  BY <1>6, <1>7, <1>8 DEF Given

(* The transposer as it stands is steady. *)
LEMMA TransposerHalf ==
  ASSUME IInv
  PROVE  Steady(Transposer) /\ Transposer.out = transOut
<1>1. drift = [rate |-> 0, tempo |-> 0] /\ spilt = FALSE
  <2>1. ~spilt /\ spilt \in BOOLEAN /\ drift = [rate |-> 0, tempo |-> 0]  BY DEF IInv, Types, KeepsPace, RoomKept
  <2> QED  BY <2>1
<1> QED  BY <1>1 DEF IInv, Types, Transposer, Steady, Half

(* What is left of it after samples went through, some of them moved on at once. *)
LEMMA SetTransposerKeeps ==
  ASSUME IInv, NEW s, Steady(s), NEW moved \in Nat, moved <= s.out, SetTransposer(s, moved)
  PROVE  /\ storeBuffer' \in Nat /\ storeBuffer' <= FilterTaps /\ transOut' \in Nat /\ transOut' = s.out - moved /\ iSlopeCount' \in Nat
         /\ spilt' \in BOOLEAN /\ KeepsPace' /\ RoomKept'
<1>1. s.store \in Nat /\ s.store <= FilterTaps /\ s.out \in Nat /\ s.slope \in Nat /\ s.ahead = 0 /\ s.spilt = FALSE
  BY DEF Steady, Half
<1>2. /\ storeBuffer' = s.store /\ transOut' = s.out - moved /\ iSlopeCount' = s.slope
      /\ drift' = [drift EXCEPT !.rate = s.ahead] /\ spilt' = s.spilt
  BY DEF SetTransposer
<1>3. storeBuffer' \in Nat /\ storeBuffer' <= FilterTaps  BY <1>1, <1>2
<1>4. transOut' \in Nat /\ transOut' = s.out - moved
  <2>1. s.out - moved \in Nat  BY <1>1
  <2> QED  BY <2>1, <1>2
<1>5. KeepsPace'
  <2>1. drift = [rate |-> 0, tempo |-> 0]  BY DEF IInv, KeepsPace
  <2>2. drift' = [rate |-> 0, tempo |-> 0]  BY <2>1, <1>1, <1>2
  <2> QED  BY <2>2 DEF KeepsPace
<1>6. spilt' \in BOOLEAN /\ RoomKept' /\ iSlopeCount' \in Nat  BY <1>1, <1>2 DEF RoomKept
<1> QED  BY <1>3, <1>4, <1>5, <1>6

(* IInv of the next state, where the settings stay. *)
LEMMA SettingsStay ==
  ASSUME IInv, UNCHANGED <<ctl, channels, td>>,
         skipFract' \in 0..Unit - 1, drain' \in [left : Nat, wanted : Nat],
         inputBuffer' \in Nat, outputBuffer' \in Nat, storeBuffer' \in Nat, transOut' \in Nat, iSlopeCount' \in Nat,
         output' \in {"stretch", "transpose"}, at' \in {"idle", "stretch", "flush"},
         storeBuffer' <= FilterTaps, spilt' \in BOOLEAN, KeepsPace', RoomKept', Places'
  PROVE  IInv'
<1>1. ctl' = ctl /\ channels' = channels /\ td' = td  OBVIOUS
<1>2. Fits(td')  BY <1>1 DEF IInv, Fits
<1>3. Types'  BY <1>1 DEF IInv, Types
<1> QED  BY <1>2, <1>3 DEF IInv

(* setPitchSemiTones, setRateChange, setTempoChange: the stages change places, and no samples stay behind. *)
LEMMA SetControlStep ==
  ASSUME IInv, NEW k \in DOMAIN ctl, NEW v \in Controls, SetControl(k, v)
  PROVE  IInv'
<1>1. PICK c \in Controllers : c = [ctl EXCEPT ![k] = v]
  <2>1. ctl \in Controllers /\ v \in Values  BY DEF IInv, Types, Values
  <2> QED  BY <2>1 DEF Controllers
<1>2. at = "idle" /\ Crossed(c) /\ UNCHANGED <<channels, bSrateSet, skipFract, drain>>  BY <1>1 DEF SetControl, Called
<1>3. ctl' = c /\ td' = IF Tempo(c) # Tempo(ctl) THEN SetTempo(td, Tempo(c)) ELSE td  BY <1>2 DEF Crossed
<1>4. td \in Stretcher /\ Fits(td) /\ Given(Rate(c)) /\ Tempo(c) \in Nat  BY ControlsGive DEF IInv, Types
<1>5. td' \in Stretcher /\ Fits(td')
  <2>1. SetTempo(td, Tempo(c)) \in Stretcher /\ Fits(SetTempo(td, Tempo(c)))  BY <1>4, SetTempoFits DEF Fits
  <2>2. CASE Tempo(c) # Tempo(ctl)
    <3>1. td' = SetTempo(td, Tempo(c))  BY <1>3, <2>2
    <3> QED  BY <2>1, <3>1
  <2>3. CASE Tempo(c) = Tempo(ctl)
    <3>1. td' = td  BY <1>3, <2>3
    <3> QED  BY <1>4, <3>1
  <2> QED  BY <2>2, <2>3
<1>6. /\ channels' \in {0} \cup Channels /\ skipFract' \in 0..Unit - 1 /\ drain' \in [left : Nat, wanted : Nat] /\ channels' = channels
  BY <1>2 DEF IInv, Types
<1>7. /\ inputBuffer \in Nat /\ outputBuffer \in Nat /\ storeBuffer \in Nat /\ transOut \in Nat /\ iSlopeCount \in Nat
      /\ output \in {"stretch", "transpose"} /\ spilt \in BOOLEAN /\ storeBuffer <= FilterTaps /\ FilterTaps \in Nat
  BY Numbers DEF IInv, Types
<1>8. IF output = "stretch" THEN transOut = 0 ELSE outputBuffer = 0  BY <1>2 DEF IInv, Places
<1>9. channels = 0 => inputBuffer = 0 /\ outputBuffer = 0 /\ storeBuffer = 0 /\ transOut = 0  BY DEF IInv, Places
<1>14. (at = "flush" \/ drain.left > 0 => channels # 0) /\ drain' = drain  BY <1>2 DEF IInv, Places
<1>10. SUFFICES /\ inputBuffer' \in Nat /\ outputBuffer' \in Nat /\ storeBuffer' \in Nat /\ transOut' \in Nat /\ iSlopeCount' \in Nat
                /\ output' \in {"stretch", "transpose"} /\ at' \in {"idle", "stretch", "flush"}
                /\ storeBuffer' <= FilterTaps /\ spilt' \in BOOLEAN /\ KeepsPace' /\ RoomKept' /\ Places'
  BY <1>3, <1>5, <1>6 DEF IInv, Types
<1>11. CASE /\ Rate(c) <= Unit /\ output = "transpose"
            /\ transOut' = 0 /\ outputBuffer' = outputBuffer + transOut
            /\ inputBuffer' = inputBuffer + storeBuffer /\ storeBuffer' = 0
            /\ at' = "stretch" /\ then' = "crossed"
            /\ UNCHANGED <<output, iSlopeCount, drift, spilt>>
  <2>1. PICK o \in Nat, i \in Nat : o = outputBuffer + transOut /\ i = inputBuffer + storeBuffer  BY <1>7
  <2>2. outputBuffer' = o /\ inputBuffer' = i  BY <1>11, <2>1
  <2>3. channels = 0 => o = 0 /\ i = 0  BY <1>9, <2>1
  <2>4. Places'  BY <1>6, <1>11, <1>14, <2>2, <2>3 DEF Places
  <2>5. KeepsPace' /\ RoomKept'  BY <1>11 DEF IInv, KeepsPace, RoomKept
  <2>6. transOut' \in Nat /\ storeBuffer' \in Nat /\ storeBuffer' <= FilterTaps  BY <1>7, <1>11
  <2> QED  BY <1>7, <1>11, <2>2, <2>4, <2>5, <2>6
<1>12. CASE /\ Rate(c) > Unit /\ output = "stretch"
            /\ outputBuffer' = 0 /\ inputBuffer' = 0
            /\ SetTransposer(TransposerProcess([Transposer EXCEPT !.out = @ + outputBuffer], inputBuffer, Rate(c)), 0)
            /\ output' = "transpose"
            /\ UNCHANGED <<at, then>>
  <2> DEFINE s == [Transposer EXCEPT !.out = @ + outputBuffer]
             t == TransposerProcess(s, inputBuffer, Rate(c))
  <2>1. Steady(s)
    <3>1. Transposer \in Half /\ Transposer.out \in Nat /\ Transposer.store <= FilterTaps  BY TransposerHalf DEF Steady, Half
    <3>2. PICK o \in Nat : o = Transposer.out + outputBuffer  BY <1>7, <3>1
    <3>3. s = [Transposer EXCEPT !.out = o]  BY <3>2
    <3> QED  BY <3>1, <3>3 DEF Steady, Half
  <2> HIDE DEF s
  <2>2. Steady(t)  BY <2>1, <1>4, <1>7, TransposerSteady
  <2>3. SetTransposer(t, 0)  BY <1>12 DEF s
  <2>4. channels = 0 => storeBuffer' = 0 /\ transOut' = 0
    <3>1. SUFFICES ASSUME channels = 0  PROVE storeBuffer' = 0 /\ transOut' = 0
      OBVIOUS
    <3>2. inputBuffer = 0 /\ outputBuffer = 0 /\ storeBuffer = 0 /\ transOut = 0  BY <1>9, <3>1
    <3>3. t = s  BY <3>2 DEF TransposerProcess
    <3>4. s.store = 0 /\ s.out = 0
      <4>1. Transposer.out + outputBuffer = 0  BY <3>2, TransposerHalf
      <4> QED  BY <4>1, <3>2 DEF s, Transposer
    <3> QED  BY <2>3, <3>3, <3>4 DEF SetTransposer
  <2> HIDE DEF t
  <2>5. 0 \in Nat /\ 0 <= t.out  BY <2>2 DEF Steady, Half
  <2>6. /\ storeBuffer' \in Nat /\ storeBuffer' <= FilterTaps /\ transOut' \in Nat /\ iSlopeCount' \in Nat
        /\ spilt' \in BOOLEAN /\ KeepsPace' /\ RoomKept'
    BY <2>2, <2>3, <2>5, SetTransposerKeeps
  <2>7. Places'  BY <1>2, <1>6, <1>12, <1>14, <2>4 DEF Places
  <2> QED  BY <1>2, <1>12, <2>6, <2>7
<1>13. CASE /\ (Rate(c) <= Unit) = (output = "stretch")
            /\ UNCHANGED <<output, buffers, iSlopeCount, drift, spilt, at, then>>
  <2>1. UNCHANGED <<inputBuffer, outputBuffer, storeBuffer, transOut>>  BY <1>13 DEF buffers
  <2>2. Places'  BY <1>2, <1>6, <1>8, <1>9, <1>13, <1>14, <2>1 DEF Places
  <2>3. KeepsPace' /\ RoomKept'  BY <1>13 DEF IInv, KeepsPace, RoomKept
  <2> QED  BY <1>2, <1>7, <1>13, <2>1, <2>2, <2>3
<1> QED  BY <1>2, <1>11, <1>12, <1>13 DEF Crossed

-----------------------------------------------------------------------------
(* What the state is made of, as numbers. *)
LEMMA Plain ==
  ASSUME IInv
  PROVE  /\ inputBuffer \in Nat /\ outputBuffer \in Nat /\ storeBuffer \in Nat /\ transOut \in Nat /\ iSlopeCount \in Nat
         /\ output \in {"stretch", "transpose"} /\ at \in {"idle", "stretch", "flush"} /\ spilt \in BOOLEAN /\ storeBuffer <= FilterTaps
         /\ skipFract \in 0..Unit - 1 /\ drain \in [left : Nat, wanted : Nat] /\ drain.left \in Nat /\ drain.wanted \in Nat
         /\ td \in Stretcher /\ Fits(td) /\ ctl \in Controllers /\ channels \in {0} \cup Channels
<1>1. drain.left \in Nat /\ drain.wanted \in Nat  BY DEF IInv, Types
<1> QED  BY <1>1 DEF IInv, Types

(* setSampleRate and setSetting: new lengths, and nothing else. *)
LEMMA LengthsStep ==
  ASSUME IInv, NEW t \in Stretcher, Fits(t), td' = t,
         UNCHANGED <<ctl, output, channels, skipFract, buffers, iSlopeCount, at, then, drain, drift, spilt>>
  PROVE  IInv'
<1>1. UNCHANGED <<inputBuffer, outputBuffer, storeBuffer, transOut>>  BY DEF buffers
<1>2. td' \in Stretcher /\ Fits(td')  OBVIOUS
<1>3. Places' /\ KeepsPace' /\ RoomKept'  BY <1>1 DEF IInv, Places, KeepsPace, RoomKept
<1>4. Types'  BY <1>1, <1>2 DEF IInv, Types
<1>5. storeBuffer' <= FilterTaps  BY <1>1 DEF IInv
<1> QED  BY <1>2, <1>3, <1>4, <1>5 DEF IInv

(* setSampleRate keeps the invariant. *)
LEMMA SetSampleRateStep ==
  ASSUME IInv, NEW r \in SoundRates, SetSampleRate(r)
  PROVE  IInv'
<1>1. r \in Int /\ -1 \in Int  BY InputsTyped
<1>2. td \in Stretcher  BY Plain
<1>3. SetParameters(td, r, -1, -1, -1) \in Stretcher /\ Fits(SetParameters(td, r, -1, -1, -1))  BY <1>1, <1>2, SetParametersFits
<1>4. /\ td' = SetParameters(td, r, -1, -1, -1)
      /\ UNCHANGED <<ctl, output, channels, skipFract, buffers, iSlopeCount, at, then, drain, drift, spilt>>
  BY DEF SetSampleRate
<1> QED  BY <1>3, <1>4, LengthsStep

(* setSetting keeps it: sequence, seek window and overlap, set or made automatic. *)
LEMMA SetSettingStep ==
  ASSUME IInv, NEW p \in {"sequence", "seekwindow", "overlap"}, NEW v \in AskedLengths, SetSetting(p, v)
  PROVE  IInv'
<1> DEFINE seq  == IF td.autoSeq THEN 0 ELSE td.sequenceMs
           seek == IF td.autoSeek THEN 0 ELSE td.seekWindowMs
<1>1. td \in Stretcher /\ v \in Int  BY Plain, InputsTyped
<1>2. seq \in Int /\ seek \in Int /\ td.sampleRate \in Int /\ td.overlapMs \in Int  BY <1>1 DEF Stretcher
<1>3. /\ td' = CASE p = "sequence" -> SetParameters(td, td.sampleRate, v, seek, td.overlapMs)
                 [] p = "seekwindow" -> SetParameters(td, td.sampleRate, seq, v, td.overlapMs)
                 [] p = "overlap" -> SetParameters(td, td.sampleRate, seq, seek, v)
      /\ UNCHANGED <<ctl, output, channels, skipFract, buffers, iSlopeCount, at, then, drain, drift, spilt>>
  BY DEF SetSetting
<1> HIDE DEF seq, seek
<1>4. PICK a \in Int, b \in Int, c \in Int : td' = SetParameters(td, td.sampleRate, a, b, c)
  <2>1. CASE p = "sequence"
    <3>1. td' = SetParameters(td, td.sampleRate, v, seek, td.overlapMs)  BY <1>3, <2>1
    <3> QED  BY <3>1, <1>1, <1>2
  <2>2. CASE p = "seekwindow"
    <3>1. td' = SetParameters(td, td.sampleRate, seq, v, td.overlapMs)  BY <1>3, <2>2
    <3> QED  BY <3>1, <1>1, <1>2
  <2>3. CASE p = "overlap"
    <3>1. td' = SetParameters(td, td.sampleRate, seq, seek, v)  BY <1>3, <2>3
    <3> QED  BY <3>1, <1>1, <1>2
  <2> QED  BY <2>1, <2>2, <2>3
<1>5. SetParameters(td, td.sampleRate, a, b, c) \in Stretcher /\ Fits(SetParameters(td, td.sampleRate, a, b, c))
  BY <1>1, <1>2, SetParametersFits
<1> QED  BY <1>3, <1>4, <1>5, LengthsStep

(* setChannels: nothing waits yet when the number of channels is set. *)
LEMMA SetChannelsStep ==
  ASSUME IInv, NEW c \in Channels, SetChannels(c)
  PROVE  IInv'
<1>1. /\ at = "idle" /\ c # channels /\ channels' = c
      /\ LET had == IF channels = 0 THEN 2 ELSE channels
         IN  /\ inputBuffer' = Rescaled(inputBuffer, had, c) /\ outputBuffer' = Rescaled(outputBuffer, had, c)
             /\ storeBuffer' = Rescaled(storeBuffer, had, c) /\ transOut' = Rescaled(transOut, had, c)
             /\ iSlopeCount' = IF c = had THEN iSlopeCount ELSE 0
      /\ UNCHANGED <<ctl, output, bSrateSet, td, skipFract, at, then, drain, drift, spilt>>
  BY DEF SetChannels, Called
<1>2. channels = 0
  <2>1. channels \in {0} \cup Channels  BY Plain
  <2>2. channels \in Channels => channels = c  BY ChannelsSetOnce
  <2> QED  BY <2>1, <2>2, <1>1
<1>3. inputBuffer = 0 /\ outputBuffer = 0 /\ storeBuffer = 0 /\ transOut = 0  BY <1>2 DEF IInv, Places
<1>4. c \in Nat /\ c >= 1  BY ChannelsSetOnce
<1>5. Rescaled(0, 2, c) = 0
  <2>1. 0 * 2 = 0 /\ 0 \div c = 0  BY <1>4
  <2> QED  BY <2>1 DEF Rescaled
<1>6. inputBuffer' = 0 /\ outputBuffer' = 0 /\ storeBuffer' = 0 /\ transOut' = 0  BY <1>1, <1>2, <1>3, <1>5
<1>7. iSlopeCount' \in Nat
  <2>1. iSlopeCount \in Nat  BY Plain
  <2> QED  BY <2>1, <1>1
<1>8. Places' /\ KeepsPace' /\ RoomKept'
  <2>1. c # 0  BY <1>4
  <2> QED  BY <1>1, <1>6, <2>1 DEF IInv, Places, KeepsPace, RoomKept
<1>9. Types' /\ Fits(td')
  <2>1. Fits(td')  BY <1>1 DEF IInv, Fits
  <2> QED  BY <1>1, <1>6, <1>7, <2>1 DEF IInv, Types
<1>10. storeBuffer' <= FilterTaps  BY <1>6, Numbers
<1> QED  BY <1>8, <1>9, <1>10 DEF IInv

(* putSamples, also of the zeros of a flush: what the first stage gives is moved on at once. *)
LEMMA FeedStep ==
  ASSUME IInv, at # "stretch", channels # 0, NEW n \in Nat, Feed(n), drain' \in [left : Nat, wanted : Nat]
  PROVE  IInv'
<1>1. at' = "stretch" /\ UNCHANGED <<settings, skipFract, outputBuffer>>  BY DEF Feed
<1>2. UNCHANGED <<ctl, output, channels, td>>  BY <1>1 DEF settings
<1>3. /\ inputBuffer \in Nat /\ outputBuffer \in Nat /\ storeBuffer \in Nat /\ transOut \in Nat /\ iSlopeCount \in Nat
      /\ output \in {"stretch", "transpose"} /\ storeBuffer <= FilterTaps /\ skipFract \in 0..Unit - 1
      /\ ctl \in Controllers /\ spilt \in BOOLEAN
  BY Plain
<1>4. SUFFICES /\ inputBuffer' \in Nat /\ storeBuffer' \in Nat /\ transOut' \in Nat /\ iSlopeCount' \in Nat
               /\ storeBuffer' <= FilterTaps /\ spilt' \in BOOLEAN /\ KeepsPace' /\ RoomKept' /\ Places'
  BY <1>1, <1>2, <1>3, SettingsStay
<1>5. CASE /\ output = "stretch" /\ then' = "return"
           /\ LET s == TransposerProcess(Transposer, n, Rate(ctl))
              IN  SetTransposer(s, s.out) /\ inputBuffer' = inputBuffer + s.out
  <2> DEFINE s == TransposerProcess(Transposer, n, Rate(ctl))
  <2>1. Steady(s)  BY <1>3, ControlsGive, TransposerHalf, TransposerSteady
  <2>2. SetTransposer(s, s.out) /\ inputBuffer' = inputBuffer + s.out  BY <1>5
  <2> HIDE DEF s
  <2>3. s.out \in Nat /\ s.out <= s.out  BY <2>1 DEF Steady, Half
  <2>4. /\ storeBuffer' \in Nat /\ storeBuffer' <= FilterTaps /\ transOut' \in Nat /\ transOut' = s.out - s.out /\ iSlopeCount' \in Nat
        /\ spilt' \in BOOLEAN /\ KeepsPace' /\ RoomKept'
    BY <2>1, <2>2, <2>3, SetTransposerKeeps
  <2>5. s.out - s.out = 0 /\ inputBuffer + s.out \in Nat  BY <2>3, <1>3
  <2>6. inputBuffer' \in Nat /\ transOut' = 0  BY <2>2, <2>4, <2>5
  <2>7. Places'  BY <1>1, <1>2, <1>5, <2>6 DEF Places
  <2> QED  BY <2>4, <2>6, <2>7
<1>6. CASE /\ output = "transpose" /\ then' = "transpose"
           /\ inputBuffer' = inputBuffer + n
           /\ UNCHANGED <<storeBuffer, transOut, iSlopeCount, drift, spilt>>
  <2>1. inputBuffer + n \in Nat  BY <1>3
  <2>2. inputBuffer' \in Nat  BY <2>1, <1>6
  <2>3. Places'  BY <1>1, <1>2, <1>6 DEF Places
  <2>4. KeepsPace' /\ RoomKept'  BY <1>6 DEF IInv, KeepsPace, RoomKept
  <2> QED  BY <1>3, <1>6, <2>2, <2>3, <2>4
<1> QED  BY <1>5, <1>6 DEF Feed

(* putSamples keeps it. *)
LEMMA PutSamplesStep ==
  ASSUME IInv, NEW n \in Blocks, PutSamples(n)
  PROVE  IInv'
<1>1. at = "idle" /\ channels # 0 /\ Feed(n) /\ drain' = drain  BY DEF PutSamples
<1>2. n \in Nat  BY InputsTyped
<1>3. drain' \in [left : Nat, wanted : Nat]  BY <1>1, Plain
<1> QED  BY <1>1, <1>2, <1>3, FeedStep

(* flush, feeding its first zeros, keeps it: what it wants is a number of samples. *)
LEMMA FlushStep ==
  ASSUME IInv, StartFlush
  PROVE  IInv'
<1>1. at = "idle" /\ channels # 0 /\ Feed(FlushBlock) /\ drain' = [left |-> FlushRounds, wanted |-> Ready + Due]  BY DEF StartFlush
<1>2. FlushBlock \in Nat /\ FlushRounds \in Nat /\ Unit \in Nat  BY Numbers
<1>3. inputBuffer \in Nat /\ Ready \in Nat  BY Plain DEF Ready
<1>4. PICK speed \in Nat : speed = Tempo(ctl) * Rate(ctl) /\ speed >= 1
  <2>1. Tempo(ctl) \in Nat /\ Tempo(ctl) >= 1 /\ Rate(ctl) \in Nat /\ Rate(ctl) >= 1  BY Plain, ControlsGive DEF Given
  <2>2. PICK a \in Nat, b \in Nat : a = Tempo(ctl) /\ b = Rate(ctl) /\ a >= 1 /\ b >= 1  BY <2>1
  <2>3. a * b \in Nat /\ 1 * 1 <= a * b  BY <2>2, Product
  <2> QED  BY <2>2, <2>3
<1>5. Due \in Nat
  <2>1. PICK w \in Nat : w = 2 * inputBuffer * Unit * Unit
    <3>1. 2 * inputBuffer * Unit * Unit \in Nat  BY <1>2, <1>3
    <3> QED  BY <3>1
  <2>2. w + speed \in Nat /\ 2 * speed \in Nat /\ 2 * speed >= 1  BY <1>4
  <2>3. (w + speed) \div (2 * speed) \in Nat  BY <2>2, Quotient
  <2> QED  BY <1>4, <2>1, <2>3 DEF Due
<1>6. Ready + Due \in Nat  BY <1>3, <1>5
<1>7. drain' \in [left : Nat, wanted : Nat]  BY <1>1, <1>2, <1>6
<1> QED  BY <1>1, <1>2, <1>7, FeedStep

(* flush, feeding more zeros, keeps it. *)
LEMMA FlushMoreStep ==
  ASSUME IInv, FlushMore
  PROVE  IInv'
<1>1. at = "flush" /\ drain.left > 1 /\ drain' = [drain EXCEPT !.left = @ - 1] /\ Feed(FlushBlock)  BY DEF FlushMore
<1>2. channels # 0  BY <1>1 DEF IInv, Places
<1>3. drain \in [left : Nat, wanted : Nat] /\ drain.left \in Nat  BY Plain
<1>4. drain.left - 1 \in Nat  BY <1>1, <1>3
<1>5. drain' \in [left : Nat, wanted : Nat]  BY <1>1, <1>3, <1>4
<1>6. FlushBlock \in Nat  BY Numbers
<1> QED  BY <1>1, <1>2, <1>5, <1>6, FeedStep

-----------------------------------------------------------------------------
(* One sequence: what is taken off the input is the nominal skip, with the part of a sample that is carried over. *)
LEMMA StretchStep ==
  ASSUME IInv, Stretch
  PROVE  IInv'
<1>1. /\ at = "stretch" /\ inputBuffer >= td.sampleReq
      /\ UNCHANGED <<settings, storeBuffer, transOut, iSlopeCount, at, then, drain, spilt>>
  BY DEF Stretch
<1>2. UNCHANGED <<ctl, output, channels, td>>  BY <1>1 DEF settings
<1>3. /\ inputBuffer \in Nat /\ outputBuffer \in Nat /\ storeBuffer \in Nat /\ transOut \in Nat /\ iSlopeCount \in Nat
      /\ output \in {"stretch", "transpose"} /\ at \in {"idle", "stretch", "flush"} /\ spilt \in BOOLEAN /\ storeBuffer <= FilterTaps
      /\ skipFract \in 0..Unit - 1 /\ drain \in [left : Nat, wanted : Nat] /\ td \in Stretcher /\ Fits(td) /\ Unit \in Nat /\ Unit >= 1
  BY Plain, Numbers
<1>4. /\ td.overlapLength \in Nat /\ td.seekWindowLength \in Nat /\ td.seekLength \in Nat /\ td.nominalSkip \in Nat /\ td.sampleReq \in Nat
      /\ td.overlapLength >= 1 /\ td.seekWindowLength >= 2 * td.overlapLength /\ td.sampleReq >= td.seekWindowLength + td.seekLength
      /\ td.nominalSkip < Unit * (td.sampleReq - td.overlapLength - td.seekLength + 1)
  BY <1>3 DEF Stretcher, Fits
<1>5. drift = [rate |-> 0, tempo |-> 0] /\ ~spilt  BY DEF IInv, KeepsPace, RoomKept
<1>6. channels # 0
  <2>1. inputBuffer # 0  BY <1>1, <1>3, <1>4
  <2> QED  BY <2>1 DEF IInv, Places
<1>7. Places'  BY <1>1, <1>2, <1>6 DEF IInv, Places
<1>8. RoomKept'  BY <1>1, <1>5 DEF RoomKept
<1>9. SUFFICES inputBuffer' \in Nat /\ outputBuffer' \in Nat /\ skipFract' \in 0..Unit - 1 /\ KeepsPace'
  BY <1>1, <1>2, <1>3, <1>7, <1>8, SettingsStay
<1>10. PICK offset \in Offsets :
         IF inputBuffer < offset + td.seekWindowLength
         THEN /\ outputBuffer' = outputBuffer + td.overlapLength
              /\ UNCHANGED <<inputBuffer, skipFract, drift>>
         ELSE LET gone == Received(Skip.samples, inputBuffer)
              IN  /\ outputBuffer' = outputBuffer + td.seekWindowLength - td.overlapLength
                  /\ inputBuffer' = inputBuffer - gone /\ skipFract' = Skip.fract
                  /\ drift' = [drift EXCEPT !.tempo = @ + td.nominalSkip - gone * Unit - (Skip.fract - skipFract)]
  BY DEF Stretch
<1>11. CASE inputBuffer < offset + td.seekWindowLength
  <2>1. outputBuffer' = outputBuffer + td.overlapLength /\ UNCHANGED <<inputBuffer, skipFract, drift>>  BY <1>10, <1>11
  <2>2. outputBuffer + td.overlapLength \in Nat  BY <1>3, <1>4
  <2>3. KeepsPace'  BY <2>1, <1>5 DEF KeepsPace
  <2> QED  BY <2>1, <2>2, <2>3, <1>3
<1>12. CASE ~(inputBuffer < offset + td.seekWindowLength)
  <2> DEFINE gone == Received(Skip.samples, inputBuffer)
  <2>1. /\ outputBuffer' = outputBuffer + td.seekWindowLength - td.overlapLength
        /\ inputBuffer' = inputBuffer - gone /\ skipFract' = Skip.fract
        /\ drift' = [drift EXCEPT !.tempo = @ + td.nominalSkip - gone * Unit - (Skip.fract - skipFract)]
    BY <1>10, <1>12
  <2>2. outputBuffer + td.seekWindowLength - td.overlapLength \in Nat  BY <1>3, <1>4
  <2>3. PICK a \in Nat, n \in Nat : a = skipFract /\ a <= Unit - 1 /\ n = td.nominalSkip
    <3>1. skipFract \in Nat /\ skipFract <= Unit - 1  BY <1>3
    <3> QED  BY <3>1, <1>4
  <2>4. PICK q \in Nat, r \in Nat :
          /\ q = (a + n) \div Unit /\ r = (a + n) % Unit /\ r \in 0..Unit - 1 /\ q * Unit + r = a + n
    <3>1. a + n \in Nat  OBVIOUS
    <3>2. /\ (a + n) \div Unit \in Nat /\ (a + n) % Unit \in 0..Unit - 1
          /\ ((a + n) \div Unit) * Unit + ((a + n) % Unit) = a + n
      BY <3>1, <1>3, Quotient
    <3>3. (a + n) % Unit \in Nat  BY <3>2, <1>3
    <3> QED  BY <3>2, <3>3
  <2>5. Skip.samples = q /\ Skip.fract = r  BY <2>3, <2>4 DEF Skip
  <2>6. q <= inputBuffer
    <3>1. PICK m \in Int : m = td.sampleReq - td.overlapLength - td.seekLength + 1 /\ m <= td.sampleReq  BY <1>4
    <3>2. n < Unit * m  BY <1>4, <2>3, <3>1
    <3>3. q <= m
      <4>1. SUFFICES ASSUME q >= m + 1  PROVE FALSE
        BY <3>1
      <4>2. (m + 1) * Unit <= q * Unit  BY <4>1, <1>3, <3>1
      <4>3. (m + 1) * Unit = Unit * m + Unit  BY <1>3, <3>1
      <4>4. q * Unit <= a + n
        <5>1. q * Unit \in Nat  BY <1>3
        <5> QED  BY <5>1, <2>4
      <4>5. PICK x \in Int, y \in Int : x = q * Unit /\ y = Unit * m  BY <1>3, <3>1
      <4> QED  BY <4>2, <4>3, <4>4, <4>5, <3>2, <2>3, <1>3
    <3> QED  BY <3>1, <3>3, <1>1, <1>3, <1>4
  <2>7. gone = q  BY <2>5, <2>6, <1>3 DEF Received, Smaller
  <2> HIDE DEF gone
  <2>8. inputBuffer - q \in Nat  BY <2>6, <1>3
  <2>9. KeepsPace'
    <3>1. PICK x \in Int : x = q * Unit  BY <1>3
    <3>2. 0 + n - x - (r - a) = 0  BY <3>1, <2>4
    <3>3. drift' = [drift EXCEPT !.tempo = drift.tempo + n - x - (r - a)]  BY <2>1, <2>3, <2>5, <2>7, <3>1
    <3>4. drift' = [drift EXCEPT !.tempo = 0]  BY <3>2, <3>3, <1>5
    <3>5. drift' = [rate |-> 0, tempo |-> 0]  BY <3>4, <1>5
    <3> QED  BY <3>5 DEF KeepsPace
  <2> QED  BY <2>1, <2>2, <2>4, <2>5, <2>7, <2>8, <2>9
<1> QED  BY <1>10, <1>11, <1>12

(* The tempo changer is done: what it gave goes on to the transposer, or the stages are in their new places. *)
LEMMA StretchedStep ==
  ASSUME IInv, Stretched
  PROVE  IInv'
<1>1. /\ at = "stretch" /\ at' = IF drain.left > 0 THEN "flush" ELSE "idle"
      /\ UNCHANGED <<ctl, channels, bSrateSet, td, changes, skipFract, inputBuffer, then, drain>>
  BY DEF Stretched
<1>2. /\ inputBuffer \in Nat /\ outputBuffer \in Nat /\ storeBuffer \in Nat /\ transOut \in Nat /\ iSlopeCount \in Nat
      /\ output \in {"stretch", "transpose"} /\ spilt \in BOOLEAN /\ storeBuffer <= FilterTaps
      /\ skipFract \in 0..Unit - 1 /\ drain \in [left : Nat, wanted : Nat] /\ drain.left \in Nat /\ ctl \in Controllers
  BY Plain
<1>3. at' \in {"idle", "flush"} /\ (at' = "flush" \/ drain'.left > 0 => channels' # 0)
  <2>1. drain.left > 0 => channels # 0  BY DEF IInv, Places
  <2>2. channels' = channels /\ drain' = drain  BY <1>1
  <2>3. CASE drain.left > 0
    BY <2>1, <2>2, <2>3, <1>1
  <2>4. CASE ~(drain.left > 0)
    BY <2>2, <2>4, <1>1
  <2> QED  BY <2>3, <2>4
<1>4. \/ then = "return" /\ output = "stretch" /\ transOut = 0
      \/ then = "transpose" /\ output = "transpose"
      \/ then = "crossed" /\ output = "transpose" /\ transOut = 0
  BY <1>1 DEF IInv, Places
<1>5. channels = 0 => inputBuffer = 0 /\ outputBuffer = 0 /\ storeBuffer = 0 /\ transOut = 0  BY DEF IInv, Places
<1>6. SUFFICES /\ outputBuffer' \in Nat /\ storeBuffer' \in Nat /\ transOut' \in Nat /\ iSlopeCount' \in Nat
               /\ output' \in {"stretch", "transpose"}
               /\ storeBuffer' <= FilterTaps /\ spilt' \in BOOLEAN /\ KeepsPace' /\ RoomKept'
               /\ IF output' = "stretch" THEN transOut' = 0 ELSE outputBuffer' = 0
               /\ channels = 0 => outputBuffer' = 0 /\ storeBuffer' = 0 /\ transOut' = 0
  <2>1. at' # "stretch"  BY <1>3
  <2>2. channels' = channels /\ inputBuffer' = inputBuffer  BY <1>1
  <2>3. Places'  BY <2>1, <2>2, <1>3, <1>5, <1>6 DEF Places
  <2> QED  BY <1>1, <1>2, <1>3, <1>6, <2>3, SettingsStay
<1>7. CASE then = "return" /\ UNCHANGED <<output, outputBuffer, storeBuffer, transOut, iSlopeCount, drift, spilt>>
  <2>1. KeepsPace' /\ RoomKept'  BY <1>7 DEF IInv, KeepsPace, RoomKept
  <2> QED  BY <2>1, <1>2, <1>4, <1>5, <1>7
<1>8. CASE /\ then = "transpose" /\ outputBuffer' = 0
           /\ SetTransposer(TransposerProcess(Transposer, outputBuffer, Rate(ctl)), 0)
           /\ UNCHANGED output
  <2> DEFINE s == TransposerProcess(Transposer, outputBuffer, Rate(ctl))
  <2>1. Steady(s)  BY <1>2, ControlsGive, TransposerHalf, TransposerSteady
  <2>2. SetTransposer(s, 0)  BY <1>8
  <2>3. channels = 0 => storeBuffer' = 0 /\ transOut' = 0
    <3>1. SUFFICES ASSUME channels = 0  PROVE storeBuffer' = 0 /\ transOut' = 0
      OBVIOUS
    <3>2. outputBuffer = 0 /\ storeBuffer = 0 /\ transOut = 0  BY <1>5, <3>1
    <3>3. s = Transposer  BY <3>2 DEF TransposerProcess
    <3>4. Transposer.store = 0 /\ Transposer.out = 0  BY <3>2 DEF Transposer
    <3> QED  BY <2>2, <3>3, <3>4 DEF SetTransposer
  <2> HIDE DEF s
  <2>4. 0 \in Nat /\ 0 <= s.out  BY <2>1 DEF Steady, Half
  <2>5. /\ storeBuffer' \in Nat /\ storeBuffer' <= FilterTaps /\ transOut' \in Nat /\ iSlopeCount' \in Nat
        /\ spilt' \in BOOLEAN /\ KeepsPace' /\ RoomKept'
    BY <2>1, <2>2, <2>4, SetTransposerKeeps
  <2> QED  BY <2>3, <2>5, <1>4, <1>8
<1>9. CASE /\ then = "crossed" /\ output' = "stretch"
           /\ UNCHANGED <<outputBuffer, storeBuffer, transOut, iSlopeCount, drift, spilt>>
  <2>1. KeepsPace' /\ RoomKept'  BY <1>9 DEF IInv, KeepsPace, RoomKept
  <2> QED  BY <2>1, <1>2, <1>4, <1>5, <1>9
<1> QED  BY <1>7, <1>8, <1>9 DEF Stretched

(* receiveSamples takes from the stage that is last. *)
LEMMA ReceiveSamplesStep ==
  ASSUME IInv, ReceiveSamples
  PROVE  IInv'
<1>1. /\ at = "idle" /\ UNCHANGED <<settings, skipFract, inputBuffer, storeBuffer, iSlopeCount, at, then, drain, drift, spilt>>
      /\ LET n == Received(BufferSize, Ready)
         IN  IF output = "stretch" THEN outputBuffer' = outputBuffer - n /\ UNCHANGED transOut
             ELSE transOut' = transOut - n /\ UNCHANGED outputBuffer
  BY DEF ReceiveSamples
<1>2. UNCHANGED <<ctl, output, channels, td>>  BY <1>1 DEF settings
<1>3. /\ inputBuffer \in Nat /\ outputBuffer \in Nat /\ storeBuffer \in Nat /\ transOut \in Nat /\ iSlopeCount \in Nat
      /\ output \in {"stretch", "transpose"} /\ at \in {"idle", "stretch", "flush"} /\ spilt \in BOOLEAN /\ storeBuffer <= FilterTaps
      /\ skipFract \in 0..Unit - 1 /\ drain \in [left : Nat, wanted : Nat]
  BY Plain
<1>4. BufferSize \in Nat  BY Numbers
<1>5. KeepsPace' /\ RoomKept'  BY <1>1 DEF IInv, KeepsPace, RoomKept
<1>6. IF output = "stretch" THEN transOut = 0 ELSE outputBuffer = 0  BY <1>1 DEF IInv, Places
<1>7. SUFFICES /\ outputBuffer' \in Nat /\ transOut' \in Nat
               /\ IF output = "stretch" THEN transOut' = 0 ELSE outputBuffer' = 0
               /\ channels = 0 => outputBuffer' = 0 /\ transOut' = 0
  <2>1. Places'  BY <1>1, <1>2, <1>7 DEF IInv, Places
  <2> QED  BY <1>1, <1>2, <1>3, <1>5, <1>7, <2>1, SettingsStay
<1>8. PICK n \in Nat : n = Received(BufferSize, Ready) /\ n <= Ready
  BY <1>3, <1>4 DEF Received, Smaller, Ready
<1>9. channels = 0 => outputBuffer = 0 /\ transOut = 0  BY DEF IInv, Places
<1>10. CASE output = "stretch"
  <2>1. outputBuffer' = outputBuffer - n /\ transOut' = transOut /\ n <= outputBuffer  BY <1>1, <1>8, <1>10 DEF Ready
  <2>2. outputBuffer - n \in Nat /\ (outputBuffer = 0 => outputBuffer - n = 0)  BY <1>3, <2>1
  <2> QED  BY <2>1, <2>2, <1>3, <1>6, <1>9, <1>10
<1>11. CASE output # "stretch"
  <2>1. transOut' = transOut - n /\ outputBuffer' = outputBuffer /\ n <= transOut  BY <1>1, <1>8, <1>11 DEF Ready
  <2>2. transOut - n \in Nat /\ (transOut = 0 => transOut - n = 0)  BY <1>3, <2>1
  <2> QED  BY <2>1, <2>2, <1>3, <1>6, <1>9, <1>11
<1> QED  BY <1>10, <1>11

(* The end of a flush and clear: the buffers are emptied, but for the samples that were wanted. *)
LEMMA EmptiedStep ==
  ASSUME IInv, at # "stretch", at' = "idle", UNCHANGED <<settings, skipFract, iSlopeCount, then, drift, spilt>>,
         transOut' = 0, storeBuffer' = 0, inputBuffer' = 0, NEW o \in Nat, o <= outputBuffer, outputBuffer' = o,
         drain' = drain \/ drain' = [left |-> 0, wanted |-> 0]
  PROVE  IInv'
<1>1. UNCHANGED <<ctl, output, channels, td>>  BY DEF settings
<1>2. outputBuffer \in Nat /\ iSlopeCount \in Nat /\ output \in {"stretch", "transpose"} /\ spilt \in BOOLEAN
      /\ skipFract \in 0..Unit - 1 /\ drain \in [left : Nat, wanted : Nat] /\ FilterTaps \in Nat
  BY Plain, Numbers
<1>3. KeepsPace' /\ RoomKept'  BY DEF IInv, KeepsPace, RoomKept
<1>4. outputBuffer = 0 => o = 0  BY <1>2
<1>5. drain' \in [left : Nat, wanted : Nat] /\ (drain'.left > 0 => channels # 0)
  <2>1. drain.left > 0 => channels # 0  BY DEF IInv, Places
  <2>2. CASE drain' = drain
    BY <2>1, <2>2, <1>2
  <2>3. CASE drain' = [left |-> 0, wanted |-> 0]
    <3>1. drain'.left = 0  BY <2>3
    <3> QED  BY <2>3, <3>1
  <2> QED  BY <2>2, <2>3
<1>6. Places'  BY <1>1, <1>4, <1>5 DEF IInv, Places
<1>7. /\ inputBuffer' \in Nat /\ outputBuffer' \in Nat /\ storeBuffer' \in Nat /\ transOut' \in Nat /\ iSlopeCount' \in Nat
      /\ storeBuffer' <= FilterTaps
  BY <1>2
<1>8. output' \in {"stretch", "transpose"} /\ at' \in {"idle", "stretch", "flush"} /\ spilt' \in BOOLEAN /\ skipFract' \in 0..Unit - 1
  BY <1>1, <1>2
<1> QED  BY <1>1, <1>3, <1>5, <1>6, <1>7, <1>8, SettingsStay

(* The end of a flush keeps the samples that were wanted. *)
LEMMA FlushEndStep ==
  ASSUME IInv, FlushEnd
  PROVE  IInv'
<1>1. /\ at = "flush" /\ at' = "idle" /\ drain' = [left |-> 0, wanted |-> 0]
      /\ outputBuffer' = IF output = "stretch" THEN Trimmed(outputBuffer, drain.wanted) ELSE outputBuffer
      /\ transOut' = 0 /\ storeBuffer' = 0 /\ inputBuffer' = 0
      /\ UNCHANGED <<settings, skipFract, iSlopeCount, then, drift, spilt>>
  BY DEF FlushEnd
<1>2. outputBuffer \in Nat /\ drain.wanted \in Nat  BY Plain
<1>3. PICK o \in Nat : o = (IF output = "stretch" THEN Trimmed(outputBuffer, drain.wanted) ELSE outputBuffer) /\ o <= outputBuffer
  BY <1>2 DEF Trimmed, Smaller
<1> QED  BY <1>1, <1>3, EmptiedStep

(* clear. *)
LEMMA ClearStep ==
  ASSUME IInv, Clear
  PROVE  IInv'
<1>1. /\ at = "idle" /\ inputBuffer' = 0 /\ outputBuffer' = 0 /\ storeBuffer' = 0 /\ transOut' = 0
      /\ UNCHANGED <<settings, skipFract, iSlopeCount, at, then, drain, drift, spilt>>
  BY DEF Clear
<1>2. 0 \in Nat /\ 0 <= outputBuffer  BY Plain
<1> QED  BY <1>1, <1>2, EmptiedStep

(* The processor as it is made. *)
LEMMA IInvInit ==
  ASSUME SoundInit
  PROVE  IInv
<1>1. /\ ctl = [pitch |-> Unit, rate |-> Unit, tempo |-> Unit]
      /\ output = "stretch" /\ channels = 0 /\ td = NewStretch /\ skipFract = 0
      /\ inputBuffer = 0 /\ outputBuffer = 0 /\ storeBuffer = 0 /\ transOut = 0 /\ iSlopeCount = 0
      /\ at = "idle" /\ then = "return" /\ drain = [left |-> 0, wanted |-> 0]
      /\ drift = [rate |-> 0, tempo |-> 0] /\ spilt = FALSE
  BY DEF SoundInit
<1>2. td \in Stretcher /\ Fits(td)  BY <1>1, NewStretchFits
<1>3. Unit \in Nat /\ Unit >= 1 /\ FilterTaps \in Nat  BY Numbers
<1>4. ctl \in Controllers
  <2>1. Unit \in Values  BY DEF Values
  <2> QED  BY <2>1, <1>1 DEF Controllers
<1>5. skipFract \in 0..Unit - 1 /\ storeBuffer <= FilterTaps  BY <1>1, <1>3
<1>6. drain \in [left : Nat, wanted : Nat] /\ drain.left = 0  BY <1>1
<1>7. Types  BY <1>1, <1>2, <1>4, <1>5, <1>6 DEF Types
<1>8. Places /\ KeepsPace /\ RoomKept  BY <1>1, <1>6 DEF Places, KeepsPace, RoomKept
<1> QED  BY <1>2, <1>5, <1>7, <1>8 DEF IInv

(* A step that changes nothing. *)
LEMMA Stutter ==
  ASSUME IInv, UNCHANGED soundVars
  PROVE  IInv'
<1>1. UNCHANGED <<ctl, output, channels, td, skipFract, iSlopeCount, at, then, drain, drift, spilt>>  BY DEF soundVars
<1>2. UNCHANGED <<inputBuffer, outputBuffer, storeBuffer, transOut>>  BY DEF soundVars, buffers
<1>3. Types'  BY <1>1, <1>2 DEF IInv, Types
<1>4. Places' /\ KeepsPace' /\ RoomKept'  BY <1>1, <1>2 DEF IInv, Places, KeepsPace, RoomKept
<1>5. Fits(td') /\ storeBuffer' <= FilterTaps  BY <1>1, <1>2 DEF IInv, Fits
<1> QED  BY <1>3, <1>4, <1>5 DEF IInv

(* Every step keeps the invariant. *)
LEMMA IInvNext ==
  ASSUME IInv, [SoundNext]_soundVars
  PROVE  IInv'
<1>1. CASE \E k \in DOMAIN ctl, v \in Controls : SetControl(k, v)  BY <1>1, SetControlStep
<1>2. CASE \E r \in SoundRates : SetSampleRate(r)  BY <1>2, SetSampleRateStep
<1>3. CASE \E c \in Channels : SetChannels(c)  BY <1>3, SetChannelsStep
<1>4. CASE \E p \in {"sequence", "seekwindow", "overlap"}, v \in AskedLengths : SetSetting(p, v)
  <2>1. PICK p \in {"sequence", "seekwindow", "overlap"}, v \in AskedLengths : SetSetting(p, v)  BY <1>4
  <2> QED  BY <2>1, SetSettingStep, Zenon
<1>5. CASE \E n \in Blocks : PutSamples(n)  BY <1>5, PutSamplesStep
<1>6. CASE Stretch  BY <1>6, StretchStep
<1>7. CASE Stretched  BY <1>7, StretchedStep
<1>8. CASE ReceiveSamples  BY <1>8, ReceiveSamplesStep
<1>9. CASE StartFlush  BY <1>9, FlushStep
<1>10. CASE FlushMore  BY <1>10, FlushMoreStep
<1>11. CASE FlushEnd  BY <1>11, FlushEndStep
<1>12. CASE Clear  BY <1>12, ClearStep
<1>13. CASE UNCHANGED soundVars  BY <1>13, Stutter
<1> QED
  BY <1>1, <1>2, <1>3, <1>4, <1>5, <1>6, <1>7, <1>8, <1>9, <1>10, <1>11, <1>12, <1>13 DEF SoundNext

(* What is asked for follows from it. *)
LEMMA IInvKept ==
  ASSUME IInv
  PROVE  SoundKept
<1>1. NothingStranded  BY DEF IInv, Places, NothingStranded
<1>2. SequenceFits
  <2>1. td.seekWindowLength \in Nat /\ td.seekLength \in Nat /\ td.sampleReq \in Nat /\ inputBuffer \in Nat
    BY Plain DEF Stretcher
  <2>2. td.seekWindowLength >= 2 * td.overlapLength /\ td.sampleReq >= td.seekWindowLength + td.seekLength  BY Plain DEF Fits
  <2> QED  BY <2>1, <2>2 DEF SequenceFits
<1>3. KeepsPace /\ RoomKept  BY DEF IInv
<1> QED  BY <1>1, <1>2, <1>3 DEF SoundKept

(* The inductive invariant of the sound processor: the lengths of the tempo changer, the places where samples wait,
   the pace of both stages and the transposer's room, whatever order the calls come in. *)
THEOREM IInvHolds ==
  SoundSpec => []IInv
<1>1. SoundInit => IInv  BY IInvInit
<1>2. IInv /\ [SoundNext]_soundVars => IInv'  BY IInvNext
<1> QED  BY <1>1, <1>2, PTL DEF SoundSpec

(* Between calls no samples wait in the stage that is not last; a sequence fits its input wherever the full search puts it;
   both stages keep pace with the samples they read; the transposer writes no more than it made room for. *)
THEOREM SoundIsKept ==
  SoundSpec => []SoundKept
<1>1. IInv => SoundKept  BY IInvKept
<1> QED  BY <1>1, IInvHolds, PTL
=============================================================================
