------------------------------ MODULE Mp3Tables ------------------------------
(***************************************************************************)
(* The bit rates and sample rates that the MP3 format has, how LAME looks  *)
(* them up, and the bandwidth it takes for suitable to a bit rate.         *)
(***************************************************************************)
EXTENDS Integers

Lesser(a, b)  == IF a < b THEN a ELSE b
Greater(a, b) == IF a > b THEN a ELSE b
Dist(a, b)    == IF a < b THEN b - a ELSE a - b

(* bitrate_table: for version 0 (MPEG-2), 1 (MPEG-1) and 2 (MPEG-2.5). *)
BitRates == [v \in 0..2 |->
  CASE v = 0 -> <<8, 16, 24, 32, 40, 48, 56, 64, 80, 96, 112, 128, 144, 160>>
    [] v = 1 -> <<32, 40, 48, 56, 64, 80, 96, 112, 128, 160, 192, 224, 256, 320>>
    [] v = 2 -> <<8, 16, 24, 32, 40, 48, 56, 64>>]
FullRates == <<8, 16, 24, 32, 40, 48, 56, 64, 80, 96, 112, 128, 160, 192, 224, 256, 320>>
SampleRates == <<8000, 11025, 12000, 16000, 22050, 24000, 32000, 44100, 48000>>

Version(freq)   == IF freq \in {32000, 44100, 48000} THEN 1 ELSE 0
SmpFrqIndex(freq) ==
  CASE freq \in {44100, 22050, 11025} -> 0
    [] freq \in {48000, 24000, 12000} -> 1
    [] freq \in {32000, 16000, 8000}  -> 2
    [] OTHER -> -1
TableOf(version, freq) == BitRates[IF freq < 16000 THEN 2 ELSE version]

FirstNearest(T, rate) ==
  T[CHOOSE k \in DOMAIN T : /\ \A j \in DOMAIN T : Dist(T[k], rate) <= Dist(T[j], rate)
                            /\ \A j \in 1..(k - 1) : Dist(T[k], rate) < Dist(T[j], rate)]

(* Mutant of FindNearestBitrate: the next rate above, however near the one below. *)
FindNextBitrate(rate, version, freq) ==
  LET T == TableOf(version, freq) IN
  T[CHOOSE k \in DOMAIN T : /\ T[k] >= rate \/ k + 1 \notin DOMAIN T
                            /\ \A j \in 1..(k - 1) : T[j] < rate]

(* A later rate must be strictly nearer. *)
FindNearestBitrate(rate, version, freq) == FirstNearest(TableOf(version, freq), rate)
BitrateIndex(rate, version, freq) ==
  LET T == TableOf(version, freq) IN
  IF \E k \in DOMAIN T : T[k] = rate THEN CHOOSE k \in DOMAIN T : T[k] = rate ELSE -1

(* The rate at or below, or the one above when it is not farther. *)
NearestBitrateFullIndex(rate) ==
  IF rate >= 320 THEN 17
  ELSE LET b == CHOOSE k \in 1..16 : /\ rate < FullRates[k + 1]
                                     /\ \A j \in 1..(k - 1) : rate >= FullRates[j + 1]
       IN  IF FullRates[b + 1] - rate > rate - FullRates[b] THEN b ELSE b + 1

AtLeast(freq) == LET S == {i \in 1..9 : SampleRates[i] >= freq} IN
                 IF S = {} THEN 48000 ELSE SampleRates[CHOOSE i \in S : \A j \in S : i <= j]
map2MP3Frequency(freq) == AtLeast(freq)

AtMost(freq) == LET S == {i \in 1..9 : SampleRates[i] <= freq} IN
                IF S = {} THEN 44100 ELSE SampleRates[CHOOSE i \in S : \A j \in S : i >= j]

(* The lowpass that suits a bit rate, and the sample rate that suits a lowpass. *)
OptimumBandwidth(rate) ==
  <<2000, 3700, 3900, 5500, 7000, 7500, 10000, 11000, 13500, 15100, 15600,
    17000, 17500, 18600, 19400, 19700, 20500>>[NearestBitrateFullIndex(rate)]
OptimumSamplefreq(low, in) ==
  LET s == CASE low <= 3970  -> 8000
             [] low > 3970  /\ low <= 4510  -> 11025
             [] low > 4510  /\ low <= 5420  -> 12000
             [] low > 5420  /\ low <= 7230  -> 16000
             [] low > 7230  /\ low <= 9970  -> 22050
             [] low > 9970  /\ low <= 11220 -> 24000
             [] low > 11220 /\ low <= 15250 -> 32000
             [] low > 15250 /\ low <= 15960 -> 44100
             [] OTHER -> AtMost(in)
  IN  IF in < s THEN AtLeast(in) ELSE s
=============================================================================
