---------------------------- MODULE BitAllocation ----------------------------
(***************************************************************************)
(* How LAME divides the bits of a frame among its granules and channels,   *)
(* in each of its four ways of using a bit rate: constant (CBR), average   *)
(* (ABR), the old variable one (vbr_rh) and the new one (vbr_mtrh).        *)
(*                                                                         *)
(* The format has limits for a channel and for a granule, the decoder one  *)
(* for a frame, and a frame may use bits that earlier frames have saved in *)
(* the reservoir, never bits that nobody saved.  The variable ways decide  *)
(* on the size of the frame after the quantiser has used its bits.         *)
(*                                                                         *)
(* One frame is encoded, from any reservoir that a frame may find.  The    *)
(* quantiser uses what it needs, up to what it may use: NoiseShaping and   *)
(* VbrScalefacs show that it keeps to that.  Stereo only; left out is      *)
(* substep shaping and the strict ISO limit.                               *)
(***************************************************************************)
EXTENDS Integers

CONSTANTS Granules,                    \* of a frame, 1..mode_gr
          Slots,                       \* the bytes of a frame for each bitrate index
          Bounds,                      \* <<VBR_min_bitrate, VBR_max_bitrate, bytes of the mean rate>>
          SideInfo,                    \* sideinfo_len
          ChannelMax, GranuleMax,      \* MAX_BITS_PER_CHANNEL, MAX_BITS_PER_GRANULE
          ResvLimit, MaxMp3Buf,        \* in bits
          SideFloor, GranuleSlack, ChannelSlack,   \* 125, 125 and 32 bits
          Reservoirs,                  \* the reservoirs a frame may find
          Needs,                       \* what granules and channels need
          Entropies,                   \* pe of the two channels
          Moves,                       \* hundredths that ms_ener_ratio moves to mid, 0..33
          Modes                        \* which ways: "cbr", "abr", "rh", "mtrh"

Channels == {1, 2}

VARIABLES mode, bounds, ms, move, pe, need, silent,    \* the settings, and the frame's data
          bitrate_index, ResvSize, ResvMax, main_data_begin,
          targ, used, gr, pc
vars == <<mode, bounds, ms, move, pe, need, silent, bitrate_index, ResvSize, ResvMax, main_data_begin, targ, used, gr, pc>>

Lesser(a, b)  == IF a < b THEN a ELSE b
Greater(a, b) == IF a > b THEN a ELSE b
Two(f)        == f[1] + f[2]
Grs           == 1..Granules
Sum(f)        == IF Granules = 1 THEN Two(f[1]) ELSE Two(f[1]) + Two(f[2])
None          == [g \in Grs |-> <<0, 0>>]
MinIndex      == bounds[1]
MaxIndex      == bounds[2]

-----------------------------------------------------------------------------
(* The reservoir. *)

FrameBits(i) == 8 * Slots[i]
MeanBits(i)  == (FrameBits(i) - SideInfo * 8) \div Granules
MaxOf(i)     == Greater(0, Lesser(MaxMp3Buf - FrameBits(i), ResvLimit))
(* ResvFrameBegin: what the frame may use; it also sets ResvMax. *)
FullFrameBits(i, resv) == Lesser(MaxMp3Buf, MeanBits(i) * Granules + Lesser(resv, MaxOf(i)))

(* ResvMaxBits *)
Saved(mean, cbr)  == IF cbr THEN ResvSize + mean ELSE ResvSize
AlmostFull(r, m)  == r * 10 > m * 9
Tbits(mean, r, m) == IF AlmostFull(r, m) THEN mean + r - (m * 9) \div 10 ELSE mean - mean \div 10
Extra(r, m) == Greater(0, Lesser(r, (m * 6) \div 10) - IF AlmostFull(r, m) THEN r - (m * 9) \div 10 ELSE 0)

(* Mutant of ResvFrameEnd: the surplus of this frame alone is given up. *)
ResvFrameEndUnlimited(i, resv) ==
  LET r == resv + MeanBits(i) * Granules IN
  /\ ResvSize' = r - (r % 8)
  /\ ResvMax' = MaxOf(i) /\ main_data_begin' = (r - (r % 8)) \div 8

(* What does not make a byte, or exceeds ResvMax, is drained: into the     *)
(* space before this frame's data, then behind it.                         *)
ResvFrameEnd(i, resv) ==
  LET r     == resv + MeanBits(i) * Granules
      odd   == r % 8
      over  == Greater(0, r - odd - MaxOf(i))
      stuff == odd + over
      pre   == Lesser(main_data_begin * 8, stuff) \div 8
  IN  /\ ResvSize' = r - 8 * pre - (stuff - 8 * pre)
      /\ ResvMax' = MaxOf(i)
      /\ main_data_begin' = ResvSize' \div 8

-----------------------------------------------------------------------------
(* Dividing among the channels of a granule. *)

(* on_pe: a channel with much perceptual entropy gets more, from what the reservoir may give. *)
OnPe(mean, cbr) ==
  LET r      == Saved(mean, cbr)
      tb     == Tbits(mean, r, ResvMax)
      ex     == Extra(r, ResvMax)
      own    == Lesser(ChannelMax, tb \div 2)
      more   == [c \in Channels |-> Greater(0, Lesser((own * pe[c]) \div 700 - own, (mean * 3) \div 4))]
      add    == [c \in Channels |-> Lesser(more[c], Greater(0, ChannelMax - own))]
      share  == [c \in Channels |-> IF Two(add) > ex THEN (ex * add[c]) \div Two(add) ELSE add[c]]
      bits   == <<own + share[1], own + share[2]>>
  IN  [max  |-> Lesser(GranuleMax, tb + ex),
       bits |-> IF Two(bits) > GranuleMax
                THEN <<(bits[1] * GranuleMax) \div Two(bits), (bits[2] * GranuleMax) \div Two(bits)>> ELSE bits]

(* reduce_side: bits move from the side channel to the mid channel. *)
ReduceSide(t, mean, max) ==
  LET m == Greater(0, Lesser((move * Two(t)) \div 200, ChannelMax - t[1]))
      u == IF t[2] < SideFloor THEN t
           ELSE IF t[2] - m > SideFloor THEN <<IF t[1] < mean THEN t[1] + m ELSE t[1], t[2] - m>>
           ELSE <<t[1] + t[2] - SideFloor, SideFloor>>
  IN  IF Two(u) > max THEN <<(max * u[1]) \div Two(u), (max * u[2]) \div Two(u)>> ELSE u

Reduced(o, mean) == IF ms THEN ReduceSide(o.bits, mean, o.max) ELSE o.bits

(* Everybody gives up the same share when there is too much. *)
Scaled(t, limit) ==
  IF Sum(t) > limit THEN [g \in Grs |-> [c \in Channels |-> (t[g][c] * limit) \div Sum(t)]] ELSE t

(* What the quantiser uses of what it may use; nothing for nothing. *)
Uses(g, c, may) == IF need[g][c] = 0 THEN 0 ELSE Lesser(need[g][c], may)

-----------------------------------------------------------------------------
Init ==
  /\ mode \in Modes /\ bounds \in Bounds /\ ms \in BOOLEAN
  /\ move \in (IF ms THEN Moves ELSE {0})
  /\ pe \in Entropies /\ need \in Needs
  /\ silent \in {{}, {2}, Channels}                   \* the channels below the threshold of hearing
  /\ bitrate_index = bounds[1]
  /\ ResvMax = MaxOf(bounds[1]) /\ ResvSize \in {r \in Reservoirs : r <= ResvMax}
  /\ main_data_begin = ResvSize \div 8
  /\ targ = None /\ used = None /\ gr = 1 /\ pc = "begin"

given == <<mode, bounds, ms, move, pe, need, silent>>

(* CBR_iteration_loop: each granule finds what the one before has left. *)
BeginConstant ==
  /\ pc = "begin" /\ mode = "cbr"
  /\ ResvMax' = MaxOf(bitrate_index) /\ pc' = "granule"
  /\ UNCHANGED <<given, bitrate_index, ResvSize, main_data_begin, targ, used, gr>>

ConstantGranule ==
  /\ pc = "granule" /\ gr <= Granules
  /\ LET mean == MeanBits(bitrate_index)
         t    == Reduced(OnPe(mean, gr = 2), mean)
         u    == <<Uses(gr, 1, t[1]), Uses(gr, 2, t[2])>>
     IN  targ' = [targ EXCEPT ![gr] = t] /\ used' = [used EXCEPT ![gr] = u] /\ ResvSize' = ResvSize - Two(u)
  /\ gr' = gr + 1
  /\ UNCHANGED <<given, bitrate_index, ResvMax, main_data_begin, pc>>

EndConstant ==
  /\ pc = "granule" /\ gr > Granules
  /\ ResvFrameEnd(bitrate_index, ResvSize) /\ pc' = "done"
  /\ UNCHANGED <<given, bitrate_index, targ, used, gr>>

(* calc_target_bits: the targets of a frame of the average bit rate. *)
AbrTargets(mean) ==
  LET base   == (93 * mean) \div 100
      more(c) == IF pe[c] > 700 THEN Greater(0, Lesser(((pe[c] - 700) * 10) \div 14, (mean * 3) \div 2)) ELSE 0
      t      == <<Lesser(ChannelMax, base + more(1)), Lesser(ChannelMax, base + more(2))>>
      u      == IF Two(t) > GranuleMax
                THEN <<(t[1] * GranuleMax) \div Two(t), (t[2] * GranuleMax) \div Two(t)>> ELSE t
      v      == IF ms THEN ReduceSide(u, mean * 2, GranuleMax) ELSE u
  IN  <<Lesser(v[1], ChannelMax), Lesser(v[2], ChannelMax)>>

BeginAverage ==
  /\ pc = "begin" /\ mode = "abr"
  /\ LET max  == FullFrameBits(MaxIndex, ResvSize)
         mean == (8 * bounds[3] - SideInfo * 8) \div (Granules * 2)
     IN  targ' = Scaled([g \in Grs |-> AbrTargets(mean)], max)
  /\ bitrate_index' = 1 /\ ResvMax' = MaxOf(MaxIndex) /\ pc' = "encode"
  /\ UNCHANGED <<given, ResvSize, main_data_begin, used, gr>>

(* ABR_iteration_loop: a silent channel gets its part of the smallest frame instead. *)
EncodeAverage ==
  /\ pc = "encode" /\ mode = "abr"
  /\ LET quiet == (FrameBits(1) - SideInfo * 8) \div (Granules * 2)
         t == [g \in Grs |-> [c \in Channels |-> IF c \in silent /\ need[g][c] > 0 THEN quiet ELSE targ[g][c]]]
         u == [g \in Grs |-> [c \in Channels |-> Uses(g, c, t[g][c])]]
     IN  targ' = t /\ used' = u /\ ResvSize' = ResvSize - Sum(u)
  /\ pc' = "choose"
  /\ UNCHANGED <<given, bitrate_index, ResvMax, main_data_begin, gr>>

(* The first size of frame that brings the reservoir back above zero; when *)
(* there is none an assertion ends the program, and a build without        *)
(* assertions goes on with an index above the largest.                     *)
Refilling == {k \in MinIndex..MaxIndex : FullFrameBits(k, ResvSize) >= 0}
EndAverage ==
  /\ pc = "choose" /\ mode = "abr" /\ Refilling # {}
  /\ LET i == CHOOSE k \in Refilling : \A j \in Refilling : k <= j
     IN  bitrate_index' = i /\ ResvFrameEnd(i, ResvSize)
  /\ pc' = "done"
  /\ UNCHANGED <<given, targ, used, gr>>

AssertAverage ==
  /\ pc = "choose" /\ mode = "abr" /\ Refilling = {}
  /\ bitrate_index' = MaxIndex + 1 /\ pc' = "aborted"
  /\ UNCHANGED <<given, ResvSize, ResvMax, main_data_begin, targ, used, gr>>

(* VBR_old_prepare and VBR_new_prepare: the largest frame is divided.  The *)
(* old one counts the reservoir as if it were there for every granule.     *)
BeginVariable ==
  /\ pc = "begin" /\ mode \in {"rh", "mtrh"}
  /\ ResvMax' = MaxOf(MaxIndex)
  /\ pc' = "divide"
  /\ UNCHANGED <<given, bitrate_index, ResvSize, main_data_begin, targ, used, gr>>

Divide ==
  /\ pc = "divide"
  /\ LET full == FullFrameBits(MaxIndex, ResvSize)
         avg  == IF mode = "rh" THEN full \div Granules ELSE MeanBits(MaxIndex)
         o    == OnPe(avg, FALSE)
         t    == Scaled([g \in Grs |-> IF mode = "rh" THEN Reduced(o, avg) ELSE o.bits], full)
     IN  targ' = IF mode = "mtrh" THEN [g \in Grs |-> [c \in Channels |-> IF need[g][c] = 0 THEN 0 ELSE t[g][c]]] ELSE t
  /\ pc' = "encode"
  /\ UNCHANGED <<given, bitrate_index, ResvSize, ResvMax, main_data_begin, used, gr>>

(* VBR_old_iteration_loop: VBR_encode_granule keeps to max_bits. *)
EncodeOld ==
  /\ pc = "encode" /\ mode = "rh"
  /\ used' = [g \in Grs |-> [c \in Channels |-> Uses(g, c, targ[g][c])]]
  /\ pc' = "choose"
  /\ UNCHANGED <<given, bitrate_index, ResvSize, ResvMax, main_data_begin, targ, gr>>

(* VBR_encode_frame: everybody may use what it needs when all of it fits. *)
AsIsFits ==
  /\ Sum(need) <= Sum(targ)
  /\ \A g \in Grs : Two(need[g]) <= GranuleMax /\ \A c \in Channels : need[g][c] <= ChannelMax
EncodeAsIs ==
  /\ pc = "encode" /\ mode = "mtrh" /\ AsIsFits
  /\ used' = need /\ pc' = "choose"
  /\ UNCHANGED <<given, bitrate_index, ResvSize, ResvMax, main_data_begin, targ, gr>>

(* A limit is divided in the proportion of roots of the needs: something   *)
(* between evenly and proportionally, rounded down.                        *)
Splits(limit, a, b) ==
  CASE a = 0 /\ b = 0 -> {<<0, 0>>}
    [] a = 0 /\ b # 0 -> {<<0, limit>>}
    [] a # 0 /\ b = 0 -> {<<limit, 0>>}
    [] OTHER -> LET p == (limit * a) \div (a + b)
                    e == limit \div 2
                IN  {<<x, limit - x>> : x \in {p, e, (p + e) \div 2}}
(* What one of two does not need, and a little more, goes to the other. *)
Passed(x, n, slack) ==
  LET y == IF x[1] > n[1] + slack THEN <<n[1] + slack, x[2] + x[1] - n[1] - slack>> ELSE x
  IN  IF y[2] > n[2] + slack THEN <<y[1] + y[2] - n[2] - slack, n[2] + slack>> ELSE y
Capped(x, limit) == <<Lesser(x[1], limit), Lesser(x[2], limit)>>
PerGranule(x, n) == Capped(Passed(x, n, ChannelSlack), ChannelMax)

(* The limits of the granules, when everybody needs too much. *)
GranuleSplits(g) ==
  LET m == Capped(need[g], ChannelMax) IN
  IF Two(m) > GranuleMax THEN {PerGranule(x, need[g]) : x \in Splits(GranuleMax, m[1], m[2])} ELSE {m}
FrameSplits(m) ==
  IF Sum(m) <= Sum(targ) THEN {m}
  ELSE IF Granules = 1 THEN {<<PerGranule(x, need[1])>> : x \in Splits(Sum(targ), m[1][1], m[1][2])}
  ELSE LET G == {Capped(Passed(x, <<Two(need[1]), Two(need[2])>>, GranuleSlack), GranuleMax) :
                   x \in Splits(Sum(targ), Two(m[1]), Two(m[2]))}
       IN  UNION {{<<PerGranule(x, need[1]), PerGranule(y, need[2])>> :
                     x \in Splits(h[1], m[1][1], m[1][2]), y \in Splits(h[2], m[2][1], m[2][2])} : h \in G}
AllSplits == UNION {FrameSplits(m) : m \in
                     IF Granules = 1 THEN {<<x>> : x \in GranuleSplits(1)} ELSE {<<x, y>> : x \in GranuleSplits(1), y \in GranuleSplits(2)}}
Sane(m) == /\ Sum(m) <= Sum(targ)
           /\ \A g \in Grs : Two(m[g]) <= GranuleMax /\ \A c \in Channels : m[g][c] <= ChannelMax

(* When the division went wrong, on_pe's limits are used. *)
Budget(m) == IF Sane(m) THEN m ELSE targ

EncodeReduced ==
  /\ pc = "encode" /\ mode = "mtrh" /\ ~AsIsFits
  /\ \E m \in AllSplits :
       used' = [g \in Grs |-> [c \in Channels |-> IF targ[g][c] > 0 THEN Uses(g, c, Budget(m)[g][c]) ELSE 0]]
  /\ pc' = "choose"
  /\ UNCHANGED <<given, bitrate_index, ResvSize, ResvMax, main_data_begin, targ, gr>>

(* The smallest frame that holds what was used: analog silence may go      *)
(* below the smallest size the program asked for.                          *)
EndVariable ==
  /\ pc = "choose" /\ mode \in {"rh", "mtrh"}
  /\ LET from == IF silent = Channels THEN 1 ELSE MinIndex
         fit  == {i \in from..MaxIndex : Sum(used) <= FullFrameBits(i, ResvSize)}
         i    == IF fit = {} THEN MaxIndex ELSE CHOOSE k \in fit : \A j \in fit : k <= j
     IN  /\ bitrate_index' = i
         /\ IF Sum(used) <= FullFrameBits(i, ResvSize)
            THEN ResvFrameEnd(i, ResvSize - Sum(used)) /\ pc' = "done"
            ELSE UNCHANGED <<ResvSize, ResvMax, main_data_begin>> /\ pc' = "error"
  /\ UNCHANGED <<given, targ, used, gr>>

Next ==
  \/ BeginConstant \/ ConstantGranule \/ EndConstant
  \/ BeginAverage \/ EncodeAverage \/ EndAverage \/ AssertAverage
  \/ BeginVariable \/ Divide \/ EncodeOld \/ EncodeAsIs \/ EncodeReduced \/ EndVariable
Spec == Init /\ [][Next]_vars

-----------------------------------------------------------------------------
(***************************************************************************)
(* When a frame is done, it has used no bits that nobody saved, the        *)
(* reservoir is within what its size of frame allows and is whole bytes,   *)
(* main_data_begin points to its start, and no channel and no granule is   *)
(* over the format's limits.  The internal errors of the variable bit rate *)
(* (quantize.c:1728, vbrquantize.c:1589) do not happen, and the assertion  *)
(* of the average one (quantize.c:1945) fails only for silent channels     *)
(* whose share of the smallest frame replaced a smaller target.            *)
(***************************************************************************)
Replaced == silent # {} /\ Sum(targ) > FullFrameBits(MaxIndex, ResvSize + Sum(used))
FrameHolds ==
  /\ pc # "error"
  /\ pc = "aborted" => Replaced
  /\ pc = "done" =>
       /\ ResvSize \in 0..ResvMax /\ ResvSize % 8 = 0 /\ main_data_begin * 8 = ResvSize
       /\ \A g \in Grs : Two(used[g]) <= GranuleMax /\ \A c \in Channels : used[g][c] <= ChannelMax
  /\ pc \in {"encode", "choose"} /\ mode # "abr" => Sum(targ) <= FullFrameBits(MaxIndex, ResvSize)

(* quantize.c:1945 asserts of ABR_iteration_loop that some size of frame up to the *)
(* largest refills the reservoir.                                                  *)
FrameFound == mode = "abr" /\ pc \in {"done", "aborted"} => bitrate_index <= MaxIndex
=============================================================================
