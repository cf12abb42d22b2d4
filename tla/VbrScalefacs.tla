---------------------------- MODULE VbrScalefacs ----------------------------
(***************************************************************************)
(* How a granule is quantised with the new variable bit rates (LAME,       *)
(* vbrquantize.c): instead of searching, find the step each band needs and *)
(* derive from these the global gain, scale factors and window gains that  *)
(* come nearest.  A band has also a smallest step, below which its values  *)
(* are too large to code.  If the granule takes more bits than it has, the *)
(* steps are levelled, found by halving, until it fits.                    *)
(*                                                                         *)
(* As in NoiseShaping a band of loudness l takes l - step bits.  The step  *)
(* that its noise allows (find_scalefac_x34) is an input.  Left out: the   *)
(* search that follows when not even the largest step for every band fits, *)
(* and the sharing of a frame's bits among granules.                       *)
(***************************************************************************)
EXTENDS ScaleFactors, Sequences

CONSTANTS Grains,            \* the granules: [s (a block), psymax, loud, steps]
          Budgets,           \* the bits a granule may have
          Shapings,          \* the values of noise_shaping
          MaxStep,           \* 255
          IxMax,             \* IXMAX_VAL, as a level
          RangeLow, RangeHigh,       \* 15 and 7: the ranges below and above the division
          PreRange,                  \* max_range_long_lsf_pretab
          SbgMax                     \* 7


VARIABLES at,                \* where the granule is
          grain, shaping, max_nbits,
          vbrsfmin,          \* the smallest steps
          sfwork,            \* the steps wanted
          cod,               \* cod_info
          wrk, vbrmax,       \* the steps that are tried, and the largest of them
          phase, p, bi, bi_ok, bu, bo   \* the searches of outOfBitsStrategy
inputs == <<grain, shaping, max_nbits, vbrsfmin>>
halves == <<phase, p, bi, bi_ok, bu, bo>>
vvars  == <<at, inputs, sfwork, cod, wrk, vbrmax, halves>>

t   == grain.s
All == Bands(t)
Psy == 1..grain.psymax
Greater(x, y) == IF x > y THEN x ELSE y
Lesser(x, y)  == IF x < y THEN x ELSE y

(* find_lowest_scalefac, and in block_sf the largest of these, of all bands and of a window's. *)
Lowest(gn)   == [b \in Bands(gn.s) |-> IF \A c \in b..gn.s.bands : gn.loud[c] = 0 THEN 0
                                       ELSE Greater(gn.loud[b] - IxMax, 1)]
mingain_l    == MaxOf({vbrsfmin[b] : b \in All})
mingain_s(i) == MaxOf({vbrsfmin[b] : b \in {c \in All : t.window[c] = i}})

(* max_range_long and max_range_short, and what preflag leaves of them; a band without a scale factor has none. *)
Range1(b) == IF b > t.sfbmax THEN 0 ELSE IF b <= t.sfbdivide THEN RangeLow ELSE RangeHigh
Range2(b) == IF b <= t.sfbmax /\ Lsf THEN PreRange[b] ELSE Range1(b)

(* How far the step that band b needs is from the largest, and by how much that is too far for a range r. *)
Apart(b)   == vbrmax - wrk[b]
Delta      == MaxOf({Apart(b) : b \in Psy})
Over(r(_)) == MaxOf({Apart(b) - r(b) : b \in Psy})

Init ==
  /\ grain \in Grains /\ shaping \in Shapings /\ max_nbits \in Budgets
  /\ vbrsfmin = Lowest(grain) /\ sfwork = grain.steps
  /\ wrk = grain.steps /\ vbrmax = MaxOf({grain.steps[b] : b \in All})
  /\ cod = [sf |-> [b \in All |-> 0], pre |-> 0, scale |-> 0, sbg |-> [i \in 0..3 |-> 0], gain |-> 0,
            bits |-> 0, part2 |-> 0, slen |-> [i \in 1..SlenParts |-> 0], zero |-> {}]
  /\ at = "alloc" /\ phase = 0 /\ p = 0 /\ bi = 0 /\ bi_ok = -1 /\ bu = 0 /\ bo = 0

(* long_block_constrain: scalefac_scale and preflag, such that the largest step need come down least. *)
over0 == Over(LAMBDA b : 2 * Range1(b))
over1 == Over(LAMBDA b : 4 * Range1(b))
over0p == Over(LAMBDA b : 2 * (Range2(b) + t.pretab[b]))
over1p == Over(LAMBDA b : 4 * (Range2(b) + t.pretab[b]))
PretabFits(over, q) == \A b \in Psy : Greater(vbrmax - over, mingain_l) - vbrsfmin[b] - q * t.pretab[b] > 0
LongBlock ==
  LET vm0p == PretabFits(over0p, 2)
      vm1p == vm0p /\ PretabFits(over1p, 4)
      o0p  == IF vm0p THEN over0p ELSE over0
      o1   == IF shaping = 2 THEN over1 ELSE over0
      o1p  == IF shaping # 2 THEN o0p ELSE IF vm1p THEN over1p ELSE over1
      mover == Min({over0, o0p, o1, o1p})
      gain == Greater(vbrmax - Lesser(Delta, mover), mingain_l)
      Choice(sc, pr) == cod' = [cod EXCEPT !.gain = gain, !.scale = sc, !.pre = pr]
  IN  /\ at = "alloc" /\ ~t.short /\ at' = "scalefacs"
      /\ IF over0 = mover THEN Choice(0, 0) ELSE IF o0p = mover THEN Choice(0, 1)
         ELSE IF o1 = mover THEN Choice(1, 0) ELSE Choice(1, 1)
      /\ UNCHANGED <<inputs, sfwork, wrk, vbrmax, halves>>

(* short_block_constrain, *)
ShortBlock ==
  LET o0    == Over(LAMBDA b : 8 * SbgMax + 2 * Range1(b))
      o1    == Over(LAMBDA b : 8 * SbgMax + 4 * Range1(b))
      mover == IF shaping = 2 THEN Lesser(o0, o1) ELSE o0
  IN  /\ at = "alloc" /\ t.short /\ at' = "windows"
      /\ cod' = [cod EXCEPT !.gain = Greater(vbrmax - Lesser(Delta, mover), mingain_l),
                            !.scale = IF o0 = mover THEN 0 ELSE 1]
      /\ UNCHANGED <<inputs, sfwork, wrk, vbrmax, halves>>

(* and set_subblock_gain: as little as lets the scale factors reach, and no more than the floor allows. *)
(* Mutant of Floored: the floor is not looked at. *)
Unfloored(g, i) == g
Floored(g, i) == IF g > 0 /\ mingain_s(i) > cod.gain - 8 * g THEN (cod.gain - mingain_s(i)) \div 8 ELSE g
WindowGain(i) ==
  LET mine == {b \in All : t.window[b] = i}
      low  == {b \in mine : b <= Lesser(t.sfbdivide, grain.psymax)}
      need(S) == MaxOf({cod.gain - wrk[b] : b \in S})
      least == Min({cod.gain - wrk[b] : b \in mine})
      q    == 2^(cod.scale + 1)
      m    == Greater(need(low) - RangeLow * q, need(mine \ low) - RangeHigh * q)
  IN  Lesser(Floored(Greater(Greater(least, 0) \div 8, (Greater(m, 0) + 7) \div 8), i), SbgMax)
Windows == {t.window[b] : b \in All}
SetSubblockGain ==
  LET g   == [i \in 0..3 |-> IF i \in Windows THEN WindowGain(i) ELSE 0]
      all == Min({g[i] : i \in Windows})
  IN  /\ at = "windows" /\ at' = "scalefacs"
      /\ cod' = [cod EXCEPT !.sbg = [i \in 0..3 |-> IF i \in Windows THEN g[i] - all ELSE 0], !.gain = @ - 8 * all]
      /\ UNCHANGED <<inputs, sfwork, wrk, vbrmax, halves>>

(* set_scalefacs: what is missing, rounded up, but within the range and above the floor. *)
SetScalefacs ==
  LET q       == 2^(cod.scale + 1)
      Base(b) == cod.gain - 8 * cod.sbg[t.window[b]] - (IF cod.pre = 1 THEN q * t.pretab[b] ELSE 0)
      Wish(b) == Lesser((q - 1 + Base(b) - wrk[b]) \div q, IF cod.pre = 1 THEN Range2(b) ELSE Range1(b))
      m(b)    == Base(b) - vbrsfmin[b]
      Sf(b)   == IF wrk[b] >= Base(b) THEN 0 ELSE IF Wish(b) > 0 /\ q * Wish(b) > m(b) THEN m(b) \div q ELSE Wish(b)
  IN  /\ at = "scalefacs" /\ at' = "bitcount"
      /\ cod' = [cod EXCEPT !.sf = [b \in All |-> IF b <= t.sfbmax THEN Sf(b) ELSE 0]]
      /\ UNCHANGED <<inputs, sfwork, wrk, vbrmax, halves>>

(* bitcount: scale factors that no lengths suffice for are an internal error, which ends the program. *)
Bitcount ==
  /\ at = "bitcount" /\ at' = IF TooLarge(t, cod) THEN "error" ELSE "quantise"
  /\ cod' = ScaleBitcount(t, cod)
  /\ UNCHANGED <<inputs, sfwork, wrk, vbrmax, halves>>

(* quantizeAndCountBits *)
Step(b)  == cod.gain - Shift(t, cod, b)
Taken(b) == Greater(grain.loud[b] - Step(b), 0)
Quantise ==
  /\ at = "quantise"
  /\ cod' = [cod EXCEPT !.bits = SumOf(Taken, t.bands), !.zero = {b \in All : Taken(b) = 0}]
  /\ at' = IF phase \in {1, 2} THEN "judge" ELSE "reduce"
  /\ UNCHANGED <<inputs, sfwork, wrk, vbrmax, halves>>

(* reduce_bit_usage: best_scalefac_store, of a granule that shares nothing with another. *)
Used == cod.bits + cod.part2
Reduce ==
  /\ at = "reduce" /\ at' = IF phase = 0 THEN "check" ELSE "done"
  /\ cod' = LET c == Preemphasised(t, Halved(t, Forgotten(t, cod)))
            IN  IF c = cod THEN cod ELSE ScaleBitcount(t, Settled(t, c))
  /\ UNCHANGED <<inputs, sfwork, wrk, vbrmax, halves>>

(* VBR_encode_frame: if the granule takes too much, the steps wanted are first cut to global_gain. *)
Check ==
  /\ at = "check"
  /\ IF Used <= max_nbits THEN at' = "done" /\ UNCHANGED <<sfwork, halves>>
     ELSE LET cut == [b \in All |-> Lesser(sfwork[b], cod.gain)]
              dm  == MaxOf({MaxStep - cut[b] : b \in All})
          IN  /\ sfwork' = cut /\ p' = cod.gain /\ at' = "try"
              /\ phase' = 1 /\ bi' = dm \div 2 /\ bi_ok' = -1 /\ bu' = 0 /\ bo' = dm
  /\ UNCHANGED <<inputs, cod, wrk, vbrmax>>

(* flattenDistribution: the part k of dm of the way from each step to q. *)
dm == MaxOf({MaxStep - sfwork[b] : b \in All})
Flatten(k, q, b) == IF dm = 0 THEN sfwork[b] ELSE Lesser(sfwork[b] + (k * (q - sfwork[b])) \div dm, MaxStep)
Try ==
  LET f == [b \in All |-> IF phase \in {1, 3} THEN Flatten(bi, p, b) ELSE Flatten(dm, bi, b)]
  IN  /\ at = "try" /\ at' = "alloc"
      /\ wrk' = f /\ vbrmax' = MaxOf({f[b] : b \in All})
      /\ UNCHANGED <<inputs, sfwork, cod, halves>>

(* The searches: in phase 1 towards global_gain, in phase 2 all steps alike.  3 and 4 are the last tries of these: *)
(* if the best is not the one tried last it is tried again. *)
(* Mutant of Ended: the last try is kept. *)
EndedAtOnce(ok) == at' = "reduce" /\ UNCHANGED <<phase, bi>>
Ended(ok) == IF ok # bi THEN at' = "try" /\ phase' = phase + 2 /\ bi' = ok ELSE at' = "reduce" /\ UNCHANGED <<phase, bi>>
Judge ==
  LET fits == Used <= max_nbits
      ok   == IF fits THEN bi ELSE bi_ok
      u    == IF fits THEN bu ELSE bi + 1
      o    == IF fits THEN bi - 1 ELSE bo
  IN  /\ at = "judge"
      /\ \/ /\ u <= o
            /\ bu' = u /\ bo' = o /\ bi_ok' = ok /\ bi' = (u + o) \div 2 /\ at' = "try" /\ UNCHANGED phase
         \/ /\ u > o /\ ok >= 0
            /\ bu' = u /\ bo' = o /\ bi_ok' = ok /\ Ended(ok)
         \/ /\ u > o /\ ok < 0 /\ phase = 1
            /\ bu' = p /\ bo' = MaxStep /\ bi_ok' = -1 /\ bi' = (MaxStep + p) \div 2 /\ at' = "try" /\ phase' = 2
      /\ UNCHANGED <<inputs, sfwork, cod, wrk, vbrmax, p>>

Next ==
  \/ LongBlock \/ ShortBlock \/ SetSubblockGain \/ SetScalefacs \/ Bitcount \/ Quantise
  \/ Reduce \/ Check \/ Try \/ Judge
Spec == Init /\ [][Next]_vvars

(* The steps that block_sf, cutDistribution and flattenDistribution ask for, and those that the constraints, by *)
(* way of scale factors, preflag and window gains, arrive at, are never below the smallest a band can have, and *)
(* the scale factors can always be written: the assertions at the head of long_block_constrain and behind it *)
(* (checkScalefactor), in quantize_x34, and the internal error 986. *)
AboveFloor ==
  /\ at = "alloc" => \A b \in Psy : wrk[b] >= vbrsfmin[b]
  /\ at \in {"bitcount", "quantise"} => \A b \in All : cod.sf[b] >= 0 /\ Step(b) >= vbrsfmin[b]
  /\ at # "error"

(* outOfBitsStrategy leaves in cod_info the try it has chosen, which fits (the assertion in VBR_encode_frame), *)
(* and the searches come to such a try. *)
BudgetKept ==
  /\ at = "done" => Used <= max_nbits
  /\ at = "judge" /\ phase = 2 /\ bi = MaxStep => Used <= max_nbits
=============================================================================
