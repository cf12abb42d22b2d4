---------------------------- MODULE ScaleFactors ----------------------------
(***************************************************************************)
(* The scale factors of a granule (LAME, takehiro.c).                      *)
(*                                                                         *)
(* The spectrum of a granule is cut into bands.  The quantiser's step is   *)
(* that of global_gain, made finer band by band: by the band's scale       *)
(* factor, which counts double with scalefac_scale, by a fixed table       *)
(* (preflag), and in short blocks by the gain of the band's window.  The   *)
(* operators here find how many bits the scale factors take, and, once a   *)
(* granule is final, the cheapest way to write the same steps.             *)
(*                                                                         *)
(* A granule g is a record: sf (a scale factor for each band), pre, scale, *)
(* sbg (the gain of each window), gain, bits (part2_3_length, the          *)
(* coefficients), part2 (part2_length, the scale factors) and slen (how    *)
(* many bits a scale factor of each part takes).  A block s says how the   *)
(* spectrum is cut: short, bands, sfbmax and sfbdivide, and of each band   *)
(* its window, pretab and part.  Bands above sfbmax have no scale factor.  *)
(* Mixed blocks, which the encoder never chooses, are left out.            *)
(***************************************************************************)
EXTENDS Integers, FiniteSetsExt

CONSTANTS Lsf,             \* mode_gr = 1: the low sampling frequencies of MPEG-2
          SlenTab,         \* the pairs of slen1_tab and slen2_tab
          SlenMax,         \* the bits of max_range_sfac_tab, for each part, without and with preflag
          SlenParts,       \* how many parts nr_of_sfb_block has
          Groups,          \* scfsi_band: the groups of bands that granules may share
          Large            \* LARGE_BITS

ASSUME SfNat == Lsf \in BOOLEAN /\ Large \in Nat

None     == -1             \* a scale factor taken from the granule before
Anything == -2             \* a scale factor that does not matter

Bands(s)   == 1..s.bands
Sfbs(s)    == 1..s.sfbmax
Upper(s)   == {b \in Sfbs(s) : s.pretab[b] > 0}
MaxOf(S)   == Max(S \cup {0})
SumOf(f(_), n) == LET t[i \in 0..n] == IF i = 0 THEN 0 ELSE t[i - 1] + f(i) IN t[n]

(* How much finer band b is quantised than global_gain says, in steps of global_gain. *)
Shift(s, g, b) ==
  (g.sf[b] + (IF g.pre = 1 THEN s.pretab[b] ELSE 0)) * 2^(g.scale + 1) + 8 * g.sbg[s.window[b]]

(* The part a band is in, and the lengths that a granule may declare for the parts. *)
Part(s, g, b) == IF Lsf /\ g.pre = 1 THEN s.prepart[b] ELSE s.part[b]
Slens(g) ==
  LET top(p) == SlenMax[g.pre + 1][p]
  IN  IF Lsf THEN {l \in [1..SlenParts -> 0..MaxOf({top(p) : p \in 1..SlenParts})] : \A p \in 1..SlenParts : l[p] <= top(p)}
      ELSE SlenTab

Length(s, g, l, S) == SumOf(LAMBDA b : IF b \in S THEN l[Part(s, g, b)] ELSE 0, s.sfbmax)
Suffices(s, g, l, S) == \A b \in S : g.sf[b] < 2^l[Part(s, g, b)]

(* Scale factors that all reach pretab above sfbdivide are written less pretab. *)
WithPreflag(s, g) ==
  IF Lsf \/ s.short \/ g.pre = 1 \/ \E b \in Upper(s) : g.sf[b] < s.pretab[b] THEN g
  ELSE [g EXCEPT !.pre = 1, !.sf = [b \in Bands(s) |-> IF s.pretab[b] > 0 THEN g.sf[b] - s.pretab[b] ELSE g.sf[b]]]

(* The cheapest lengths for the scale factors of the bands in S, if there are any. *)
Cheapest(s, g, S) ==
  LET good  == {l \in Slens(g) : Suffices(s, g, l, S)}
      least == Min({Length(s, g, l, S) : l \in good})
  IN  {l \in good : Length(s, g, l, S) = least}

(* scale_bitcount: where no lengths suffice, part2_length is LARGE_BITS, or with Lsf stays as it was. *)
ScaleBitcount(s, g) ==
  LET h == WithPreflag(s, g)
      c == Cheapest(s, h, Sfbs(s))
  IN  IF c = {} THEN [h EXCEPT !.part2 = IF Lsf THEN @ ELSE Large]
      ELSE LET l == CHOOSE l \in c : TRUE
           IN  [h EXCEPT !.slen = l, !.part2 = Length(s, h, l, Sfbs(s))]
TooLarge(s, g) == Cheapest(s, WithPreflag(s, g), Sfbs(s)) = {}

(* best_scalefac_store: bands that are all zero need no scale factor, *)
Forgotten(s, g) == [g EXCEPT !.sf = [b \in Bands(s) |-> IF b \in g.zero /\ b <= s.sfbmax THEN Anything ELSE @[b]]]

(* even ones are halved and count double, *)
(* Mutant of Halved: looks at the largest only. *)
HalvedByLargest(s, g) ==
  LET pos == {b \in Sfbs(s) : g.sf[b] > 0}
  IN  IF g.scale = 1 \/ g.pre = 1 \/ pos = {} \/ Max({g.sf[b] : b \in pos}) % 2 = 1 THEN g
      ELSE [g EXCEPT !.scale = 1, !.sf = [b \in Bands(s) |-> IF b \in pos THEN @[b] \div 2 ELSE @[b]]]

Halved(s, g) ==
  LET pos == {b \in Sfbs(s) : g.sf[b] > 0}
  IN  IF g.scale = 1 \/ g.pre = 1 \/ pos = {} \/ \E b \in pos : g.sf[b] % 2 = 1 THEN g
      ELSE [g EXCEPT !.scale = 1, !.sf = [b \in Bands(s) |-> IF b \in pos THEN @[b] \div 2 ELSE @[b]]]

(* and those that all reach pretab are written less pretab. *)
Preemphasised(s, g) ==
  IF Lsf \/ s.short \/ g.pre = 1 \/ \E b \in Upper(s) : g.sf[b] < s.pretab[b] /\ g.sf[b] # Anything THEN g
  ELSE [g EXCEPT !.pre = 1,
                 !.sf = [b \in Bands(s) |-> IF s.pretab[b] > 0 /\ @[b] > 0 THEN @[b] - s.pretab[b] ELSE @[b]]]

(* scfsi_calc: a group whose scale factors are those of the first granule, g0, is not written again. *)
Shared(g0, g) == {G \in Groups : \A b \in G : g0.sf[b] = g.sf[b] \/ g.sf[b] < 0}
Scfsi(s, g0, g) ==
  LET h    == [g EXCEPT !.sf = [b \in Bands(s) |-> IF b \in UNION Shared(g0, g) THEN None ELSE @[b]]]
      kept == {b \in Sfbs(s) : h.sf[b] # None}
      c    == Cheapest(s, h, kept)
  IN  IF c = {} THEN h
      ELSE LET l == CHOOSE l \in c : TRUE
           IN  IF h.part2 > Length(s, h, l, kept) THEN [h EXCEPT !.slen = l, !.part2 = Length(s, h, l, kept)] ELSE h

Settled(s, g) == [g EXCEPT !.sf = [b \in Bands(s) |-> IF @[b] = Anything THEN 0 ELSE @[b]]]

(* What a decoder reads, and what writeMainData writes. *)
Read(g0, g, b)    == IF g.sf[b] = None THEN g0.sf[b] ELSE g.sf[b]
WrittenBits(s, g) == Length(s, g, g.slen, {b \in Sfbs(s) : g.sf[b] # None})
Fits(s, g)        == Suffices(s, g, g.slen, {b \in Sfbs(s) : g.sf[b] # None})
=============================================================================
