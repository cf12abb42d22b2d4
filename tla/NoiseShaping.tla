---------------------------- MODULE NoiseShaping ----------------------------
(***************************************************************************)
(* How one channel of a frame is quantised (LAME, quantize.c).             *)
(*                                                                         *)
(* outer_loop searches for a step that meets a number of bits, and then    *)
(* amplifies, again and again, the bands whose noise is heard: it raises   *)
(* their scale factors and xrpow, the spectrum it quantises, together, and *)
(* keeps the best quantisation that still fits.  With a variable bit rate  *)
(* VBR_encode_granule repeats this for fewer or more bits, from where the  *)
(* try before ended.  The final granule's scale factors are then stored as *)
(* cheaply as can be, those of the second granule with the help of the     *)
(* first's.                                                                *)
(*                                                                         *)
(* Loudness, steps and noise are whole numbers of quantiser steps.  A band *)
(* of loudness l, amplified by a, takes l + a - gain bits if that is more  *)
(* than 0; its noise is its step, but never more than the band itself.     *)
(* Left out: the choice of Huffman tables (best_huffman_divide saves bits  *)
(* and changes nothing else), what calc_noise keeps from its last call,    *)
(* trancate_smallspectrums, the comparisons 4 and 8, noise_shaping_amp 3   *)
(* (nothing sets it) and full_outer_loop (always 0).                       *)
(***************************************************************************)
EXTENDS ScaleFactors, Sequences, FiniteSets

CONSTANTS Settings,        \* [vbr, shaping, amp, subblock_gain, substep, sfb21, comp] as lame_init_qval leaves them
          Signals,         \* what a granule may hold: [s (a block), loud, allow]
          Targets, MinBits,               \* the bits a granule may take; a VBR granule's least
          Granules, MaxGain,              \* mode_gr, and the largest global_gain
          FirstGain, FirstStep,           \* OldValue and CurrentStep of the channel
          IxMax,                          \* IXMAX_VAL, as a level
          CapLow, CapHigh, MaxSbg,        \* 16, 8 and 7 in inc_subblock_gain
          SearchLimit, SubstepLimit,      \* 3 and 20 in outer_loop
          Closer, Enough, TopMargin       \* 32, 12 and 42 in VBR_encode_granule

ASSUME NsNat ==
  /\ Granules \in {1, 2} /\ Targets \subseteq Nat /\ FirstStep \in Nat \ {0}
  /\ {MinBits, MaxGain, FirstGain, IxMax, CapLow, CapHigh, MaxSbg} \subseteq Nat
  /\ {SearchLimit, SubstepLimit, Closer, Enough, TopMargin} \subseteq Nat

VARIABLES pc, cfg,                 \* where the search is; the settings
          gr, sig, done,           \* the granule, its signal, and the granules stored
          best, saved,             \* cod_info, and the amplification in save_xrpow
          w, amp, half,            \* cod_info_w, the amplification in xrpow, the bands with pseudohalf
          step, dir, gone,         \* CurrentStep, Direction and flag_GoneOver
          OldValue, CurrentStep,   \* of the channel, kept from search to search
          noise, over, age, bestBits,   \* distort, best_noise_info, age, best_part2_3_length
          fin,                     \* the final granule while its scale factors are stored
          target, min_bits, max_bits, Max_bits, found, bst  \* targ_bits, and VBR_encode_granule's

search  == <<step, dir, gone>>
channel == <<OldValue, CurrentStep>>
kept    == <<best, saved>>
tried   == <<w, amp, half>>
judged  == <<noise, over, age, bestBits>>
vbr     == <<target, min_bits, max_bits, Max_bits, found, bst>>
where   == <<cfg, gr, sig, done>>
vars    == <<pc, fin, where, kept, tried, search, channel, judged, vbr>>

s == sig.s
Flat(t) == [b \in Bands(t) |-> 0]

(* init_outer_loop *)
Fresh(t) == [sf |-> Flat(t), pre |-> 0, scale |-> 0, sbg |-> [i \in 0..3 |-> 0], gain |-> OldValue,
             bits |-> 0, part2 |-> 0, slen |-> [p \in 1..SlenParts |-> 0], zero |-> Bands(t)]

(* count_bits: what the spectrum takes at this gain.  pseudohalf drops the smallest coefficients. *)
Level(gain, b) ==
  LET q == sig.loud[b] + amp[b] - gain
  IN  IF sig.loud[b] > 0 /\ q > (IF b \in half THEN 1 ELSE 0) THEN q ELSE 0
CountBits(gain) ==
  IF \E b \in Bands(s) : Level(gain, b) > IxMax THEN Large ELSE SumOf(LAMBDA b : Level(gain, b), s.bands)
Quantised(g, gain) ==
  [g EXCEPT !.gain = gain, !.bits = CountBits(gain), !.zero = {b \in Bands(s) : Level(gain, b) = 0}]

(* calc_noise: the noise of each band less what is allowed there.  More than 0 is distortion. *)
NoiseOf(g)  == [b \in 1..sig.psymax |-> Min({g.gain - Shift(s, g, b), sig.loud[b]}) - sig.allow[b]]
Result(n, bits) ==
  LET over1(b) == Max({0, n[b]})
  IN  [count |-> Cardinality({b \in DOMAIN n : n[b] > 0}), noise |-> SumOf(over1, Len(n)),
       tot |-> SumOf(LAMBDA b : n[b], Len(n)), ssd |-> SumOf(LAMBDA b : over1(b) * over1(b), Len(n)),
       max |-> Max({n[b] : b \in DOMAIN n}), bits |-> bits]

(* quant_compare: whether c is better than o, the best so far. *)
Less(c, o, f, h) == c[f] < o[f] \/ (c[f] = o[f] /\ c[h] < o[h])
BetterNoise(c, o) ==
  \/ cfg.comp = 0 /\ \/ Less(c, o, "count", "noise")
                     \/ c.count = o.count /\ c.noise = o.noise /\ c.tot < o.tot
  \/ cfg.comp = 1 /\ c.max < o.max
  \/ cfg.comp = 2 /\ c.tot < o.tot
  \/ cfg.comp = 3 /\ c.tot < o.tot /\ c.max < o.max
  \/ cfg.comp = 5 /\ Less(c, o, "noise", "tot")
  \/ cfg.comp = 6 /\ \/ Less(c, o, "noise", "max")
                     \/ c.noise = o.noise /\ c.max = o.max /\ c.tot <= o.tot
  \/ cfg.comp = 7 /\ (c.count < o.count \/ c.noise < o.noise)
  \/ cfg.comp = 9 /\ IF o.count > 0 THEN Less(c, o, "ssd", "bits")
                     ELSE c.max < 0 /\ c.max * 10 + c.bits <= o.max * 10 + o.bits
Better(c, o) == BetterNoise(c, o) /\ (o.count = 0 => c.bits < o.bits)

(* amp_scalefac_bands: the bands whose noise is amplified away. *)
Trigger(b, top) ==
  \/ noise[b] = top
  \/ top > 0 /\ cfg.amp = 1 /\ 2 * noise[b] >= top
  \/ top > 0 /\ cfg.amp = 0 /\ noise[b] >= 0
Hit ==
  LET top == Max({noise[i] : i \in Sfbs(s)})
      H   == {b \in Sfbs(s) : Trigger(b, top)}
  IN  IF cfg.amp = 2 THEN {Min(H)} ELSE H

(* loop_break *)
AllAmplified(g) == \A b \in Sfbs(s) : g.sf[b] + g.sbg[s.window[b]] # 0

(* inc_subblock_gain: the windows whose scale factors are too large, and those that have no gain left. *)
Crowded ==
  {i \in 0..2 : \E b \in Sfbs(s) : s.window[b] = i /\ w.sf[b] >= (IF b <= s.sfbdivide THEN CapLow ELSE CapHigh)}
NoGainLeft == {i \in Crowded : w.sbg[i] >= MaxSbg}

Init ==
  /\ pc = "begin" /\ cfg \in Settings /\ gr = 1 /\ done = << >>
  /\ sig = (CHOOSE sg \in Signals : TRUE) /\ OldValue = FirstGain /\ CurrentStep = FirstStep
  /\ best = Fresh(s) /\ fin = best /\ w = best /\ amp = Flat(s) /\ saved = amp /\ half = {}
  /\ step = FirstStep /\ dir = "none" /\ gone = FALSE
  /\ noise = << >> /\ over = << >> /\ age = 0 /\ bestBits = Large
  /\ target = 0 /\ min_bits = 0 /\ max_bits = 0 /\ Max_bits = 0 /\ found = 0 /\ bst = <<best, amp>>

StartSearch(g) ==
  /\ pc' = "search" /\ best' = [g EXCEPT !.gain = OldValue]
  /\ step' = CurrentStep /\ dir' = "none" /\ gone' = FALSE

(* init_outer_loop and init_xrpow: a new granule, of t bits at most; one without energy is ready at once. *)
Begin(sg, t) ==
  LET least == Min({MinBits, t})
  IN  /\ pc = "begin" /\ sig' = sg
      /\ amp' = Flat(sg.s) /\ saved' = Flat(sg.s) /\ half' = IF cfg.substep THEN 1..sg.psymax ELSE {}
      /\ w' = Fresh(sg.s) /\ found' = 0 /\ bst' = <<w', amp'>>
      /\ target' = (IF cfg.vbr THEN (t + least) \div 2 ELSE t)
      /\ min_bits' = least /\ max_bits' = t /\ Max_bits' = t
      /\ IF \A b \in Bands(sg.s) : sg.loud[b] = 0
         THEN pc' = "store" /\ best' = Fresh(sg.s) /\ UNCHANGED search ELSE StartSearch(Fresh(sg.s))
      /\ UNCHANGED <<fin, cfg, gr, done, channel, judged>>

(* One turn of bin_search_StepSize. *)
Desired == target - best.part2
(* Mutant of Size: the step is never halved. *)
SizeKept(turned) == step
Size(turned) == IF turned THEN step \div 2 ELSE step
Search ==
  LET bits  == CountBits(best.gain)
      up    == bits > Desired
      over1 == gone \/ dir = (IF up THEN "down" ELSE "up")
      size  == Size(over1)
      gain  == IF up THEN best.gain + size ELSE best.gain - size
  IN  /\ pc = "search" /\ step # 1 /\ bits # Desired
      /\ step' = size /\ dir' = (IF up THEN "up" ELSE "down")
      /\ gone' = (over1 \/ gain \notin 0..MaxGain)
      /\ best' = [best EXCEPT !.gain = Max({0, Min({MaxGain, gain})})]
      /\ UNCHANGED <<pc, fin, where, saved, tried, channel, judged, vbr>>

(* The end of that search, *)
Found ==
  /\ pc = "search" /\ (step = 1 \/ CountBits(best.gain) = Desired)
  /\ LET gain == Min({k \in best.gain..MaxGain : k = MaxGain \/ CountBits(k) <= Desired})
     IN  /\ best' = Quantised(best, gain) /\ OldValue' = gain
         /\ CurrentStep' = IF OldValue - gain >= 4 THEN 4 ELSE 2
  /\ pc' = IF cfg.shaping = 0 THEN "end" ELSE "first"
  /\ UNCHANGED <<fin, where, saved, tried, search, judged, vbr>>

(* and the noise of the first quantisation. *)
First ==
  /\ pc = "first" /\ pc' = "balance"
  /\ noise' = NoiseOf(best) /\ over' = Result(NoiseOf(best), best.bits)
  /\ w' = best /\ saved' = amp /\ age' = 0 /\ bestBits' = Large
  /\ UNCHANGED <<fin, where, best, amp, half, search, channel, vbr>>

(* The head of outer_loop's loop: give up if a band that has no scale factor is distorted. *)
sfb21 == cfg.sfb21 /\ ~(cfg.vbr /\ target > Max_bits - TopMargin)
GiveUp ==
  /\ pc = "balance" /\ sfb21 /\ \E b \in (1..sig.psymax) \ Sfbs(s) : noise[b] > 0
  /\ pc' = "end" /\ UNCHANGED <<fin, where, kept, tried, search, channel, judged, vbr>>

(* amp_scalefac_bands, and with it balance_noise begins.  With noise_shaping_amp 2 one band is amplified, *)
(* and with substep shaping every second time only. *)
Amplify ==
  LET h == IF cfg.substep THEN (half \ Hit) \cup (Hit \ half) ELSE half
      A == IF cfg.substep /\ cfg.amp = 2 THEN Hit \cap h ELSE Hit
  IN  /\ pc = "balance" /\ ~(sfb21 /\ \E b \in (1..sig.psymax) \ Sfbs(s) : noise[b] > 0)
      /\ half' = h
      /\ w' = [w EXCEPT !.sf = [b \in Bands(s) |-> IF b \in A THEN @[b] + 1 ELSE @[b]]]
      /\ amp' = [b \in Bands(s) |-> IF b \in A THEN amp[b] + 2^(w.scale + 1) ELSE amp[b]]
      /\ pc' = IF AllAmplified(w') THEN "end" ELSE "count"
      /\ UNCHANGED <<fin, where, kept, search, channel, judged, vbr>>

(* scale_bitcount; if the scale factors are too large there may be a way to make them smaller. *)
Room(g) == IF target - g.part2 > 0 THEN "inner" ELSE "end"
Count ==
  /\ pc \in {"count", "recount"}
  /\ w' = ScaleBitcount(s, w)
  /\ IF ~TooLarge(s, w) THEN pc' = Room(w') /\ UNCHANGED half
     ELSE IF pc = "count" /\ cfg.shaping > 1 THEN pc' = "adjust" /\ half' = {}
     ELSE pc' = "end" /\ UNCHANGED half
  /\ UNCHANGED <<fin, where, kept, amp, search, channel, judged, vbr>>

(* inc_scalefac_scale: scale factors count double from now on, so odd ones are raised. *)
Effective(b) == w.sf[b] + (IF w.pre = 1 THEN s.pretab[b] ELSE 0)
(* Mutant of Odd: xrpow is not amplified with them. *)
Evened == {}
Odd == {b \in Sfbs(s) : Effective(b) % 2 = 1}
ScaleDoubled ==
  /\ pc = "adjust" /\ w.scale = 0 /\ pc' = "recount"
  /\ w' = [w EXCEPT !.pre = 0, !.scale = 1,
                    !.sf = [b \in Bands(s) |-> IF b \in Sfbs(s) THEN (Effective(b) + 1) \div 2 ELSE @[b]]]
  /\ amp' = [b \in Bands(s) |-> IF b \in Odd THEN amp[b] + 2 ELSE amp[b]]
  /\ UNCHANGED <<fin, where, kept, half, search, channel, judged, vbr>>

(* inc_subblock_gain: raises the windows that are too loud, up to one that has no gain left. *)
WindowsRaised ==
  LET W == {i \in Crowded : \A j \in NoGainLeft : i < j}
      R == {b \in Bands(s) : s.window[b] \in W}
      d == 4 \div 2^w.scale
  IN  /\ pc = "adjust" /\ w.scale = 1 /\ s.short /\ cfg.subblock_gain
      /\ w' = [w EXCEPT !.sbg = [i \in 0..3 |-> IF i \in W THEN @[i] + 1 ELSE @[i]],
                        !.sf = [b \in Bands(s) |-> IF b \in R THEN Max({0, @[b] - d}) ELSE @[b]]]
      /\ amp' = [b \in Bands(s) |-> IF b \in R THEN amp[b] + Max({0, d - w.sf[b]}) * 2^(w.scale + 1) ELSE amp[b]]
      /\ pc' = IF NoGainLeft # {} \/ AllAmplified(w') THEN "end" ELSE "recount"
      /\ UNCHANGED <<fin, where, kept, half, search, channel, judged, vbr>>

Stuck ==
  /\ pc = "adjust" /\ w.scale = 1 /\ ~(s.short /\ cfg.subblock_gain) /\ pc' = "end"
  /\ UNCHANGED <<fin, where, kept, tried, search, channel, judged, vbr>>

(* The gain is raised until the bits suffice, and until they are no more than before if nothing was distorted. *)
maxggain == MaxGain - w.scale
(* Mutant of HuffBits: forgets the scale factors. *)
WholeTarget == target
HuffBits == target - w.part2
FirstFit(gain, bits) == Min({k \in gain..maxggain + 1 : k > maxggain \/ CountBits(k) <= bits})
Inner ==
  LET gain1 == FirstFit(w.gain, HuffBits)
      gain  == IF over.count = 0 /\ gain1 <= maxggain THEN FirstFit(gain1, bestBits) ELSE gain1
  IN  /\ pc = "inner"
      /\ w' = Quantised(w, gain)
      /\ pc' = IF gain > maxggain THEN "end" ELSE "measure"
      /\ UNCHANGED <<fin, where, kept, amp, half, search, channel, judged, vbr>>

(* calc_noise for what was tried; is it better than the best so far, and is there reason to go on? *)
Measure ==
  /\ pc = "measure" /\ noise' = NoiseOf(w) /\ pc' = "judge"
  /\ UNCHANGED <<fin, where, kept, tried, search, channel, over, age, bestBits, vbr>>
Again == IF w.gain + w.scale < MaxGain THEN "balance" ELSE "end"
Accept ==
  /\ pc = "judge" /\ Better(Result(noise, w.bits), over)
  /\ best' = w /\ saved' = amp /\ over' = Result(noise, w.bits) /\ bestBits' = best.bits /\ age' = 0
  /\ pc' = Again
  /\ UNCHANGED <<fin, where, tried, search, channel, noise, vbr>>
Refuse ==
  LET limit == IF cfg.substep THEN SubstepLimit ELSE SearchLimit
  IN  /\ pc = "judge" /\ ~Better(Result(noise, w.bits), over)
      /\ age' = age + 1
      /\ pc' = IF age + 1 > limit /\ over.count = 0 THEN "end" ELSE Again
      /\ UNCHANGED <<fin, where, kept, tried, search, channel, noise, over, bestBits, vbr>>

(* outer_loop returns: with a constant bit rate the granule is ready. *)
EndConstant ==
  /\ pc = "end" /\ ~cfg.vbr /\ pc' = "store"
  /\ UNCHANGED <<fin, where, kept, tried, search, channel, judged, vbr>>

(* VBR_encode_granule: once without distortion, try with fewer bits; else with more, and from the one found. *)
(* Mutant of Restored: goes on from the failed try. *)
LastTried == kept
Restored == IF found > 0 THEN bst ELSE kept
NextTry(g) ==
  /\ target' = (max_bits' + min_bits') \div 2
  /\ IF max_bits' - min_bits' > Enough THEN StartSearch(g) ELSE pc' = "store" /\ best' = g /\ UNCHANGED search
EndVariable ==
  /\ pc = "end" /\ cfg.vbr
  /\ \/ /\ over.count = 0 /\ cfg.shaping > 0
        /\ found' = 1 /\ bst' = kept /\ amp' = saved /\ saved' = saved
        /\ max_bits' = best.bits - Closer /\ UNCHANGED min_bits
        /\ NextTry(best)
     \/ /\ over.count > 0 \/ cfg.shaping = 0
        /\ found' = (IF found > 0 THEN 2 ELSE 0) /\ amp' = Restored[2] /\ saved' = Restored[2]
        /\ min_bits' = target + Closer /\ UNCHANGED <<max_bits, bst>>
        /\ NextTry(Restored[1])
  /\ UNCHANGED <<fin, where, w, half, channel, judged, Max_bits>>

(* iteration_finish_one, with best_scalefac_store: the final granule's scale factors are made cheaper, *)
Store ==
  /\ pc = "store" /\ fin' = Forgotten(s, best) /\ pc' = "halve"
  /\ UNCHANGED <<where, kept, tried, search, channel, judged, vbr>>
Halve ==
  /\ pc = "halve" /\ fin' = Halved(s, fin) /\ pc' = "pretab"
  /\ UNCHANGED <<where, kept, tried, search, channel, judged, vbr>>
Preemphasise ==
  /\ pc = "pretab" /\ fin' = Preemphasised(s, fin) /\ pc' = "written"
  /\ UNCHANGED <<where, kept, tried, search, channel, judged, vbr>>

(* and shared with the first granule's if both have long blocks, or counted again if they have changed. *)
Share == ~Lsf /\ gr = 2 /\ ~s.short /\ ~done[1].s.short
Write ==
  /\ pc = "written"
  /\ fin' = IF Share THEN Settled(s, Scfsi(s, done[1].g, fin))
            ELSE IF fin = best THEN best ELSE ScaleBitcount(s, Settled(s, fin))
  /\ done' = Append(done, [s |-> s, g |-> fin', as |-> best, target |-> Max_bits])
  /\ gr' = gr + 1 /\ pc' = IF gr = Granules THEN "done" ELSE "begin"
  /\ UNCHANGED <<cfg, sig, kept, tried, search, channel, judged, vbr>>

Next ==
  \/ \E sg \in Signals, t \in Targets : Begin(sg, t)
  \/ Search \/ Found \/ First \/ GiveUp \/ Amplify \/ Count \/ ScaleDoubled \/ WindowsRaised \/ Stuck \/ Inner
  \/ Measure \/ Accept \/ Refuse \/ EndConstant \/ EndVariable
  \/ Store \/ Halve \/ Preemphasise \/ Write
Spec     == Init /\ [][Next]_vars
FairSpec == Spec /\ WF_vars(Next)

(* balance_noise and its helpers amplify xrpow by what they put into scale factors, scale and window gains. *)
(* Whenever the spectrum is quantised, each band is amplified by exactly what a decoder will divide by, also *)
(* after a VBR try went on from an older one. *)
AmplitudesAgree ==
  /\ pc \in {"balance", "inner", "measure", "judge"} => \A b \in Bands(s) : amp[b] = Shift(s, w, b)
  /\ pc \in {"search", "balance", "inner", "measure", "judge", "end", "store"} =>
       \A b \in Bands(s) : saved[b] = Shift(s, best, b)

(* What outer_loop returns fits: coefficients and scale factors together in the bits it was given, and the *)
(* gain in its eight bits also when scalefac_scale counts (the assertion at the end of outer_loop). *)
FitsTarget ==
  pc = "store" => /\ best.gain + best.scale <= MaxGain
                  /\ best.bits <= Max_bits /\ (best.part2 > 0 => best.bits + best.part2 <= Max_bits)

(* best_scalefac_store rewrites the scale factors of a final granule.  A decoder still finds for every band *)
(* that is not zero the step it was quantised with, every scale factor fits its bits, and part2_length is *)
(* what writeMainData writes (its assertion). *)
StoredRight ==
  \A i \in 1..Len(done) :
    LET d == done[i]
        r == [d.g EXCEPT !.sf = [b \in Bands(d.s) |-> Read(done[1].g, d.g, b)]]
    IN  /\ \A b \in Bands(d.s) \ d.as.zero : Shift(d.s, r, b) = Shift(d.s, d.as, b)
        /\ \A b \in Bands(d.s) : r.sf[b] >= 0
        /\ Fits(d.s, d.g) /\ WrittenBits(d.s, d.g) = d.g.part2

(* VBR_encode_granule ends with a quantisation without distortion if any of its tries found one. *)
FoundIsKept ==
  pc = "store" /\ found > 0 => Result(NoiseOf(best), best.bits).count = 0

(* The searches end: every granule is stored. *)
SearchEnds == <>(pc = "done")
=============================================================================
