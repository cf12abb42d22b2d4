----------------------------- MODULE Mp3Settings -----------------------------
(***************************************************************************)
(* The settings of the MP3 encoder (LAME): the program sets options in any *)
(* order, may ask for a preset, and then calls lame_init_params, which     *)
(* decides whatever the program left open and makes the decisions agree    *)
(* with each other and with what the MP3 format allows.                    *)
(*                                                                         *)
(* gfp maps an option to its value: rates in Hz and kbit/s, VBR_q_frac in  *)
(* halves, compression_ratio as a fraction.  Of the options that tune the  *)
(* psychoacoustics only their origin is kept: "default", "program", what a *)
(* "preset" gave, and "filled" in at the end of lame_init_params.          *)
(*                                                                         *)
(* Left out: the values in the preset tables, the callbacks for messages,  *)
(* processor features, allocation failures, and the tables that            *)
(* iteration_init and psymodel_init build from the settings.               *)
(***************************************************************************)
EXTENDS Mp3Tables

CONSTANTS Starts,                      \* the settings a program starts from
          Calls,                       \* <<option, value>>: what it may set
          Presets,                     \* the presets it may ask for
          MaxCalls                     \* bound: calls before lame_init_params

VARIABLES gfp, phase,                  \* "open", then "ready" or "failed"
          calls,                       \* what the bound counts
          chosen,                      \* the tuned options the program chose for itself
          asked                        \* the bit rate it asked for last; -1 when for a ratio, which wins
vars == <<gfp, phase, calls, chosen, asked>>

-----------------------------------------------------------------------------
(* Presets. *)

Tuned == {"quant_comp", "quant_comp_short", "short_threshold_lrm", "short_threshold_s", "maskingadjust",
          "maskingadjust_short", "ATHlower", "ATHcurve", "athaa_sensitivity", "interChRatio", "msfix", "scale"}

(* Mutant of SetOptions: whatever the program chose is overwritten. *)
SetOptionsAlways(g, O, enforce) == [o \in DOMAIN g |-> IF o \in O THEN "preset" ELSE g[o]]

(* SET_OPTION: a preset that is not enforced leaves alone what is no longer the default. *)
SetOptions(g, O, enforce) ==
  [o \in DOMAIN g |-> IF o \in O /\ (enforce \/ g[o] = "default") THEN "preset" ELSE g[o]]

(* V0 to V9; whatever the mode is, it stays. *)
ApplyVbrPreset(g, a, enforce) ==
  LET mixed == a >= 5 \/ (a = 4 /\ g.VBR_q_frac > 0)            \* the ratio, interpolated, is not 0
      O == (Tuned \ {"scale", "interChRatio"}) \cup (IF mixed THEN {"interChRatio"} ELSE {})
      h == SetOptions(g, O, enforce)
  IN  [h EXCEPT !.VBR_q = a, !.VBR_q_frac = IF enforce THEN 0 ELSE @,
                !.experimentalY = IF a >= 3 THEN 1 ELSE @]

ApplyAbrPreset(g, kbps, enforce) ==
  LET h    == SetOptions(g, Tuned \ {"athaa_sensitivity"}, enforce)
      mean == Greater(Lesser(kbps, 320), 8)
  IN  [h EXCEPT !.VBR = "abr", !.VBR_mean_bitrate_kbps = mean, !.brate = mean,
                !.noise_shaping = IF NearestBitrateFullIndex(kbps) <= 13 THEN 2 ELSE @]

VPresets == {410, 420, 430, 440, 450, 460, 470, 480, 490, 500}
OldNames == [R3MIX |-> <<470, "mtrh">>, MEDIUM |-> <<460, "rh">>, MEDIUM_FAST |-> <<460, "mtrh">>,
             STANDARD |-> <<480, "rh">>, STANDARD_FAST |-> <<480, "mtrh">>,
             EXTREME |-> <<500, "rh">>, EXTREME_FAST |-> <<500, "mtrh">>]
ApplyNumber(g, p, enforce) ==
  CASE p \in VPresets -> ApplyVbrPreset([g EXCEPT !.preset = p], (500 - p) \div 10, enforce)
    [] p \in 8..320   -> ApplyAbrPreset([g EXCEPT !.preset = p], p, enforce)
    [] OTHER          -> [g EXCEPT !.preset = 0]
LegacyPreset(g, name, enforce) ==
  IF name = "INSANE"
  THEN [ApplyAbrPreset([g EXCEPT !.preset = 320], 320, enforce) EXCEPT !.VBR = "off"]
  ELSE ApplyNumber([g EXCEPT !.VBR = OldNames[name][2]], OldNames[name][1], enforce)

-----------------------------------------------------------------------------
(* The setters, by the sections of set_get.c.  A value that is refused     *)
(* leaves the settings alone.                                              *)

Put(g, o, v)    == [g EXCEPT ![o] = v]
Switch(g, o, v) == IF v \in {0, 1} THEN Put(g, o, v) ELSE g

SetStream(g, o, v) ==
  IF o = "num_channels" /\ (v > 2 \/ v = 0) THEN g ELSE Put(g, o, v)
SetControl(g, o, v) ==
  CASE o \in {"bWriteVbrTag", "analysis"} -> Switch(g, o, v)
    [] o = "quality" -> Put(g, o, v)
    [] o = "mode" -> IF v \in {"stereo", "joint", "dual", "mono", "unset"} THEN Put(g, o, v) ELSE g
SetStereo(g, o, v) ==
  CASE o = "mode_automs" -> IF v \in {0, 1} THEN Put(g, "mode", "joint") ELSE g
    [] OTHER -> Switch(g, o, v)
SetRate(g, o, v) ==
  IF o = "brate" THEN [g EXCEPT !.brate = v, !.disable_reservoir = IF v > 320 THEN 1 ELSE @] ELSE Put(g, o, v)
SetFrame(g, o, v) == Switch(g, o, v)
SetQuantisation(g, o, v) ==
  IF o = "experimentalX" THEN [g EXCEPT !.quant_comp = v, !.quant_comp_short = v] ELSE Put(g, o, v)
SetVbr(g, o, v) ==
  CASE o = "VBR" -> IF v \in {"off", "mt", "rh", "abr", "mtrh"} THEN Put(g, o, v) ELSE g
    [] o = "VBR_q" -> [g EXCEPT !.VBR_q = Lesser(Greater(v, 0), 9), !.VBR_q_frac = 0]
    [] o = "VBR_quality" -> LET w == Lesser(Greater(v, 0), 19)          \* in halves, 9.999 as 9.5
                            IN  [g EXCEPT !.VBR_q = w \div 2, !.VBR_q_frac = w % 2]
    [] o = "VBR_hard_min" -> Switch(g, o, v)
    [] OTHER -> Put(g, o, v)
SetFilter(g, o, v)  == Put(g, o, v)
SetPsycho(g, o, v)  == Put(g, o, v)
SetShaping(g, o, v) ==
  CASE o = "useTemporal" -> Switch(g, o, v)
    [] o = "substep_shaping" -> IF v \in 0..7 THEN Put(g, o, v) ELSE g
    [] o = "sfscale" -> Put(g, "noise_shaping", IF v # 0 THEN 2 ELSE 1)
    [] o = "no_short_blocks" -> IF v \in {0, 1} THEN Put(g, "short_blocks", IF v = 1 THEN "dispensed" ELSE "allowed") ELSE g
    [] o = "force_short_blocks" ->
         CASE v = 1 -> Put(g, "short_blocks", "forced")
           [] v = 0 /\ g.short_blocks = "forced" -> Put(g, "short_blocks", "allowed")
           [] OTHER -> g
    [] o = "allow_diff_short" -> Put(g, "short_blocks", IF v # 0 THEN "allowed" ELSE "coupled")
    [] OTHER -> Put(g, o, v)

Stream == {"in_samplerate", "num_channels", "out_samplerate", "scale"}
Control == {"analysis", "bWriteVbrTag", "quality", "mode"}
Stereo == {"mode_automs", "force_ms", "free_format", "findReplayGain"}
Rate == {"brate", "compression_ratio"}
Frame == {"error_protection", "disable_reservoir"}
Quantisation == {"experimentalX", "experimentalY", "quant_comp", "quant_comp_short"}
Vbr == {"VBR", "VBR_q", "VBR_quality", "VBR_mean_bitrate_kbps", "VBR_min_bitrate_kbps", "VBR_max_bitrate_kbps", "VBR_hard_min"}
Filter == {"lowpassfreq", "lowpasswidth", "highpassfreq", "highpasswidth"}
Psycho == {"maskingadjust", "maskingadjust_short", "ATHcurve", "ATHlower", "athaa_sensitivity"}
Set(g, o, v) ==
  CASE o \in Stream -> SetStream(g, o, v)   [] o \in Control -> SetControl(g, o, v)
    [] o \in Stereo -> SetStereo(g, o, v)   [] o \in Rate -> SetRate(g, o, v)
    [] o \in Frame -> SetFrame(g, o, v)     [] o \in Quantisation -> SetQuantisation(g, o, v)
    [] o \in Vbr -> SetVbr(g, o, v)         [] o \in Filter -> SetFilter(g, o, v)
    [] o \in Psycho -> SetPsycho(g, o, v)   [] OTHER -> SetShaping(g, o, v)

-----------------------------------------------------------------------------
(* lame_init_params, step by step. *)

ChannelsOut(g) == IF g.mode = "mono" THEN 1 ELSE 2
(* 16 bits a sample, in units of 0.4 kbit/s. *)
Uncompressed(g) == (g.out_samplerate * ChannelsOut(g)) \div 25

Channelled(g) ==
  LET mode == IF g.num_channels = 1 THEN "mono" ELSE g.mode IN
  [g EXCEPT !.mode = mode, !.force_ms = IF mode = "mono" THEN 0 ELSE @,
            !.brate = IF g.VBR = "off" /\ g.VBR_mean_bitrate_kbps # 128 /\ @ = 0 THEN g.VBR_mean_bitrate_kbps ELSE @,
            !.free_format = IF g.VBR \in {"off", "mt", "mtrh"} THEN @ ELSE 0]

Compressed(g) ==
  LET ratio == IF g.VBR = "off" /\ g.brate = 0 /\ g.compression_ratio[1] = 0 THEN <<441, 40>> ELSE g.compression_ratio
      out   == IF g.out_samplerate = 0 THEN map2MP3Frequency((97 * g.in_samplerate) \div 100) ELSE g.out_samplerate
      h     == [g EXCEPT !.compression_ratio = ratio, !.out_samplerate = out]
      rate  == (Uncompressed(h) * 2 * ratio[2]) \div (5 * ratio[1])
  IN  IF g.VBR = "off" /\ ratio[1] > 0
      THEN [h EXCEPT !.brate = IF g.free_format = 1 THEN rate ELSE FindNearestBitrate(rate, Version(out), out)]
      ELSE g

MeanLimited(g) ==
  LET lo == IF g.out_samplerate < 32000 THEN 8 ELSE 32
      hi == IF g.out_samplerate < 16000 THEN 64 ELSE IF g.out_samplerate < 32000 THEN 160 ELSE 320
  IN  IF g.out_samplerate = 0 THEN g
      ELSE [g EXCEPT !.VBR_mean_bitrate_kbps = Lesser(Greater(@, lo), hi)]

OldLowpass == <<19500, 19000, 18600, 18000, 17500, 16000, 15600, 14900, 12500, 10000, 3950>>
NewLowpass == <<19500, 19000, 18500, 18000, 17500, 16500, 15500, 14500, 12500, 9500, 3950>>
Lowpass(g) ==
  LET T   == IF g.VBR = "rh" THEN OldLowpass ELSE NewLowpass
      a   == T[g.VBR_q + 1]
      b   == T[g.VBR_q + 2]
      low == CASE g.VBR = "off" -> OptimumBandwidth(g.brate)
               [] g.VBR = "abr" -> OptimumBandwidth(g.VBR_mean_bitrate_kbps)
               [] OTHER -> a - (g.VBR_q_frac * (a - b)) \div 2
  IN  IF g.mode = "mono" /\ g.VBR \in {"off", "abr"} THEN (3 * low) \div 2 ELSE low

Filtered(g) ==
  LET low1 == IF g.lowpassfreq = 0 THEN Lowpass(g) ELSE g.lowpassfreq
      low2 == IF g.out_samplerate = 0 /\ 2 * low1 > g.in_samplerate THEN g.in_samplerate \div 2 ELSE low1
      out  == IF g.out_samplerate = 0 THEN OptimumSamplefreq(low2, g.in_samplerate) ELSE g.out_samplerate
  IN  [g EXCEPT !.out_samplerate = out, !.lowpassfreq = Lesser(out \div 2, Lesser(20500, low2)),
                !.findReplayGain = IF g.bWriteVbrTag = 0 THEN 0 ELSE @]

Ratios == <<57, 65, 73, 82, 100, 119, 130, 140, 150, 165>>         \* in tenths
Moded(g) ==
  [g EXCEPT !.compression_ratio =
              CASE g.VBR \in {"mt", "rh", "mtrh"} -> <<Ratios[g.VBR_q + 1], 10>>
                [] g.VBR = "abr" -> <<2 * Uncompressed(g), 5 * g.VBR_mean_bitrate_kbps>>
                [] OTHER -> <<2 * Uncompressed(g), 5 * g.brate>>,
            !.mode = IF @ = "unset" THEN "joint" ELSE @]
Prepared(g) == Moded(Filtered(MeanLimited(Compressed(Channelled(g)))))

Indexed(g) ==
  LET out  == g.out_samplerate
      rate == IF g.VBR = "off" /\ g.free_format = 0 THEN FindNearestBitrate(g.brate, g.version, out) ELSE g.brate
  IN  [g EXCEPT !.brate = rate,
                !.bitrate_index = CASE g.VBR # "off" -> 1
                                    [] g.VBR = "off" /\ g.free_format = 1 -> 0
                                    [] OTHER -> BitrateIndex(rate, g.version, out),
                !.sideinfo_len = (IF g.version = 1 THEN IF ChannelsOut(g) = 1 THEN 21 ELSE 36
                                  ELSE IF ChannelsOut(g) = 1 THEN 13 ELSE 21) + 2 * g.error_protection,
                !.bWriteVbrTag = IF g.analysis = 1 THEN 0 ELSE @]

(* The presets a mode brings with it, and the qualities it supports. *)
Tempered(g) ==
  LET q == IF g.quality < 0 THEN 3 ELSE g.quality
      V == 500 - g.VBR_q * 10
  IN  CASE g.VBR \in {"mt", "mtrh"} ->
             [ApplyNumber([g EXCEPT !.VBR = "mtrh", !.useTemporal = IF @ < 0 THEN 0 ELSE @], V, FALSE)
                EXCEPT !.quality = IF q < 5 THEN 0 ELSE 5]
        [] g.VBR = "rh" -> [ApplyNumber(g, V, FALSE) EXCEPT !.quality = Lesser(q, 6)]
        [] OTHER ->
             LET mean == IF g.VBR = "off" THEN g.brate ELSE g.VBR_mean_bitrate_kbps IN
             [ApplyNumber([g EXCEPT !.quality = q, !.VBR_mean_bitrate_kbps = mean], mean, FALSE) EXCEPT !.VBR = g.VBR]

Bounded(g) ==
  LET out   == g.out_samplerate
      near(r) == BitrateIndex(FindNearestBitrate(r, g.version, out), g.version, out)
      lo    == IF g.VBR_min_bitrate_kbps = 0 THEN 1 ELSE near(g.VBR_min_bitrate_kbps)
      hi    == IF g.VBR_max_bitrate_kbps = 0 THEN IF out < 16000 THEN 8 ELSE 14 ELSE near(g.VBR_max_bitrate_kbps)
      kbps(i) == BitRates[g.version][i]
  IN  IF g.VBR = "off" THEN g
      ELSE [g EXCEPT !.VBR_min_bitrate = lo, !.VBR_max_bitrate = hi,
                     !.VBR_min_bitrate_kbps = kbps(lo), !.VBR_max_bitrate_kbps = kbps(hi),
                     !.VBR_mean_bitrate_kbps = Greater(kbps(lo), Lesser(kbps(hi), @))]

(* lame_init_qval: which algorithms a quality stands for. *)
Qualified(g) ==
  LET q == IF g.quality = 8 THEN 7 ELSE g.quality IN
  [g EXCEPT !.quality = q,
            !.psymodel = IF q \in 0..7 THEN 1 ELSE 0,
            !.noise_shaping = IF q \in 0..6 THEN Greater(@, 1) ELSE 0,
            !.subblock_gain = IF q \in 0..6 /\ @ = -1 THEN 1 ELSE @,
            !.substep_shaping = IF q \in 0..2 /\ @ = 0 THEN 2 ELSE @,
            !.noise_shaping_amp = IF q \in 0..1 THEN 2 ELSE IF q \in 2..3 THEN 1 ELSE 0,
            !.use_best_huffman = IF q \in 0..4 THEN 1 ELSE 0]

(* What nobody has decided so far. *)
Filled(g) ==
  LET short == IF g.short_blocks \in {"unset", "allowed"} /\ g.mode \in {"joint", "stereo"} THEN "coupled"
               ELSE IF g.short_blocks = "unset" THEN "allowed" ELSE g.short_blocks
      h == [o \in DOMAIN g |-> IF o \in {"quant_comp", "quant_comp_short", "msfix", "short_threshold_lrm", "short_threshold_s",
                                         "scale", "ATHcurve", "interChRatio"} /\ g[o] = "default" THEN "filled" ELSE g[o]]
  IN  [h EXCEPT !.short_blocks = short, !.useTemporal = IF @ < 0 THEN 1 ELSE @,
                !.slot_lag = IF g.VBR = "off" THEN ((g.version + 1) * 72000 * g.brate) % g.out_samplerate ELSE 0]
Completed(g) == Filled(Qualified(Bounded(Tempered(g))))

-----------------------------------------------------------------------------
(* lame_init_old: the defaults. *)
Defaults ==
  [in_samplerate |-> 44100, num_channels |-> 2, out_samplerate |-> 0, scale |-> "default",
   analysis |-> 0, bWriteVbrTag |-> 1, quality |-> -1, mode |-> "unset",
   force_ms |-> 0, free_format |-> 0, findReplayGain |-> 0,
   brate |-> 0, compression_ratio |-> <<0, 1>>, error_protection |-> 0, disable_reservoir |-> 0,
   experimentalY |-> 0, quant_comp |-> "default", quant_comp_short |-> "default",
   VBR |-> "off", VBR_q |-> 4, VBR_q_frac |-> 0, VBR_mean_bitrate_kbps |-> 128,
   VBR_min_bitrate_kbps |-> 0, VBR_max_bitrate_kbps |-> 0, VBR_hard_min |-> 0,
   lowpassfreq |-> 0, lowpasswidth |-> -1, highpassfreq |-> 0, highpasswidth |-> -1,
   maskingadjust |-> "default", maskingadjust_short |-> "default", ATHcurve |-> "default",
   ATHlower |-> "default", athaa_sensitivity |-> "default",
   useTemporal |-> -1, interChRatio |-> "default", substep_shaping |-> 0, noise_shaping |-> 0, subblock_gain |-> -1,
   short_blocks |-> "unset", short_threshold_lrm |-> "default", short_threshold_s |-> "default", msfix |-> "default",
   preset |-> 0, version |-> 0, bitrate_index |-> 0, sideinfo_len |-> 0, VBR_min_bitrate |-> 1, VBR_max_bitrate |-> 13,
   psymodel |-> 0, noise_shaping_amp |-> 0, use_best_huffman |-> 0, slot_lag |-> 0]

Init == gfp \in Starts /\ phase = "open" /\ calls = 0 /\ chosen = {} /\ asked = gfp.brate

(* lame_set_...: the program sets one option. *)
SetOption ==
  /\ phase = "open" /\ calls < MaxCalls
  /\ \E c \in Calls :
       LET o == c[1]
           T == IF o = "experimentalX" THEN {"quant_comp", "quant_comp_short"} ELSE {o} \cap Tuned
       IN  /\ gfp' = Set(gfp, o, c[2])
           /\ chosen' = IF T # {} /\ c[2] = "program" THEN chosen \cup T ELSE chosen \ T
           /\ asked' = CASE o = "compression_ratio" -> -1
                         [] o = "brate" /\ asked # -1 -> c[2]
                         [] OTHER -> asked
  /\ calls' = calls + 1 /\ UNCHANGED phase

(* lame_set_preset: the program asks for a preset, which overrides what it chose before. *)
SetPreset ==
  /\ phase = "open" /\ calls < MaxCalls
  /\ \E p \in Presets :
       /\ gfp' = IF p.old THEN LegacyPreset(gfp, p.name, TRUE) ELSE ApplyNumber(gfp, p.number, TRUE)
       /\ chosen' = {o \in chosen : gfp'[o] = gfp[o]}
       /\ asked' = IF asked # -1 /\ gfp'.VBR_mean_bitrate_kbps = gfp'.brate THEN gfp'.brate ELSE asked
  /\ calls' = calls + 1 /\ UNCHANGED phase

(* lame_init_params: what the program left open is decided. *)
InitParams ==
  /\ phase = "open"
  /\ LET g == Prepared(gfp)
         i == Indexed([g EXCEPT !.version = Version(g.out_samplerate)])
         c == Completed(i)
     IN  IF \/ SmpFrqIndex(g.out_samplerate) < 0
            \/ i.VBR = "off" /\ i.free_format = 0 /\ i.bitrate_index <= 0
         THEN phase' = "failed" /\ gfp' = g
         ELSE IF c.VBR # "off" /\ (c.VBR_min_bitrate < 0 \/ c.VBR_max_bitrate < 0)
         THEN phase' = "failed" /\ gfp' = c
         ELSE phase' = "ready" /\ gfp' = c
  /\ UNCHANGED <<calls, chosen, asked>>

Next == SetOption \/ SetPreset \/ InitParams
Spec == Init /\ [][Next]_vars

-----------------------------------------------------------------------------
FrameBytes(g, kbps) == ((g.version + 1) * 72000 * kbps) \div g.out_samplerate
Table(g) == BitRates[IF g.out_samplerate < 16000 THEN 2 ELSE g.version]

(***************************************************************************)
(* lame_init_params refuses only a sample rate the format does not have.   *)
(* When it succeeds, the settings agree: the bit rate is one of the        *)
(* format's for that sample rate, stands in the table at the index the     *)
(* headers carry, and is the nearest to what the program asked for; the    *)
(* shortest frame holds more than its header and side information; the     *)
(* lowpass is within half the sample rate; and the mean of a variable bit  *)
(* rate is between its limits, or at the lower one when the program gave   *)
(* them the wrong way round.                                               *)
(***************************************************************************)
RatesAgree ==
  /\ phase = "failed" => \A i \in 1..9 : gfp.out_samplerate # SampleRates[i]
  /\ phase = "ready" =>
       /\ \E i \in 1..9 : gfp.out_samplerate = SampleRates[i]
       /\ 2 * gfp.lowpassfreq <= gfp.out_samplerate
       /\ gfp.VBR = "off" /\ gfp.free_format = 0 =>
            /\ gfp.brate = Table(gfp)[gfp.bitrate_index]
            /\ FrameBytes(gfp, gfp.brate) > gfp.sideinfo_len
            /\ asked > 0 => \A i \in DOMAIN Table(gfp) : Dist(gfp.brate, asked) <= Dist(Table(gfp)[i], asked)
       /\ gfp.VBR # "off" =>
            /\ {gfp.VBR_min_bitrate, gfp.VBR_max_bitrate} \subseteq DOMAIN Table(gfp)
            /\ gfp.VBR_min_bitrate_kbps = Table(gfp)[gfp.VBR_min_bitrate]
            /\ FrameBytes(gfp, Table(gfp)[1]) > gfp.sideinfo_len
            /\ gfp.VBR_mean_bitrate_kbps \in gfp.VBR_min_bitrate_kbps..Greater(gfp.VBR_min_bitrate_kbps, gfp.VBR_max_bitrate_kbps)

(***************************************************************************)
(* What the program has chosen stays chosen: the presets that              *)
(* lame_init_params applies for the mode and the bit rate tune only what   *)
(* is still at its default, and at the end nothing that must be decided is *)
(* at its default.  The variable bit rates have the psychoacoustic model   *)
(* and the noise shaping that drive them, whatever quality was asked for.  *)
(***************************************************************************)
ChoicesKept ==
  phase = "ready" =>
    /\ \A o \in chosen : gfp[o] = "program"
    /\ \A o \in {"quant_comp", "quant_comp_short", "msfix", "interChRatio", "scale"} : gfp[o] # "default"
    /\ gfp.VBR \in {"rh", "mtrh"} => gfp.psymodel = 1 /\ gfp.noise_shaping >= 1
    /\ gfp.short_blocks # "unset" /\ gfp.useTemporal \in {0, 1} /\ gfp.mode # "unset"
=============================================================================
