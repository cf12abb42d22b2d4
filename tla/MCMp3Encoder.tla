---------------------------- MODULE MCMp3Encoder ----------------------------
(***************************************************************************)
(* An instance for TLC of what the recorder sends its sound through: of    *)
(* SoundTouch, with rates and tempos from three quarters to two; of        *)
(* Mp3Encoder, with frames of six bytes and samples as in MPEG-1; of       *)
(* Mp3Settings, from the recorder's settings and from others; of Id3Tag;   *)
(* and of VbrTag, with a bag of four.  They share no state: which chooses  *)
(* the one that runs, and the others stay in one initial state.            *)
(* SoundTouch is extended as Mp3Encoder is, hence its own names for Init,  *)
(* Next and what else both have.                                           *)
(***************************************************************************)
EXTENDS Mp3Encoder, SoundTouch, TLC

CONSTANTS Parts,     \* those that run
          TagCalls   \* at most so many calls that set something for the ID3 tags

VARIABLES which,
          gfp, s_phase, s_calls, chosen, s_asked,
          flags, v1, nodes, values, art, padding_size, i_phase, i_calls, i_asked, tag2, tag1,
          cfg, bWriteVbrTag, TotalFrameSize, bag, pos, seen, want, sum, nVbrNumFrames, nBytesWritten,
          file, history, streams, v_phase

Nearly == {0, 3}

-----------------------------------------------------------------------------
(* The settings: two calls before lame_init_params. *)
NoStarts == {}
Sd == INSTANCE Mp3Settings WITH phase <- s_phase, calls <- s_calls, asked <- s_asked,
        Starts <- NoStarts, Calls <- NoStarts, Presets <- NoStarts, MaxCalls <- 0
Recorder   == [Sd!Defaults EXCEPT !.in_samplerate = 16000, !.num_channels = 1, !.out_samplerate = 16000, !.brate = 32, !.quality = 5]
SomeStarts == {Recorder} \cup {[Sd!Defaults EXCEPT !.in_samplerate = i, !.VBR = v] : i \in {8000, 12000, 24000, 44100, 48000}, v \in {"off", "mt", "rh", "abr"}}
SomeCalls  ==
  {<<"in_samplerate", 7000>>, <<"num_channels", 1>>, <<"num_channels", 3>>, <<"out_samplerate", 24000>>, <<"out_samplerate", 11025>>,
   <<"out_samplerate", 40000>>, <<"scale", "program">>, <<"analysis", 1>>, <<"bWriteVbrTag", 0>>, <<"quality", 9>>, <<"quality", 2>>,
   <<"mode", "stereo">>, <<"mode", "none">>, <<"mode_automs", 1>>, <<"free_format", 1>>, <<"findReplayGain", 2>>, <<"brate", 8>>,
   <<"brate", 140>>, <<"brate", 450>>, <<"compression_ratio", <<6, 1>> >>, <<"error_protection", 1>>, <<"experimentalX", "program">>,
   <<"quant_comp", "default">>, <<"VBR", "off">>, <<"VBR", "mtrh">>, <<"VBR_q", 11>>, <<"VBR_quality", 13>>, <<"VBR_mean_bitrate_kbps", 20>>,
   <<"VBR_min_bitrate_kbps", 100>>, <<"VBR_max_bitrate_kbps", 50>>, <<"lowpassfreq", 9000>>, <<"maskingadjust", "program">>,
   <<"useTemporal", 1>>, <<"interChRatio", "program">>, <<"substep_shaping", 9>>, <<"sfscale", 0>>, <<"no_short_blocks", 1>>,
   <<"force_short_blocks", 1>>, <<"force_short_blocks", 0>>, <<"allow_diff_short", 1>>}
SomePresets == {[old |-> TRUE, name |-> n, number |-> 0] : n \in {"R3MIX", "MEDIUM", "INSANE"}}
                 \cup {[old |-> FALSE, name |-> "", number |-> n] : n \in {5, 150, 430}}
S == INSTANCE Mp3Settings WITH phase <- s_phase, calls <- s_calls, asked <- s_asked,
       Starts <- SomeStarts, Calls <- SomeCalls, Presets <- SomePresets, MaxCalls <- 2

-----------------------------------------------------------------------------
(* The ID3 tags: TagCalls calls that set something, and any that set flags, before they *)
(* are written.                                                                         *)
Text(n, k) == [len |-> n, kind |-> k]
SomeTexts  == {Text(29, "plain"), Text(35, "plain")}
SomeYears  == {Text(4, "fits"), Text(5, "long"), Text(1, "zero")}
SomeTracks == {Text(1, "fits"), Text(3, "over"), Text(4, "counted")}
SomeGenres == {Text(4, "known"), Text(7, "unknown"), Text(3, "bad")}
SomeDescs  == {<<"a">>, <<"a", "b">>}
SomeArts   == {<<10, 500>>, <<0, 300>>, <<10, 3000>>}
I == INSTANCE Id3Tag WITH phase <- i_phase, calls <- i_calls, asked <- i_asked,
       Texts <- SomeTexts, Years <- SomeYears, Tracks <- SomeTracks, Genres <- SomeGenres,
       Frames <- {"TIT2", "APIC"}, Langs <- {"", "ger"}, Descs <- SomeDescs, Arts <- SomeArts,
       Pads <- {64}, MaxArt <- 1000, Duration <- TRUE, MaxCalls <- TagCalls

-----------------------------------------------------------------------------
(* The Xing tag: streams of up to nine frames, so that the bag is halved twice. *)
Config(o, v, b, f, c, e, R) == [out |-> o, vbr |-> v, brate |-> b, free |-> f, channels |-> c, crc |-> e, rates |-> R]
SomeConfigs ==
  {Config(44100, TRUE, 0, FALSE, 2, 1, {32, 320}), Config(8000, TRUE, 0, FALSE, 2, 0, {8, 64}),
   Config(16000, FALSE, 32, FALSE, 1, 0, {32}), Config(44100, FALSE, 128, FALSE, 2, 1, {128}), Config(32000, FALSE, 640, TRUE, 2, 0, {640}),
   Config(8000, FALSE, 32, FALSE, 2, 1, {32})}
SomeDelays == {<<576, 1700>>}
V == INSTANCE VbrTag WITH phase <- v_phase,
       Configs <- SomeConfigs, BagSize <- 4, Entries <- 10, HeaderSize <- 156, MaxFrameSize <- 2880,
       Id3Sizes <- {0, 300}, Delays <- SomeDelays, MaxFrames <- 9, MaxStreams <- 2

-----------------------------------------------------------------------------
options  == <<gfp, s_phase, s_calls, chosen, s_asked>>
id3      == <<flags, v1, nodes, values, art, padding_size, i_phase, i_calls, i_asked, tag2, tag1>>
xing     == <<cfg, bWriteVbrTag, TotalFrameSize, bag, pos, seen, want, sum, nVbrNumFrames, nBytesWritten, file, history, streams, v_phase>>
all      == <<which, vars, soundVars, options, id3, xing>>

MCInit ==
  /\ Init /\ SoundInit /\ S!Init /\ I!Init /\ V!Init /\ which \in Parts
  /\ which # "settings" => gfp = Recorder
  /\ which # "xing" => cfg.out = 16000
MCNext ==
  \/ which = "sound"    /\ SoundNext /\ UNCHANGED <<which, vars, options, id3, xing>>
  \/ which = "encoder"  /\ Next   /\ UNCHANGED <<which, soundVars, options, id3, xing>>
  \/ which = "settings" /\ S!Next /\ UNCHANGED <<which, soundVars, vars, id3, xing>>
  \/ which = "id3"      /\ I!Next /\ UNCHANGED <<which, soundVars, vars, options, xing>>
  \/ which = "xing"     /\ V!Next /\ UNCHANGED <<which, soundVars, vars, options, id3>>
MCSpec == MCInit /\ [][MCNext]_all /\ WF_all(which = "encoder" /\ Work /\ UNCHANGED <<which, soundVars, options, id3, xing>>)

-----------------------------------------------------------------------------
(* After lame_init_params the settings agree with one another and with the format's     *)
(* tables, and none that the program chose is replaced by a default or by a preset.     *)
SettingsHold == S!RatesAgree /\ S!ChoicesKept

(* A text given for the tags is in one of them whole; the ID3 tag's sizes are those of  *)
(* what is written; and the Xing tag replaces the frame kept for it, with seek points   *)
(* that lead near the frames they stand for.                                            *)
TagsHold == I!TextsKept /\ I!TagWhole /\ V!TagInPlace /\ V!SeekPointsNear
=============================================================================
