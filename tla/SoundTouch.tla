----------------------------- MODULE SoundTouch -----------------------------
(***************************************************************************)
(* The sound processor of the voice recorder: a rate transposer and a      *)
(* tempo changer that stand in one order when the rate is at most 1 and in *)
(* the other when it is above, and change places when a control crosses 1. *)
(* Samples are counted, not heard: the state is how many samples each      *)
(* FIFO buffer holds, the position between two samples at which the        *)
(* transposer stopped, and the lengths the tempo changer works with.  Which*)
(* offset the tempo changer finds best is left open.  Rates and tempos are *)
(* multiples of 1/Unit; Unit stands also for the transposer's SCALE.       *)
(***************************************************************************)
EXTENDS Integers, FiniteSets

CONSTANTS
  Unit,          \* one, as a rate, a tempo, a pitch and a step between samples
  Controls,      \* the values a control can be set to
  SoundRates,    \* the sample rates, in samples per Second
  Second,
  Slow, Fast,    \* the tempos between which the automatic lengths vary
  SeqSlow, SeqFast, SeekSlow, SeekFast,   \* those lengths, at Slow and at Fast
  AskedLengths,  \* the lengths setSetting can ask for
  OverlapMs,     \* DEFAULT_OVERLAP_MS
  LowBits, HighBits,   \* the limits of the power of two an overlap is rounded to
  FilterTaps,    \* the taps of the anti-alias filter
  Slack,         \* room the transposer asks for above its estimate
  Channels,      \* the numbers of channels asked for; the recorder only asks for one
  Blocks,        \* how many samples a caller puts at a time
  BufferSize,    \* how many it takes at most
  FlushBlock, FlushRounds,   \* the zeros fed by a flush
  MaxCalls,      \* bound: the calls that change a setting
  MaxHeld        \* bound: nobody puts samples while more than these wait to be taken

(* The constants as the code has them.  The automatic lengths do not grow with the    *)
(* tempo; every rate and tempo that the controls give is positive, and no rate makes   *)
(* more of a sample than the transposer has room for; the number of channels is set    *)
(* once, as the recorder does.                                                         *)
Values == Controls \cup {Unit}
ASSUME UnitsNat ==
  /\ {Unit, Second, FilterTaps} \subseteq Nat \ {0}
  /\ {OverlapMs, Slack, BufferSize, FlushBlock, FlushRounds, MaxCalls, MaxHeld} \subseteq Nat
ASSUME InputsTyped ==
  /\ Controls \subseteq Nat \ {0} /\ AskedLengths \subseteq Int /\ Blocks \subseteq Nat
  /\ SoundRates \subseteq Nat /\ \E r \in SoundRates : \A s \in SoundRates : s <= r
ASSUME LengthsFall ==
  {Slow, Fast, SeqSlow, SeqFast, SeekSlow, SeekFast} \subseteq Nat /\ Slow < Fast /\ SeqFast <= SeqSlow /\ SeekFast <= SeekSlow
ASSUME OverlapBits == {LowBits, HighBits} \subseteq Nat \ {0} /\ LowBits <= HighBits /\ \A p \in LowBits..HighBits : 2^p >= 1
ASSUME RatesGiven ==
  \A v, w \in Values : /\ (v * w) \div Unit >= 1 /\ (v * Unit) \div w >= 1
                       /\ Unit <= (Slack - 1) * ((v * w) \div Unit)
ASSUME ChannelsSetOnce == Channels \subseteq Nat \ {0} /\ \A c, d \in Channels : c = d

VARIABLES
  ctl,        \* the controls: [pitch, rate, tempo], virtualPitch ...
  output,     \* which stage comes last
  channels,   \* 0 until set
  bSrateSet,
  td,         \* the tempo changer's lengths
  skipFract,
  inputBuffer, outputBuffer,       \* the tempo changer's samples
  storeBuffer, transOut,           \* the transposer's samples
  iSlopeCount,
  at, then,   \* where a call stands and what follows the tempo changer's work
  drain,      \* the rounds a flush still has and the samples it wants
  changes,    \* how often a setting was changed
  drift,      \* by how much the stages have run ahead of their samples
  spilt       \* whether the transposer ever wrote more than it had asked room for

buffers == <<inputBuffer, outputBuffer, storeBuffer, transOut>>
soundVars == <<ctl, output, channels, bSrateSet, td, skipFract, buffers, iSlopeCount, at, then, drain, changes, drift, spilt>>

Larger(a, b)  == IF a > b THEN a ELSE b
Smaller(a, b) == IF a < b THEN a ELSE b

(* What a FIFO buffer of have samples gives when n are asked for, what is left when it *)
(* is trimmed, and how it counts its samples when the channels change.                 *)
Received(n, have)     == Smaller(n, have)
Trimmed(have, n)      == Smaller(have, n)
Rescaled(have, was, c) == (have * was) \div c

(* The effective rate and tempo. *)
Rate(c)  == (c.pitch * c.rate) \div Unit
Tempo(c) == (c.tempo * Unit) \div c.pitch
-----------------------------------------------------------------------------
(* The tempo changer's lengths. *)

(* Between the length at the slowest tempo and that at the fastest. *)
Automatic(slow, fast, tempo) ==
  LET t == Larger(Slow, Smaller(tempo, Fast))
  IN  (2 * slow * (Fast - Slow) - 2 * (slow - fast) * (t - Slow) + (Fast - Slow)) \div (2 * (Fast - Slow))

(* The closest power of two, within the limits. *)
Overlap(samples) ==
  LET bits == CHOOSE p \in LowBits..HighBits :
                /\ p = LowBits \/ 2^(2 * p - 1) <= samples * samples
                /\ p = HighBits \/ samples * samples < 2^(2 * p + 1)
  IN  2^bits

CalcSeqParameters(t) ==
  LET seq  == IF t.autoSeq THEN Automatic(SeqSlow, SeqFast, t.tempo) ELSE t.sequenceMs
      seek == IF t.autoSeek THEN Automatic(SeekSlow, SeekFast, t.tempo) ELSE t.seekWindowMs
  IN  [t EXCEPT !.sequenceMs = seq, !.seekWindowMs = seek,
                !.seekWindowLength = Larger((t.sampleRate * seq) \div Second, 2 * t.overlapLength),
                !.seekLength = (t.sampleRate * seek) \div Second]

(* The length of a skip is exact, in parts of a sample. *)
SetTempo(t, tempo) ==
  LET n    == CalcSeqParameters([t EXCEPT !.tempo = tempo])
      skip == tempo * (n.seekWindowLength - n.overlapLength)
      int  == (2 * skip + Unit) \div (2 * Unit)
  IN  [n EXCEPT !.nominalSkip = skip,
                !.sampleReq = Larger(int + n.overlapLength, n.seekWindowLength) + n.seekLength]

(* Mutant of SetParameters: the lengths are not calculated again. *)
SetParametersOnly(t, rate, seq, seek, overlap) ==
  LET n == CalcSeqParameters([t EXCEPT
             !.sampleRate = IF rate > 0 THEN rate ELSE @,
             !.overlapMs = IF overlap > 0 THEN overlap ELSE @,
             !.sequenceMs = IF seq > 0 THEN seq ELSE @, !.autoSeq = IF seq < 0 THEN @ ELSE seq = 0,
             !.seekWindowMs = IF seek > 0 THEN seek ELSE @, !.autoSeek = IF seek < 0 THEN @ ELSE seek = 0])
  IN  [n EXCEPT !.overlapLength = Overlap((n.sampleRate * n.overlapMs) \div Second)]

(* -1 leaves a parameter as it is, and 0 makes a length automatic. *)
SetParameters(t, rate, seq, seek, overlap) ==
  LET n == CalcSeqParameters([t EXCEPT
             !.sampleRate = IF rate > 0 THEN rate ELSE @,
             !.overlapMs = IF overlap > 0 THEN overlap ELSE @,
             !.sequenceMs = IF seq > 0 THEN seq ELSE @, !.autoSeq = IF seq < 0 THEN @ ELSE seq = 0,
             !.seekWindowMs = IF seek > 0 THEN seek ELSE @, !.autoSeek = IF seek < 0 THEN @ ELSE seek = 0])
  IN  SetTempo([n EXCEPT !.overlapLength = Overlap((n.sampleRate * n.overlapMs) \div Second)], n.tempo)

NewStretch ==
  SetParameters([sampleRate |-> 0, overlapMs |-> 0, sequenceMs |-> 0, seekWindowMs |-> 0, autoSeq |-> TRUE,
                 autoSeek |-> TRUE, tempo |-> Unit, overlapLength |-> 0, seekWindowLength |-> 0,
                 seekLength |-> 0, nominalSkip |-> 0, sampleReq |-> 0],
                CHOOSE r \in SoundRates : \A s \in SoundRates : s <= r, 0, 0, OverlapMs)

SoundInit ==
  /\ ctl = [pitch |-> Unit, rate |-> Unit, tempo |-> Unit]
  /\ output = "stretch" /\ channels = 0 /\ bSrateSet = FALSE
  /\ td = NewStretch /\ skipFract = 0
  /\ inputBuffer = 0 /\ outputBuffer = 0 /\ storeBuffer = 0 /\ transOut = 0
  /\ iSlopeCount = 0
  /\ at = "idle" /\ then = "return" /\ drain = [left |-> 0, wanted |-> 0] /\ changes = 0
  /\ drift = [rate |-> 0, tempo |-> 0] /\ spilt = FALSE
-----------------------------------------------------------------------------
(* The rate transposer.  Its state is a record [store, out, slope, ahead, spilt].     *)

(* How many samples lie between the position slope and the end of so many intervals.   *)
Within(slope, intervals, rate) ==
  IF slope > intervals * Unit THEN 0 ELSE (intervals * Unit - slope) \div rate + 1

(* The first interval reaches from the last sample of the call before to the first of  *)
(* this one.  A call with one sample goes on to the interval behind it.                *)
Transpose(slope, n, rate) ==
  LET k1 == Within(slope, 1, rate)
      s1 == slope + k1 * rate - Unit
      m  == Larger(n - 1, 1)
      k2 == Within(s1, m, rate)
  IN  IF n = 0 THEN [count |-> 0, slope |-> slope]
      ELSE [count |-> k1 + k2, slope |-> s1 + k2 * rate - m * Unit]

(* Each sample given is made of as many samples read as the filter has taps. *)
EvaluateFilter(n) == n - FilterTaps

Evaluate(n) == IF n < FilterTaps THEN 0 ELSE EvaluateFilter(n)

(* The room asked for n samples transposed. *)
Room(n, rate) == (n * Unit) \div rate + Slack

(* By how far the samples written reach beyond the n samples read. *)
Ahead(t, slope, n, rate) ==
  IF n = 0 THEN 0 ELSE t.count * rate - Larger(n, 2) * Unit - (t.slope - slope)

(* First transposed, then filtered. *)
Upsample(s, n, rate) ==
  LET t    == Transpose(s.slope, n, rate)
      have == s.store + t.count
  IN  [store |-> have - Evaluate(have), out |-> s.out + Evaluate(have), slope |-> t.slope,
       ahead |-> s.ahead + Ahead(t, s.slope, n, rate),
       spilt |-> s.spilt \/ t.count > Room(n, rate)]

(* Mutant of Downsample: the filtered samples stay in the store. *)
DownsampleKeeping(s, n, rate) ==
  LET have  == s.store + n
      count == Evaluate(have)
      t     == Transpose(s.slope, count, rate)
  IN  [store |-> have, out |-> s.out + t.count, slope |-> t.slope,
       ahead |-> s.ahead + Ahead(t, s.slope, count, rate),
       spilt |-> s.spilt \/ t.count > Room(n, rate)]

(* First filtered, then transposed: room is asked for from the samples put, but what  *)
(* is transposed are those the filter gives.                                           *)
Downsample(s, n, rate) ==
  LET have  == s.store + n
      count == Evaluate(have)
      t     == Transpose(s.slope, count, rate)
  IN  [store |-> have - count, out |-> s.out + t.count, slope |-> t.slope,
       ahead |-> s.ahead + Ahead(t, s.slope, count, rate),
       spilt |-> s.spilt \/ t.count > Room(n, rate)]

TransposerProcess(s, n, rate) ==
  IF n = 0 THEN s
  ELSE IF rate < Unit THEN Upsample(s, n, rate)
  ELSE Downsample(s, n, rate)

Transposer == [store |-> storeBuffer, out |-> transOut, slope |-> iSlopeCount, ahead |-> drift.rate, spilt |-> spilt]

(* The transposer after n samples were put in; moved are taken off its output at once. *)
SetTransposer(s, moved) ==
  /\ storeBuffer' = s.store /\ transOut' = s.out - moved /\ iSlopeCount' = s.slope
  /\ drift' = [drift EXCEPT !.rate = s.ahead] /\ spilt' = s.spilt
-----------------------------------------------------------------------------
(* Calls. *)

settings == <<ctl, output, channels, bSrateSet, td, changes>>

Called == at = "idle" /\ changes < MaxCalls /\ changes' = changes + 1

(* Mutant of Crossed: what is ready stays in the stage that was last. *)
CrossedButOutput(c) ==
  /\ ctl' = c
  /\ td' = IF Tempo(c) # Tempo(ctl) THEN SetTempo(td, Tempo(c)) ELSE td
  /\ \/ /\ Rate(c) <= Unit /\ output = "transpose"
        /\ transOut' = transOut /\ outputBuffer' = outputBuffer
        /\ inputBuffer' = inputBuffer + storeBuffer /\ storeBuffer' = 0
        /\ at' = "stretch" /\ then' = "crossed"
        /\ UNCHANGED <<output, iSlopeCount, drift, spilt>>
     \/ /\ Rate(c) > Unit /\ output = "stretch"
        /\ outputBuffer' = outputBuffer /\ inputBuffer' = 0
        /\ SetTransposer(TransposerProcess(Transposer, inputBuffer, Rate(c)), 0)
        /\ output' = "transpose"
        /\ UNCHANGED <<at, then>>
     \/ /\ (Rate(c) <= Unit) = (output = "stretch")
        /\ UNCHANGED <<output, buffers, iSlopeCount, drift, spilt, at, then>>

(* The controls take effect: the stages change places, and what they hold moves.      *)
Crossed(c) ==
  /\ ctl' = c
  /\ td' = IF Tempo(c) # Tempo(ctl) THEN SetTempo(td, Tempo(c)) ELSE td
  /\ \/ /\ Rate(c) <= Unit /\ output = "transpose"
        /\ transOut' = 0 /\ outputBuffer' = outputBuffer + transOut
        /\ inputBuffer' = inputBuffer + storeBuffer /\ storeBuffer' = 0
        /\ at' = "stretch" /\ then' = "crossed"
        /\ UNCHANGED <<output, iSlopeCount, drift, spilt>>
     \/ /\ Rate(c) > Unit /\ output = "stretch"
        /\ outputBuffer' = 0 /\ inputBuffer' = 0
        /\ LET s == [Transposer EXCEPT !.out = @ + outputBuffer]
           IN  SetTransposer(TransposerProcess(s, inputBuffer, Rate(c)), 0)
        /\ output' = "transpose"
        /\ UNCHANGED <<at, then>>
     \/ /\ (Rate(c) <= Unit) = (output = "stretch")
        /\ UNCHANGED <<output, buffers, iSlopeCount, drift, spilt, at, then>>

(* setPitchSemiTones, setRateChange and setTempoChange. *)
SetControl(k, v) ==
  /\ Called /\ v # ctl[k]
  /\ Crossed([ctl EXCEPT ![k] = v])
  /\ UNCHANGED <<channels, bSrateSet, skipFract, drain>>

SetSampleRate(r) ==
  /\ Called /\ (~bSrateSet \/ r # td.sampleRate)
  /\ bSrateSet' = TRUE
  /\ td' = SetParameters(td, r, -1, -1, -1)
  /\ UNCHANGED <<ctl, output, channels, skipFract, buffers, iSlopeCount, at, then, drain, drift, spilt>>

(* The buffers keep their bytes: they are counted in other units from now on. *)
SetChannels(c) ==
  LET had == IF channels = 0 THEN 2 ELSE channels
  IN  /\ Called /\ c # channels
      /\ channels' = c
      /\ inputBuffer' = Rescaled(inputBuffer, had, c) /\ outputBuffer' = Rescaled(outputBuffer, had, c)
      /\ storeBuffer' = Rescaled(storeBuffer, had, c) /\ transOut' = Rescaled(transOut, had, c)
      /\ iSlopeCount' = IF c = had THEN iSlopeCount ELSE 0
      /\ UNCHANGED <<ctl, output, bSrateSet, td, skipFract, at, then, drain, drift, spilt>>

SetSetting(p, v) ==
  LET seq == IF td.autoSeq THEN 0 ELSE td.sequenceMs
      seek == IF td.autoSeek THEN 0 ELSE td.seekWindowMs
  IN  /\ Called
      /\ td' = CASE p = "sequence" -> SetParameters(td, td.sampleRate, v, seek, td.overlapMs)
                 [] p = "seekwindow" -> SetParameters(td, td.sampleRate, seq, v, td.overlapMs)
                 [] p = "overlap" -> SetParameters(td, td.sampleRate, seq, seek, v)
      /\ UNCHANGED <<ctl, output, channels, bSrateSet, skipFract, buffers, iSlopeCount, at, then, drain, drift, spilt>>

(* Samples reach the first stage, and all that it gives the second.  Without a sample *)
(* rate or channels they are dropped.                                                  *)
Feed(n) ==
  /\ at' = "stretch"
  /\ \/ /\ output = "stretch" /\ then' = "return"
        /\ LET s == TransposerProcess(Transposer, n, Rate(ctl))
           IN  SetTransposer(s, s.out) /\ inputBuffer' = inputBuffer + s.out
     \/ /\ output = "transpose" /\ then' = "transpose"
        /\ inputBuffer' = inputBuffer + n
        /\ UNCHANGED <<storeBuffer, transOut, iSlopeCount, drift, spilt>>
  /\ UNCHANGED <<settings, skipFract, outputBuffer>>

Ready == IF output = "stretch" THEN outputBuffer ELSE transOut

PutSamples(n) ==
  /\ at = "idle" /\ bSrateSet /\ channels # 0 /\ Ready <= MaxHeld
  /\ Feed(n) /\ UNCHANGED drain

(* The full search: any position of the window may be the best, and the first stands *)
(* if none is good.  The quick one, which begins at a place of its own table even in   *)
(* a shorter window, is left out.                                                      *)
Offsets == 0..Larger(td.seekLength - 1, 0)

(* Mutant of Skip: the part of a sample is forgotten. *)
SkipRounded == [samples |-> (skipFract + td.nominalSkip) \div Unit, fract |-> 0]

Skip == [samples |-> (skipFract + td.nominalSkip) \div Unit, fract |-> (skipFract + td.nominalSkip) % Unit]

(* One sequence: its overlap with the one before, then the rest up to the end that    *)
(* the next will overlap.  If that does not fit the loop goes round with all its       *)
(* input.                                                                              *)
Stretch ==
  /\ at = "stretch" /\ inputBuffer >= td.sampleReq
  /\ \E offset \in Offsets :
       IF inputBuffer < offset + td.seekWindowLength
       THEN /\ outputBuffer' = outputBuffer + td.overlapLength
            /\ UNCHANGED <<inputBuffer, skipFract, drift>>
       ELSE LET gone == Received(Skip.samples, inputBuffer)
            IN  /\ outputBuffer' = outputBuffer + td.seekWindowLength - td.overlapLength
                /\ inputBuffer' = inputBuffer - gone /\ skipFract' = Skip.fract
                /\ drift' = [drift EXCEPT !.tempo = @ + td.nominalSkip - gone * Unit - (Skip.fract - skipFract)]
  /\ UNCHANGED <<settings, storeBuffer, transOut, iSlopeCount, at, then, drain, spilt>>

Stretched ==
  /\ at = "stretch" /\ inputBuffer < td.sampleReq
  /\ \/ then = "return" /\ UNCHANGED <<output, outputBuffer, storeBuffer, transOut, iSlopeCount, drift, spilt>>
     \/ /\ then = "transpose" /\ outputBuffer' = 0
        /\ SetTransposer(TransposerProcess(Transposer, outputBuffer, Rate(ctl)), 0)
        /\ UNCHANGED output
     \/ /\ then = "crossed" /\ output' = "stretch"
        /\ UNCHANGED <<outputBuffer, storeBuffer, transOut, iSlopeCount, drift, spilt>>
  /\ at' = IF drain.left > 0 THEN "flush" ELSE "idle"
  /\ UNCHANGED <<ctl, channels, bSrateSet, td, changes, skipFract, inputBuffer, then, drain>>

ReceiveSamples ==
  /\ at = "idle" /\ Ready > 0
  /\ LET n == Received(BufferSize, Ready)
     IN  IF output = "stretch" THEN outputBuffer' = outputBuffer - n /\ UNCHANGED transOut
         ELSE transOut' = transOut - n /\ UNCHANGED outputBuffer
  /\ UNCHANGED <<settings, skipFract, inputBuffer, storeBuffer, iSlopeCount, at, then, drain, drift, spilt>>

(* What the samples that wait should give. *)
Due == LET speed == Tempo(ctl) * Rate(ctl)
       IN  (2 * inputBuffer * Unit * Unit + speed) \div (2 * speed)

(* A flush feeds zeros until what waited should have come out. *)
StartFlush ==
  /\ at = "idle" /\ bSrateSet /\ channels # 0 /\ Ready <= MaxHeld
  /\ drain' = [left |-> FlushRounds, wanted |-> Ready + Due]
  /\ Feed(FlushBlock)

FlushMore ==
  /\ at = "flush" /\ Ready < drain.wanted /\ drain.left > 1
  /\ drain' = [drain EXCEPT !.left = @ - 1]
  /\ Feed(FlushBlock)

(* At the end only the samples wanted are kept, and the working buffers are emptied:  *)
(* the transposer's output among them.                                                 *)
FlushEnd ==
  /\ at = "flush" /\ (Ready >= drain.wanted \/ drain.left = 1)
  /\ outputBuffer' = IF output = "stretch" THEN Trimmed(outputBuffer, drain.wanted) ELSE outputBuffer
  /\ transOut' = 0 /\ storeBuffer' = 0 /\ inputBuffer' = 0
  /\ drain' = [left |-> 0, wanted |-> 0] /\ at' = "idle"
  /\ UNCHANGED <<settings, skipFract, iSlopeCount, then, drift, spilt>>

Clear ==
  /\ at = "idle"
  /\ inputBuffer' = 0 /\ outputBuffer' = 0 /\ storeBuffer' = 0 /\ transOut' = 0
  /\ UNCHANGED <<settings, skipFract, iSlopeCount, at, then, drain, drift, spilt>>

SoundNext ==
  \/ \E k \in DOMAIN ctl, v \in Controls : SetControl(k, v)
  \/ \E r \in SoundRates : SetSampleRate(r)
  \/ \E c \in Channels : SetChannels(c)
  \/ \E p \in {"sequence", "seekwindow", "overlap"}, v \in AskedLengths : SetSetting(p, v)
  \/ \E n \in Blocks : PutSamples(n)
  \/ Stretch \/ Stretched
  \/ ReceiveSamples
  \/ StartFlush \/ FlushMore \/ FlushEnd \/ Clear

SoundSpec == SoundInit /\ [][SoundNext]_soundVars
-----------------------------------------------------------------------------
(* Between calls no samples wait in the output of the stage that is not the last:     *)
(* nobody would fetch them (SoundTouch.cpp, calcEffectiveRateAndTempo and putSamples). *)
NothingStranded ==
  at = "idle" => IF output = "stretch" THEN transOut = 0 ELSE outputBuffer = 0

(* When the tempo changer starts on a sequence its input reaches to the end of the    *)
(* sequence wherever the full search puts it, and the sequence is long enough for both *)
(* its overlaps: the case that TDStretch.cpp says "shouldn't really happen", in which      *)
(* processSamples would never end, does not, however the lengths were set.             *)
SequenceFits ==
  at = "stretch" /\ inputBuffer >= td.sampleReq =>
    /\ td.seekWindowLength >= 2 * td.overlapLength
    /\ inputBuffer >= td.seekLength - 1 + td.seekWindowLength

(* Over any sequence of calls, rates and blocks the transposer writes one sample for  *)
(* each step of its rate through the samples it read, a single sample counting for     *)
(* two, and the tempo changer takes exactly its nominal skip from its input: the sound *)
(* is not slowly shifted.                                                              *)
KeepsPace == drift = [rate |-> 0, tempo |-> 0]

(* The transposer never writes more samples than it made room for, though downsample  *)
(* asks from the samples put and writes those the filter held back as well.            *)
RoomKept == ~spilt

(* The four together, whatever order the sound processor is called in. *)
SoundKept == NothingStranded /\ SequenceFits /\ KeepsPace /\ RoomKept
=============================================================================
