----------------------------- MODULE Mp3Encoder -----------------------------
(***************************************************************************)
(* How the MP3 encoder (LAME) turns calls that bring samples into a stream *)
(* of frames of a constant bit rate.                                       *)
(*                                                                         *)
(* Samples wait in mfbuf until they make a frame.  A frame's data may use  *)
(* bits that earlier frames left over, the reservoir, and so begins before *)
(* its own header: main_data_begin says how many bytes.  A header waits in *)
(* a ring until the stream reaches the place where it belongs.  A caller   *)
(* copies the stream out of an internal buffer; it may bring too small a   *)
(* one.  lame_encode_flush pushes zeros until all samples are in frames,   *)
(* and fills the last frame up.                                            *)
(*                                                                         *)
(* Left out: how many bits the quantiser needs (any number up to what it   *)
(* may use), stereo, resampling, variable bit rates, the seek table of the *)
(* Xing tag, ID3 tags, and calls without samples.                          *)
(***************************************************************************)
EXTENDS Integers

CONSTANTS Byte,                        \* bits of a byte
          FrameSlots, SideInfo,        \* bytes of a frame without padding, and of its header
          Granules,                    \* mode_gr
          FracSpF, OutRate,            \* one frame in OutRate / FracSpF is padded
          ResvLimit, MaxMp3Buf,        \* resvLimit and maxmp3buf, in bits
          ChannelMax,                  \* MAX_BITS_PER_CHANNEL
          HeaderBuf,                   \* MAX_HEADER_BUF
          TotLimit,                    \* where totbit starts again
          TagBytes,                    \* the bytes of the tag before the first frame
          FrameSize, EncDelay, PostDelay, MdctDelay, Needed, MaxBunch, EndPadding,
          Counts, Sizes,               \* how many samples a call brings, and what room for bytes
          Short,                       \* how many bits a granule may stay below its target
          MaxSamples, MaxErrors        \* bounds: the samples, and the calls with too little room

ASSUME BitsNat ==
  /\ {Byte, FrameSlots, SideInfo, Granules, OutRate, HeaderBuf} \subseteq Nat \ {0}
  /\ {FracSpF, ResvLimit, MaxMp3Buf, ChannelMax, TotLimit, TagBytes} \subseteq Nat
  /\ SideInfo < FrameSlots /\ FracSpF < OutRate
ASSUME SamplesNat ==
  /\ {FrameSize, Needed, MaxBunch} \subseteq Nat \ {0}
  /\ {EncDelay, PostDelay, MdctDelay, EndPadding} \subseteq Nat /\ MdctDelay < EncDelay
ASSUME InputsNat ==
  /\ Counts \subseteq Nat \ {0} /\ Sizes \subseteq Nat /\ Short \subseteq Nat
  /\ MaxSamples \in Nat /\ MaxErrors \in Nat

(* A frame is one or two granules; the limits of the reservoir are whole bytes (ResvFrameBegin). *)
ASSUME FormatHolds ==
  /\ Byte = 8 /\ Granules \in {1, 2} /\ FrameSize = 576 * Granules
  /\ ResvLimit % Byte = 0 /\ MaxMp3Buf % Byte = 0
(* The ring holds the headers of all frames that can begin within the reservoir. *)
ASSUME RingHolds == ResvLimit < (HeaderBuf - 1) * (Byte * (FrameSlots - SideInfo))
(* calcNeeded and the delays of encoder.h. *)
ASSUME DelaysHold ==
  /\ EndPadding <= FrameSize /\ EndPadding <= PostDelay
  /\ FrameSize < Needed /\ EncDelay + EndPadding < Needed /\ Needed <= FrameSize + EncDelay + EndPadding
(* mfbuf (MFSIZE) has room for the samples of far fewer calls that failed. *)
ASSUME ErrorsFit == Needed + (MaxErrors + 1) * FrameSize <= (EncDelay + EndPadding) * (FrameSize - 1)

VARIABLES pc,                                   \* where the call is, "idle" between calls
          totbit, buf_bytes, buf_bit_idx,       \* bs; buf_bytes is buf_byte_idx + 1
          write_timing, h_ptr, w_ptr,           \* header[], the next to fill, the next to write
          left,                                 \* bits that still are to be put
          ResvSize, ResvMax, main_data_begin, drain_post,
          padding, slot_lag,
          gr, main_bits,                        \* the granule, and the bits of those before it
          mf_size, mf_samples_to_encode,
          last,                                 \* how much of mfbuf holds samples of the caller
          nsamples, mp3buf_size, mp3size,       \* of lame_encode_buffer
          coded,                                \* whether that call encoded a frame
          flushing, frames_left, flush_size, mp3count,   \* of lame_encode_flush
          flushed,                              \* whether a flush was the last to succeed
          fed, errors                           \* what the bounds count
stream   == <<totbit, buf_bytes, buf_bit_idx, w_ptr>>
headers  == <<write_timing, h_ptr>>
resv     == <<ResvSize, ResvMax, main_data_begin, drain_post>>
pad      == <<padding, slot_lag>>
part     == <<gr, main_bits>>
pcm      == <<mf_size, mf_samples_to_encode, last>>
call     == <<nsamples, mp3buf_size, mp3size, coded>>
flush    == <<flushing, frames_left, flush_size, mp3count, flushed>>
bounds   == <<fed, errors>>
vars     == <<pc, stream, headers, left, resv, pad, part, pcm, call, flush, bounds>>

Least(a, b)    == IF a < b THEN a ELSE b
Greatest(a, b) == IF a > b THEN a ELSE b
Slots          == 0..HeaderBuf - 1

FrameBits == Byte * (FrameSlots + padding)
SideBits  == Byte * SideInfo
MeanBits  == (FrameBits - SideBits) \div Granules

(* A new encoder, as lame_init and lame_init_params leave it; the tag has moved the place of every header. *)
Init ==
  /\ pc = "idle"
  /\ totbit = Byte * TagBytes /\ buf_bytes = TagBytes /\ buf_bit_idx = 0
  /\ write_timing = [p \in Slots |-> Byte * TagBytes] /\ h_ptr = 0 /\ w_ptr = 0
  /\ left = 0
  /\ ResvSize = 0 /\ ResvMax = 0 /\ main_data_begin = 0 /\ drain_post = 0
  /\ padding = 0 /\ slot_lag = FracSpF
  /\ gr = 0 /\ main_bits = 0
  /\ mf_size = EncDelay - MdctDelay /\ mf_samples_to_encode = EncDelay + PostDelay /\ last = 0
  /\ nsamples = 0 /\ mp3buf_size = 0 /\ mp3size = 0 /\ coded = FALSE
  /\ flushing = FALSE /\ frames_left = 0 /\ flush_size = 0 /\ mp3count = 0 /\ flushed = FALSE
  /\ fed = 0 /\ errors = 0

-----------------------------------------------------------------------------
(* The calls and what they return. *)

(* copy_buffer: a size of 0 asks for no check, and an empty buffer fits any. *)
TooSmall(size) == buf_bytes # 0 /\ size # 0 /\ buf_bytes > size

CopyBuffer == buf_bytes' = 0 /\ buf_bit_idx' = 0 /\ UNCHANGED <<totbit, w_ptr>>

(* lame_encode_buffer fails: the flush it may be part of ends with it. *)
Fail ==
  /\ pc' = IF flushing THEN "broken" ELSE "idle"
  /\ mf_samples_to_encode' = IF flushing THEN 0 ELSE mf_samples_to_encode
  /\ flushing' = FALSE /\ flushed' = FALSE
  /\ errors' = errors + 1
  /\ UNCHANGED <<mf_size, last, frames_left, flush_size, mp3count, fed>>

(* lame_encode_buffer begins with what is in the buffer already, such as the tag. *)
Enter(n, size) ==
  /\ IF TooSmall(size)
     THEN Fail /\ UNCHANGED <<stream, call>>
     ELSE /\ CopyBuffer
          /\ nsamples' = n /\ mp3buf_size' = size /\ mp3size' = buf_bytes
          /\ coded' = FALSE /\ pc' = "fill"
          /\ flushed' = FALSE
          /\ fed' = IF flushing THEN fed ELSE fed + n
          /\ UNCHANGED <<pcm, flushing, frames_left, flush_size, mp3count, errors>>
  /\ UNCHANGED <<headers, left, resv, pad, part>>

Encode(n, size) ==
  /\ pc = "idle" /\ fed + n <= MaxSamples
  /\ size = 0 \/ errors < MaxErrors
  /\ Enter(n, size)

(* fill_buffer takes at most a frame. *)
Fill ==
  /\ pc = "fill" /\ nsamples > 0
  /\ LET n == Least(FrameSize, nsamples)
     IN /\ nsamples' = nsamples - n
        /\ mf_size' = mf_size + n
        /\ mf_samples_to_encode' = n + (IF mf_samples_to_encode < 1 THEN EncDelay + PostDelay
                                                                    ELSE mf_samples_to_encode)
        /\ last' = IF flushing THEN last ELSE mf_size + n
  /\ pc' = IF mf_size' >= Needed THEN "begin" ELSE "fill"
  /\ UNCHANGED <<stream, headers, left, resv, pad, part, mp3buf_size, mp3size, coded, flush, bounds>>

Return ==
  /\ pc = "fill" /\ nsamples = 0
  /\ IF flushing
     THEN /\ pc' = "flush" /\ mp3count' = mp3count + mp3size
          /\ frames_left' = frames_left - (IF coded THEN 1 ELSE 0)
     ELSE pc' = "idle" /\ UNCHANGED <<mp3count, frames_left>>
  /\ UNCHANGED <<stream, headers, left, resv, pad, part, pcm, call, flushing, flush_size, flushed, bounds>>

-----------------------------------------------------------------------------
(* One frame: its bits are allotted. *)
BeginFrame ==
  /\ pc = "begin"
  /\ LET lag  == slot_lag - FracSpF
         room == Least(MaxMp3Buf - Byte * (FrameSlots + padding'), ResvLimit)
     IN /\ padding' = IF lag < 0 THEN 1 ELSE 0
        /\ slot_lag' = IF lag < 0 THEN lag + OutRate ELSE lag
        /\ ResvMax' = Greatest(room, 0)
  /\ gr' = 0 /\ main_bits' = 0
  /\ pc' = "granule"
  /\ UNCHANGED <<stream, headers, left, ResvSize, main_data_begin, drain_post, pcm, call, flush, bounds>>

(* Mutant of Saved: the first granule has the bits that the second may save. *)
SavedAlways == ResvSize + MeanBits

(* The second granule has the bits that the first was given on average. *)
Saved == ResvSize + gr * MeanBits

AlmostFull == IF 10 * Saved > 9 * ResvMax THEN Saved - (9 * ResvMax) \div 10 ELSE 0

Usual == IF 10 * Saved > 9 * ResvMax THEN MeanBits + AlmostFull ELSE (9 * MeanBits) \div 10

Extra == Greatest(Least(Saved, (6 * ResvMax) \div 10) - AlmostFull, 0)

(* Perceptual entropy decides how much of the extra bits a granule may use. *)
Target ==
  LET usual == Least(ChannelMax, Usual)
  IN usual + Least(Least(Extra, (3 * MeanBits) \div 4), ChannelMax - usual)

Lengths == {0} \cup {Target - s : s \in {s \in Short : s <= Target}}

Granule ==
  /\ pc = "granule" /\ gr < Granules
  /\ \E n \in Lengths : ResvSize' = ResvSize - n /\ main_bits' = main_bits + n
  /\ gr' = gr + 1
  /\ UNCHANGED <<pc, stream, headers, left, ResvMax, main_data_begin, drain_post, pad, pcm, call, flush, bounds>>

(* What makes no byte, and what does not fit the reservoir, is stuffed: first *)
(* behind the data of the frame before, as far as the reservoir reaches.      *)
ResvFrameEnd ==
  /\ pc = "granule" /\ gr = Granules
  /\ LET size     == ResvSize + MeanBits * Granules
         odd      == size % Byte
         stuffing == odd + Greatest(size - odd - ResvMax, 0)
         before   == Least(main_data_begin * Byte, stuffing) \div Byte
     IN /\ ResvSize' = size - stuffing
        /\ main_data_begin' = main_data_begin - before
        /\ drain_post' = stuffing - Byte * before
        /\ left' = Byte * before
  /\ pc' = "pre"
  /\ UNCHANGED <<stream, headers, ResvMax, pad, part, pcm, call, flush, bounds>>

-----------------------------------------------------------------------------
(* The stream.  One round of the loop of putbits2: the rest of a byte.  A  *)
(* header is written when the first bit behind it is put.                  *)
PutBits ==
  /\ left > 0
  /\ LET fresh  == buf_bit_idx = 0
         header == fresh /\ write_timing[w_ptr] = totbit
         idx    == IF fresh THEN Byte ELSE buf_bit_idx
         k      == Least(left, idx)
     IN /\ left' = left - k
        /\ buf_bit_idx' = idx - k
        /\ totbit' = totbit + k + (IF header THEN SideBits ELSE 0)
        /\ buf_bytes' = buf_bytes + (IF fresh THEN 1 ELSE 0) + (IF header THEN SideInfo ELSE 0)
        /\ w_ptr' = IF header THEN (w_ptr + 1) % HeaderBuf ELSE w_ptr
  /\ UNCHANGED <<pc, headers, resv, pad, part, pcm, call, flush, bounds>>

EncodeSideInfo ==
  /\ pc = "pre" /\ left = 0
  /\ LET next == (h_ptr + 1) % HeaderBuf
     IN /\ h_ptr' = next
        /\ write_timing' = [write_timing EXCEPT ![next] = write_timing[h_ptr] + FrameBits]
  /\ left' = main_bits /\ pc' = "main"
  /\ UNCHANGED <<stream, resv, pad, part, pcm, call, flush, bounds>>

WriteMainData ==
  /\ pc = "main" /\ left = 0
  /\ left' = drain_post /\ pc' = "post"
  /\ UNCHANGED <<stream, headers, resv, pad, part, pcm, call, flush, bounds>>

(* compute_flushbits: the bits that fill all headers' frames. *)
LastPtr == (h_ptr + HeaderBuf - 1) % HeaderBuf
Remaining ==
  IF LastPtr < w_ptr THEN 1 + LastPtr - w_ptr + HeaderBuf ELSE 1 + LastPtr - w_ptr
FlushBits ==
  LET behind == write_timing[LastPtr] - totbit
  IN FrameBits + (IF behind >= 0 THEN behind - Remaining * SideBits ELSE behind)

(* The bytes of the reservoir once the frame is formatted. *)
NextBegin ==
  main_data_begin + (FrameBits - (SideBits + main_bits + drain_post)) \div Byte

(* format_bitstream ends, and the frame is copied out if there is room.  If *)
(* there is not, it stays in the buffer, and its samples stay in mfbuf.     *)
FinishFrame ==
  /\ pc = "post" /\ left = 0
  /\ main_data_begin' = NextBegin /\ ResvSize' = Byte * NextBegin
  /\ IF totbit > TotLimit
     THEN totbit' = 0 /\ write_timing' = [p \in Slots |-> write_timing[p] - totbit]
     ELSE UNCHANGED <<totbit, write_timing>>
  /\ coded' = TRUE
  /\ IF TooSmall(IF mp3buf_size = 0 THEN 0 ELSE mp3buf_size - mp3size)
     THEN Fail /\ UNCHANGED <<buf_bytes, buf_bit_idx, mp3size>>
     ELSE /\ buf_bytes' = 0 /\ buf_bit_idx' = 0
          /\ mp3size' = mp3size + buf_bytes
          /\ mf_size' = mf_size - FrameSize
          /\ mf_samples_to_encode' = mf_samples_to_encode - FrameSize
          /\ last' = Greatest(last - FrameSize, 0)
          /\ pc' = "fill"
          /\ UNCHANGED <<flush, bounds>>
  /\ UNCHANGED <<w_ptr, h_ptr, left, ResvMax, drain_post, pad, part, nsamples, mp3buf_size>>

-----------------------------------------------------------------------------
(* lame_encode_flush. *)
(* Mutant of FramesLeft: the delay of the encoder is not padded. *)
FramesLeftUnpadded(samples) == samples \div FrameSize

(* samples may be negative, down to -EndPadding: % is then not C's, the number of frames is. *)
FramesLeft(samples) ==
  LET pad0 == FrameSize - (samples % FrameSize)
      end  == IF pad0 < EndPadding THEN pad0 + FrameSize ELSE pad0
  IN (samples + end) \div FrameSize

Flush(size) ==
  /\ pc = "idle" /\ mf_samples_to_encode >= 1
  /\ size = 0 \/ errors < MaxErrors
  /\ frames_left' = FramesLeft(mf_samples_to_encode - PostDelay)
  /\ flushing' = TRUE /\ flush_size' = size /\ mp3count' = 0 /\ flushed' = FALSE
  /\ pc' = "flush"
  /\ UNCHANGED <<stream, headers, left, resv, pad, part, pcm, call, bounds>>

RoomLeft == IF flush_size = 0 THEN 0 ELSE flush_size - mp3count

(* Mutant of Bunch: zeros are sent only while mfbuf is not full. *)
BunchIfNeeded == Least(Needed - mf_size, MaxBunch)

Bunch == Greatest(Least(Needed - mf_size, MaxBunch), 1)

FlushFrame ==
  /\ pc = "flush" /\ frames_left > 0
  /\ Enter(Bunch, RoomLeft)

FlushBitstream ==
  /\ pc = "flush" /\ frames_left <= 0
  /\ mf_samples_to_encode' = 0
  /\ left' = Greatest(FlushBits, 0)
  /\ pc' = "drain"
  /\ UNCHANGED <<stream, headers, resv, pad, part, mf_size, last, call, flush, bounds>>

(* Mutant of Drained: the reservoir is not emptied with the stream. *)
DrainedKeeping ==
  /\ pc = "drain" /\ left = 0
  /\ IF TooSmall(RoomLeft)
     THEN Fail /\ UNCHANGED stream
     ELSE /\ CopyBuffer
          /\ pc' = "idle" /\ flushing' = FALSE /\ flushed' = TRUE
          /\ UNCHANGED <<pcm, frames_left, flush_size, mp3count, bounds>>
  /\ UNCHANGED <<headers, left, resv, pad, part, call>>

Drained ==
  /\ pc = "drain" /\ left = 0
  /\ ResvSize' = 0 /\ main_data_begin' = 0
  /\ IF TooSmall(RoomLeft)
     THEN Fail /\ UNCHANGED stream
     ELSE /\ CopyBuffer
          /\ pc' = "idle" /\ flushing' = FALSE /\ flushed' = TRUE
          /\ UNCHANGED <<pcm, frames_left, flush_size, mp3count, bounds>>
  /\ UNCHANGED <<headers, left, ResvMax, drain_post, pad, part, call>>

Calls == \/ \E n \in Counts, size \in Sizes : Encode(n, size)
         \/ \E size \in Sizes : Flush(size)

Work == \/ Fill \/ Return
        \/ BeginFrame \/ Granule \/ ResvFrameEnd
        \/ PutBits \/ EncodeSideInfo \/ WriteMainData \/ FinishFrame
        \/ FlushFrame \/ FlushBitstream \/ Drained

Next == Calls \/ Work

Spec == Init /\ [][Next]_vars
FairSpec == Spec /\ WF_vars(Work)

-----------------------------------------------------------------------------
(* Type invariant: the fields of lame_internal_flags that Next uses are numbers in their ranges. *)
TypeOK ==
  /\ pc \in {"idle", "fill", "begin", "granule", "pre", "main", "post", "flush", "drain", "broken"}
  /\ {totbit, buf_bytes, left, main_bits, drain_post, main_data_begin, slot_lag} \subseteq Nat
  /\ {mf_size, last, nsamples, mp3size, frames_left, flush_size, mp3count} \subseteq Nat
  /\ {ResvSize, ResvMax, mf_samples_to_encode, mp3buf_size} \subseteq Int
  /\ write_timing \in [Slots -> Int] /\ h_ptr \in Slots /\ w_ptr \in Slots
  /\ buf_bit_idx \in 0..Byte - 1 /\ gr \in 0..Granules /\ padding \in {0, 1}
  /\ {coded, flushing, flushed} \subseteq BOOLEAN

(* Every header gets to the place that was reserved for it: the stream never runs past the start *)
(* of the frame whose header encodeSideInfo2 has not filled in yet (putbits2 would insert the    *)
(* header too early, or never again: the assertion about write_timing).                          *)
HeadersInPlace == totbit <= write_timing[h_ptr]

(* The two checks at the end of format_bitstream, "Internal buffer inconsistency" and "bit        *)
(* reservoir error", never find anything: the reservoir, main_data_begin and the bits that are    *)
(* missing in the stream agree, whole bytes within what main_data_begin can say.                  *)
ReservoirAgrees ==
  pc = "post" /\ left = 0 =>
    /\ FlushBits = ResvSize /\ Byte * NextBegin = ResvSize
    /\ ResvSize \in 0..ResvMax /\ totbit % Byte = 0

(* The stream is where its pointers say (bitstream.c, reservoir.c): a header is written at its place, *)
(* and the reservoir, main_data_begin and the bits put agree.                                        *)
StreamAgrees == HeadersInPlace /\ ReservoirAgrees

(* A flush that succeeds leaves nothing behind: every sample the caller brought was encoded, also *)
(* one that a call without room had to leave in mfbuf, and the last frame is filled up.           *)
FlushSendsAll ==
  flushed => /\ last = 0
             /\ w_ptr = h_ptr /\ totbit = write_timing[h_ptr] /\ buf_bytes = 0

(* Every call returns; lame_encode_flush does not wait for a frame that its zeros never complete. *)
CallsReturn == pc # "idle" ~> pc \in {"idle", "broken"}
=============================================================================
