-------------------------- MODULE Mp3EncoderProofs --------------------------
(* Proofs about LAME's encoder (lame.c, encoder.c, reservoir.c, bitstream.c) for every frame size, rate, *)
(* reservoir, ring of headers, delay and length of calls that the assumptions of Mp3Encoder allow: the   *)
(* bit stream is where its headers say, the reservoir balances, and a flush leaves nothing behind.       *)
(*                                                                                                       *)
(* The argument counts Gap, the bits of data that can be put before the stream reaches the next header's *)
(* place. It is what the reservoir holds; headers in the ring are at least a frame apart (Spaced), so a  *)
(* stream that is at most a reservoir behind never has the ring full; and what compute_flushbits finds   *)
(* missing is exactly Gap. The samples that wait are counted against those still to be encoded           *)
(* (DelayInv), which is what bounds the frames of a flush (FlushInv).                                    *)
EXTENDS Mp3Encoder, TLAPS

(* The headers from w_ptr to just before h_ptr are filled in and not yet written: how many, and their slots. *)
Pending  == IF w_ptr <= h_ptr THEN h_ptr - w_ptr ELSE h_ptr - w_ptr + HeaderBuf
At(j)    == IF w_ptr + j < HeaderBuf THEN w_ptr + j ELSE w_ptr + j - HeaderBuf
SlotBits == Byte * FrameSlots

(* The bits of data that can be put before the stream is at the place of the next header. *)
Gap == write_timing[h_ptr] - totbit - SideBits * Pending

Spaced  == \A i, j \in 0..Pending :
             i <= j => write_timing[At(j)] >= write_timing[At(i)] + SlotBits * (j - i)
InBytes == /\ (totbit + buf_bit_idx) % Byte = 0
           /\ \A p \in Slots : write_timing[p] % Byte = 0
RingInv == totbit <= write_timing[w_ptr] /\ Spaced /\ InBytes

(* The data a frame has room for, and the bits of the reservoir before the last stuffing. *)
Whole   == FrameBits - SideBits
Unspent == Byte * main_data_begin + Whole - main_bits

InFrame == {"begin", "granule", "pre", "main", "post"}
InCall  == {"fill"} \cup InFrame

Resting ==
  pc \in {"idle", "fill", "begin", "flush", "broken"} =>
    left = 0 /\ Gap = ResvSize /\ ResvSize = Byte * main_data_begin /\ ResvSize <= ResvLimit
Dividing ==
  pc = "granule" =>
    /\ left = 0 /\ Gap = Byte * main_data_begin /\ Gap <= ResvLimit
    /\ ResvSize + main_bits = Gap /\ ResvSize + gr * MeanBits >= 0
Formatting ==
  /\ pc \in {"pre", "main", "post"} =>
       Unspent - drain_post = ResvSize /\ ResvSize >= 0 /\ ResvSize <= ResvMax /\ ResvSize % Byte = 0
  /\ pc = "pre"   => Gap - left = Byte * main_data_begin /\ Byte * main_data_begin <= ResvLimit
  /\ pc = "main"  => Gap - left = Unspent
  /\ pc = "post"  => Gap - left = ResvSize
  /\ pc = "drain" => Gap = left
Limits  == ResvMax <= ResvLimit /\ ResvMax >= 0 /\ ResvMax % Byte = 0
ResvInv == Resting /\ Dividing /\ Formatting /\ Limits

(* Whether a frame was formatted: the last header is then a frame before the next one's place. *)
Begun == write_timing[h_ptr] # write_timing[LastPtr]
BegunInv ==
  /\ Begun /\ pc \notin {"granule", "pre"} => write_timing[h_ptr] = write_timing[LastPtr] + FrameBits
  /\ Begun /\ Pending = 0 => totbit > write_timing[LastPtr]
  /\ (pc \in InCall /\ coded) \/ pc \in {"main", "post", "drain"} => Begun
  /\ flushing /\ ~Begun => frames_left >= 1

Samples == IF mf_samples_to_encode < 1 THEN EncDelay ELSE mf_samples_to_encode - PostDelay
DelayInv ==
  pc \notin {"drain", "broken"} =>
    mf_size >= 1 /\ mf_size <= Samples + EndPadding /\ Samples <= mf_size + EncDelay /\ last <= mf_size
CallInv ==
  /\ pc \in InFrame => mf_size >= Needed
  /\ pc = "fill" /\ ~coded /\ nsamples = 0 => mf_size < Needed
ErrorsInv ==
  /\ ~flushing /\ pc \in {"idle", "fill"} => mf_size < Needed + errors * FrameSize
  /\ ~flushing /\ pc \in InFrame => mf_size < Needed + (errors + 1) * FrameSize
  /\ errors \in 0..MaxErrors
  /\ pc \in InCall /\ mp3buf_size # 0 => errors < MaxErrors
  /\ flushing /\ flush_size # 0 => errors < MaxErrors

ToCode == frames_left - (IF coded THEN 1 ELSE 0)
FlushInv ==
  /\ flushing => pc \in {"flush", "drain"} \cup InCall
  /\ pc \in {"flush", "drain"} => flushing
  /\ pc = "flush" =>
       last <= frames_left * FrameSize /\ mf_size <= EncDelay + EndPadding + frames_left * (FrameSize - 1)
  /\ flushing /\ pc \in InCall =>
       /\ frames_left >= 1 /\ last <= ToCode * FrameSize
       /\ pc # "fill" => ~coded
       /\ pc # "fill" \/ coded => nsamples = 0
       /\ ~coded => mf_size + nsamples <= Needed \/ nsamples <= 1
       /\ mf_size + nsamples <= EncDelay + EndPadding + ToCode * (FrameSize - 1) + (IF coded THEN 0 ELSE 1)
  /\ pc = "drain" => last = 0 /\ mf_size \in 1..EncDelay + EndPadding /\ mf_samples_to_encode = 0
  /\ flushed => pc = "idle" /\ ~flushing /\ FlushSendsAll

IInv == TypeOK /\ RingInv /\ ResvInv /\ BegunInv /\ DelayInv /\ CallInv /\ ErrorsInv /\ FlushInv

(* The constants, as the numbers they are. *)
LEMMA Constants ==
  /\ Byte = 8 /\ FrameSlots \in Nat /\ SideInfo \in Nat /\ SideInfo >= 1 /\ SideInfo < FrameSlots
  /\ HeaderBuf \in Nat /\ HeaderBuf >= 2
  /\ ResvLimit \in Nat /\ MaxMp3Buf \in Nat /\ ChannelMax \in Nat /\ TotLimit \in Nat /\ TagBytes \in Nat
  /\ OutRate \in Nat /\ FracSpF \in Nat /\ FracSpF < OutRate
  /\ FrameSize \in {576, 1152} /\ Granules \in {1, 2} /\ FrameSize = 576 * Granules
  /\ Needed \in Nat /\ MaxBunch \in Nat /\ MaxBunch >= 1
  /\ EncDelay \in Nat /\ PostDelay \in Nat /\ MdctDelay \in Nat /\ EndPadding \in Nat /\ MdctDelay < EncDelay
  /\ MaxErrors \in Nat /\ MaxSamples \in Nat
<1>1. {Byte, FrameSlots, SideInfo, Granules, OutRate, HeaderBuf} \subseteq Nat \ {0}  BY BitsNat DEF BitsNat
<1>2. {FracSpF, ResvLimit, MaxMp3Buf, ChannelMax, TotLimit, TagBytes} \subseteq Nat  BY BitsNat DEF BitsNat
<1>3. SideInfo < FrameSlots /\ FracSpF < OutRate  BY BitsNat DEF BitsNat
<1>4. {FrameSize, Needed, MaxBunch} \subseteq Nat \ {0}  BY SamplesNat DEF SamplesNat
<1>5. {EncDelay, PostDelay, MdctDelay, EndPadding} \subseteq Nat /\ MdctDelay < EncDelay  BY SamplesNat DEF SamplesNat
<1>6. MaxSamples \in Nat /\ MaxErrors \in Nat  BY InputsNat DEF InputsNat
<1>7. Byte = 8 /\ Granules \in {1, 2} /\ FrameSize = 576 * Granules  BY FormatHolds DEF FormatHolds
<1>8. HeaderBuf >= 2
  <2>1. ResvLimit < (HeaderBuf - 1) * (Byte * (FrameSlots - SideInfo))  BY RingHolds DEF RingHolds
  <2>2. HeaderBuf \in Nat \ {0} /\ ResvLimit \in Nat  BY <1>1, <1>2
  <2>3. HeaderBuf # 1
    <3>1. CASE HeaderBuf = 1
      <4>1. HeaderBuf - 1 = 0  BY <3>1
      <4>2. Byte * (FrameSlots - SideInfo) \in Int  BY <1>1
      <4>3. (HeaderBuf - 1) * (Byte * (FrameSlots - SideInfo)) = 0  BY <4>1, <4>2
      <4> QED  BY <2>1, <2>2, <4>3
    <3> QED  BY <3>1
  <2> QED  BY <2>2, <2>3
<1> QED  BY <1>1, <1>2, <1>3, <1>4, <1>5, <1>6, <1>7, <1>8

(* TypeOK, one field at a time. *)
LEMMA Types ==
  ASSUME TypeOK
  PROVE  /\ totbit \in Nat /\ buf_bytes \in Nat /\ left \in Nat /\ main_bits \in Nat /\ drain_post \in Nat
         /\ main_data_begin \in Nat /\ slot_lag \in Nat /\ mf_size \in Nat /\ last \in Nat /\ nsamples \in Nat
         /\ mp3buf_size \in Int /\ mp3size \in Nat /\ frames_left \in Nat /\ flush_size \in Nat /\ mp3count \in Nat
         /\ ResvSize \in Int /\ ResvMax \in Int /\ mf_samples_to_encode \in Int
         /\ write_timing \in [Slots -> Int] /\ h_ptr \in Slots /\ w_ptr \in Slots
         /\ buf_bit_idx \in 0..7 /\ gr \in 0..Granules /\ padding \in {0, 1}
         /\ coded \in BOOLEAN /\ flushing \in BOOLEAN /\ flushed \in BOOLEAN
<1>1. {totbit, buf_bytes, left, main_bits, drain_post, main_data_begin, slot_lag} \subseteq Nat  BY DEF TypeOK
<1>2. {mf_size, last, nsamples, mp3size, frames_left, flush_size, mp3count} \subseteq Nat  BY DEF TypeOK
<1>3. {ResvSize, ResvMax, mf_samples_to_encode, mp3buf_size} \subseteq Int  BY DEF TypeOK
<1>4. {coded, flushing, flushed} \subseteq BOOLEAN  BY DEF TypeOK
<1>5. coded \in BOOLEAN /\ flushing \in BOOLEAN /\ flushed \in BOOLEAN  BY <1>4
<1>6. write_timing \in [Slots -> Int] /\ h_ptr \in Slots /\ w_ptr \in Slots
      /\ buf_bit_idx \in 0..Byte - 1 /\ gr \in 0..Granules /\ padding \in {0, 1}  BY DEF TypeOK
<1>7. totbit \in Nat /\ buf_bytes \in Nat /\ left \in Nat /\ main_bits \in Nat /\ drain_post \in Nat
         /\ main_data_begin \in Nat /\ slot_lag \in Nat  BY <1>1
<1>8. mf_size \in Nat /\ last \in Nat /\ nsamples \in Nat
         /\ mp3size \in Nat /\ frames_left \in Nat /\ flush_size \in Nat /\ mp3count \in Nat  BY <1>2
<1>9. ResvSize \in Int /\ ResvMax \in Int /\ mf_samples_to_encode \in Int /\ mp3buf_size \in Int  BY <1>3
<1>10. buf_bit_idx \in 0..7  BY <1>6, Constants
<1> QED  BY <1>5, <1>6, <1>7, <1>8, <1>9, <1>10

(* The next slot and the one before h_ptr. *)
LEMMA Around ==
  ASSUME NEW p \in Slots
  PROVE  /\ (p + 1) % HeaderBuf = IF p + 1 < HeaderBuf THEN p + 1 ELSE 0
         /\ (p + HeaderBuf - 1) % HeaderBuf = IF p = 0 THEN HeaderBuf - 1 ELSE p - 1
<1>1. p \in Nat /\ p < HeaderBuf /\ HeaderBuf \in Nat /\ HeaderBuf >= 2  BY Constants DEF Slots
<1>2. ASSUME NEW n \in Nat, NEW m \in Nat, n < HeaderBuf, m = n \/ m = n + HeaderBuf  PROVE m % HeaderBuf = n
  BY <1>1, <1>2
<1>3. (p + 1) % HeaderBuf = IF p + 1 < HeaderBuf THEN p + 1 ELSE 0
  <2>1. CASE p + 1 < HeaderBuf
    BY <2>1, <1>1
  <2>2. CASE p + 1 >= HeaderBuf
    <3>1. p + 1 = 0 + HeaderBuf  BY <2>2, <1>1
    <3>2. (p + 1) % HeaderBuf = 0  BY <3>1, <1>1, <1>2
    <3> QED  BY <3>2, <2>2, <1>1
  <2> QED  BY <2>1, <2>2, <1>1
<1>4. (p + HeaderBuf - 1) % HeaderBuf = IF p = 0 THEN HeaderBuf - 1 ELSE p - 1
  <2>1. CASE p = 0
    BY <2>1, <1>1
  <2>2. CASE p # 0
    <3>1. p + HeaderBuf - 1 = (p - 1) + HeaderBuf /\ p - 1 \in Nat /\ p - 1 < HeaderBuf /\ p + HeaderBuf - 1 \in Nat  BY <2>2, <1>1
    <3>2. (p + HeaderBuf - 1) % HeaderBuf = p - 1  BY <3>1, <1>2
    <3> QED  BY <3>2, <2>2
  <2> QED  BY <2>1, <2>2
<1> QED  BY <1>3, <1>4

(* The pending headers are those in the slots from w_ptr on. *)
LEMMA AtRing ==
  ASSUME h_ptr \in Slots, w_ptr \in Slots
  PROVE  /\ Pending \in 0..HeaderBuf - 1 /\ (Pending = 0 <=> w_ptr = h_ptr)
         /\ \A j \in 0..HeaderBuf - 1 : At(j) \in Slots
         /\ At(0) = w_ptr /\ At(Pending) = h_ptr
         /\ LastPtr \in Slots /\ LastPtr # h_ptr /\ (Pending > 0 => At(Pending - 1) = LastPtr)
<1>1. h_ptr \in Nat /\ h_ptr < HeaderBuf /\ w_ptr \in Nat /\ w_ptr < HeaderBuf /\ HeaderBuf \in Nat /\ HeaderBuf >= 2
  BY Constants DEF Slots
<1>2. LastPtr = IF h_ptr = 0 THEN HeaderBuf - 1 ELSE h_ptr - 1  BY Around DEF LastPtr
<1>3. Pending \in 0..HeaderBuf - 1 /\ (Pending = 0 <=> w_ptr = h_ptr)  BY <1>1 DEF Pending
<1>4. \A j \in 0..HeaderBuf - 1 : At(j) \in Slots  BY <1>1 DEF At, Slots
<1>5. At(0) = w_ptr /\ At(Pending) = h_ptr  BY <1>1 DEF At, Pending
<1>6. LastPtr \in Slots /\ LastPtr # h_ptr  BY <1>1, <1>2 DEF Slots
<1>7. Pending > 0 => At(Pending - 1) = LastPtr  BY <1>1, <1>2 DEF At, Pending
<1> QED  BY <1>3, <1>4, <1>5, <1>6, <1>7

(* The sizes of a frame and of its parts. *)
LEMMA FrameParts ==
  ASSUME padding \in {0, 1}
  PROVE  /\ FrameBits \in Nat /\ FrameBits = 8 * FrameSlots + 8 * padding /\ SlotBits = 8 * FrameSlots /\ SideBits = 8 * SideInfo
         /\ FrameBits >= SlotBits /\ SlotBits - SideBits >= 8 /\ SideBits >= 8
         /\ Whole = 8 * (FrameSlots + padding - SideInfo) /\ Whole \in Nat /\ Whole >= 8
         /\ MeanBits \in Nat /\ MeanBits * Granules = Whole
<1>1. Byte = 8 /\ FrameSlots \in Nat /\ SideInfo \in Nat /\ SideInfo >= 1 /\ SideInfo < FrameSlots /\ Granules \in {1, 2}  BY Constants
<1>2. FrameBits = 8 * FrameSlots + 8 * padding /\ SlotBits = 8 * FrameSlots /\ SideBits = 8 * SideInfo
  BY <1>1 DEF FrameBits, SlotBits, SideBits
<1>3. Whole = 8 * (FrameSlots + padding - SideInfo) /\ Whole = FrameBits - SideBits  BY <1>1, <1>2 DEF Whole
<1>4. MeanBits = (8 * (FrameSlots + padding - SideInfo)) \div Granules  BY <1>3 DEF MeanBits
<1>5. MeanBits \in Nat /\ MeanBits * Granules = Whole  BY <1>1, <1>3, <1>4
<1> QED  BY <1>1, <1>2, <1>3, <1>5

(* Every pending header has room for data behind it. *)
LEMMA RingRoom ==
  ASSUME TypeOK, RingInv
  PROVE  /\ Gap \in Int /\ Pending \in Nat /\ Pending < HeaderBuf
         /\ Gap >= (8 * (FrameSlots - SideInfo)) * Pending
         /\ totbit <= write_timing[h_ptr] - SlotBits * Pending
<1>1. h_ptr \in Slots /\ w_ptr \in Slots /\ write_timing \in [Slots -> Int] /\ totbit \in Nat /\ padding \in {0, 1}  BY Types
<1>2. Pending \in 0..HeaderBuf - 1 /\ At(0) = w_ptr /\ At(Pending) = h_ptr  BY <1>1, AtRing
<1>3. Pending \in Nat /\ Pending < HeaderBuf  BY <1>2, Constants
<1>4. write_timing[At(Pending)] >= write_timing[At(0)] + SlotBits * (Pending - 0)  BY <1>3 DEF RingInv, Spaced
<1>5. write_timing[h_ptr] \in Int /\ write_timing[w_ptr] \in Int  BY <1>1
<1>6. SlotBits = 8 * FrameSlots /\ SideBits = 8 * SideInfo /\ FrameSlots \in Nat /\ SideInfo \in Nat  BY <1>1, FrameParts, Constants
<1>7. totbit <= write_timing[w_ptr]  BY DEF RingInv
<1>8. totbit <= write_timing[h_ptr] - SlotBits * Pending  BY <1>1, <1>2, <1>3, <1>4, <1>5, <1>6, <1>7
<1>9. Gap = write_timing[h_ptr] - totbit - (8 * SideInfo) * Pending  BY <1>6 DEF Gap
<1>10. (8 * FrameSlots) * Pending - (8 * SideInfo) * Pending = (8 * (FrameSlots - SideInfo)) * Pending  BY <1>3, <1>6
<1>11. SlotBits * Pending \in Int /\ (8 * SideInfo) * Pending \in Int /\ SlotBits * Pending = (8 * FrameSlots) * Pending  BY <1>3, <1>6
<1>12. Gap \in Int /\ Gap >= (8 * (FrameSlots - SideInfo)) * Pending  BY <1>1, <1>5, <1>8, <1>9, <1>10, <1>11
<1> QED  BY <1>3, <1>8, <1>12

(* The ring has a free slot for the next header while the stream is not further behind than the reservoir reaches. *)
LEMMA RingNotFull ==
  ASSUME TypeOK, RingInv, Gap <= ResvLimit
  PROVE  Pending + 1 < HeaderBuf
<1>1. Gap \in Int /\ Pending \in Nat /\ Pending < HeaderBuf /\ Gap >= (8 * (FrameSlots - SideInfo)) * Pending  BY RingRoom
<1>2. Byte = 8 /\ FrameSlots \in Nat /\ SideInfo \in Nat /\ SideInfo < FrameSlots /\ HeaderBuf \in Nat /\ ResvLimit \in Nat  BY Constants
<1>3. PICK c \in Nat : c = 8 * (FrameSlots - SideInfo) /\ c >= 1  BY <1>2
<1>4. ResvLimit < (HeaderBuf - 1) * c  BY <1>2, <1>3, RingHolds DEF RingHolds
<1>5. CASE Pending + 1 >= HeaderBuf
  <2>1. Pending = HeaderBuf - 1  BY <1>1, <1>2, <1>5
  <2>2. c * Pending = (HeaderBuf - 1) * c  BY <2>1, <1>2, <1>3
  <2>3. c * Pending \in Int /\ (HeaderBuf - 1) * c \in Int  BY <1>1, <1>2, <1>3
  <2> QED  BY <1>1, <1>2, <1>3, <1>4, <2>2, <2>3
<1> QED  BY <1>1, <1>2, <1>5

(* When no data is missing, no header is. *)
LEMMA RingEmpty ==
  ASSUME TypeOK, RingInv, Gap <= 0
  PROVE  Pending = 0 /\ w_ptr = h_ptr /\ totbit = write_timing[h_ptr]
<1>1. Gap \in Int /\ Pending \in Nat /\ Gap >= (8 * (FrameSlots - SideInfo)) * Pending /\ totbit <= write_timing[h_ptr] - SlotBits * Pending  BY RingRoom
<1>2. FrameSlots \in Nat /\ SideInfo \in Nat /\ SideInfo < FrameSlots  BY Constants
<1>3. PICK c \in Nat : c = 8 * (FrameSlots - SideInfo) /\ c >= 1  BY <1>2
<1>4. c * Pending >= Pending  BY <1>1, <1>3
<1>5. Pending = 0  BY <1>1, <1>3, <1>4
<1>6. h_ptr \in Slots /\ w_ptr \in Slots /\ write_timing[h_ptr] \in Int /\ totbit \in Nat /\ padding \in {0, 1}  BY Types
<1>7. w_ptr = h_ptr  BY <1>5, <1>6, AtRing
<1>8. SideBits * 0 = 0 /\ SlotBits * 0 = 0  BY <1>6, FrameParts, <1>2
<1>9. totbit = write_timing[h_ptr]  BY <1>1, <1>5, <1>6, <1>8 DEF Gap
<1> QED  BY <1>5, <1>7, <1>9

(* Data that is missing in whole bytes: the stream ends with a whole byte. *)
LEMMA RingBytes ==
  ASSUME TypeOK, RingInv, Gap % 8 = 0
  PROVE  totbit % 8 = 0 /\ buf_bit_idx = 0
<1>1. h_ptr \in Slots /\ w_ptr \in Slots /\ write_timing[h_ptr] \in Int /\ totbit \in Nat /\ padding \in {0, 1} /\ buf_bit_idx \in 0..7  BY Types
<1>2. Pending \in Nat  BY RingRoom
<1>3. write_timing[h_ptr] % 8 = 0 /\ (totbit + buf_bit_idx) % 8 = 0  BY <1>1, Constants DEF RingInv, InBytes
<1>4. PICK n \in Int : n = SideInfo * Pending  BY <1>2, Constants
<1>5. SideBits * Pending = 8 * n  BY <1>1, <1>2, <1>4, FrameParts, Constants
<1>6. Gap = write_timing[h_ptr] - totbit - 8 * n  BY <1>5 DEF Gap
<1>7. totbit % 8 = 0  BY <1>1, <1>3, <1>4, <1>6
<1>8. buf_bit_idx = 0  BY <1>1, <1>3, <1>7
<1> QED  BY <1>7, <1>8

(* compute_flushbits finds what is missing until the last frame is full. *)
LEMMA FlushGap ==
  ASSUME TypeOK, RingInv, write_timing[h_ptr] = write_timing[LastPtr] + FrameBits,
         Pending = 0 => totbit > write_timing[LastPtr]
  PROVE  FlushBits = Gap
<1>1. h_ptr \in Slots /\ w_ptr \in Slots /\ write_timing \in [Slots -> Int] /\ totbit \in Nat /\ padding \in {0, 1}  BY Types
<1>2. Pending \in 0..HeaderBuf - 1 /\ (Pending = 0 <=> w_ptr = h_ptr) /\ At(0) = w_ptr /\ At(Pending) = h_ptr
      /\ LastPtr \in Slots /\ LastPtr # h_ptr /\ (Pending > 0 => At(Pending - 1) = LastPtr)  BY <1>1, AtRing
<1>3. HeaderBuf \in Nat /\ HeaderBuf >= 2  BY Constants
<1>4. write_timing[h_ptr] \in Int /\ write_timing[LastPtr] \in Int /\ write_timing[w_ptr] \in Int  BY <1>1, <1>2
<1>5. FrameBits \in Nat /\ SideBits \in Nat /\ SlotBits \in Nat  BY <1>1, FrameParts, Constants
<1>6. CASE Pending = 0
  <2>1. SideBits * Pending = 0  BY <1>5, <1>6
  <2>2. write_timing[LastPtr] - totbit < 0  BY <1>1, <1>4, <1>6
  <2> QED  BY <1>1, <1>4, <1>5, <2>1, <2>2 DEF FlushBits, Gap
<1>7. CASE Pending > 0
  <2>1. Pending - 1 \in 0..Pending /\ 0 \in 0..Pending /\ 0 <= Pending - 1  BY <1>2, <1>3, <1>7
  <2>2. write_timing[At(Pending - 1)] >= write_timing[At(0)] + SlotBits * ((Pending - 1) - 0)  BY <2>1 DEF RingInv, Spaced
  <2>3. SlotBits * ((Pending - 1) - 0) >= 0 /\ SlotBits * ((Pending - 1) - 0) \in Int  BY <1>2, <1>3, <1>5, <1>7
  <2>4. write_timing[LastPtr] >= write_timing[w_ptr]  BY <1>2, <1>4, <1>7, <2>2, <2>3
  <2>5. totbit <= write_timing[w_ptr]  BY DEF RingInv
  <2>6. write_timing[LastPtr] - totbit >= 0  BY <1>1, <1>4, <2>4, <2>5
  <2>7. LastPtr = IF h_ptr = 0 THEN HeaderBuf - 1 ELSE h_ptr - 1  BY <1>1, Around DEF LastPtr
  <2>8. Remaining = Pending
    BY <1>1, <1>2, <1>3, <1>7, <2>7 DEF Remaining, Pending, Slots
  <2>9. Remaining * SideBits = SideBits * Pending /\ SideBits * Pending \in Int  BY <2>8, <1>2, <1>5
  <2> QED  BY <1>1, <1>4, <1>5, <2>6, <2>9 DEF FlushBits, Gap
<1> QED  BY <1>2, <1>3, <1>6, <1>7

(* What of the ring follows when none of its variables changes. *)
LEMMA RingSame ==
  ASSUME RingInv, UNCHANGED <<totbit, buf_bit_idx, write_timing, h_ptr, w_ptr>>
  PROVE  /\ RingInv' /\ Gap' = Gap /\ Pending' = Pending /\ LastPtr' = LastPtr /\ (Begun' <=> Begun)
         /\ write_timing'[LastPtr'] = write_timing[LastPtr]
<1>1. Pending' = Pending /\ LastPtr' = LastPtr /\ \A j : At(j)' = At(j)  BY DEF Pending, LastPtr, At
<1>2. Spaced'  BY <1>1 DEF RingInv, Spaced, SlotBits
<1>3. InBytes'  BY DEF RingInv, InBytes
<1>4. (totbit <= write_timing[w_ptr])'  BY DEF RingInv
<1>5. Gap' = Gap  BY <1>1 DEF Gap, SideBits
<1>6. Begun' <=> Begun  BY <1>1 DEF Begun
<1> QED  BY <1>1, <1>2, <1>3, <1>4, <1>5, <1>6 DEF RingInv

(* The pending headers once the first is written. *)
LEMMA NextHeader ==
  ASSUME TypeOK, Pending > 0, w_ptr' = (w_ptr + 1) % HeaderBuf, h_ptr' = h_ptr
  PROVE  /\ w_ptr' \in Slots /\ Pending' = Pending - 1 /\ w_ptr' = At(1)
         /\ \A j \in 0..Pending - 1 : At(j)' = At(j + 1)
<1>1. h_ptr \in Slots /\ w_ptr \in Slots  BY Types
<1>2. Pending \in 0..HeaderBuf - 1 /\ w_ptr # h_ptr  BY <1>1, AtRing
<1>3. w_ptr' = IF w_ptr + 1 < HeaderBuf THEN w_ptr + 1 ELSE 0  BY <1>1, Around
<1>4. h_ptr \in Nat /\ h_ptr < HeaderBuf /\ w_ptr \in Nat /\ w_ptr < HeaderBuf /\ HeaderBuf \in Nat /\ HeaderBuf >= 2
  BY <1>1, Constants DEF Slots
<1>5. w_ptr' \in Slots  BY <1>3, <1>4 DEF Slots
<1>6. Pending' = Pending - 1  BY <1>2, <1>3, <1>4 DEF Pending
<1>7. w_ptr' = At(1)  BY <1>3, <1>4 DEF At
<1>8. ASSUME NEW j \in 0..Pending - 1  PROVE At(j)' = At(j + 1)
  BY <1>2, <1>3, <1>4 DEF At
<1> QED  BY <1>5, <1>6, <1>7, <1>8

(* putbits2: the stream reaches a header's place only to write that header. *)
LEMMA PutBitsRing ==
  ASSUME TypeOK, RingInv, PutBits, Gap - left >= 0
  PROVE  /\ RingInv' /\ Gap' - left' = Gap - left /\ Gap' \in Int /\ totbit' > totbit
         /\ totbit' \in Nat /\ buf_bytes' \in Nat /\ left' \in Nat /\ buf_bit_idx' \in 0..7 /\ w_ptr' \in Slots
         /\ LastPtr' = LastPtr /\ (Begun' <=> Begun) /\ write_timing' = write_timing /\ h_ptr' = h_ptr
         /\ (Pending' = 0 => Pending = 0 \/ (w_ptr = LastPtr /\ totbit' > write_timing[LastPtr]))
<1> DEFINE fresh  == buf_bit_idx = 0
           header == fresh /\ write_timing[w_ptr] = totbit
<1>1. h_ptr \in Slots /\ w_ptr \in Slots /\ write_timing \in [Slots -> Int] /\ totbit \in Nat /\ padding \in {0, 1}
      /\ buf_bit_idx \in 0..7 /\ left \in Nat /\ buf_bytes \in Nat  BY Types
<1>2. PICK idx \in 1..8 : idx = (IF fresh THEN 8 ELSE buf_bit_idx)  BY <1>1
<1>3. PICK k \in 1..8 : k = Least(left, idx) /\ k <= idx /\ k <= left  BY <1>1, <1>2 DEF PutBits, Least
<1>4. /\ left > 0 /\ left' = left - k /\ buf_bit_idx' = idx - k
      /\ totbit' = totbit + k + (IF header THEN SideBits ELSE 0)
      /\ buf_bytes' = buf_bytes + (IF fresh THEN 1 ELSE 0) + (IF header THEN SideInfo ELSE 0)
      /\ w_ptr' = (IF header THEN (w_ptr + 1) % HeaderBuf ELSE w_ptr)
      /\ UNCHANGED <<pc, headers, padding>>
  <2>1. Byte = 8  BY Constants
  <2> QED  BY <1>2, <1>3, <2>1 DEF PutBits, pad
<1>5. write_timing' = write_timing /\ h_ptr' = h_ptr /\ LastPtr' = LastPtr /\ (Begun' <=> Begun)
  BY <1>4 DEF headers, LastPtr, Begun
<1>6. SideBits \in Nat /\ SideBits >= 8 /\ SlotBits \in Nat /\ SlotBits - SideBits >= 8 /\ SideInfo \in Nat
      /\ SideBits % 8 = 0  BY <1>1, FrameParts, Constants
<1>7. totbit' \in Nat /\ totbit' > totbit /\ buf_bytes' \in Nat /\ left' \in Nat /\ buf_bit_idx' \in 0..7
  BY <1>1, <1>2, <1>3, <1>4, <1>6
<1>8. write_timing[w_ptr] \in Int /\ write_timing[w_ptr] % 8 = 0 /\ (totbit + buf_bit_idx) % 8 = 0 /\ totbit <= write_timing[w_ptr]
  BY <1>1, Constants DEF RingInv, InBytes
<1>9. (totbit' + buf_bit_idx') % 8 = 0
  <2>1. (totbit + idx) % 8 = 0
    BY <1>1, <1>2, <1>8
  <2>2. CASE header
    <3>1. totbit' + buf_bit_idx' = totbit + idx + 8 * SideInfo  BY <2>2, <1>1, <1>2, <1>3, <1>4, FrameParts, Constants
    <3> QED  BY <2>1, <3>1, <1>1, <1>2, <1>6
  <2>3. CASE ~header
    <3>1. totbit' + buf_bit_idx' = totbit + idx  BY <2>3, <1>1, <1>2, <1>3, <1>4
    <3> QED  BY <2>1, <3>1
  <2> QED  BY <2>2, <2>3
<1>10. InBytes'
  BY <1>5, <1>9, Constants DEF RingInv, InBytes
<1>11. Pending \in Nat /\ Pending < HeaderBuf /\ Gap \in Int /\ HeaderBuf \in Nat  BY RingRoom, Constants
<1>12. CASE header
  <2>1. Pending > 0
    <3>1. CASE Pending = 0
      <4>1. w_ptr = h_ptr  BY <3>1, <1>1, AtRing
      <4>2. SideBits * Pending = 0  BY <3>1, <1>6
      <4>3. Gap = 0  BY <1>12, <4>1, <4>2, <1>1, <1>8 DEF Gap
      <4> QED  BY <4>3, <1>1, <1>4
    <3> QED  BY <3>1, <1>11
  <2>2. w_ptr' = (w_ptr + 1) % HeaderBuf  BY <1>4, <1>12
  <2>3. /\ w_ptr' \in Slots /\ Pending' = Pending - 1 /\ w_ptr' = At(1)
        /\ \A j \in 0..Pending - 1 : At(j)' = At(j + 1)  BY <2>1, <2>2, <1>5, NextHeader
  <2>4. totbit' = write_timing[w_ptr] + k + SideBits /\ totbit = write_timing[w_ptr]  BY <1>4, <1>12, <1>1
  <2>5. totbit' <= write_timing'[w_ptr']
    <3>1. 0 \in 0..Pending /\ 1 \in 0..Pending /\ 0 <= 1  BY <2>1, <1>11
    <3>2. write_timing[At(1)] >= write_timing[At(0)] + SlotBits * (1 - 0)  BY <3>1 DEF RingInv, Spaced
    <3>3. write_timing[At(1)] >= write_timing[w_ptr] + SlotBits
      <4>1. SlotBits * (1 - 0) = SlotBits  BY <1>6
      <4>2. At(0) = w_ptr  BY <1>1, AtRing
      <4> QED  BY <3>2, <4>1, <4>2
    <3>4. write_timing[At(1)] \in Int  BY <2>3, <1>1
    <3> QED  BY <3>3, <3>4, <2>3, <2>4, <1>3, <1>5, <1>6, <1>8
  <2>6. Spaced'
    <3>1. SUFFICES ASSUME NEW i \in 0..Pending', NEW j \in 0..Pending', i <= j
                   PROVE  write_timing'[At(j)'] >= write_timing'[At(i)'] + SlotBits * (j - i)
      BY DEF Spaced, SlotBits
    <3>2. i + 1 \in 0..Pending /\ j + 1 \in 0..Pending /\ i + 1 <= j + 1 /\ i \in 0..Pending - 1 /\ j \in 0..Pending - 1  BY <2>1, <2>3, <3>1, <1>11
    <3>3. write_timing[At(j + 1)] >= write_timing[At(i + 1)] + SlotBits * ((j + 1) - (i + 1))  BY <3>2 DEF RingInv, Spaced
    <3>4. (j + 1) - (i + 1) = j - i  BY <3>2, <1>11
    <3>5. At(i)' = At(i + 1) /\ At(j)' = At(j + 1)  BY <3>2, <2>3
    <3> QED  BY <3>3, <3>4, <3>5, <1>5
  <2>7. Gap' - left' = Gap - left /\ Gap' \in Int
    <3>1. Gap' = write_timing[h_ptr] - totbit' - SideBits * (Pending - 1)  BY <1>5, <2>3, <1>6 DEF Gap, SideBits
    <3>2. SideBits * (Pending - 1) = SideBits * Pending - SideBits /\ SideBits * Pending \in Int  BY <1>6, <1>11
    <3>3. write_timing[h_ptr] \in Int  BY <1>1
    <3> QED  BY <3>1, <3>2, <3>3, <2>4, <1>1, <1>3, <1>4, <1>6 DEF Gap
  <2>8. Pending' = 0 => w_ptr = LastPtr /\ totbit' > write_timing[LastPtr]
    <3>1. ASSUME Pending' = 0  PROVE w_ptr = LastPtr
      <4>1. Pending - 1 = 0  BY <3>1, <2>3, <1>11
      <4> QED  BY <4>1, <2>1, <1>1, AtRing
    <3> QED  BY <3>1, <2>4, <1>3, <1>6, <1>8
  <2> QED  BY <1>5, <1>7, <1>10, <2>3, <2>5, <2>6, <2>7, <2>8 DEF RingInv
<1>13. CASE ~header
  <2>1. w_ptr' = w_ptr /\ totbit' = totbit + k  BY <1>4, <1>13, <1>1, <1>3
  <2>2. Pending' = Pending /\ \A j : At(j)' = At(j)  BY <2>1, <1>5 DEF Pending, At
  <2>3. totbit' <= write_timing'[w_ptr']
    <3>1. CASE fresh
      <4>1. totbit < write_timing[w_ptr] /\ totbit % 8 = 0  BY <3>1, <1>13, <1>8, <1>1
      <4>2. totbit + 8 <= write_timing[w_ptr]  BY <4>1, <1>1, <1>8
      <4> QED  BY <4>2, <2>1, <1>1, <1>3, <1>5, <1>8
    <3>2. CASE ~fresh
      <4>1. idx = buf_bit_idx /\ buf_bit_idx > 0 /\ buf_bit_idx < 8  BY <3>2, <1>1, <1>2
      <4>2. totbit + buf_bit_idx <= write_timing[w_ptr]  BY <4>1, <1>1, <1>8
      <4> QED  BY <4>1, <4>2, <2>1, <1>1, <1>3, <1>5, <1>8
    <3> QED  BY <3>1, <3>2
  <2>4. Spaced'  BY <2>2, <1>5 DEF RingInv, Spaced, SlotBits
  <2>5. Gap' - left' = Gap - left /\ Gap' \in Int
    <3>1. Gap' = write_timing[h_ptr] - totbit' - SideBits * Pending  BY <1>5, <2>2 DEF Gap, SideBits
    <3>2. SideBits * Pending \in Int /\ write_timing[h_ptr] \in Int  BY <1>6, <1>11, <1>1
    <3> QED  BY <3>1, <3>2, <2>1, <1>1, <1>3, <1>4 DEF Gap
  <2> QED  BY <1>1, <1>5, <1>7, <1>10, <2>1, <2>2, <2>3, <2>4, <2>5 DEF RingInv
<1> QED  BY <1>12, <1>13

(* encodeSideInfo2: the next header gets its place, a frame behind the last. *)
LEMMA HeaderRing ==
  ASSUME TypeOK, RingInv, EncodeSideInfo, Gap <= ResvLimit
  PROVE  /\ RingInv' /\ Gap' = Gap + Whole /\ Pending' = Pending + 1 /\ Pending \in Nat
         /\ h_ptr' \in Slots /\ write_timing' \in [Slots -> Int]
         /\ write_timing'[h_ptr'] = write_timing'[LastPtr'] + FrameBits /\ Begun'
<1>1. h_ptr \in Slots /\ w_ptr \in Slots /\ write_timing \in [Slots -> Int] /\ totbit \in Nat /\ padding \in {0, 1}  BY Types
<1>2. PICK next : next = (h_ptr + 1) % HeaderBuf /\ h_ptr' = next
                  /\ write_timing' = [write_timing EXCEPT ![next] = write_timing[h_ptr] + FrameBits]
  BY DEF EncodeSideInfo
<1>3. totbit' = totbit /\ w_ptr' = w_ptr /\ buf_bit_idx' = buf_bit_idx /\ padding' = padding  BY DEF EncodeSideInfo, stream, pad
<1>4. next = IF h_ptr + 1 < HeaderBuf THEN h_ptr + 1 ELSE 0  BY <1>1, <1>2, Around
<1>5. h_ptr \in Nat /\ h_ptr < HeaderBuf /\ w_ptr \in Nat /\ w_ptr < HeaderBuf /\ HeaderBuf \in Nat /\ HeaderBuf >= 2
  BY <1>1, Constants DEF Slots
<1>6. next \in Slots /\ next # h_ptr  BY <1>4, <1>5 DEF Slots
<1>7. Pending + 1 < HeaderBuf /\ Pending \in Nat  BY RingNotFull, RingRoom
<1>8. FrameBits \in Nat /\ SideBits \in Nat /\ SlotBits \in Nat /\ FrameBits >= SlotBits /\ FrameBits >= 8 /\ FrameBits % 8 = 0
      /\ Whole = FrameBits - SideBits
  BY <1>1, FrameParts, Constants DEF Whole
<1>9. /\ Pending \in 0..HeaderBuf - 1 /\ (Pending = 0 <=> w_ptr = h_ptr)
      /\ At(Pending) = h_ptr /\ (\A j \in 0..HeaderBuf - 1 : At(j) \in Slots)
  BY <1>1, AtRing
<1>10. Pending' = Pending + 1  BY <1>2, <1>3, <1>4, <1>5, <1>7 DEF Pending
<1>11. \A j : At(j)' = At(j)  BY <1>3 DEF At
<1>12. At(Pending + 1) = next  BY <1>4, <1>5, <1>7 DEF At, Pending
<1>13. ASSUME NEW j \in 0..Pending  PROVE At(j) # next /\ At(j) \in Slots
  <2>1. At(j) \in Slots
    <3>1. j \in 0..HeaderBuf - 1  BY <1>5, <1>7
    <3> QED  BY <3>1, <1>9
  <2>2. At(j) # next  BY <1>12, <1>5, <1>7, <1>13 DEF At
  <2> QED  BY <2>1, <2>2
<1>14. write_timing' \in [Slots -> Int] /\ write_timing'[next] = write_timing[h_ptr] + FrameBits
       /\ \A p \in Slots : p # next => write_timing'[p] = write_timing[p]
  BY <1>1, <1>2, <1>6, <1>8
<1>15. Spaced'
  <2>1. SUFFICES ASSUME NEW i \in 0..Pending + 1, NEW j \in 0..Pending + 1, i <= j
                 PROVE  write_timing'[At(j)] >= write_timing'[At(i)] + SlotBits * (j - i)
    BY <1>10, <1>11 DEF Spaced, SlotBits
  <2>2. i \in Nat /\ j \in Nat  BY <1>7
  <2>3. CASE j <= Pending
    <3>1. i \in 0..Pending /\ j \in 0..Pending  BY <2>1, <2>2, <2>3, <1>7
    <3>2. write_timing'[At(j)] = write_timing[At(j)] /\ write_timing'[At(i)] = write_timing[At(i)]  BY <3>1, <1>13, <1>14
    <3> QED  BY <2>1, <3>1, <3>2 DEF RingInv, Spaced
  <2>4. CASE j = Pending + 1 /\ i <= Pending
    <3>1. i \in 0..Pending /\ Pending \in 0..Pending  BY <2>2, <2>4, <1>7
    <3>2. write_timing[h_ptr] >= write_timing[At(i)] + SlotBits * (Pending - i)  BY <3>1, <1>9 DEF RingInv, Spaced
    <3>3. write_timing'[At(j)] = write_timing[h_ptr] + FrameBits /\ write_timing'[At(i)] = write_timing[At(i)]
      BY <2>4, <3>1, <1>12, <1>13, <1>14
    <3>4. SlotBits * (j - i) = SlotBits * (Pending - i) + SlotBits /\ SlotBits * (Pending - i) \in Int  BY <2>2, <2>4, <1>7, <1>8
    <3>5. write_timing[h_ptr] \in Int /\ write_timing[At(i)] \in Int  BY <1>1, <1>13, <3>1
    <3> QED  BY <3>2, <3>3, <3>4, <3>5, <1>8
  <2>5. CASE j = Pending + 1 /\ i = Pending + 1
    <3>1. SlotBits * (j - i) = 0  BY <2>5, <1>7, <1>8
    <3>2. write_timing'[At(j)] \in Int /\ write_timing'[At(i)] = write_timing'[At(j)]  BY <2>5, <1>6, <1>12, <1>14
    <3> QED  BY <3>1, <3>2
  <2> QED  BY <2>1, <2>2, <2>3, <2>4, <2>5, <1>7
<1>16. InBytes'
  <2>1. (totbit' + buf_bit_idx') % Byte = 0  BY <1>3 DEF RingInv, InBytes
  <2>2. ASSUME NEW p \in Slots  PROVE write_timing'[p] % Byte = 0
    <3>1. CASE p = next
      <4>1. write_timing[h_ptr] % 8 = 0 /\ write_timing[h_ptr] \in Int  BY <1>1, Constants DEF RingInv, InBytes
      <4>2. (write_timing[h_ptr] + FrameBits) % 8 = 0  BY <4>1, <1>8
      <4> QED  BY <3>1, <4>2, <1>14, Constants
    <3>2. CASE p # next
      BY <3>2, <1>14 DEF RingInv, InBytes
    <3> QED  BY <3>1, <3>2
  <2> QED  BY <2>1, <2>2 DEF InBytes
<1>17. (totbit <= write_timing[w_ptr])'
  <2>1. w_ptr # next  BY <1>7, <1>13, <1>9, AtRing, <1>1
  <2> QED  BY <2>1, <1>1, <1>3, <1>14 DEF RingInv
<1>18. Gap' = Gap + Whole
  <2>1. Gap' = write_timing[h_ptr] + FrameBits - totbit - SideBits * (Pending + 1)
    <3>1. Gap' = write_timing'[h_ptr'] - totbit' - SideBits * Pending'
      <4>1. SideBits' = SideBits  BY DEF SideBits
      <4> QED  BY <4>1 DEF Gap
    <3>2. write_timing'[h_ptr'] = write_timing[h_ptr] + FrameBits  BY <1>2, <1>14
    <3>3. PICK s \in Int : s = SideBits * (Pending + 1)  BY <1>7, <1>8
    <3>4. write_timing[h_ptr] \in Int  BY <1>1
    <3>5. Gap' = write_timing'[h_ptr'] - totbit - s  BY <3>1, <3>3, <1>3, <1>10
    <3> QED  BY <3>2, <3>3, <3>4, <3>5, <1>1, <1>8
  <2>2. SideBits * (Pending + 1) = SideBits * Pending + SideBits /\ SideBits * Pending \in Int /\ write_timing[h_ptr] \in Int
    BY <1>1, <1>7, <1>8
  <2> QED  BY <2>1, <2>2, <1>1, <1>8 DEF Gap
<1>19. LastPtr' = h_ptr
  <2>1. LastPtr' = (next + HeaderBuf - 1) % HeaderBuf  BY <1>2 DEF LastPtr
  <2>2. LastPtr' = IF next = 0 THEN HeaderBuf - 1 ELSE next - 1  BY <2>1, <1>6, Around
  <2> QED  BY <2>2, <1>4, <1>5
<1>20. write_timing'[h_ptr'] = write_timing'[LastPtr'] + FrameBits /\ Begun'
  <2>1. write_timing'[LastPtr'] = write_timing[h_ptr]  BY <1>19, <1>14, <1>6, <1>1
  <2>2. write_timing[h_ptr] \in Int  BY <1>1
  <2> QED  BY <2>1, <2>2, <1>14, <1>2, <1>8 DEF Begun
<1> QED  BY <1>2, <1>6, <1>7, <1>10, <1>14, <1>15, <1>16, <1>17, <1>18, <1>20 DEF RingInv

(* When the stream is counted from its own end again, all places move with it. *)
LEMMA ShiftRing ==
  ASSUME TypeOK, RingInv, totbit % 8 = 0, buf_bit_idx' = buf_bit_idx,
         UNCHANGED <<w_ptr, h_ptr>>,
         \/ totbit' = 0 /\ write_timing' = [p \in Slots |-> write_timing[p] - totbit]
         \/ UNCHANGED <<totbit, write_timing>>
  PROVE  /\ RingInv' /\ Gap' = Gap /\ Pending' = Pending /\ (Begun' <=> Begun)
         /\ totbit' \in Nat /\ write_timing' \in [Slots -> Int]
         /\ (write_timing[h_ptr] = write_timing[LastPtr] + FrameBits => write_timing'[h_ptr'] = write_timing'[LastPtr'] + FrameBits)
         /\ (totbit > write_timing[LastPtr] => totbit' > write_timing'[LastPtr'])
<1>1. h_ptr \in Slots /\ w_ptr \in Slots /\ write_timing \in [Slots -> Int] /\ totbit \in Nat /\ padding \in {0, 1} /\ buf_bit_idx \in 0..7  BY Types
<1>2. Pending' = Pending /\ LastPtr' = LastPtr /\ \A j : At(j)' = At(j)  BY DEF Pending, LastPtr, At
<1>3. CASE UNCHANGED <<totbit, write_timing>>
  BY <1>1, <1>2, <1>3, RingSame
<1>4. CASE totbit' = 0 /\ write_timing' = [p \in Slots |-> write_timing[p] - totbit]
  <2>1. write_timing' \in [Slots -> Int] /\ \A p \in Slots : write_timing'[p] = write_timing[p] - totbit  BY <1>1, <1>4
  <2>2. LastPtr \in Slots /\ Pending \in 0..HeaderBuf - 1 /\ HeaderBuf \in Nat /\ \A j \in 0..HeaderBuf - 1 : At(j) \in Slots  BY <1>1, AtRing, Constants
  <2>3. write_timing[h_ptr] \in Int /\ write_timing[LastPtr] \in Int /\ write_timing[w_ptr] \in Int  BY <1>1, <2>2
  <2>4. FrameBits \in Nat /\ SideBits \in Nat /\ SlotBits \in Nat  BY <1>1, FrameParts, Constants
  <2>5. Spaced'
    <3>1. SUFFICES ASSUME NEW i \in 0..Pending, NEW j \in 0..Pending, i <= j
                   PROVE  write_timing'[At(j)] >= write_timing'[At(i)] + SlotBits * (j - i)
      BY <1>2 DEF Spaced, SlotBits
    <3>2. write_timing[At(j)] >= write_timing[At(i)] + SlotBits * (j - i)  BY <3>1 DEF RingInv, Spaced
    <3>3. At(i) \in Slots /\ At(j) \in Slots /\ SlotBits * (j - i) \in Int  BY <2>2, <2>4
    <3>4. write_timing[At(i)] \in Int /\ write_timing[At(j)] \in Int  BY <1>1, <3>3
    <3> QED  BY <1>1, <2>1, <3>2, <3>3, <3>4
  <2>6. InBytes'
    <3>1. (totbit' + buf_bit_idx') % 8 = 0
      <4>1. (totbit + buf_bit_idx) % 8 = 0  BY Constants DEF RingInv, InBytes
      <4>2. buf_bit_idx = 0  BY <4>1, <1>1
      <4> QED  BY <4>2, <1>4
    <3>2. ASSUME NEW p \in Slots  PROVE write_timing'[p] % 8 = 0
      <4>1. write_timing[p] % 8 = 0 /\ write_timing[p] \in Int  BY <1>1, Constants DEF RingInv, InBytes
      <4> QED  BY <4>1, <2>1, <1>1
    <3> QED  BY <3>1, <3>2, Constants DEF InBytes
  <2>7. (totbit <= write_timing[w_ptr])'  BY <1>1, <1>4, <2>1, <2>3 DEF RingInv
  <2>8. Gap' = Gap
    <3>1. PICK s \in Int : s = SideBits * Pending  BY <2>2, <2>4
    <3>2. Gap' = write_timing'[h_ptr] - totbit' - s  BY <3>1, <1>2 DEF Gap, SideBits
    <3>3. Gap = write_timing[h_ptr] - totbit - s  BY <3>1 DEF Gap
    <3>4. write_timing'[h_ptr] = write_timing[h_ptr] - totbit /\ totbit' = 0  BY <1>1, <1>4, <2>1
    <3> QED  BY <3>1, <3>2, <3>3, <3>4, <1>1, <2>3
  <2>9. Begun' <=> Begun  BY <1>1, <1>2, <2>1, <2>2, <2>3 DEF Begun
  <2>10. write_timing'[h_ptr'] = write_timing[h_ptr] - totbit /\ write_timing'[LastPtr'] = write_timing[LastPtr] - totbit
    BY <1>1, <1>2, <2>1, <2>2
  <2> QED  BY <1>1, <1>2, <1>4, <2>1, <2>3, <2>4, <2>5, <2>6, <2>7, <2>8, <2>9, <2>10 DEF RingInv
<1> QED  BY <1>3, <1>4

(* Between frames only buf_bit_idx can change, and that to the 0 it is. *)
LEMMA RestKeepsBits ==
  ASSUME TypeOK, RingInv, ResvInv,
         pc \in {"idle", "fill", "begin", "flush", "broken"}, pc' \in {"idle", "fill", "begin", "flush", "broken"},
         UNCHANGED <<totbit, w_ptr, write_timing, h_ptr, left, ResvSize, ResvMax, main_data_begin>>,
         buf_bit_idx' = 0 \/ buf_bit_idx' = buf_bit_idx
  PROVE  /\ RingInv' /\ ResvInv' /\ buf_bit_idx' = buf_bit_idx /\ Pending' = Pending /\ LastPtr' = LastPtr /\ (Begun' <=> Begun)
         /\ write_timing'[LastPtr'] = write_timing[LastPtr]
<1>1. left = 0 /\ Gap = ResvSize /\ ResvSize = Byte * main_data_begin /\ ResvSize <= ResvLimit  BY DEF ResvInv, Resting
<1>2. main_data_begin \in Nat  BY Types
<1>3. Gap % 8 = 0  BY <1>1, <1>2, Constants
<1>4. buf_bit_idx' = buf_bit_idx  BY <1>3, RingBytes
<1>5. RingInv' /\ Gap' = Gap /\ Pending' = Pending /\ LastPtr' = LastPtr /\ (Begun' <=> Begun) /\ write_timing'[LastPtr'] = write_timing[LastPtr]
  BY <1>4, RingSame
<1>6. Resting'  BY <1>1, <1>5 DEF Resting
<1>7. Dividing' /\ Formatting'  BY DEF Dividing, Formatting
<1>8. Limits'  BY DEF ResvInv, Limits
<1> QED  BY <1>4, <1>5, <1>6, <1>7, <1>8 DEF ResvInv

(* ResvFrameBegin: how large the reservoir may get. *)
LEMMA BeginFrameBits ==
  ASSUME TypeOK, RingInv, ResvInv, BeginFrame
  PROVE  /\ RingInv' /\ ResvInv' /\ padding' \in {0, 1} /\ slot_lag' \in Nat /\ ResvMax' \in Int
         /\ Pending' = Pending /\ LastPtr' = LastPtr /\ (Begun' <=> Begun) /\ write_timing'[LastPtr'] = write_timing[LastPtr]
<1>1. pc = "begin" /\ pc' = "granule" /\ gr' = 0 /\ main_bits' = 0
      /\ UNCHANGED <<totbit, buf_bit_idx, w_ptr, write_timing, h_ptr, left, ResvSize, main_data_begin>>
  BY DEF BeginFrame, stream, headers
<1>2. RingInv' /\ Gap' = Gap /\ Pending' = Pending /\ LastPtr' = LastPtr /\ (Begun' <=> Begun) /\ write_timing'[LastPtr'] = write_timing[LastPtr]
  BY <1>1, RingSame
<1>3. left = 0 /\ Gap = ResvSize /\ ResvSize = Byte * main_data_begin /\ ResvSize <= ResvLimit  BY <1>1 DEF ResvInv, Resting
<1>4. main_data_begin \in Nat /\ slot_lag \in Nat  BY Types
<1>5. /\ padding' = (IF slot_lag - FracSpF < 0 THEN 1 ELSE 0)
      /\ slot_lag' = (IF slot_lag - FracSpF < 0 THEN slot_lag - FracSpF + OutRate ELSE slot_lag - FracSpF)
      /\ ResvMax' = Greatest(Least(MaxMp3Buf - Byte * (FrameSlots + padding'), ResvLimit), 0)
  BY DEF BeginFrame
<1>6. padding' \in {0, 1} /\ slot_lag' \in Nat  BY <1>4, <1>5, Constants
<1>7. ResvLimit % 8 = 0 /\ MaxMp3Buf % 8 = 0 /\ ResvLimit \in Nat /\ MaxMp3Buf \in Nat /\ Byte = 8 /\ FrameSlots \in Nat
  BY Constants, FormatHolds DEF FormatHolds
<1>8. (MaxMp3Buf - 8 * (FrameSlots + padding')) % 8 = 0 /\ MaxMp3Buf - 8 * (FrameSlots + padding') \in Int
  <2>1. PICK p \in {0, 1} : padding' = p  BY <1>6
  <2>2. PICK n \in Nat : n = FrameSlots + p  BY <1>7
  <2>3. (MaxMp3Buf - 8 * n) % 8 = 0 /\ MaxMp3Buf - 8 * n \in Int  BY <1>7, <2>2
  <2> QED  BY <2>1, <2>2, <2>3
<1>9. ResvMax' \in Int /\ ResvMax' <= ResvLimit /\ ResvMax' >= 0 /\ ResvMax' % 8 = 0  BY <1>5, <1>7, <1>8 DEF Greatest, Least
<1>10. PICK m \in Nat : MeanBits' = m
  <2>1. PICK p \in {0, 1} : padding' = p  BY <1>6
  <2>2. PICK n \in Nat : n = FrameSlots + p - SideInfo  BY Constants
  <2>3. FrameBits' - SideBits' = 8 * n  BY <2>1, <2>2, Constants DEF FrameBits, SideBits
  <2>4. MeanBits' = (8 * n) \div Granules  BY <2>3 DEF MeanBits
  <2>5. (8 * n) \div Granules \in Nat  BY Constants
  <2> QED  BY <2>4, <2>5
<1>11. Limits'  BY <1>9, <1>7 DEF Limits
<1>12. 0 * MeanBits' = 0  BY <1>10
<1>13. Dividing'  BY <1>1, <1>2, <1>3, <1>4, <1>7, <1>12 DEF Dividing
<1>14. Resting' /\ Formatting'  BY <1>1 DEF Resting, Formatting
<1> QED  BY <1>2, <1>6, <1>9, <1>11, <1>13, <1>14 DEF ResvInv

(* ResvMaxBits: no granule gets more than its share and what has been saved. *)
LEMMA TargetBound ==
  ASSUME TypeOK, ResvInv, Saved \in Nat
  PROVE  Target \in Int /\ Target <= MeanBits + Saved
<1>1. MeanBits \in Nat /\ ResvMax \in Int /\ ResvMax >= 0 /\ ChannelMax \in Nat
  <2>1. padding \in {0, 1} /\ ResvMax \in Int  BY Types
  <2> QED  BY <2>1, FrameParts, Constants DEF ResvInv, Limits
<1>2. AlmostFull \in Int /\ AlmostFull >= 0 /\ AlmostFull <= Saved
      /\ (10 * Saved > 9 * ResvMax \/ AlmostFull = 0)
  BY <1>1 DEF AlmostFull
<1>3. Usual \in Int /\ Usual <= MeanBits + AlmostFull  BY <1>1, <1>2 DEF Usual
<1>4. Extra \in Int /\ Extra + AlmostFull <= Saved
  BY <1>1, <1>2 DEF Extra, Greatest, Least
<1>5. PICK u \in Int : u = Least(ChannelMax, Usual) /\ u <= Usual  BY <1>1, <1>3 DEF Least
<1>6. PICK e \in Int : e = Least(Extra, (3 * MeanBits) \div 4) /\ e <= Extra  BY <1>1, <1>4 DEF Least
<1>7. PICK r \in Int : r = Least(e, ChannelMax - u) /\ r <= e  BY <1>1, <1>5, <1>6 DEF Least
<1>8. Target = u + r  BY <1>5, <1>6, <1>7 DEF Target
<1> QED  BY <1>1, <1>2, <1>3, <1>4, <1>5, <1>6, <1>7, <1>8

(* The bits of a granule come from its share and the reservoir. *)
LEMMA GranuleBits ==
  ASSUME TypeOK, RingInv, ResvInv, Granule
  PROVE  /\ RingInv' /\ ResvInv' /\ gr' \in 0..Granules /\ main_bits' \in Nat /\ ResvSize' \in Int
         /\ Pending' = Pending /\ LastPtr' = LastPtr /\ (Begun' <=> Begun) /\ write_timing'[LastPtr'] = write_timing[LastPtr]
<1>1. pc = "granule" /\ pc' = "granule" /\ gr < Granules /\ gr' = gr + 1
      /\ UNCHANGED <<totbit, buf_bit_idx, w_ptr, write_timing, h_ptr, left, ResvMax, main_data_begin, padding>>
  BY DEF Granule, stream, headers, pad
<1>2. RingInv' /\ Gap' = Gap /\ Pending' = Pending /\ LastPtr' = LastPtr /\ (Begun' <=> Begun) /\ write_timing'[LastPtr'] = write_timing[LastPtr]
  BY <1>1, RingSame
<1>3. left = 0 /\ Gap = Byte * main_data_begin /\ Gap <= ResvLimit /\ ResvSize + main_bits = Gap /\ ResvSize + gr * MeanBits >= 0
  BY <1>1 DEF ResvInv, Dividing
<1>4. gr \in Nat /\ padding \in {0, 1} /\ main_bits \in Nat /\ ResvSize \in Int /\ main_data_begin \in Nat /\ gr \in 0..Granules  BY Types, Constants
<1>5. MeanBits \in Nat  BY <1>4, FrameParts
<1>6. PICK n \in Lengths : ResvSize' = ResvSize - n /\ main_bits' = main_bits + n  BY DEF Granule
<1>7. Saved \in Nat /\ Saved = ResvSize + gr * MeanBits  BY <1>3, <1>4, <1>5 DEF Saved
<1>8. Target \in Int /\ Target <= MeanBits + Saved  BY <1>7, TargetBound
<1>9. n \in Nat /\ n <= MeanBits + Saved
  <2>1. Short \subseteq Nat  BY InputsNat DEF InputsNat
  <2>2. CASE n = 0
    BY <2>2, <1>5, <1>7
  <2>3. CASE n # 0
    <3>1. PICK s \in Short : s <= Target /\ n = Target - s  BY <2>3, <1>6 DEF Lengths
    <3> QED  BY <2>1, <3>1, <1>5, <1>7, <1>8
  <2> QED  BY <2>2, <2>3
<1>10. MeanBits' = MeanBits  BY <1>1 DEF MeanBits, FrameBits, SideBits
<1>11. gr' * MeanBits' = gr * MeanBits + MeanBits /\ gr * MeanBits \in Int  BY <1>1, <1>4, <1>5, <1>10
<1>12. ResvSize' + gr' * MeanBits' >= 0  BY <1>4, <1>5, <1>6, <1>7, <1>9, <1>11
<1>13. ResvSize' + main_bits' = Gap  BY <1>3, <1>4, <1>6, <1>9
<1>14. Dividing'  BY <1>1, <1>2, <1>3, <1>12, <1>13 DEF Dividing
<1>15. Resting' /\ Formatting' /\ Limits'  BY <1>1 DEF ResvInv, Resting, Formatting, Limits
<1>16. gr' \in 0..Granules  BY <1>1, <1>4, Constants
<1> QED  BY <1>2, <1>4, <1>6, <1>9, <1>14, <1>15, <1>16 DEF ResvInv

(* ResvFrameEnd: what is left over fits the reservoir in whole bytes once the rest is stuffing. *)
LEMMA FrameEndBits ==
  ASSUME TypeOK, RingInv, ResvInv, ResvFrameEnd
  PROVE  /\ RingInv' /\ ResvInv' /\ ResvSize' \in Int /\ main_data_begin' \in Nat /\ drain_post' \in Nat /\ left' \in Nat
         /\ Pending' = Pending /\ LastPtr' = LastPtr /\ (Begun' <=> Begun) /\ write_timing'[LastPtr'] = write_timing[LastPtr]
<1>1. pc = "granule" /\ pc' = "pre" /\ gr = Granules
      /\ UNCHANGED <<totbit, buf_bit_idx, w_ptr, write_timing, h_ptr, ResvMax, padding, main_bits>>
  BY DEF ResvFrameEnd, stream, headers, pad, part
<1>2. RingInv' /\ Gap' = Gap /\ Pending' = Pending /\ LastPtr' = LastPtr /\ (Begun' <=> Begun) /\ write_timing'[LastPtr'] = write_timing[LastPtr]
  BY <1>1, RingSame
<1>3. left = 0 /\ Gap = 8 * main_data_begin /\ Gap <= ResvLimit /\ ResvSize + main_bits = Gap /\ ResvSize + Granules * MeanBits >= 0
  BY <1>1, Constants DEF ResvInv, Dividing
<1>4. padding \in {0, 1} /\ main_bits \in Nat /\ ResvSize \in Int /\ main_data_begin \in Nat /\ ResvMax \in Int  BY Types
<1>5. MeanBits \in Nat /\ MeanBits * Granules = Whole /\ Whole \in Nat /\ Granules \in {1, 2}  BY <1>4, FrameParts, Constants
<1>6. ResvMax >= 0 /\ ResvMax % 8 = 0 /\ ResvMax <= ResvLimit  BY Constants DEF ResvInv, Limits
<1>7. PICK size \in Nat : size = ResvSize + MeanBits * Granules /\ size = ResvSize + Whole
  BY <1>3, <1>4, <1>5
<1>8. PICK odd \in 0..7 : odd = size % 8  BY <1>7
<1>20. PICK over \in Nat : over = Greatest(size - odd - ResvMax, 0)
                           /\ ((over = 0 /\ size - odd - ResvMax <= 0) \/ over = size - odd - ResvMax)
  BY <1>4, <1>7, <1>8 DEF Greatest
<1>9. PICK stuffing \in Nat : stuffing = odd + over  BY <1>8, <1>20
<1>10. PICK before \in Nat : before = Least(main_data_begin * 8, stuffing) \div 8  BY <1>4, <1>9 DEF Least
<1>11. ResvSize' = size - stuffing /\ main_data_begin' = main_data_begin - before
       /\ drain_post' = stuffing - 8 * before /\ left' = 8 * before
  BY <1>7, <1>8, <1>9, <1>10, <1>20, Constants DEF ResvFrameEnd
<1>12. before <= main_data_begin /\ 8 * before <= stuffing  BY <1>4, <1>9, <1>10 DEF Least
<1>13. ResvSize' \in Int /\ ResvSize' >= 0 /\ ResvSize' <= ResvMax /\ ResvSize' % 8 = 0
  <2>1. odd <= size /\ (size - odd) % 8 = 0  BY <1>7, <1>8
  <2>2. CASE over = 0 /\ size - odd - ResvMax <= 0
    <3>1. ResvSize' = size - odd  BY <2>2, <1>7, <1>8, <1>9, <1>11
    <3> QED  BY <2>1, <2>2, <3>1, <1>4, <1>7, <1>8
  <2>3. CASE over = size - odd - ResvMax
    <3>1. ResvSize' = ResvMax  BY <2>3, <1>4, <1>7, <1>8, <1>9, <1>11
    <3> QED  BY <3>1, <1>4, <1>6
  <2> QED  BY <2>2, <2>3, <1>20
<1>14. main_data_begin' \in Nat /\ drain_post' \in Nat /\ left' \in Nat  BY <1>4, <1>9, <1>10, <1>11, <1>12
<1>15. Whole' = Whole  BY <1>1 DEF Whole, FrameBits, SideBits
<1>16. Unspent' - drain_post' = ResvSize'
  <2>1. Unspent' = 8 * (main_data_begin - before) + Whole - main_bits  BY <1>1, <1>11, <1>15, Constants DEF Unspent
  <2>2. ResvSize + main_bits = 8 * main_data_begin /\ size = ResvSize + Whole  BY <1>3, <1>7
  <2>3. (8 * (main_data_begin - before) + Whole - main_bits) - (stuffing - 8 * before) = size - stuffing
    BY <2>2, <1>4, <1>5, <1>7, <1>9, <1>10
  <2>4. drain_post' = stuffing - 8 * before /\ ResvSize' = size - stuffing  BY <1>11
  <2> QED  BY <2>1, <2>3, <2>4
<1>17. Gap' - left' = 8 * main_data_begin' /\ 8 * main_data_begin' <= ResvLimit
  BY <1>2, <1>3, <1>4, <1>10, <1>11, <1>12, Constants
<1>18. Formatting'
  <2>1. ResvMax' = ResvMax /\ Byte = 8  BY <1>1, Constants
  <2>2. Unspent' - drain_post' = ResvSize' /\ ResvSize' >= 0 /\ ResvSize' <= ResvMax' /\ ResvSize' % Byte = 0  BY <2>1, <1>13, <1>16
  <2>3. Gap' - left' = Byte * main_data_begin' /\ Byte * main_data_begin' <= ResvLimit  BY <2>1, <1>17
  <2> QED  BY <1>1, <2>2, <2>3 DEF Formatting
<1>19. Resting' /\ Dividing' /\ Limits'  BY <1>1 DEF ResvInv, Resting, Dividing, Limits
<1> QED  BY <1>2, <1>13, <1>14, <1>18, <1>19 DEF ResvInv

(* putbits2 keeps what is missing and what is still to be put together. *)
LEMMA PutBitsBits ==
  ASSUME TypeOK, RingInv, ResvInv, PutBits
  PROVE  Gap - left >= 0 /\ RingInv' /\ ResvInv'
<1>1. left > 0 /\ UNCHANGED <<pc, ResvSize, ResvMax, main_data_begin, drain_post, padding, gr, main_bits>>
  BY DEF PutBits, resv, pad, part
<1>2. pc \in {"pre", "main", "post", "drain"}
  <2>1. pc \in {"idle", "fill", "begin", "granule", "pre", "main", "post", "flush", "drain", "broken"}  BY DEF TypeOK
  <2>2. left # 0  BY <1>1, Types
  <2> QED  BY <2>1, <2>2 DEF ResvInv, Resting, Dividing
<1>3. padding \in {0, 1} /\ main_bits \in Nat /\ ResvSize \in Int /\ main_data_begin \in Nat /\ drain_post \in Nat /\ left \in Nat  BY Types
<1>4. Whole \in Nat /\ Byte = 8  BY <1>3, FrameParts, Constants
<1>5. Gap \in Int  BY RingRoom
<1>6. Unspent \in Int  BY <1>3, <1>4 DEF Unspent
<1>7. Gap - left >= 0
  BY <1>2, <1>3, <1>4, <1>5, <1>6 DEF ResvInv, Formatting
<1>8. RingInv' /\ Gap' - left' = Gap - left  BY <1>7, PutBitsRing
<1>9. Unspent' = Unspent  BY <1>1 DEF Unspent, Whole, FrameBits, SideBits
<1>10. pc = "drain" => Gap' = left'
  <2>1. PICK g \in Int : Gap' = g  BY <1>7, PutBitsRing
  <2>2. PICK l \in Nat : left' = l  BY <1>7, PutBitsRing
  <2> QED  BY <2>1, <2>2, <1>3, <1>5, <1>8 DEF ResvInv, Formatting
<1>11. Formatting'  BY <1>1, <1>2, <1>8, <1>9, <1>10 DEF ResvInv, Formatting
<1>12. Resting' /\ Dividing' /\ Limits'  BY <1>1, <1>2 DEF ResvInv, Resting, Dividing, Limits
<1> QED  BY <1>7, <1>8, <1>11, <1>12 DEF ResvInv

(* The bits while a frame is formatted, as numbers. *)
LEMMA FormattingTypes ==
  ASSUME TypeOK, RingInv
  PROVE  /\ Gap \in Int /\ Unspent \in Int /\ Whole \in Nat /\ Byte = 8 /\ left \in Nat /\ main_bits \in Nat /\ drain_post \in Nat
         /\ main_data_begin \in Nat /\ ResvSize \in Int /\ ResvMax \in Int /\ ResvLimit \in Nat
         /\ Unspent = 8 * main_data_begin + Whole - main_bits
<1>1. padding \in {0, 1} /\ main_data_begin \in Nat /\ main_bits \in Nat /\ left \in Nat /\ drain_post \in Nat
      /\ ResvSize \in Int /\ ResvMax \in Int  BY Types
<1>2. Whole \in Nat  BY <1>1, FrameParts
<1>3. Byte = 8 /\ ResvLimit \in Nat  BY Constants
<1>4. Gap \in Int  BY RingRoom
<1>5. Unspent = 8 * main_data_begin + Whole - main_bits  BY <1>3 DEF Unspent
<1> QED  BY <1>1, <1>2, <1>3, <1>4, <1>5

(* The side information is written; the frame's own data follows. *)
LEMMA SideInfoBits ==
  ASSUME TypeOK, RingInv, ResvInv, EncodeSideInfo
  PROVE  Gap <= ResvLimit /\ RingInv' /\ ResvInv' /\ left' \in Nat
<1>1. pc = "pre" /\ left = 0 /\ pc' = "main" /\ left' = main_bits
      /\ UNCHANGED <<ResvSize, ResvMax, main_data_begin, drain_post, padding, main_bits>>
  BY DEF EncodeSideInfo, resv, pad, part
<1>2. /\ Gap \in Int /\ Unspent \in Int /\ Whole \in Nat /\ Byte = 8 /\ left \in Nat /\ main_bits \in Nat /\ drain_post \in Nat
      /\ main_data_begin \in Nat /\ ResvSize \in Int /\ ResvMax \in Int /\ ResvLimit \in Nat
      /\ Unspent = 8 * main_data_begin + Whole - main_bits  BY FormattingTypes
<1>3. /\ Unspent - drain_post = ResvSize /\ ResvSize >= 0 /\ ResvSize <= ResvMax /\ ResvSize % Byte = 0
      /\ Gap - left = 8 * main_data_begin /\ 8 * main_data_begin <= ResvLimit
  BY <1>1, <1>2 DEF ResvInv, Formatting
<1>4. Gap = 8 * main_data_begin /\ Gap <= ResvLimit  BY <1>1, <1>2, <1>3
<1>5. RingInv' /\ Gap' = Gap + Whole  BY <1>4, HeaderRing
<1>6. Unspent' = Unspent  BY <1>1 DEF Unspent, Whole, FrameBits, SideBits
<1>7. Gap' - left' = Unspent'
  <2>1. Gap + Whole - main_bits = Unspent  BY <1>2, <1>4
  <2>2. left' = main_bits /\ Gap' = Gap + Whole /\ Unspent' = Unspent  BY <1>1, <1>5, <1>6
  <2> QED  BY <2>1, <2>2, <1>2
<1>8. Formatting'  BY <1>1, <1>3, <1>6, <1>7 DEF Formatting
<1>9. Resting' /\ Dividing' /\ Limits'  BY <1>1 DEF ResvInv, Resting, Dividing, Limits
<1> QED  BY <1>1, <1>2, <1>4, <1>5, <1>8, <1>9 DEF ResvInv

(* The stuffing that follows the frame's data. *)
LEMMA MainDataBits ==
  ASSUME TypeOK, RingInv, ResvInv, WriteMainData
  PROVE  RingInv' /\ ResvInv' /\ left' \in Nat /\ Pending' = Pending /\ (Begun' <=> Begun)
         /\ LastPtr' = LastPtr /\ write_timing'[LastPtr'] = write_timing[LastPtr]
<1>1. pc = "main" /\ left = 0 /\ pc' = "post" /\ left' = drain_post
      /\ UNCHANGED <<totbit, buf_bit_idx, w_ptr, write_timing, h_ptr, ResvSize, ResvMax, main_data_begin, drain_post, padding, main_bits>>
  BY DEF WriteMainData, stream, headers, resv, pad, part
<1>2. /\ Gap \in Int /\ Unspent \in Int /\ drain_post \in Nat /\ left \in Nat /\ ResvSize \in Int  BY FormattingTypes
<1>3. RingInv' /\ Gap' = Gap /\ Pending' = Pending /\ (Begun' <=> Begun)
      /\ LastPtr' = LastPtr /\ write_timing'[LastPtr'] = write_timing[LastPtr]
  BY <1>1, RingSame
<1>4. /\ Unspent - drain_post = ResvSize /\ ResvSize >= 0 /\ ResvSize <= ResvMax /\ ResvSize % Byte = 0
      /\ Gap - left = Unspent
  BY <1>1 DEF ResvInv, Formatting
<1>5. Unspent' = Unspent  BY <1>1 DEF Unspent, Whole, FrameBits, SideBits
<1>6. Gap' - left' = ResvSize'
  <2>1. Gap - drain_post = ResvSize  BY <1>1, <1>2, <1>4
  <2> QED  BY <2>1, <1>1, <1>3
<1>7. Formatting'  BY <1>1, <1>4, <1>5, <1>6 DEF Formatting
<1>8. Resting' /\ Dividing' /\ Limits'  BY <1>1 DEF ResvInv, Resting, Dividing, Limits
<1> QED  BY <1>1, <1>2, <1>3, <1>7, <1>8 DEF ResvInv

(* At the end of a frame, main_data_begin is the reservoir in bytes, and the stream ends with a byte. *)
LEMMA FrameBalance ==
  ASSUME TypeOK, RingInv, ResvInv, pc = "post", left = 0
  PROVE  /\ Gap = ResvSize /\ ResvSize \in Nat /\ ResvSize <= ResvMax /\ ResvMax \in Int /\ ResvMax <= ResvLimit
         /\ NextBegin \in Nat /\ 8 * NextBegin = ResvSize
         /\ totbit % 8 = 0 /\ buf_bit_idx = 0
<1>1. /\ Gap \in Int /\ Unspent \in Int /\ Whole \in Nat /\ Byte = 8 /\ left \in Nat /\ main_bits \in Nat /\ drain_post \in Nat
      /\ main_data_begin \in Nat /\ ResvSize \in Int /\ ResvMax \in Int /\ ResvLimit \in Nat
      /\ Unspent = 8 * main_data_begin + Whole - main_bits  BY FormattingTypes
<1>2. /\ Unspent - drain_post = ResvSize /\ ResvSize >= 0 /\ ResvSize <= ResvMax /\ ResvSize % Byte = 0
      /\ Gap - left = ResvSize
  BY DEF ResvInv, Formatting
<1>3. Gap = ResvSize /\ ResvSize % 8 = 0  BY <1>1, <1>2
<1>4. totbit % 8 = 0 /\ buf_bit_idx = 0  BY <1>3, RingBytes
<1>5. PICK rest \in Int : rest = Whole - main_bits - drain_post  BY <1>1
<1>6. FrameBits - (SideBits + main_bits + drain_post) = rest
  <2>1. padding \in {0, 1}  BY Types
  <2>2. FrameBits \in Nat /\ SideBits \in Nat  BY <2>1, FrameParts, Constants
  <2> QED  BY <2>2, <1>1, <1>5 DEF Whole
<1>7. NextBegin = main_data_begin + rest \div 8  BY <1>1, <1>6 DEF NextBegin
<1>8. 8 * main_data_begin + rest = ResvSize  BY <1>1, <1>2, <1>5
<1>9. NextBegin \in Nat /\ 8 * NextBegin = ResvSize  BY <1>1, <1>2, <1>3, <1>5, <1>7, <1>8
<1>10. ResvMax <= ResvLimit  BY DEF ResvInv, Limits
<1> QED  BY <1>1, <1>2, <1>3, <1>4, <1>9, <1>10

(* format_bitstream ends. *)
LEMMA FinishFrameBits ==
  ASSUME TypeOK, RingInv, ResvInv, FinishFrame
  PROVE  /\ RingInv' /\ ResvInv' /\ Pending' = Pending /\ (Begun' <=> Begun)
         /\ totbit' \in Nat /\ write_timing' \in [Slots -> Int] /\ main_data_begin' \in Nat /\ ResvSize' \in Int
         /\ buf_bit_idx' = buf_bit_idx /\ buf_bytes' \in Nat
         /\ (write_timing[h_ptr] = write_timing[LastPtr] + FrameBits => write_timing'[h_ptr'] = write_timing'[LastPtr'] + FrameBits)
         /\ (totbit > write_timing[LastPtr] => totbit' > write_timing'[LastPtr'])
<1>1. /\ pc = "post" /\ left = 0 /\ main_data_begin' = NextBegin /\ ResvSize' = Byte * NextBegin
      /\ UNCHANGED <<w_ptr, h_ptr, left, ResvMax, drain_post>>
      /\ pc' \in {"fill", "broken", "idle"}
      /\ \/ totbit' = 0 /\ write_timing' = [p \in Slots |-> write_timing[p] - totbit]
         \/ UNCHANGED <<totbit, write_timing>>
      /\ (buf_bytes' = buf_bytes /\ buf_bit_idx' = buf_bit_idx) \/ (buf_bytes' = 0 /\ buf_bit_idx' = 0)
  BY DEF FinishFrame, Fail
<1>2. /\ Gap = ResvSize /\ ResvSize \in Nat /\ ResvSize <= ResvMax /\ ResvMax \in Int /\ ResvMax <= ResvLimit
      /\ NextBegin \in Nat /\ 8 * NextBegin = ResvSize
      /\ totbit % 8 = 0 /\ buf_bit_idx = 0
  BY <1>1, FrameBalance
<1>3. buf_bit_idx' = buf_bit_idx  BY <1>1, <1>2
<1>4. /\ RingInv' /\ Gap' = Gap /\ Pending' = Pending /\ (Begun' <=> Begun)
      /\ totbit' \in Nat /\ write_timing' \in [Slots -> Int]
      /\ (write_timing[h_ptr] = write_timing[LastPtr] + FrameBits => write_timing'[h_ptr'] = write_timing'[LastPtr'] + FrameBits)
      /\ (totbit > write_timing[LastPtr] => totbit' > write_timing'[LastPtr'])
  BY <1>1, <1>2, <1>3, ShiftRing
<1>5. ResvSize' = ResvSize  BY <1>1, <1>2, Constants
<1>6. ResvSize <= ResvLimit  BY <1>2, Constants
<1>7. Resting'  BY <1>1, <1>2, <1>4, <1>5, <1>6 DEF Resting
<1>8. Dividing' /\ Formatting' /\ Limits'  BY <1>1 DEF ResvInv, Dividing, Formatting, Limits
<1>9. main_data_begin' \in Nat /\ ResvSize' \in Int  BY <1>1, <1>2, <1>5
<1>10. buf_bytes' \in Nat
  <2>1. buf_bytes \in Nat  BY Types
  <2> QED  BY <2>1, <1>1
<1> QED  BY <1>3, <1>4, <1>7, <1>8, <1>9, <1>10 DEF ResvInv

(* flush_bitstream puts exactly what is missing. *)
LEMMA FlushBitstreamBits ==
  ASSUME TypeOK, RingInv, ResvInv, BegunInv, FlushBitstream, Begun
  PROVE  /\ RingInv' /\ ResvInv' /\ left' \in Nat
         /\ Pending' = Pending /\ LastPtr' = LastPtr /\ (Begun' <=> Begun) /\ write_timing'[LastPtr'] = write_timing[LastPtr]
<1>1. pc = "flush" /\ pc' = "drain" /\ left' = Greatest(FlushBits, 0)
      /\ UNCHANGED <<totbit, buf_bit_idx, w_ptr, write_timing, h_ptr, ResvSize, ResvMax, main_data_begin, drain_post, padding>>
  BY DEF FlushBitstream, stream, headers, resv, pad
<1>2. RingInv' /\ Gap' = Gap /\ Pending' = Pending /\ LastPtr' = LastPtr /\ (Begun' <=> Begun) /\ write_timing'[LastPtr'] = write_timing[LastPtr]
  BY <1>1, RingSame
<1>3. FlushBits = Gap  BY <1>1, FlushGap DEF BegunInv
<1>4. Gap = 8 * main_data_begin /\ main_data_begin \in Nat  BY <1>1, Types, Constants DEF ResvInv, Resting
<1>5. left' = Gap /\ Gap \in Nat  BY <1>1, <1>3, <1>4 DEF Greatest
<1>6. Formatting'  BY <1>1, <1>2, <1>5 DEF Formatting
<1>7. Resting' /\ Dividing' /\ Limits'  BY <1>1 DEF ResvInv, Resting, Dividing, Limits
<1> QED  BY <1>2, <1>5, <1>6, <1>7 DEF ResvInv

(* After it every header is written, and the reservoir is empty. *)
LEMMA DrainedBits ==
  ASSUME TypeOK, RingInv, ResvInv, Drained
  PROVE  /\ RingInv' /\ ResvInv' /\ buf_bit_idx' = buf_bit_idx
         /\ Pending' = Pending /\ LastPtr' = LastPtr /\ (Begun' <=> Begun) /\ write_timing'[LastPtr'] = write_timing[LastPtr]
         /\ w_ptr = h_ptr /\ totbit = write_timing[h_ptr]
<1>1. pc = "drain" /\ left = 0 /\ ResvSize' = 0 /\ main_data_begin' = 0 /\ pc' \in {"idle", "broken"}
      /\ UNCHANGED <<totbit, w_ptr, write_timing, h_ptr, left, ResvMax>>
      /\ (buf_bit_idx' = 0 \/ buf_bit_idx' = buf_bit_idx)
  BY DEF Drained, stream, headers, CopyBuffer, Fail
<1>2. Gap = 0  BY <1>1 DEF ResvInv, Formatting
<1>3. buf_bit_idx' = buf_bit_idx  BY <1>1, <1>2, RingBytes
<1>4. RingInv' /\ Gap' = Gap /\ Pending' = Pending /\ LastPtr' = LastPtr /\ (Begun' <=> Begun) /\ write_timing'[LastPtr'] = write_timing[LastPtr]
  BY <1>1, <1>3, RingSame
<1>5. Resting'  BY <1>1, <1>2, <1>4, Constants DEF Resting
<1>6. Dividing' /\ Formatting' /\ Limits'  BY <1>1 DEF ResvInv, Dividing, Formatting, Limits
<1>7. w_ptr = h_ptr /\ totbit = write_timing[h_ptr]  BY <1>2, RingEmpty
<1> QED  BY <1>3, <1>4, <1>5, <1>6, <1>7 DEF ResvInv

(* What format_bitstream and putbits2 check, from the invariants. *)
LEMMA StreamAgreesFrom ==
  ASSUME TypeOK, RingInv, ResvInv, BegunInv
  PROVE  StreamAgrees
<1>1. HeadersInPlace
  <2>1. totbit <= write_timing[h_ptr] - SlotBits * Pending /\ Pending \in Nat  BY RingRoom
  <2>2. padding \in {0, 1} /\ totbit \in Nat /\ write_timing[h_ptr] \in Int  BY Types
  <2>3. PICK n \in Nat : n = SlotBits * Pending  BY <2>1, <2>2, FrameParts, Constants
  <2> QED  BY <2>1, <2>2, <2>3 DEF HeadersInPlace
<1>2. ReservoirAgrees
  <2>1. SUFFICES ASSUME pc = "post", left = 0
                 PROVE  /\ FlushBits = ResvSize /\ Byte * NextBegin = ResvSize
                        /\ ResvSize \in 0..ResvMax /\ totbit % Byte = 0
    BY DEF ReservoirAgrees
  <2>2. /\ Gap = ResvSize /\ ResvSize \in Nat /\ ResvSize <= ResvMax /\ ResvMax \in Int
        /\ NextBegin \in Nat /\ 8 * NextBegin = ResvSize /\ totbit % 8 = 0
    BY <2>1, FrameBalance
  <2>3. FlushBits = Gap  BY <2>1, FlushGap DEF BegunInv
  <2> QED  BY <2>2, <2>3, Constants
<1> QED  BY <1>1, <1>2 DEF StreamAgrees

(* TypeOK of the next state, from that of each field. *)
LEMMA TypesNext ==
  ASSUME pc' \in {"idle", "fill", "begin", "granule", "pre", "main", "post", "flush", "drain", "broken"},
         totbit' \in Nat, buf_bytes' \in Nat, left' \in Nat, main_bits' \in Nat, drain_post' \in Nat,
         main_data_begin' \in Nat, slot_lag' \in Nat, mf_size' \in Nat, last' \in Nat, nsamples' \in Nat,
         mp3buf_size' \in Int, mp3size' \in Nat, frames_left' \in Nat, flush_size' \in Nat, mp3count' \in Nat,
         ResvSize' \in Int, ResvMax' \in Int, mf_samples_to_encode' \in Int,
         write_timing' \in [Slots -> Int], h_ptr' \in Slots, w_ptr' \in Slots,
         buf_bit_idx' \in 0..7, gr' \in 0..Granules, padding' \in {0, 1},
         coded' \in BOOLEAN, flushing' \in BOOLEAN, flushed' \in BOOLEAN
  PROVE  TypeOK'
<1>1. {totbit', buf_bytes', left', main_bits', drain_post', main_data_begin', slot_lag'} \subseteq Nat  OBVIOUS
<1>2. {mf_size', last', nsamples', mp3size', frames_left', flush_size', mp3count'} \subseteq Nat  OBVIOUS
<1>3. {ResvSize', ResvMax', mf_samples_to_encode', mp3buf_size'} \subseteq Int  OBVIOUS
<1>4. {coded', flushing', flushed'} \subseteq BOOLEAN  OBVIOUS
<1>5. 0..Byte - 1 = 0..7  BY Constants
<1>6. buf_bit_idx' \in 0..Byte - 1  BY <1>5
<1> QED  BY <1>1, <1>2, <1>3, <1>4, <1>6 DEF TypeOK

(* The frames of a flush hold all samples and the padding, and no frame more than that. *)
LEMMA FramesLeftFits ==
  ASSUME NEW s \in Int, s + EndPadding >= 1
  PROVE  /\ FramesLeft(s) \in Nat /\ FramesLeft(s) >= 1
         /\ FramesLeft(s) * FrameSize >= s + EndPadding
         /\ FramesLeft(s) * FrameSize <= s + EndPadding + FrameSize
<1>1. FrameSize \in {576, 1152} /\ EndPadding \in Nat /\ EndPadding <= FrameSize  BY Constants, DelaysHold DEF DelaysHold
<1>2. CASE FrameSize = 576
  <2>6. PICK q \in Int, r \in 0..576 - 1 : q = s \div 576 /\ r = s % 576 /\ s = 576 * q + r  OBVIOUS
  <2>7. PICK p \in Int : p = 576 - r  BY <2>6
  <2>1. p = 576 - r /\ p \in 1..576 /\ (s + p) % 576 = 0  BY <2>6, <2>7
  <2>2. PICK e \in Int : e = (IF p < EndPadding THEN p + 576 ELSE p) /\ (s + e) % 576 = 0  BY <2>1, <1>1
  <2>3. EndPadding <= e /\ e <= EndPadding + 576  BY <2>1, <2>2, <1>1, <1>2
  <2>4. FramesLeft(s) = (s + e) \div 576  BY <1>2, <2>1, <2>2, <2>6 DEF FramesLeft
  <2>5. PICK f \in Int : f = (s + e) \div 576 /\ f * 576 = s + e  BY <2>2
  <2> QED  BY <1>2, <1>1, <2>3, <2>4, <2>5
<1>3. CASE FrameSize = 1152
  <2>6. PICK q \in Int, r \in 0..1152 - 1 : q = s \div 1152 /\ r = s % 1152 /\ s = 1152 * q + r  OBVIOUS
  <2>7. PICK p \in Int : p = 1152 - r  BY <2>6
  <2>1. p = 1152 - r /\ p \in 1..1152 /\ (s + p) % 1152 = 0  BY <2>6, <2>7
  <2>2. PICK e \in Int : e = (IF p < EndPadding THEN p + 1152 ELSE p) /\ (s + e) % 1152 = 0  BY <2>1, <1>1
  <2>3. EndPadding <= e /\ e <= EndPadding + 1152  BY <2>1, <2>2, <1>1, <1>3
  <2>4. FramesLeft(s) = (s + e) \div 1152  BY <1>3, <2>1, <2>2, <2>6 DEF FramesLeft
  <2>5. PICK f \in Int : f = (s + e) \div 1152 /\ f * 1152 = s + e  BY <2>2
  <2> QED  BY <1>3, <1>1, <2>3, <2>4, <2>5
<1> QED  BY <1>1, <1>2, <1>3

(* BegunInv, where nothing that it speaks of changes but the call. *)
LEMMA BegunKept ==
  ASSUME BegunInv, Pending' = Pending, Begun' <=> Begun, totbit' = totbit, padding' = padding,
         write_timing'[h_ptr'] = write_timing[h_ptr], write_timing'[LastPtr'] = write_timing[LastPtr],
         pc' \in {"granule", "pre"} \/ pc \notin {"granule", "pre"},
         (pc' \in InCall /\ coded') \/ pc' \in {"main", "post", "drain"} => Begun,
         flushing' /\ ~Begun => frames_left' >= 1
  PROVE  BegunInv'
<1>1. FrameBits' = FrameBits  BY DEF FrameBits
<1> QED  BY <1>1 DEF BegunInv

(* lame_encode_buffer, on behalf of the program or of a flush: what the stream and its types keep. *)
LEMMA EnterBits ==
  ASSUME TypeOK, RingInv, ResvInv, BegunInv, pc \in {"idle", "flush"},
         NEW n \in Nat, NEW size \in Int, Enter(n, size)
  PROVE  /\ TypeOK' /\ RingInv' /\ ResvInv' /\ BegunInv'
         /\ \/ TooSmall(size) /\ Fail /\ UNCHANGED <<nsamples, mp3buf_size, mp3size, coded>>
            \/ /\ nsamples' = n /\ mp3buf_size' = size /\ coded' = FALSE /\ pc' = "fill" /\ flushed' = FALSE
               /\ UNCHANGED <<pcm, flushing, frames_left, flush_size, mp3count, errors>>
<1>1. /\ UNCHANGED <<totbit, w_ptr, write_timing, h_ptr, left, ResvSize, ResvMax, main_data_begin, drain_post, padding, slot_lag, gr, main_bits>>
      /\ (buf_bit_idx' = 0 \/ buf_bit_idx' = buf_bit_idx) /\ (buf_bytes' = 0 \/ buf_bytes' = buf_bytes)
      /\ \/ TooSmall(size) /\ Fail /\ UNCHANGED <<nsamples, mp3buf_size, mp3size, coded>>
         \/ /\ ~TooSmall(size)
            /\ nsamples' = n /\ mp3buf_size' = size /\ mp3size' = buf_bytes /\ coded' = FALSE /\ pc' = "fill" /\ flushed' = FALSE
            /\ UNCHANGED <<pcm, flushing, frames_left, flush_size, mp3count, errors>>
  BY DEF Enter, stream, headers, resv, pad, part, call, CopyBuffer
<1>2. pc' \in {"idle", "fill", "broken"}  BY <1>1 DEF Fail
<1>3. /\ totbit \in Nat /\ buf_bytes \in Nat /\ left \in Nat /\ main_bits \in Nat /\ drain_post \in Nat
      /\ main_data_begin \in Nat /\ slot_lag \in Nat /\ mf_size \in Nat /\ last \in Nat /\ nsamples \in Nat
      /\ mp3buf_size \in Int /\ mp3size \in Nat /\ frames_left \in Nat /\ flush_size \in Nat /\ mp3count \in Nat
      /\ ResvSize \in Int /\ ResvMax \in Int /\ mf_samples_to_encode \in Int
      /\ write_timing \in [Slots -> Int] /\ h_ptr \in Slots /\ w_ptr \in Slots
      /\ buf_bit_idx \in 0..7 /\ gr \in 0..Granules /\ padding \in {0, 1}
      /\ coded \in BOOLEAN /\ flushing \in BOOLEAN /\ flushed \in BOOLEAN  BY Types
<1>4. /\ RingInv' /\ ResvInv' /\ buf_bit_idx' = buf_bit_idx /\ Pending' = Pending /\ LastPtr' = LastPtr /\ (Begun' <=> Begun)
      /\ write_timing'[LastPtr'] = write_timing[LastPtr]
  BY <1>1, <1>2, RestKeepsBits
<1>5. CASE TooSmall(size) /\ Fail /\ UNCHANGED <<nsamples, mp3buf_size, mp3size, coded>>
  <2>1. /\ flushing' = FALSE /\ flushed' = FALSE /\ UNCHANGED <<mf_size, last, frames_left, flush_size, mp3count>>
        /\ (mf_samples_to_encode' = 0 \/ mf_samples_to_encode' = mf_samples_to_encode)
        /\ pc' \in {"idle", "broken"}
    BY <1>5 DEF Fail
  <2>2. TypeOK'
    <3>1. /\ totbit' \in Nat /\ buf_bytes' \in Nat /\ left' \in Nat /\ main_bits' \in Nat /\ drain_post' \in Nat
          /\ main_data_begin' \in Nat /\ slot_lag' \in Nat /\ frames_left' \in Nat /\ flush_size' \in Nat /\ mp3count' \in Nat
          /\ ResvSize' \in Int /\ ResvMax' \in Int
          /\ write_timing' \in [Slots -> Int] /\ h_ptr' \in Slots /\ w_ptr' \in Slots
          /\ buf_bit_idx' \in 0..7 /\ gr' \in 0..Granules /\ padding' \in {0, 1}
      BY <1>1, <1>2, <1>3, <1>4, <1>5, <2>1
    <3>2. /\ mf_size' \in Nat /\ last' \in Nat /\ nsamples' \in Nat /\ mp3buf_size' \in Int /\ mp3size' \in Nat
      BY <1>3, <1>1, <1>5, <2>1
    <3>3. mf_samples_to_encode' \in Int  BY <1>3, <2>1
    <3>4. coded' \in BOOLEAN /\ flushing' \in BOOLEAN /\ flushed' \in BOOLEAN  BY <1>3, <1>5, <2>1
    <3> QED  BY <1>2, <3>1, <3>2, <3>3, <3>4, TypesNext
  <2>3. BegunInv'
    <3>1. ~(pc' \in InCall /\ coded') /\ pc' \notin {"main", "post", "drain", "granule", "pre"}  BY <2>1 DEF InCall, InFrame
    <3> QED  BY <1>1, <1>4, <2>1, <3>1, BegunKept
  <2> QED  BY <1>4, <1>5, <2>2, <2>3
<1>6. CASE /\ ~TooSmall(size)
           /\ nsamples' = n /\ mp3buf_size' = size /\ mp3size' = buf_bytes /\ coded' = FALSE /\ pc' = "fill" /\ flushed' = FALSE
           /\ UNCHANGED <<pcm, flushing, frames_left, flush_size, mp3count, errors>>
  <2>1. UNCHANGED <<mf_size, mf_samples_to_encode, last>>  BY <1>6 DEF pcm
  <2>2. TypeOK'
    <3>1. /\ totbit' \in Nat /\ buf_bytes' \in Nat /\ left' \in Nat /\ main_bits' \in Nat /\ drain_post' \in Nat
          /\ main_data_begin' \in Nat /\ slot_lag' \in Nat /\ frames_left' \in Nat /\ flush_size' \in Nat /\ mp3count' \in Nat
          /\ ResvSize' \in Int /\ ResvMax' \in Int
          /\ write_timing' \in [Slots -> Int] /\ h_ptr' \in Slots /\ w_ptr' \in Slots
          /\ buf_bit_idx' \in 0..7 /\ gr' \in 0..Granules /\ padding' \in {0, 1}
      BY <1>1, <1>2, <1>3, <1>4, <1>6, <2>1
    <3>2. /\ mf_size' \in Nat /\ last' \in Nat /\ nsamples' \in Nat /\ mp3buf_size' \in Int /\ mp3size' \in Nat
          /\ mf_samples_to_encode' \in Int /\ coded' \in BOOLEAN /\ flushing' \in BOOLEAN /\ flushed' \in BOOLEAN
      BY <1>1, <1>2, <1>3, <1>4, <1>6, <2>1
    <3> QED  BY <1>2, <3>1, <3>2, TypesNext
  <2>3. BegunInv'
    <3>1. flushing' /\ ~Begun => frames_left' >= 1  BY <1>6 DEF BegunInv
    <3>2. pc \notin {"granule", "pre"}  OBVIOUS
    <3> QED  BY <1>1, <1>4, <1>6, <3>1, <3>2, BegunKept
  <2> QED  BY <1>4, <1>6, <2>2, <2>3
<1> QED  BY <1>1, <1>5, <1>6

(* How many samples may wait after so many calls that failed. *)
LEMMA ErrorsGrow ==
  ASSUME NEW e \in Nat
  PROVE  e * FrameSize \in Nat /\ (e + 1) * FrameSize = e * FrameSize + FrameSize
<1>1. FrameSize \in {576, 1152}  BY Constants
<1> QED  BY <1>1

(* lame_encode_buffer, called by the program, keeps the invariant. *)
LEMMA EncodeStep ==
  ASSUME IInv, NEW n \in Counts, NEW size \in Sizes, Encode(n, size)
  PROVE  IInv'
<1>1. pc = "idle" /\ (size = 0 \/ errors < MaxErrors) /\ Enter(n, size)  BY DEF Encode
<1>2. n \in Nat /\ n >= 1 /\ size \in Nat  BY InputsNat DEF InputsNat
<1>3. size \in Int  BY <1>2
<1>4. /\ TypeOK' /\ RingInv' /\ ResvInv' /\ BegunInv'
      /\ \/ TooSmall(size) /\ Fail /\ UNCHANGED <<nsamples, mp3buf_size, mp3size, coded>>
         \/ /\ nsamples' = n /\ mp3buf_size' = size /\ coded' = FALSE /\ pc' = "fill" /\ flushed' = FALSE
            /\ UNCHANGED <<pcm, flushing, frames_left, flush_size, mp3count, errors>>
  BY <1>1, <1>2, <1>3, EnterBits DEF IInv
<1>5. flushing = FALSE /\ flushing \in BOOLEAN  BY <1>1, Types DEF IInv, FlushInv, InCall, InFrame
<1>6. errors \in Nat /\ errors <= MaxErrors /\ MaxErrors \in Nat /\ mf_size \in Nat /\ Needed \in Nat /\ FrameSize \in Nat
  BY Constants, Types DEF IInv, ErrorsInv
<1>7. errors * FrameSize \in Nat /\ (errors + 1) * FrameSize = errors * FrameSize + FrameSize  BY <1>6, ErrorsGrow
<1>8. mf_size < Needed + errors * FrameSize  BY <1>1, <1>5 DEF IInv, ErrorsInv
<1>9. mf_size >= 1 /\ mf_size <= Samples + EndPadding /\ Samples <= mf_size + EncDelay /\ last <= mf_size
  BY <1>1 DEF IInv, DelayInv
<1>10. CASE TooSmall(size) /\ Fail /\ UNCHANGED <<nsamples, mp3buf_size, mp3size, coded>>
  <2>1. /\ pc' = "idle" /\ flushing' = FALSE /\ flushed' = FALSE /\ errors' = errors + 1
        /\ UNCHANGED <<mf_size, mf_samples_to_encode, last>>
    BY <1>5, <1>10 DEF Fail
  <2>2. size # 0  BY <1>10 DEF TooSmall
  <2>3. DelayInv'  BY <1>9, <2>1 DEF DelayInv, Samples
  <2>4. CallInv'  BY <2>1 DEF CallInv, InFrame
  <2>5. ErrorsInv'
    <3>1. errors + 1 \in 0..MaxErrors  BY <1>1, <2>2, <1>6
    <3>2. mf_size < Needed + (errors + 1) * FrameSize  BY <1>6, <1>7, <1>8
    <3> QED  BY <2>1, <3>1, <3>2 DEF ErrorsInv, InFrame, InCall
  <2>6. FlushInv'  BY <2>1 DEF FlushInv
  <2> QED  BY <1>4, <2>3, <2>4, <2>5, <2>6 DEF IInv
<1>11. CASE /\ nsamples' = n /\ mp3buf_size' = size /\ coded' = FALSE /\ pc' = "fill" /\ flushed' = FALSE
            /\ UNCHANGED <<pcm, flushing, frames_left, flush_size, mp3count, errors>>
  <2>1. UNCHANGED <<mf_size, mf_samples_to_encode, last>>  BY <1>11 DEF pcm
  <2>2. DelayInv'  BY <1>9, <2>1 DEF DelayInv, Samples
  <2>3. CallInv'  BY <1>2, <1>11 DEF CallInv, InFrame
  <2>4. ErrorsInv'
    <3>1. mp3buf_size' # 0 => errors < MaxErrors  BY <1>1, <1>11
    <3>2. errors \in 0..MaxErrors  BY <1>6
    <3> QED  BY <3>1, <3>2, <1>5, <1>8, <1>11, <2>1 DEF ErrorsInv, InFrame
  <2>5. FlushInv'  BY <1>5, <1>11 DEF FlushInv
  <2> QED  BY <1>4, <2>2, <2>3, <2>4, <2>5 DEF IInv
<1> QED  BY <1>4, <1>10, <1>11

(* lame_encode_flush, called by the program, keeps it: the frames it asks for hold what waits. *)
LEMMA FlushStep ==
  ASSUME IInv, NEW size \in Sizes, Flush(size)
  PROVE  IInv'
<1>1. /\ pc = "idle" /\ mf_samples_to_encode >= 1 /\ (size = 0 \/ errors < MaxErrors)
      /\ frames_left' = FramesLeft(mf_samples_to_encode - PostDelay)
      /\ flushing' = TRUE /\ flush_size' = size /\ mp3count' = 0 /\ flushed' = FALSE /\ pc' = "flush"
      /\ UNCHANGED <<totbit, buf_bytes, buf_bit_idx, w_ptr, write_timing, h_ptr, left, ResvSize, ResvMax, main_data_begin, drain_post, padding,
                     slot_lag, gr, main_bits, mf_size, mf_samples_to_encode, last, nsamples, mp3buf_size, mp3size, coded, errors>>
  BY DEF Flush, stream, headers, resv, pad, part, pcm, call, bounds
<1>2. size \in Nat  BY InputsNat DEF InputsNat
<1>3. /\ totbit \in Nat /\ buf_bytes \in Nat /\ left \in Nat /\ main_bits \in Nat /\ drain_post \in Nat
      /\ main_data_begin \in Nat /\ slot_lag \in Nat /\ mf_size \in Nat /\ last \in Nat /\ nsamples \in Nat
      /\ mp3buf_size \in Int /\ mp3size \in Nat /\ frames_left \in Nat /\ flush_size \in Nat /\ mp3count \in Nat
      /\ ResvSize \in Int /\ ResvMax \in Int /\ mf_samples_to_encode \in Int
      /\ write_timing \in [Slots -> Int] /\ h_ptr \in Slots /\ w_ptr \in Slots
      /\ buf_bit_idx \in 0..7 /\ gr \in 0..Granules /\ padding \in {0, 1}
      /\ coded \in BOOLEAN /\ flushing \in BOOLEAN /\ flushed \in BOOLEAN  BY Types DEF IInv
<1>4. flushing = FALSE  BY <1>1, <1>3 DEF IInv, FlushInv, InCall, InFrame
<1>5. /\ EncDelay \in Nat /\ PostDelay \in Nat /\ EndPadding \in Nat /\ Needed \in Nat /\ FrameSize \in Nat /\ MaxErrors \in Nat
      /\ FrameSize \in {576, 1152}  BY Constants
<1>6. PICK s \in Int : s = mf_samples_to_encode - PostDelay  BY <1>3, <1>5
<1>7. mf_size >= 1 /\ mf_size <= s + EndPadding /\ s <= mf_size + EncDelay /\ last <= mf_size
  <2>1. Samples = s  BY <1>1, <1>3, <1>6 DEF Samples
  <2> QED  BY <1>1, <2>1 DEF IInv, DelayInv
<1>8. PICK f \in Nat : /\ f = FramesLeft(s) /\ f >= 1
                       /\ f * FrameSize >= s + EndPadding /\ f * FrameSize <= s + EndPadding + FrameSize
  <2>1. s + EndPadding >= 1  BY <1>3, <1>5, <1>7
  <2> QED  BY <2>1, FramesLeftFits
<1>9. frames_left' = f  BY <1>1, <1>6, <1>8
<1>10. errors \in Nat /\ errors <= MaxErrors  BY <1>5 DEF IInv, ErrorsInv
<1>11. f <= EncDelay + EndPadding
  <2>1. mf_size < Needed + errors * FrameSize  BY <1>1, <1>4 DEF IInv, ErrorsInv
  <2>2. errors * FrameSize <= MaxErrors * FrameSize  BY <1>5, <1>10
  <2>3. Needed + (MaxErrors + 1) * FrameSize <= (EncDelay + EndPadding) * (FrameSize - 1)  BY ErrorsFit DEF ErrorsFit
  <2>4. CASE FrameSize = 576
    BY <2>1, <2>2, <2>3, <2>4, <1>3, <1>5, <1>6, <1>7, <1>8, <1>10
  <2>5. CASE FrameSize = 1152
    BY <2>1, <2>2, <2>3, <2>5, <1>3, <1>5, <1>6, <1>7, <1>8, <1>10
  <2> QED  BY <2>4, <2>5, <1>5
<1>12. last <= f * FrameSize /\ mf_size <= EncDelay + EndPadding + f * (FrameSize - 1)
  <2>1. f * (FrameSize - 1) = f * FrameSize - f /\ f * FrameSize \in Nat  BY <1>5
  <2> QED  BY <2>1, <1>3, <1>5, <1>6, <1>7, <1>8, <1>11
<1>13. TypeOK'
  <2>1. /\ totbit' \in Nat /\ buf_bytes' \in Nat /\ left' \in Nat /\ main_bits' \in Nat /\ drain_post' \in Nat
        /\ main_data_begin' \in Nat /\ slot_lag' \in Nat /\ frames_left' \in Nat /\ flush_size' \in Nat /\ mp3count' \in Nat
        /\ ResvSize' \in Int /\ ResvMax' \in Int
        /\ write_timing' \in [Slots -> Int] /\ h_ptr' \in Slots /\ w_ptr' \in Slots
        /\ buf_bit_idx' \in 0..7 /\ gr' \in 0..Granules /\ padding' \in {0, 1}
    BY <1>1, <1>2, <1>3, <1>9
  <2>2. /\ mf_size' \in Nat /\ last' \in Nat /\ nsamples' \in Nat /\ mp3buf_size' \in Int /\ mp3size' \in Nat
        /\ mf_samples_to_encode' \in Int
    BY <1>1, <1>3
  <2>3. coded' \in BOOLEAN /\ flushing' \in BOOLEAN /\ flushed' \in BOOLEAN  BY <1>1, <1>3
  <2> QED  BY <1>1, <2>1, <2>2, <2>3, TypesNext
<1>14. /\ RingInv' /\ ResvInv' /\ Pending' = Pending /\ LastPtr' = LastPtr /\ (Begun' <=> Begun)
       /\ write_timing'[LastPtr'] = write_timing[LastPtr]
  BY <1>1, RestKeepsBits DEF IInv
<1>15. BegunInv'
  <2>1. frames_left' >= 1  BY <1>8, <1>9
  <2>2. ~((pc' \in InCall /\ coded') \/ pc' \in {"main", "post", "drain"})  BY <1>1 DEF InCall, InFrame
  <2>3. pc \notin {"granule", "pre"}  BY <1>1
  <2> QED  BY <1>1, <1>14, <2>1, <2>2, <2>3, BegunKept DEF IInv
<1>16. DelayInv'  BY <1>1 DEF IInv, DelayInv, Samples
<1>17. CallInv'  BY <1>1 DEF CallInv, InFrame
<1>18. ErrorsInv'
  <2>1. errors \in 0..MaxErrors  BY <1>5, <1>10
  <2> QED  BY <1>1, <2>1 DEF ErrorsInv, InFrame, InCall
<1>19. FlushInv'
  <2>1. last' <= frames_left' * FrameSize /\ mf_size' <= EncDelay + EndPadding + frames_left' * (FrameSize - 1)
    BY <1>1, <1>9, <1>12
  <2> QED  BY <1>1, <2>1 DEF FlushInv, InCall, InFrame
<1> QED  BY <1>13, <1>14, <1>15, <1>16, <1>17, <1>18, <1>19 DEF IInv

(* fill_buffer keeps it: samples go from the call to mfbuf, and a full mfbuf begins a frame. *)
LEMMA FillStep ==
  ASSUME IInv, Fill
  PROVE  IInv'
<1>1. /\ totbit \in Nat /\ buf_bytes \in Nat /\ left \in Nat /\ main_bits \in Nat /\ drain_post \in Nat
      /\ main_data_begin \in Nat /\ slot_lag \in Nat /\ mf_size \in Nat /\ last \in Nat /\ nsamples \in Nat
      /\ mp3buf_size \in Int /\ mp3size \in Nat /\ frames_left \in Nat /\ flush_size \in Nat /\ mp3count \in Nat
      /\ ResvSize \in Int /\ ResvMax \in Int /\ mf_samples_to_encode \in Int
      /\ write_timing \in [Slots -> Int] /\ h_ptr \in Slots /\ w_ptr \in Slots
      /\ buf_bit_idx \in 0..7 /\ gr \in 0..Granules /\ padding \in {0, 1}
      /\ coded \in BOOLEAN /\ flushing \in BOOLEAN /\ flushed \in BOOLEAN  BY Types DEF IInv
<1>2. /\ EncDelay \in Nat /\ PostDelay \in Nat /\ EndPadding \in Nat /\ Needed \in Nat /\ FrameSize \in Nat /\ FrameSize >= 1
  BY Constants
<1>3. pc = "fill" /\ nsamples > 0  BY DEF Fill
<1>4. PICK n \in Nat : n = Least(FrameSize, nsamples) /\ n >= 1 /\ n <= nsamples /\ n <= FrameSize  BY <1>1, <1>2, <1>3 DEF Least
<1>5. /\ nsamples' = nsamples - n /\ mf_size' = mf_size + n
      /\ mf_samples_to_encode' = n + (IF mf_samples_to_encode < 1 THEN EncDelay + PostDelay ELSE mf_samples_to_encode)
      /\ last' = (IF flushing THEN last ELSE mf_size + n)
      /\ pc' = (IF mf_size + n >= Needed THEN "begin" ELSE "fill")
      /\ UNCHANGED <<totbit, buf_bytes, buf_bit_idx, w_ptr, write_timing, h_ptr, left, ResvSize, ResvMax, main_data_begin, drain_post,
                     padding, slot_lag, gr, main_bits, mp3buf_size, mp3size, coded, flushing, frames_left, flush_size, mp3count, flushed, errors>>
  BY <1>4 DEF Fill, stream, headers, resv, pad, part, flush, bounds
<1>6. PICK m \in Int : mf_samples_to_encode' = m /\ m >= 1 /\ m - PostDelay = Samples + n
  <2>1. CASE mf_samples_to_encode < 1
    <3>1. mf_samples_to_encode' = n + (EncDelay + PostDelay) /\ Samples = EncDelay  BY <2>1, <1>5 DEF Samples
    <3>2. n + (EncDelay + PostDelay) >= 1 /\ n + (EncDelay + PostDelay) - PostDelay = EncDelay + n  BY <1>2, <1>4
    <3> QED  BY <3>1, <3>2, <1>2, <1>4
  <2>2. CASE mf_samples_to_encode >= 1
    <3>1. mf_samples_to_encode' = n + mf_samples_to_encode /\ Samples = mf_samples_to_encode - PostDelay  BY <2>2, <1>1, <1>5 DEF Samples
    <3>2. n + mf_samples_to_encode >= 1 /\ n + mf_samples_to_encode - PostDelay = mf_samples_to_encode - PostDelay + n  BY <2>2, <1>1, <1>2, <1>4
    <3> QED  BY <3>1, <3>2, <1>1, <1>2, <1>4
  <2> QED  BY <2>1, <2>2, <1>1
<1>7. Samples' = m - PostDelay  BY <1>2, <1>6 DEF Samples
<1>8. Samples \in Int  BY <1>1, <1>2 DEF Samples
<1>9. mf_size >= 1 /\ mf_size <= Samples + EndPadding /\ Samples <= mf_size + EncDelay /\ last <= mf_size
  BY <1>3 DEF IInv, DelayInv
<1>10. PICK l \in Nat : last' = l /\ l <= mf_size + n /\ (flushing => l = last)
  <2>1. CASE flushing
    <3>1. last' = last /\ last <= mf_size + n  BY <2>1, <1>1, <1>4, <1>5, <1>9
    <3> QED  BY <3>1, <1>1
  <2>2. CASE ~flushing
    <3>1. last' = mf_size + n /\ mf_size + n \in Nat  BY <2>2, <1>1, <1>4, <1>5
    <3> QED  BY <2>2, <3>1, <1>1, <1>4
  <2> QED  BY <2>1, <2>2
<1>11. pc' \in {"fill", "begin"}  BY <1>5
<1>12. TypeOK'
  <2>1. /\ totbit' \in Nat /\ buf_bytes' \in Nat /\ left' \in Nat /\ main_bits' \in Nat /\ drain_post' \in Nat
        /\ main_data_begin' \in Nat /\ slot_lag' \in Nat /\ frames_left' \in Nat /\ flush_size' \in Nat /\ mp3count' \in Nat
        /\ ResvSize' \in Int /\ ResvMax' \in Int
        /\ write_timing' \in [Slots -> Int] /\ h_ptr' \in Slots /\ w_ptr' \in Slots
        /\ buf_bit_idx' \in 0..7 /\ gr' \in 0..Granules /\ padding' \in {0, 1}
    BY <1>1, <1>5
  <2>2. /\ mf_size' \in Nat /\ last' \in Nat /\ nsamples' \in Nat /\ mp3buf_size' \in Int /\ mp3size' \in Nat
        /\ mf_samples_to_encode' \in Int
    BY <1>1, <1>4, <1>5, <1>6, <1>10
  <2>3. coded' \in BOOLEAN /\ flushing' \in BOOLEAN /\ flushed' \in BOOLEAN  BY <1>1, <1>5
  <2> QED  BY <1>11, <2>1, <2>2, <2>3, TypesNext
<1>13. /\ RingInv' /\ ResvInv' /\ Pending' = Pending /\ LastPtr' = LastPtr /\ (Begun' <=> Begun)
       /\ write_timing'[LastPtr'] = write_timing[LastPtr]
  BY <1>3, <1>5, <1>11, RestKeepsBits DEF IInv
<1>14. BegunInv'
  <2>1. coded => Begun  BY <1>3 DEF IInv, BegunInv, InCall, InFrame
  <2>2. flushing /\ ~Begun => frames_left >= 1  BY DEF IInv, BegunInv
  <2>3. pc' \notin {"main", "post", "drain"} /\ pc \notin {"granule", "pre"}  BY <1>3, <1>11
  <2> QED  BY <1>5, <1>13, <2>1, <2>2, <2>3, BegunKept DEF IInv
<1>15. DelayInv'
  <2>1. mf_size + n >= 1 /\ mf_size + n <= (m - PostDelay) + EndPadding /\ m - PostDelay <= (mf_size + n) + EncDelay /\ l <= mf_size + n
    BY <1>1, <1>2, <1>4, <1>6, <1>8, <1>9, <1>10
  <2> QED  BY <2>1, <1>5, <1>7, <1>10 DEF DelayInv
<1>16. CallInv'
  <2>1. CASE mf_size + n >= Needed
    BY <2>1, <1>5 DEF CallInv, InFrame
  <2>2. CASE mf_size + n < Needed
    <3>1. pc' = "fill"  BY <2>2, <1>1, <1>2, <1>4, <1>5
    <3> QED  BY <2>2, <3>1, <1>5 DEF CallInv, InFrame
  <2> QED  BY <2>1, <2>2, <1>1, <1>2, <1>4
<1>17. errors \in Nat /\ errors \in 0..MaxErrors  BY Constants DEF IInv, ErrorsInv
<1>18. errors * FrameSize \in Nat /\ (errors + 1) * FrameSize = errors * FrameSize + FrameSize  BY <1>17, ErrorsGrow
<1>19. ErrorsInv'
  <2>1. ~flushing => mf_size + n < Needed + (errors + 1) * FrameSize
    <3>1. ~flushing => mf_size < Needed + errors * FrameSize  BY <1>3 DEF IInv, ErrorsInv
    <3>2. mf_size < Needed + errors * FrameSize => mf_size + n < Needed + (errors + 1) * FrameSize  BY <1>1, <1>2, <1>4, <1>18
    <3> QED  BY <3>1, <3>2
  <2>2. pc' = "fill" => mf_size + n < Needed + errors * FrameSize
    BY <1>1, <1>2, <1>4, <1>5, <1>18
  <2>3. mp3buf_size # 0 => errors < MaxErrors  BY <1>3 DEF IInv, ErrorsInv, InCall
  <2>4. flushing /\ flush_size # 0 => errors < MaxErrors  BY DEF IInv, ErrorsInv
  <2> QED  BY <1>5, <1>11, <1>17, <2>1, <2>2, <2>3, <2>4 DEF ErrorsInv
<1>20. FlushInv'
  <2>1. flushed = FALSE  BY <1>1, <1>3 DEF IInv, FlushInv
  <2>2. CASE ~flushing
    BY <2>1, <2>2, <1>5, <1>11 DEF FlushInv
  <2>3. CASE flushing
    <3>1. /\ frames_left >= 1 /\ last <= ToCode * FrameSize /\ (coded => nsamples = 0)
          /\ (~coded => mf_size + nsamples <= Needed \/ nsamples <= 1)
          /\ mf_size + nsamples <= EncDelay + EndPadding + ToCode * (FrameSize - 1) + (IF coded THEN 0 ELSE 1)
      BY <2>3, <1>3 DEF IInv, FlushInv, InCall
    <3>2. ~coded  BY <3>1, <1>3, <1>1
    <3>3. ToCode = frames_left /\ ToCode' = frames_left  BY <3>2, <1>1, <1>5 DEF ToCode
    <3>4. l <= frames_left * FrameSize  BY <3>1, <3>3, <2>3, <1>10
    <3>5. (mf_size + n) + (nsamples - n) = mf_size + nsamples  BY <1>1, <1>4
    <3>6. mf_size + n >= Needed => nsamples - n = 0
      <4>1. CASE mf_size + nsamples <= Needed
        BY <4>1, <1>1, <1>2, <1>4
      <4>2. CASE nsamples <= 1
        BY <4>2, <1>1, <1>4
      <4> QED  BY <3>1, <3>2, <4>1, <4>2
    <3>7. mf_size + nsamples <= Needed \/ nsamples - n <= 1
      <4>1. nsamples <= 1 => nsamples - n <= 1  BY <1>1, <1>4
      <4> QED  BY <4>1, <3>1, <3>2
    <3>8. mf_size + nsamples <= EncDelay + EndPadding + frames_left * (FrameSize - 1) + 1  BY <3>1, <3>2, <3>3
    <3>9. pc' # "fill" => nsamples - n = 0  BY <3>6, <1>5
    <3>10. mf_size' + nsamples' = mf_size + nsamples  BY <3>5, <1>5
    <3>11. coded' = FALSE /\ frames_left' = frames_left /\ last' = l /\ nsamples' = nsamples - n /\ flushed' = FALSE /\ flushing'
      BY <2>1, <2>3, <3>2, <1>1, <1>5, <1>10
    <3> QED  BY <1>11, <3>1, <3>3, <3>4, <3>7, <3>8, <3>9, <3>10, <3>11 DEF FlushInv, InCall, InFrame
  <2> QED  BY <2>2, <2>3
<1> QED  BY <1>12, <1>13, <1>14, <1>15, <1>16, <1>19, <1>20 DEF IInv

(* The return of lame_encode_buffer keeps it, to the program or to the flush that made the call. *)
LEMMA ReturnStep ==
  ASSUME IInv, Return
  PROVE  IInv'
<1>1. /\ totbit \in Nat /\ buf_bytes \in Nat /\ left \in Nat /\ main_bits \in Nat /\ drain_post \in Nat
      /\ main_data_begin \in Nat /\ slot_lag \in Nat /\ mf_size \in Nat /\ last \in Nat /\ nsamples \in Nat
      /\ mp3buf_size \in Int /\ mp3size \in Nat /\ frames_left \in Nat /\ flush_size \in Nat /\ mp3count \in Nat
      /\ ResvSize \in Int /\ ResvMax \in Int /\ mf_samples_to_encode \in Int
      /\ write_timing \in [Slots -> Int] /\ h_ptr \in Slots /\ w_ptr \in Slots
      /\ buf_bit_idx \in 0..7 /\ gr \in 0..Granules /\ padding \in {0, 1}
      /\ coded \in BOOLEAN /\ flushing \in BOOLEAN /\ flushed \in BOOLEAN  BY Types DEF IInv
<1>2. /\ EncDelay \in Nat /\ PostDelay \in Nat /\ EndPadding \in Nat /\ Needed \in Nat /\ FrameSize \in {576, 1152}  BY Constants
<1>3. /\ pc = "fill" /\ nsamples = 0
      /\ UNCHANGED <<totbit, buf_bytes, buf_bit_idx, w_ptr, write_timing, h_ptr, left, ResvSize, ResvMax, main_data_begin, drain_post,
                     padding, slot_lag, gr, main_bits, mf_size, mf_samples_to_encode, last, nsamples, mp3buf_size, mp3size, coded,
                     flushing, flush_size, flushed, errors>>
      /\ IF flushing
         THEN /\ pc' = "flush" /\ mp3count' = mp3count + mp3size
              /\ frames_left' = frames_left - (IF coded THEN 1 ELSE 0)
         ELSE pc' = "idle" /\ UNCHANGED <<mp3count, frames_left>>
  BY DEF Return, stream, headers, resv, pad, part, pcm, call, bounds
<1>4. pc' \in {"idle", "flush"} /\ (flushing <=> pc' = "flush")  BY <1>3
<1>5. PICK f \in Nat : frames_left' = f /\ (flushing => f = ToCode)
  <2>1. CASE ~flushing
    BY <2>1, <1>1, <1>3
  <2>2. CASE flushing /\ coded
    <3>1. frames_left >= 1  BY <2>2, <1>3 DEF IInv, FlushInv, InCall
    <3>2. frames_left' = frames_left - 1 /\ ToCode = frames_left - 1 /\ frames_left - 1 \in Nat  BY <2>2, <3>1, <1>1, <1>3 DEF ToCode
    <3> QED  BY <3>2
  <2>3. CASE flushing /\ ~coded
    <3>1. frames_left' = frames_left - 0 /\ ToCode = frames_left - 0 /\ frames_left - 0 \in Nat  BY <2>3, <1>1, <1>3 DEF ToCode
    <3> QED  BY <3>1
  <2> QED  BY <2>1, <2>2, <2>3
<1>6. PICK c \in Nat : mp3count' = c
  <2>1. mp3count + mp3size \in Nat  BY <1>1
  <2> QED  BY <2>1, <1>1, <1>3
<1>7. flushed = FALSE  BY <1>1, <1>3 DEF IInv, FlushInv
<1>8. TypeOK'
  <2>1. /\ totbit' \in Nat /\ buf_bytes' \in Nat /\ left' \in Nat /\ main_bits' \in Nat /\ drain_post' \in Nat
        /\ main_data_begin' \in Nat /\ slot_lag' \in Nat /\ frames_left' \in Nat /\ flush_size' \in Nat /\ mp3count' \in Nat
        /\ ResvSize' \in Int /\ ResvMax' \in Int
        /\ write_timing' \in [Slots -> Int] /\ h_ptr' \in Slots /\ w_ptr' \in Slots
        /\ buf_bit_idx' \in 0..7 /\ gr' \in 0..Granules /\ padding' \in {0, 1}
    BY <1>1, <1>3, <1>5, <1>6
  <2>2. /\ mf_size' \in Nat /\ last' \in Nat /\ nsamples' \in Nat /\ mp3buf_size' \in Int /\ mp3size' \in Nat
        /\ mf_samples_to_encode' \in Int
    BY <1>1, <1>3
  <2>3. coded' \in BOOLEAN /\ flushing' \in BOOLEAN /\ flushed' \in BOOLEAN  BY <1>1, <1>3
  <2> QED  BY <1>4, <2>1, <2>2, <2>3, TypesNext
<1>9. /\ RingInv' /\ ResvInv' /\ Pending' = Pending /\ LastPtr' = LastPtr /\ (Begun' <=> Begun)
      /\ write_timing'[LastPtr'] = write_timing[LastPtr]
  BY <1>3, <1>4, RestKeepsBits DEF IInv
<1>10. BegunInv'
  <2>1. flushing /\ ~Begun => f >= 1
    <3>1. flushing /\ ~Begun => frames_left >= 1 /\ ~coded  BY <1>3 DEF IInv, BegunInv, InCall
    <3>2. ~coded => ToCode = frames_left  BY <1>1 DEF ToCode
    <3> QED  BY <3>1, <3>2, <1>5
  <2>2. pc' \notin InCall /\ pc' \notin {"main", "post", "drain"} /\ pc \notin {"granule", "pre"}  BY <1>3, <1>4 DEF InCall, InFrame
  <2>3. flushing' /\ ~Begun => frames_left' >= 1  BY <2>1, <1>3, <1>5
  <2> QED  BY <1>3, <1>9, <2>2, <2>3, BegunKept DEF IInv
<1>11. DelayInv'
  <2>1. Samples' = Samples  BY <1>3 DEF Samples
  <2> QED  BY <2>1, <1>3 DEF IInv, DelayInv
<1>12. CallInv'  BY <1>4 DEF CallInv, InFrame
<1>13. ErrorsInv'
  <2>1. ~flushing => mf_size < Needed + errors * FrameSize  BY <1>3 DEF IInv, ErrorsInv
  <2>2. errors \in 0..MaxErrors /\ (flushing /\ flush_size # 0 => errors < MaxErrors)  BY DEF IInv, ErrorsInv
  <2>3. pc' \notin InFrame /\ pc' \notin InCall  BY <1>4 DEF InCall, InFrame
  <2> QED  BY <2>1, <2>2, <2>3, <1>3 DEF ErrorsInv
<1>14. FlushInv'
  <2>1. CASE ~flushing
    BY <2>1, <1>3, <1>4, <1>7 DEF FlushInv
  <2>2. CASE flushing
    <3>1. /\ frames_left >= 1 /\ last <= ToCode * FrameSize
          /\ mf_size + nsamples <= EncDelay + EndPadding + ToCode * (FrameSize - 1) + (IF coded THEN 0 ELSE 1)
      BY <2>2, <1>3 DEF IInv, FlushInv, InCall
    <3>2. mf_size <= EncDelay + EndPadding + f * (FrameSize - 1)
      <4>1. CASE coded
        <5>1. PICK t \in Nat : t = f * (FrameSize - 1)  BY <1>2
        <5>2. nsamples = 0 /\ f = ToCode  BY <2>2, <1>3, <1>5
        <5>3. mf_size + 0 <= EncDelay + EndPadding + t + 0  BY <4>1, <5>1, <5>2, <3>1
        <5> QED  BY <5>1, <5>3, <1>1, <1>2
      <4>2. CASE ~coded
        <5>1. f = frames_left  BY <4>2, <2>2, <1>1, <1>5 DEF ToCode
        <5>2. mf_size < Needed  BY <4>2, <1>3 DEF IInv, CallInv
        <5>3. Needed <= FrameSize + EncDelay + EndPadding  BY DelaysHold DEF DelaysHold
        <5>4. f * (FrameSize - 1) >= FrameSize - 1  BY <5>1, <3>1, <1>2
        <5>5. f * (FrameSize - 1) \in Nat  BY <1>2
        <5> QED  BY <5>2, <5>3, <5>4, <5>5, <1>1, <1>2
      <4> QED  BY <4>1, <4>2
    <3>3. last <= f * FrameSize  BY <3>1, <2>2, <1>5
    <3>4. pc' = "flush" /\ flushing' /\ flushed' = FALSE /\ last' = last /\ mf_size' = mf_size /\ frames_left' = f
      BY <2>2, <1>3, <1>4, <1>5, <1>7
    <3> QED  BY <3>2, <3>3, <3>4 DEF FlushInv, InCall, InFrame
  <2> QED  BY <2>1, <2>2
<1> QED  BY <1>8, <1>9, <1>10, <1>11, <1>12, <1>13, <1>14 DEF IInv

(* What a step inside a frame that leaves the samples and the call alone keeps. *)
LEMMA InFrameKeeps ==
  ASSUME IInv, pc \in InFrame, pc' \in InFrame,
         UNCHANGED <<mf_size, mf_samples_to_encode, last, nsamples, mp3buf_size, coded, flushing, frames_left, flush_size, flushed, errors>>
  PROVE  DelayInv' /\ CallInv' /\ ErrorsInv' /\ FlushInv'
<1>1. pc \notin {"drain", "broken", "fill", "idle", "flush"} /\ pc' \notin {"drain", "broken", "fill", "idle", "flush"}  BY DEF InFrame
<1>2. pc \in InCall /\ pc' \in InCall  BY DEF InCall
<1>3. DelayInv'
  <2>1. Samples' = Samples  BY DEF Samples
  <2> QED  BY <1>1, <2>1 DEF IInv, DelayInv
<1>4. CallInv'  BY <1>1 DEF IInv, CallInv
<1>5. ErrorsInv'  BY <1>1, <1>2 DEF IInv, ErrorsInv
<1>6. FlushInv'
  <2>1. flushed \in BOOLEAN /\ ~flushed  BY <1>1, Types DEF IInv, FlushInv
  <2>2. ToCode' = ToCode  BY DEF ToCode
  <2> QED  BY <1>1, <1>2, <2>1, <2>2 DEF IInv, FlushInv
<1> QED  BY <1>3, <1>4, <1>5, <1>6

(* The start of lame_encode_mp3_frame and ResvFrameBegin keep it. *)
LEMMA BeginFrameStep ==
  ASSUME IInv, BeginFrame
  PROVE  IInv'
<1>1. /\ pc = "begin" /\ pc' = "granule" /\ gr' = 0 /\ main_bits' = 0
      /\ UNCHANGED <<totbit, buf_bytes, buf_bit_idx, w_ptr, write_timing, h_ptr, left, ResvSize, main_data_begin, drain_post,
                     mf_size, mf_samples_to_encode, last, nsamples, mp3buf_size, mp3size, coded,
                     flushing, frames_left, flush_size, mp3count, flushed, errors>>
  BY DEF BeginFrame, stream, headers, pcm, call, flush, bounds
<1>2. /\ totbit \in Nat /\ buf_bytes \in Nat /\ left \in Nat /\ drain_post \in Nat
      /\ main_data_begin \in Nat /\ mf_size \in Nat /\ last \in Nat /\ nsamples \in Nat
      /\ mp3buf_size \in Int /\ mp3size \in Nat /\ frames_left \in Nat /\ flush_size \in Nat /\ mp3count \in Nat
      /\ ResvSize \in Int /\ mf_samples_to_encode \in Int
      /\ write_timing \in [Slots -> Int] /\ h_ptr \in Slots /\ w_ptr \in Slots /\ buf_bit_idx \in 0..7
      /\ coded \in BOOLEAN /\ flushing \in BOOLEAN /\ flushed \in BOOLEAN  BY Types DEF IInv
<1>3. /\ RingInv' /\ ResvInv' /\ padding' \in {0, 1} /\ slot_lag' \in Nat /\ ResvMax' \in Int
      /\ Pending' = Pending /\ LastPtr' = LastPtr /\ (Begun' <=> Begun) /\ write_timing'[LastPtr'] = write_timing[LastPtr]
  BY BeginFrameBits DEF IInv
<1>4. TypeOK'
  <2>1. /\ totbit' \in Nat /\ buf_bytes' \in Nat /\ left' \in Nat /\ main_bits' \in Nat /\ drain_post' \in Nat
        /\ main_data_begin' \in Nat /\ frames_left' \in Nat /\ flush_size' \in Nat /\ mp3count' \in Nat
        /\ ResvSize' \in Int
        /\ write_timing' \in [Slots -> Int] /\ h_ptr' \in Slots /\ w_ptr' \in Slots
        /\ buf_bit_idx' \in 0..7
    BY <1>1, <1>2
  <2>2. /\ mf_size' \in Nat /\ last' \in Nat /\ nsamples' \in Nat /\ mp3buf_size' \in Int /\ mp3size' \in Nat
        /\ mf_samples_to_encode' \in Int /\ coded' \in BOOLEAN /\ flushing' \in BOOLEAN /\ flushed' \in BOOLEAN
    BY <1>1, <1>2
  <2>3. gr' \in 0..Granules  BY <1>1, Constants
  <2> QED  BY <1>1, <1>3, <2>1, <2>2, <2>3, TypesNext
<1>5. BegunInv'
  <2>1. coded => Begun  BY <1>1 DEF IInv, BegunInv, InCall, InFrame
  <2>2. flushing /\ ~Begun => frames_left >= 1  BY DEF IInv, BegunInv
  <2>3. Begun /\ Pending = 0 => totbit > write_timing[LastPtr]  BY DEF IInv, BegunInv
  <2> QED  BY <1>1, <1>3, <2>1, <2>2, <2>3 DEF BegunInv
<1>6. DelayInv' /\ CallInv' /\ ErrorsInv' /\ FlushInv'  BY <1>1, InFrameKeeps DEF InFrame
<1> QED  BY <1>3, <1>4, <1>5, <1>6 DEF IInv

(* A granule that takes its bits keeps it. *)
LEMMA GranuleStep ==
  ASSUME IInv, Granule
  PROVE  IInv'
<1>1. /\ pc = "granule" /\ pc' = "granule"
      /\ UNCHANGED <<totbit, buf_bytes, buf_bit_idx, w_ptr, write_timing, h_ptr, left, ResvMax, main_data_begin, drain_post, padding, slot_lag,
                     mf_size, mf_samples_to_encode, last, nsamples, mp3buf_size, mp3size, coded,
                     flushing, frames_left, flush_size, mp3count, flushed, errors>>
  BY DEF Granule, stream, headers, pad, pcm, call, flush, bounds
<1>2. /\ totbit \in Nat /\ buf_bytes \in Nat /\ left \in Nat /\ drain_post \in Nat /\ slot_lag \in Nat
      /\ main_data_begin \in Nat /\ mf_size \in Nat /\ last \in Nat /\ nsamples \in Nat
      /\ mp3buf_size \in Int /\ mp3size \in Nat /\ frames_left \in Nat /\ flush_size \in Nat /\ mp3count \in Nat
      /\ ResvMax \in Int /\ mf_samples_to_encode \in Int /\ padding \in {0, 1}
      /\ write_timing \in [Slots -> Int] /\ h_ptr \in Slots /\ w_ptr \in Slots /\ buf_bit_idx \in 0..7
      /\ coded \in BOOLEAN /\ flushing \in BOOLEAN /\ flushed \in BOOLEAN  BY Types DEF IInv
<1>3. /\ RingInv' /\ ResvInv' /\ gr' \in 0..Granules /\ main_bits' \in Nat /\ ResvSize' \in Int
      /\ Pending' = Pending /\ LastPtr' = LastPtr /\ (Begun' <=> Begun) /\ write_timing'[LastPtr'] = write_timing[LastPtr]
  BY GranuleBits DEF IInv
<1>4. TypeOK'
  <2>1. /\ totbit' \in Nat /\ buf_bytes' \in Nat /\ left' \in Nat /\ drain_post' \in Nat
        /\ main_data_begin' \in Nat /\ slot_lag' \in Nat /\ frames_left' \in Nat /\ flush_size' \in Nat /\ mp3count' \in Nat
        /\ ResvMax' \in Int
        /\ write_timing' \in [Slots -> Int] /\ h_ptr' \in Slots /\ w_ptr' \in Slots
        /\ buf_bit_idx' \in 0..7 /\ padding' \in {0, 1}
    BY <1>1, <1>2
  <2>2. /\ mf_size' \in Nat /\ last' \in Nat /\ nsamples' \in Nat /\ mp3buf_size' \in Int /\ mp3size' \in Nat
        /\ mf_samples_to_encode' \in Int /\ coded' \in BOOLEAN /\ flushing' \in BOOLEAN /\ flushed' \in BOOLEAN
    BY <1>1, <1>2
  <2> QED  BY <1>1, <1>3, <2>1, <2>2, TypesNext
<1>5. BegunInv'
  <2>1. coded => Begun  BY <1>1 DEF IInv, BegunInv, InCall, InFrame
  <2>2. flushing /\ ~Begun => frames_left >= 1  BY DEF IInv, BegunInv
  <2> QED  BY <1>1, <1>3, <2>1, <2>2, BegunKept DEF IInv
<1>6. DelayInv' /\ CallInv' /\ ErrorsInv' /\ FlushInv'  BY <1>1, InFrameKeeps DEF InFrame
<1> QED  BY <1>3, <1>4, <1>5, <1>6 DEF IInv

(* ResvFrameEnd keeps it. *)
LEMMA ResvFrameEndStep ==
  ASSUME IInv, ResvFrameEnd
  PROVE  IInv'
<1>1. /\ pc = "granule" /\ pc' = "pre"
      /\ UNCHANGED <<totbit, buf_bytes, buf_bit_idx, w_ptr, write_timing, h_ptr, ResvMax, padding, slot_lag, gr, main_bits,
                     mf_size, mf_samples_to_encode, last, nsamples, mp3buf_size, mp3size, coded,
                     flushing, frames_left, flush_size, mp3count, flushed, errors>>
  BY DEF ResvFrameEnd, stream, headers, pad, part, pcm, call, flush, bounds
<1>2. /\ totbit \in Nat /\ buf_bytes \in Nat /\ main_bits \in Nat /\ slot_lag \in Nat /\ gr \in 0..Granules
      /\ mf_size \in Nat /\ last \in Nat /\ nsamples \in Nat
      /\ mp3buf_size \in Int /\ mp3size \in Nat /\ frames_left \in Nat /\ flush_size \in Nat /\ mp3count \in Nat
      /\ ResvMax \in Int /\ mf_samples_to_encode \in Int /\ padding \in {0, 1}
      /\ write_timing \in [Slots -> Int] /\ h_ptr \in Slots /\ w_ptr \in Slots /\ buf_bit_idx \in 0..7
      /\ coded \in BOOLEAN /\ flushing \in BOOLEAN /\ flushed \in BOOLEAN  BY Types DEF IInv
<1>3. /\ RingInv' /\ ResvInv' /\ ResvSize' \in Int /\ main_data_begin' \in Nat /\ drain_post' \in Nat /\ left' \in Nat
      /\ Pending' = Pending /\ LastPtr' = LastPtr /\ (Begun' <=> Begun) /\ write_timing'[LastPtr'] = write_timing[LastPtr]
  BY FrameEndBits DEF IInv
<1>4. TypeOK'
  <2>1. /\ totbit' \in Nat /\ buf_bytes' \in Nat /\ main_bits' \in Nat /\ gr' \in 0..Granules
        /\ slot_lag' \in Nat /\ frames_left' \in Nat /\ flush_size' \in Nat /\ mp3count' \in Nat
        /\ ResvMax' \in Int
        /\ write_timing' \in [Slots -> Int] /\ h_ptr' \in Slots /\ w_ptr' \in Slots
        /\ buf_bit_idx' \in 0..7 /\ padding' \in {0, 1}
    BY <1>1, <1>2
  <2>2. /\ mf_size' \in Nat /\ last' \in Nat /\ nsamples' \in Nat /\ mp3buf_size' \in Int /\ mp3size' \in Nat
        /\ mf_samples_to_encode' \in Int /\ coded' \in BOOLEAN /\ flushing' \in BOOLEAN /\ flushed' \in BOOLEAN
    BY <1>1, <1>2
  <2> QED  BY <1>1, <1>3, <2>1, <2>2, TypesNext
<1>5. BegunInv'
  <2>1. coded => Begun  BY <1>1 DEF IInv, BegunInv, InCall, InFrame
  <2>2. flushing /\ ~Begun => frames_left >= 1  BY DEF IInv, BegunInv
  <2> QED  BY <1>1, <1>3, <2>1, <2>2, BegunKept DEF IInv
<1>6. DelayInv' /\ CallInv' /\ ErrorsInv' /\ FlushInv'  BY <1>1, InFrameKeeps DEF InFrame
<1> QED  BY <1>3, <1>4, <1>5, <1>6 DEF IInv

(* putbits2 keeps it, bit for bit and header for header. *)
LEMMA PutBitsStep ==
  ASSUME IInv, PutBits
  PROVE  IInv'
<1>1. /\ left > 0
      /\ UNCHANGED <<pc, write_timing, h_ptr, ResvSize, ResvMax, main_data_begin, drain_post, padding, slot_lag, gr, main_bits,
                     mf_size, mf_samples_to_encode, last, nsamples, mp3buf_size, mp3size, coded,
                     flushing, frames_left, flush_size, mp3count, flushed, errors>>
  BY DEF PutBits, headers, resv, pad, part, pcm, call, flush, bounds
<1>2. /\ totbit \in Nat /\ main_bits \in Nat /\ slot_lag \in Nat /\ gr \in 0..Granules /\ drain_post \in Nat /\ main_data_begin \in Nat
      /\ mf_size \in Nat /\ last \in Nat /\ nsamples \in Nat /\ left \in Nat
      /\ mp3buf_size \in Int /\ mp3size \in Nat /\ frames_left \in Nat /\ flush_size \in Nat /\ mp3count \in Nat
      /\ ResvSize \in Int /\ ResvMax \in Int /\ mf_samples_to_encode \in Int /\ padding \in {0, 1}
      /\ write_timing \in [Slots -> Int] /\ h_ptr \in Slots /\ w_ptr \in Slots /\ buf_bit_idx \in 0..7
      /\ coded \in BOOLEAN /\ flushing \in BOOLEAN /\ flushed \in BOOLEAN  BY Types DEF IInv
<1>3. Gap - left >= 0 /\ RingInv' /\ ResvInv'  BY PutBitsBits DEF IInv
<1>4. /\ totbit' > totbit
      /\ totbit' \in Nat /\ buf_bytes' \in Nat /\ left' \in Nat /\ buf_bit_idx' \in 0..7 /\ w_ptr' \in Slots
      /\ LastPtr' = LastPtr /\ (Begun' <=> Begun)
      /\ (Pending' = 0 => Pending = 0 \/ (w_ptr = LastPtr /\ totbit' > write_timing[LastPtr]))
  BY <1>3, PutBitsRing DEF IInv
<1>5. pc \in {"idle", "fill", "begin", "granule", "pre", "main", "post", "flush", "drain", "broken"}  BY DEF IInv, TypeOK
<1>6. pc \in {"pre", "main", "post", "drain"}
  <2>1. left # 0  BY <1>1, <1>2
  <2> QED  BY <1>5, <2>1 DEF IInv, ResvInv, Resting, Dividing
<1>7. TypeOK'
  <2>1. /\ main_bits' \in Nat /\ gr' \in 0..Granules /\ drain_post' \in Nat /\ main_data_begin' \in Nat
        /\ slot_lag' \in Nat /\ frames_left' \in Nat /\ flush_size' \in Nat /\ mp3count' \in Nat
        /\ ResvSize' \in Int /\ ResvMax' \in Int
        /\ write_timing' \in [Slots -> Int] /\ h_ptr' \in Slots /\ padding' \in {0, 1}
    BY <1>1, <1>2
  <2>2. /\ mf_size' \in Nat /\ last' \in Nat /\ nsamples' \in Nat /\ mp3buf_size' \in Int /\ mp3size' \in Nat
        /\ mf_samples_to_encode' \in Int /\ coded' \in BOOLEAN /\ flushing' \in BOOLEAN /\ flushed' \in BOOLEAN
    BY <1>1, <1>2
  <2>3. pc' \in {"idle", "fill", "begin", "granule", "pre", "main", "post", "flush", "drain", "broken"}  BY <1>1, <1>5
  <2> QED  BY <1>4, <2>1, <2>2, <2>3, TypesNext
<1>8. BegunInv'
  <2>1. FrameBits' = FrameBits  BY <1>1 DEF FrameBits
  <2>2. write_timing'[h_ptr'] = write_timing[h_ptr] /\ write_timing'[LastPtr'] = write_timing[LastPtr]  BY <1>1, <1>4
  <2>3. Begun' /\ Pending' = 0 => totbit' > write_timing[LastPtr]
    <3>1. PICK t \in Nat : totbit' = t  BY <1>4
    <3>2. t > totbit  BY <1>4, <3>1
    <3>3. LastPtr \in Slots  BY <1>2, AtRing
    <3>4. write_timing[LastPtr] \in Int  BY <1>2, <3>3
    <3>5. totbit > write_timing[LastPtr] => t > write_timing[LastPtr]  BY <1>2, <3>1, <3>2, <3>4
    <3>6. Begun /\ Pending = 0 => totbit > write_timing[LastPtr]  BY DEF IInv, BegunInv
    <3> QED  BY <1>4, <3>1, <3>5, <3>6
  <2>4. Begun /\ pc \notin {"granule", "pre"} => write_timing[h_ptr] = write_timing[LastPtr] + FrameBits  BY DEF IInv, BegunInv
  <2>5. /\ (pc \in InCall /\ coded) \/ pc \in {"main", "post", "drain"} => Begun
        /\ flushing /\ ~Begun => frames_left >= 1  BY DEF IInv, BegunInv
  <2> QED  BY <1>1, <1>4, <2>1, <2>2, <2>3, <2>4, <2>5 DEF BegunInv
<1>9. CASE pc \in {"pre", "main", "post"}
  <2>1. DelayInv' /\ CallInv' /\ ErrorsInv' /\ FlushInv'  BY <1>1, <1>9, InFrameKeeps DEF InFrame
  <2> QED  BY <1>3, <1>7, <1>8, <2>1 DEF IInv
<1>10. CASE pc = "drain"
  <2>1. pc' = "drain"  BY <1>1, <1>10
  <2>2. DelayInv' /\ CallInv'  BY <2>1 DEF DelayInv, CallInv, InFrame
  <2>3. ErrorsInv'
    <3>1. errors \in 0..MaxErrors /\ (flushing /\ flush_size # 0 => errors < MaxErrors)  BY DEF IInv, ErrorsInv
    <3> QED  BY <1>1, <2>1, <3>1 DEF ErrorsInv, InFrame, InCall
  <2>4. FlushInv'
    <3>1. flushing /\ last = 0 /\ mf_size \in 1..EncDelay + EndPadding /\ mf_samples_to_encode = 0 /\ ~flushed
      <4>1. flushed \in BOOLEAN  BY <1>2
      <4> QED  BY <1>10, <4>1 DEF IInv, FlushInv
    <3> QED  BY <1>1, <2>1, <3>1 DEF FlushInv, InCall, InFrame
  <2> QED  BY <1>3, <1>7, <1>8, <2>2, <2>3, <2>4 DEF IInv
<1> QED  BY <1>6, <1>9, <1>10

(* encodeSideInfo2 keeps it. *)
LEMMA EncodeSideInfoStep ==
  ASSUME IInv, EncodeSideInfo
  PROVE  IInv'
<1>1. /\ pc = "pre" /\ pc' = "main"
      /\ UNCHANGED <<totbit, buf_bytes, buf_bit_idx, w_ptr, ResvSize, ResvMax, main_data_begin, drain_post, padding, slot_lag, gr, main_bits,
                     mf_size, mf_samples_to_encode, last, nsamples, mp3buf_size, mp3size, coded,
                     flushing, frames_left, flush_size, mp3count, flushed, errors>>
  BY DEF EncodeSideInfo, stream, resv, pad, part, pcm, call, flush, bounds
<1>2. /\ totbit \in Nat /\ buf_bytes \in Nat /\ main_bits \in Nat /\ slot_lag \in Nat /\ gr \in 0..Granules
      /\ drain_post \in Nat /\ main_data_begin \in Nat
      /\ mf_size \in Nat /\ last \in Nat /\ nsamples \in Nat
      /\ mp3buf_size \in Int /\ mp3size \in Nat /\ frames_left \in Nat /\ flush_size \in Nat /\ mp3count \in Nat
      /\ ResvSize \in Int /\ ResvMax \in Int /\ mf_samples_to_encode \in Int /\ padding \in {0, 1}
      /\ w_ptr \in Slots /\ buf_bit_idx \in 0..7
      /\ coded \in BOOLEAN /\ flushing \in BOOLEAN /\ flushed \in BOOLEAN  BY Types DEF IInv
<1>3. Gap <= ResvLimit /\ RingInv' /\ ResvInv' /\ left' \in Nat  BY SideInfoBits DEF IInv
<1>4. /\ Pending' = Pending + 1 /\ Pending \in Nat
      /\ h_ptr' \in Slots /\ write_timing' \in [Slots -> Int]
      /\ write_timing'[h_ptr'] = write_timing'[LastPtr'] + FrameBits /\ Begun'
  BY <1>3, HeaderRing DEF IInv
<1>5. TypeOK'
  <2>1. /\ totbit' \in Nat /\ buf_bytes' \in Nat /\ main_bits' \in Nat /\ gr' \in 0..Granules /\ drain_post' \in Nat /\ main_data_begin' \in Nat
        /\ slot_lag' \in Nat /\ frames_left' \in Nat /\ flush_size' \in Nat /\ mp3count' \in Nat
        /\ ResvSize' \in Int /\ ResvMax' \in Int
        /\ w_ptr' \in Slots /\ buf_bit_idx' \in 0..7 /\ padding' \in {0, 1}
    BY <1>1, <1>2
  <2>2. /\ mf_size' \in Nat /\ last' \in Nat /\ nsamples' \in Nat /\ mp3buf_size' \in Int /\ mp3size' \in Nat
        /\ mf_samples_to_encode' \in Int /\ coded' \in BOOLEAN /\ flushing' \in BOOLEAN /\ flushed' \in BOOLEAN
    BY <1>1, <1>2
  <2> QED  BY <1>1, <1>3, <1>4, <2>1, <2>2, TypesNext
<1>6. BegunInv'
  <2>1. FrameBits' = FrameBits  BY <1>1 DEF FrameBits
  <2>2. Pending' # 0
    <3>1. Pending + 1 # 0  BY <1>4
    <3> QED  BY <3>1, <1>4
  <2> QED  BY <1>4, <2>1, <2>2 DEF BegunInv
<1>7. DelayInv' /\ CallInv' /\ ErrorsInv' /\ FlushInv'  BY <1>1, InFrameKeeps DEF InFrame
<1> QED  BY <1>3, <1>5, <1>6, <1>7 DEF IInv

(* The end of the main data keeps it: the stuffing after it is put next. *)
LEMMA WriteMainDataStep ==
  ASSUME IInv, WriteMainData
  PROVE  IInv'
<1>1. /\ pc = "main" /\ pc' = "post"
      /\ UNCHANGED <<totbit, buf_bytes, buf_bit_idx, w_ptr, write_timing, h_ptr, ResvSize, ResvMax, main_data_begin, drain_post,
                     padding, slot_lag, gr, main_bits,
                     mf_size, mf_samples_to_encode, last, nsamples, mp3buf_size, mp3size, coded,
                     flushing, frames_left, flush_size, mp3count, flushed, errors>>
  BY DEF WriteMainData, stream, headers, resv, pad, part, pcm, call, flush, bounds
<1>2. /\ totbit \in Nat /\ buf_bytes \in Nat /\ main_bits \in Nat /\ slot_lag \in Nat /\ gr \in 0..Granules
      /\ drain_post \in Nat /\ main_data_begin \in Nat
      /\ mf_size \in Nat /\ last \in Nat /\ nsamples \in Nat
      /\ mp3buf_size \in Int /\ mp3size \in Nat /\ frames_left \in Nat /\ flush_size \in Nat /\ mp3count \in Nat
      /\ ResvSize \in Int /\ ResvMax \in Int /\ mf_samples_to_encode \in Int /\ padding \in {0, 1}
      /\ write_timing \in [Slots -> Int] /\ h_ptr \in Slots /\ w_ptr \in Slots /\ buf_bit_idx \in 0..7
      /\ coded \in BOOLEAN /\ flushing \in BOOLEAN /\ flushed \in BOOLEAN  BY Types DEF IInv
<1>3. /\ RingInv' /\ ResvInv' /\ left' \in Nat /\ Pending' = Pending /\ (Begun' <=> Begun)
      /\ LastPtr' = LastPtr /\ write_timing'[LastPtr'] = write_timing[LastPtr]
  BY MainDataBits DEF IInv
<1>4. TypeOK'
  <2>1. /\ totbit' \in Nat /\ buf_bytes' \in Nat /\ main_bits' \in Nat /\ gr' \in 0..Granules /\ drain_post' \in Nat /\ main_data_begin' \in Nat
        /\ slot_lag' \in Nat /\ frames_left' \in Nat /\ flush_size' \in Nat /\ mp3count' \in Nat
        /\ ResvSize' \in Int /\ ResvMax' \in Int
        /\ write_timing' \in [Slots -> Int] /\ h_ptr' \in Slots /\ w_ptr' \in Slots /\ buf_bit_idx' \in 0..7 /\ padding' \in {0, 1}
    BY <1>1, <1>2
  <2>2. /\ mf_size' \in Nat /\ last' \in Nat /\ nsamples' \in Nat /\ mp3buf_size' \in Int /\ mp3size' \in Nat
        /\ mf_samples_to_encode' \in Int /\ coded' \in BOOLEAN /\ flushing' \in BOOLEAN /\ flushed' \in BOOLEAN
    BY <1>1, <1>2
  <2> QED  BY <1>1, <1>3, <2>1, <2>2, TypesNext
<1>5. BegunInv'
  <2>1. Begun  BY <1>1 DEF IInv, BegunInv
  <2>2. pc \notin {"granule", "pre"}  BY <1>1
  <2> QED  BY <1>1, <1>3, <2>1, <2>2, BegunKept DEF IInv
<1>6. DelayInv' /\ CallInv' /\ ErrorsInv' /\ FlushInv'  BY <1>1, InFrameKeeps DEF InFrame
<1> QED  BY <1>3, <1>4, <1>5, <1>6 DEF IInv

(* The end of format_bitstream and copy_buffer keep it, with room in the caller's buffer or without. *)
LEMMA FinishFrameStep ==
  ASSUME IInv, FinishFrame
  PROVE  IInv'
<1>1. /\ totbit \in Nat /\ buf_bytes \in Nat /\ left \in Nat /\ main_bits \in Nat /\ drain_post \in Nat
      /\ main_data_begin \in Nat /\ slot_lag \in Nat /\ mf_size \in Nat /\ last \in Nat /\ nsamples \in Nat
      /\ mp3buf_size \in Int /\ mp3size \in Nat /\ frames_left \in Nat /\ flush_size \in Nat /\ mp3count \in Nat
      /\ ResvSize \in Int /\ ResvMax \in Int /\ mf_samples_to_encode \in Int
      /\ write_timing \in [Slots -> Int] /\ h_ptr \in Slots /\ w_ptr \in Slots
      /\ buf_bit_idx \in 0..7 /\ gr \in 0..Granules /\ padding \in {0, 1}
      /\ coded \in BOOLEAN /\ flushing \in BOOLEAN /\ flushed \in BOOLEAN  BY Types DEF IInv
<1>2. /\ EncDelay \in Nat /\ PostDelay \in Nat /\ EndPadding \in Nat /\ Needed \in Nat /\ FrameSize \in Nat /\ FrameSize >= 1
      /\ MaxErrors \in Nat /\ EndPadding <= PostDelay /\ FrameSize < Needed
  BY Constants, DelaysHold DEF DelaysHold
<1>3. /\ pc = "post" /\ left = 0 /\ coded' = TRUE
      /\ UNCHANGED <<w_ptr, h_ptr, left, ResvMax, drain_post, padding, slot_lag, gr, main_bits, nsamples, mp3buf_size>>
      /\ \/ /\ TooSmall(IF mp3buf_size = 0 THEN 0 ELSE mp3buf_size - mp3size)
            /\ Fail /\ UNCHANGED <<buf_bytes, buf_bit_idx, mp3size>>
         \/ /\ buf_bytes' = 0 /\ buf_bit_idx' = 0
            /\ mp3size' = mp3size + buf_bytes
            /\ mf_size' = mf_size - FrameSize
            /\ mf_samples_to_encode' = mf_samples_to_encode - FrameSize
            /\ last' = Greatest(last - FrameSize, 0)
            /\ pc' = "fill"
            /\ UNCHANGED <<flushing, frames_left, flush_size, mp3count, flushed, errors>>
  BY DEF FinishFrame, pad, part, flush, bounds
<1>4. /\ RingInv' /\ ResvInv' /\ Pending' = Pending /\ (Begun' <=> Begun)
      /\ totbit' \in Nat /\ write_timing' \in [Slots -> Int] /\ main_data_begin' \in Nat /\ ResvSize' \in Int
      /\ buf_bit_idx' = buf_bit_idx /\ buf_bytes' \in Nat
      /\ (write_timing[h_ptr] = write_timing[LastPtr] + FrameBits => write_timing'[h_ptr'] = write_timing'[LastPtr'] + FrameBits)
      /\ (totbit > write_timing[LastPtr] => totbit' > write_timing'[LastPtr'])
  BY FinishFrameBits DEF IInv
<1>5. Begun /\ write_timing[h_ptr] = write_timing[LastPtr] + FrameBits /\ (Pending = 0 => totbit > write_timing[LastPtr])
  BY <1>3 DEF IInv, BegunInv
<1>6. BegunInv'
  <2>1. FrameBits' = FrameBits  BY <1>3 DEF FrameBits
  <2> QED  BY <1>4, <1>5, <2>1 DEF BegunInv
<1>7. PICK d \in Int : d = Samples  BY <1>1, <1>2 DEF Samples
<1>8. mf_size >= Needed /\ mf_size >= 1 /\ mf_size <= d + EndPadding /\ d <= mf_size + EncDelay /\ last <= mf_size
  BY <1>3, <1>7 DEF IInv, DelayInv, CallInv, InFrame
<1>9. mf_samples_to_encode >= 1 /\ mf_samples_to_encode = d + PostDelay /\ mf_samples_to_encode - FrameSize >= 1
  <2>1. mf_samples_to_encode >= 1
    <3>1. CASE mf_samples_to_encode < 1
      <4>1. d = EncDelay  BY <3>1, <1>7 DEF Samples
      <4>2. EncDelay + EndPadding < Needed  BY DelaysHold DEF DelaysHold
      <4> QED  BY <4>1, <4>2, <1>1, <1>2, <1>8
    <3> QED  BY <3>1, <1>1
  <2>2. mf_samples_to_encode = d + PostDelay  BY <2>1, <1>1, <1>2, <1>7 DEF Samples
  <2> QED  BY <2>1, <2>2, <1>1, <1>2, <1>7, <1>8
<1>10. errors \in Nat /\ errors <= MaxErrors  BY <1>2 DEF IInv, ErrorsInv
<1>11. errors * FrameSize \in Nat /\ (errors + 1) * FrameSize = errors * FrameSize + FrameSize  BY <1>10, ErrorsGrow
<1>12. ~flushing => mf_size < Needed + (errors + 1) * FrameSize  BY <1>3 DEF IInv, ErrorsInv, InFrame
<1>13. /\ totbit' \in Nat /\ buf_bytes' \in Nat /\ left' \in Nat /\ main_bits' \in Nat /\ drain_post' \in Nat
       /\ main_data_begin' \in Nat /\ slot_lag' \in Nat /\ ResvSize' \in Int /\ ResvMax' \in Int
       /\ write_timing' \in [Slots -> Int] /\ h_ptr' \in Slots /\ w_ptr' \in Slots
       /\ buf_bit_idx' \in 0..7 /\ gr' \in 0..Granules /\ padding' \in {0, 1} /\ nsamples' \in Nat /\ mp3buf_size' \in Int /\ coded' \in BOOLEAN
  <2>1. left' \in Nat /\ main_bits' \in Nat /\ drain_post' \in Nat /\ slot_lag' \in Nat /\ ResvMax' \in Int /\ h_ptr' \in Slots /\ w_ptr' \in Slots
       /\ gr' \in 0..Granules /\ padding' \in {0, 1} /\ nsamples' \in Nat /\ mp3buf_size' \in Int
    BY <1>1, <1>3
  <2>2. buf_bit_idx' \in 0..7 /\ coded' \in BOOLEAN  BY <1>1, <1>3, <1>4
  <2> QED  BY <1>4, <2>1, <2>2
<1>14. CASE /\ TooSmall(IF mp3buf_size = 0 THEN 0 ELSE mp3buf_size - mp3size)
            /\ Fail /\ UNCHANGED <<buf_bytes, buf_bit_idx, mp3size>>
  <2>1. /\ flushing' = FALSE /\ flushed' = FALSE /\ errors' = errors + 1 /\ UNCHANGED <<mf_size, last, frames_left, flush_size, mp3count, mp3size>>
        /\ (mf_samples_to_encode' = 0 \/ mf_samples_to_encode' = mf_samples_to_encode)
        /\ pc' \in {"idle", "broken"}
        /\ (pc' = "idle" => ~flushing /\ mf_samples_to_encode' = mf_samples_to_encode)
    BY <1>14 DEF Fail
  <2>2. mp3buf_size # 0  BY <1>14 DEF TooSmall
  <2>3. errors + 1 \in 0..MaxErrors
    <3>1. errors < MaxErrors  BY <2>2, <1>3 DEF IInv, ErrorsInv, InCall, InFrame
    <3> QED  BY <3>1, <1>2, <1>10
  <2>4. TypeOK'
    <3>1. /\ mf_size' \in Nat /\ last' \in Nat /\ mp3size' \in Nat /\ frames_left' \in Nat /\ flush_size' \in Nat /\ mp3count' \in Nat  BY <1>1, <2>1
    <3>2. mf_samples_to_encode' \in Int  BY <1>1, <2>1
    <3>3. flushing' \in BOOLEAN /\ flushed' \in BOOLEAN  BY <2>1
    <3> QED  BY <1>13, <2>1, <3>1, <3>2, <3>3, TypesNext
  <2>5. DelayInv'
    <3>1. CASE pc' = "idle"
      <4>1. Samples' = Samples  BY <2>1, <3>1 DEF Samples
      <4> QED  BY <4>1, <2>1, <1>7, <1>8 DEF DelayInv
    <3>2. CASE pc' = "broken"
      BY <3>2 DEF DelayInv
    <3> QED  BY <2>1, <3>1, <3>2
  <2>6. CallInv'  BY <2>1 DEF CallInv, InFrame
  <2>7. ErrorsInv'
    <3>1. pc' = "idle" => mf_size < Needed + (errors + 1) * FrameSize  BY <2>1, <1>12
    <3>2. pc' \notin InFrame /\ pc' \notin InCall /\ pc' # "fill"  BY <2>1 DEF InFrame, InCall
    <3> QED  BY <2>1, <2>3, <3>1, <3>2 DEF ErrorsInv
  <2>8. FlushInv'
    <3>1. pc' \notin {"flush", "drain"} /\ pc' \notin InCall  BY <2>1 DEF InFrame, InCall
    <3> QED  BY <2>1, <3>1 DEF FlushInv
  <2> QED  BY <1>4, <1>6, <2>4, <2>5, <2>6, <2>7, <2>8 DEF IInv
<1>15. CASE /\ buf_bytes' = 0 /\ buf_bit_idx' = 0
            /\ mp3size' = mp3size + buf_bytes
            /\ mf_size' = mf_size - FrameSize
            /\ mf_samples_to_encode' = mf_samples_to_encode - FrameSize
            /\ last' = Greatest(last - FrameSize, 0)
            /\ pc' = "fill"
            /\ UNCHANGED <<flushing, frames_left, flush_size, mp3count, flushed, errors>>
  <2>1. PICK s \in Nat : mf_size' = s /\ s = mf_size - FrameSize /\ s >= 1  BY <1>15, <1>1, <1>2, <1>8
  <2>2. PICK l \in Nat : last' = l /\ (l = last - FrameSize \/ (l = 0 /\ last <= FrameSize))
    <3>1. CASE last - FrameSize > 0
      <4>1. PICK k \in Nat : k = last - FrameSize  BY <3>1, <1>1, <1>2
      <4>2. last' = k
        <5>1. last' = last - FrameSize  BY <3>1, <1>15, <1>1, <1>2 DEF Greatest
        <5> QED  BY <5>1, <4>1
      <4> QED  BY <4>1, <4>2
    <3>2. CASE last - FrameSize <= 0
      <4>1. last' = 0 /\ last <= FrameSize  BY <3>2, <1>15, <1>1, <1>2 DEF Greatest
      <4> QED  BY <4>1
    <3> QED  BY <3>1, <3>2, <1>1, <1>2
  <2>3. PICK m \in Int : mf_samples_to_encode' = m /\ m = mf_samples_to_encode - FrameSize /\ m >= 1  BY <1>15, <1>1, <1>2, <1>9
  <2>4. PICK c \in Nat : mp3size' = c
    <3>1. mp3size + buf_bytes \in Nat  BY <1>1
    <3> QED  BY <3>1, <1>15
  <2>5. TypeOK'
    <3>1. frames_left' \in Nat /\ flush_size' \in Nat /\ mp3count' \in Nat  BY <1>1, <1>15
    <3>2. flushing' \in BOOLEAN /\ flushed' \in BOOLEAN  BY <1>1, <1>15
    <3>3. mf_size' \in Nat /\ last' \in Nat /\ mp3size' \in Nat /\ mf_samples_to_encode' \in Int  BY <2>1, <2>2, <2>3, <2>4
    <3>4. pc' = "fill"  BY <1>15
    <3> QED  BY <1>13, <3>1, <3>2, <3>3, <3>4, TypesNext
  <2>6. DelayInv'
    <3>1. Samples' = m - PostDelay  BY <2>3, <1>2 DEF Samples
    <3>2. s <= (m - PostDelay) + EndPadding /\ m - PostDelay <= s + EncDelay /\ l <= s
      BY <2>1, <2>2, <2>3, <1>1, <1>2, <1>7, <1>8, <1>9
    <3> QED  BY <2>1, <2>2, <3>1, <3>2 DEF DelayInv
  <2>7. CallInv'  BY <1>3, <1>15 DEF CallInv, InFrame
  <2>8. ErrorsInv'
    <3>1. ~flushing => s < Needed + errors * FrameSize
      <4>1. mf_size < Needed + (errors + 1) * FrameSize => s < Needed + errors * FrameSize  BY <2>1, <1>1, <1>2, <1>11
      <4> QED  BY <4>1, <1>12
    <3>2. mp3buf_size # 0 => errors < MaxErrors  BY <1>3 DEF IInv, ErrorsInv, InCall, InFrame
    <3>3. errors \in 0..MaxErrors /\ (flushing /\ flush_size # 0 => errors < MaxErrors)  BY DEF IInv, ErrorsInv
    <3>4. pc' = "fill" /\ pc' \notin InFrame /\ errors' = errors /\ mp3buf_size' = mp3buf_size /\ flush_size' = flush_size /\ flushing' = flushing
      BY <1>3, <1>15 DEF InFrame
    <3> QED  BY <2>1, <3>1, <3>2, <3>3, <3>4 DEF ErrorsInv
  <2>9. FlushInv'
    <3>1. flushed = FALSE /\ flushed' = FALSE  BY <1>1, <1>3, <1>15 DEF IInv, FlushInv
    <3>2. pc' = "fill" /\ coded' = TRUE /\ frames_left' = frames_left /\ flushing' = flushing /\ nsamples' = nsamples  BY <1>3, <1>15
    <3>3. CASE ~flushing
      BY <3>1, <3>2, <3>3 DEF FlushInv
    <3>4. CASE flushing
      <4>1. /\ frames_left >= 1 /\ last <= ToCode * FrameSize /\ ~coded /\ nsamples = 0
            /\ mf_size + nsamples <= EncDelay + EndPadding + ToCode * (FrameSize - 1) + (IF coded THEN 0 ELSE 1)
        BY <3>4, <1>3 DEF IInv, FlushInv, InCall, InFrame
      <4>2. ToCode = frames_left /\ ToCode' = frames_left - 1  BY <4>1, <3>2, <1>1 DEF ToCode
      <4>3. PICK t \in Nat : t = (frames_left - 1) * FrameSize /\ frames_left * FrameSize = t + FrameSize
        BY <4>1, <1>1, Constants
      <4>4. PICK u \in Nat : u = (frames_left - 1) * (FrameSize - 1) /\ frames_left * (FrameSize - 1) = u + (FrameSize - 1)
        BY <4>1, <1>1, Constants
      <4>5. last <= t + FrameSize  BY <4>1, <4>2, <4>3
      <4>6. l <= (frames_left - 1) * FrameSize  BY <4>3, <4>5, <2>2, <1>1, <1>2
      <4>7. mf_size + 0 <= EncDelay + EndPadding + (u + (FrameSize - 1)) + 1  BY <4>1, <4>2, <4>4
      <4>8. s + 0 <= EncDelay + EndPadding + (frames_left - 1) * (FrameSize - 1) + 0  BY <4>4, <4>7, <2>1, <1>1, <1>2
      <4>9. last' <= ToCode' * FrameSize  BY <4>2, <4>6, <2>2
      <4>10. mf_size' + nsamples' <= EncDelay + EndPadding + ToCode' * (FrameSize - 1) + (IF coded' THEN 0 ELSE 1)
        BY <4>1, <4>2, <4>8, <3>2, <2>1
      <4>11. nsamples' = 0 /\ frames_left' >= 1 /\ flushing'  BY <4>1, <3>2, <3>4
      <4> QED  BY <4>9, <4>10, <4>11, <3>1, <3>2 DEF FlushInv, InCall, InFrame
    <3> QED  BY <3>3, <3>4
  <2> QED  BY <1>4, <1>6, <2>5, <2>6, <2>7, <2>8, <2>9 DEF IInv
<1> QED  BY <1>3, <1>14, <1>15

(* lame_encode_flush asking for its next frame keeps it. *)
LEMMA FlushFrameStep ==
  ASSUME IInv, FlushFrame
  PROVE  IInv'
<1>1. pc = "flush" /\ frames_left > 0 /\ Enter(Bunch, RoomLeft)  BY DEF FlushFrame
<1>2. /\ mf_size \in Nat /\ last \in Nat /\ frames_left \in Nat /\ flush_size \in Nat /\ mp3count \in Nat
      /\ mf_samples_to_encode \in Int /\ coded \in BOOLEAN /\ flushing \in BOOLEAN /\ flushed \in BOOLEAN  BY Types DEF IInv
<1>3. /\ EncDelay \in Nat /\ PostDelay \in Nat /\ EndPadding \in Nat /\ Needed \in Nat /\ FrameSize \in Nat /\ FrameSize >= 1
      /\ MaxErrors \in Nat /\ MaxBunch \in Nat /\ MaxBunch >= 1 /\ Needed <= FrameSize + EncDelay + EndPadding
  BY Constants, DelaysHold DEF DelaysHold
<1>4. PICK n \in Nat : n = Bunch /\ n >= 1 /\ (n <= Needed - mf_size \/ n = 1)
  BY <1>2, <1>3 DEF Bunch, Greatest, Least
<1>5. PICK size \in Int : size = RoomLeft /\ (size # 0 => flush_size # 0)  BY <1>2 DEF RoomLeft
<1>6. Enter(n, size)  BY <1>1, <1>4, <1>5
<1>7. /\ TypeOK' /\ RingInv' /\ ResvInv' /\ BegunInv'
      /\ \/ TooSmall(size) /\ Fail /\ UNCHANGED <<nsamples, mp3buf_size, mp3size, coded>>
         \/ /\ nsamples' = n /\ mp3buf_size' = size /\ coded' = FALSE /\ pc' = "fill" /\ flushed' = FALSE
            /\ UNCHANGED <<pcm, flushing, frames_left, flush_size, mp3count, errors>>
  BY <1>1, <1>5, <1>6, EnterBits DEF IInv
<1>8. flushing  BY <1>1 DEF IInv, FlushInv
<1>9. errors \in Nat /\ errors <= MaxErrors /\ (flush_size # 0 => errors < MaxErrors)  BY <1>3, <1>8 DEF IInv, ErrorsInv
<1>10. CASE TooSmall(size) /\ Fail /\ UNCHANGED <<nsamples, mp3buf_size, mp3size, coded>>
  <2>1. pc' = "broken" /\ flushing' = FALSE /\ flushed' = FALSE /\ errors' = errors + 1  BY <1>8, <1>10 DEF Fail
  <2>2. size # 0  BY <1>10 DEF TooSmall
  <2>3. DelayInv' /\ CallInv'  BY <2>1 DEF DelayInv, CallInv, InFrame
  <2>4. ErrorsInv'
    <3>1. errors + 1 \in 0..MaxErrors  BY <2>2, <1>3, <1>5, <1>9
    <3> QED  BY <2>1, <3>1 DEF ErrorsInv, InFrame, InCall
  <2>5. FlushInv'  BY <2>1 DEF FlushInv, InCall, InFrame
  <2> QED  BY <1>7, <2>3, <2>4, <2>5 DEF IInv
<1>11. CASE /\ nsamples' = n /\ mp3buf_size' = size /\ coded' = FALSE /\ pc' = "fill" /\ flushed' = FALSE
            /\ UNCHANGED <<pcm, flushing, frames_left, flush_size, mp3count, errors>>
  <2>1. UNCHANGED <<mf_size, mf_samples_to_encode, last>>  BY <1>11 DEF pcm
  <2>2. DelayInv'
    <3>1. Samples' = Samples  BY <2>1 DEF Samples
    <3> QED  BY <3>1, <2>1, <1>1 DEF IInv, DelayInv
  <2>3. CallInv'  BY <1>4, <1>11 DEF CallInv, InFrame
  <2>4. ErrorsInv'
    <3>1. mp3buf_size' # 0 => errors < MaxErrors  BY <1>5, <1>9, <1>11
    <3>2. errors \in 0..MaxErrors  BY <1>3, <1>9
    <3> QED  BY <3>1, <3>2, <1>8, <1>9, <1>11 DEF ErrorsInv, InFrame
  <2>5. FlushInv'
    <3>1. last <= frames_left * FrameSize /\ mf_size <= EncDelay + EndPadding + frames_left * (FrameSize - 1)  BY <1>1 DEF IInv, FlushInv
    <3>2. ToCode' = frames_left
      <4>1. frames_left - 0 = frames_left  BY <1>2
      <4> QED  BY <4>1, <1>11 DEF ToCode
    <3>3. mf_size + n <= Needed \/ n <= 1  BY <1>2, <1>3, <1>4
    <3>4. mf_size + n <= EncDelay + EndPadding + frames_left * (FrameSize - 1) + 1
      <4>1. PICK t \in Nat : t = frames_left * (FrameSize - 1) /\ t >= FrameSize - 1
        <5>1. frames_left * (FrameSize - 1) >= FrameSize - 1 /\ frames_left * (FrameSize - 1) \in Nat  BY <1>1, <1>2, Constants
        <5> QED  BY <5>1
      <4>2. mf_size <= EncDelay + EndPadding + t  BY <3>1, <4>1
      <4>3. mf_size + n <= EncDelay + EndPadding + t + 1  BY <4>1, <4>2, <3>3, <1>2, <1>3, <1>4
      <4> QED  BY <4>1, <4>3
    <3>5. mf_size' + nsamples' = mf_size + n /\ nsamples' = n /\ last' = last /\ frames_left' = frames_left /\ flushing' /\ coded' = FALSE
          /\ pc' = "fill" /\ flushed' = FALSE
      BY <2>1, <1>8, <1>11
    <3>6. frames_left' >= 1  BY <1>1, <1>2, <3>5
    <3> QED  BY <3>1, <3>2, <3>3, <3>4, <3>5, <3>6 DEF FlushInv, InCall, InFrame
  <2> QED  BY <1>7, <2>2, <2>3, <2>4, <2>5 DEF IInv
<1> QED  BY <1>7, <1>10, <1>11

(* flush_bitstream, once no frame is left to ask for, keeps it. *)
LEMMA FlushBitstreamStep ==
  ASSUME IInv, FlushBitstream
  PROVE  IInv'
<1>1. /\ pc = "flush" /\ frames_left <= 0 /\ mf_samples_to_encode' = 0 /\ pc' = "drain"
      /\ UNCHANGED <<totbit, buf_bytes, buf_bit_idx, w_ptr, write_timing, h_ptr, ResvSize, ResvMax, main_data_begin, drain_post,
                     padding, slot_lag, gr, main_bits, mf_size, last, nsamples, mp3buf_size, mp3size, coded,
                     flushing, frames_left, flush_size, mp3count, flushed, errors>>
  BY DEF FlushBitstream, stream, headers, resv, pad, part, call, flush, bounds
<1>2. /\ totbit \in Nat /\ buf_bytes \in Nat /\ main_bits \in Nat /\ slot_lag \in Nat /\ gr \in 0..Granules
      /\ drain_post \in Nat /\ main_data_begin \in Nat
      /\ mf_size \in Nat /\ last \in Nat /\ nsamples \in Nat
      /\ mp3buf_size \in Int /\ mp3size \in Nat /\ frames_left \in Nat /\ flush_size \in Nat /\ mp3count \in Nat
      /\ ResvSize \in Int /\ ResvMax \in Int /\ padding \in {0, 1}
      /\ write_timing \in [Slots -> Int] /\ h_ptr \in Slots /\ w_ptr \in Slots /\ buf_bit_idx \in 0..7
      /\ coded \in BOOLEAN /\ flushing \in BOOLEAN /\ flushed \in BOOLEAN  BY Types DEF IInv
<1>3. flushing /\ frames_left = 0  BY <1>1, <1>2 DEF IInv, FlushInv
<1>4. Begun  BY <1>3 DEF IInv, BegunInv
<1>5. /\ RingInv' /\ ResvInv' /\ left' \in Nat
      /\ Pending' = Pending /\ LastPtr' = LastPtr /\ (Begun' <=> Begun) /\ write_timing'[LastPtr'] = write_timing[LastPtr]
  BY <1>4, FlushBitstreamBits DEF IInv
<1>6. TypeOK'
  <2>1. /\ totbit' \in Nat /\ buf_bytes' \in Nat /\ main_bits' \in Nat /\ gr' \in 0..Granules /\ drain_post' \in Nat /\ main_data_begin' \in Nat
        /\ slot_lag' \in Nat /\ frames_left' \in Nat /\ flush_size' \in Nat /\ mp3count' \in Nat
        /\ ResvSize' \in Int /\ ResvMax' \in Int
        /\ write_timing' \in [Slots -> Int] /\ h_ptr' \in Slots /\ w_ptr' \in Slots /\ buf_bit_idx' \in 0..7 /\ padding' \in {0, 1}
    BY <1>1, <1>2
  <2>2. /\ mf_size' \in Nat /\ last' \in Nat /\ nsamples' \in Nat /\ mp3buf_size' \in Int /\ mp3size' \in Nat
        /\ mf_samples_to_encode' \in Int /\ coded' \in BOOLEAN /\ flushing' \in BOOLEAN /\ flushed' \in BOOLEAN
    BY <1>1, <1>2
  <2> QED  BY <1>1, <1>5, <2>1, <2>2, TypesNext
<1>7. BegunInv'
  <2>1. pc \notin {"granule", "pre"}  BY <1>1
  <2> QED  BY <1>1, <1>4, <1>5, <2>1, BegunKept DEF IInv
<1>8. DelayInv' /\ CallInv'  BY <1>1 DEF DelayInv, CallInv, InFrame
<1>9. ErrorsInv'
  <2>1. errors \in 0..MaxErrors /\ (flushing /\ flush_size # 0 => errors < MaxErrors)  BY DEF IInv, ErrorsInv
  <2> QED  BY <1>1, <2>1, <1>3 DEF ErrorsInv, InFrame, InCall
<1>10. FlushInv'
  <2>1. last <= frames_left * FrameSize /\ mf_size <= EncDelay + EndPadding + frames_left * (FrameSize - 1)  BY <1>1 DEF IInv, FlushInv
  <2>2. frames_left * FrameSize = 0 /\ frames_left * (FrameSize - 1) = 0  BY <1>3, Constants
  <2>3. mf_size >= 1  BY <1>1 DEF IInv, DelayInv
  <2>4. EncDelay \in Nat /\ EndPadding \in Nat  BY Constants
  <2>5. last = 0 /\ mf_size \in 1..EncDelay + EndPadding  BY <2>1, <2>2, <2>3, <2>4, <1>2
  <2>6. ~flushed  BY <1>1, <1>2 DEF IInv, FlushInv
  <2> QED  BY <1>1, <1>3, <2>5, <2>6 DEF FlushInv, InCall, InFrame
<1> QED  BY <1>5, <1>6, <1>7, <1>8, <1>9, <1>10 DEF IInv

(* The last copy_buffer of a flush keeps it, and leaves nothing behind when it succeeds. *)
LEMMA DrainedStep ==
  ASSUME IInv, Drained
  PROVE  IInv'
<1>1. /\ pc = "drain" /\ left = 0 /\ ResvSize' = 0 /\ main_data_begin' = 0
      /\ UNCHANGED <<write_timing, h_ptr, left, ResvMax, drain_post, padding, slot_lag, gr, main_bits, nsamples, mp3buf_size, mp3size, coded>>
      /\ \/ TooSmall(RoomLeft) /\ Fail /\ UNCHANGED <<totbit, buf_bytes, buf_bit_idx, w_ptr>>
         \/ /\ buf_bytes' = 0 /\ UNCHANGED <<totbit, w_ptr>>
            /\ pc' = "idle" /\ flushing' = FALSE /\ flushed' = TRUE
            /\ UNCHANGED <<mf_size, mf_samples_to_encode, last, frames_left, flush_size, mp3count, errors>>
  BY DEF Drained, stream, headers, pad, part, pcm, call, bounds, CopyBuffer
<1>2. /\ totbit \in Nat /\ buf_bytes \in Nat /\ left \in Nat /\ main_bits \in Nat /\ slot_lag \in Nat /\ gr \in 0..Granules /\ drain_post \in Nat
      /\ mf_size \in Nat /\ last \in Nat /\ nsamples \in Nat
      /\ mp3buf_size \in Int /\ mp3size \in Nat /\ frames_left \in Nat /\ flush_size \in Nat /\ mp3count \in Nat
      /\ ResvMax \in Int /\ mf_samples_to_encode \in Int /\ padding \in {0, 1}
      /\ write_timing \in [Slots -> Int] /\ h_ptr \in Slots /\ w_ptr \in Slots /\ buf_bit_idx \in 0..7
      /\ coded \in BOOLEAN /\ flushing \in BOOLEAN /\ flushed \in BOOLEAN  BY Types DEF IInv
<1>3. /\ EncDelay \in Nat /\ EndPadding \in Nat /\ Needed \in Nat /\ MaxErrors \in Nat /\ EncDelay + EndPadding < Needed
  BY Constants, DelaysHold DEF DelaysHold
<1>4. flushing /\ last = 0 /\ mf_size \in 1..EncDelay + EndPadding /\ mf_samples_to_encode = 0  BY <1>1 DEF IInv, FlushInv
<1>5. /\ RingInv' /\ ResvInv' /\ buf_bit_idx' = buf_bit_idx
      /\ Pending' = Pending /\ LastPtr' = LastPtr /\ (Begun' <=> Begun) /\ write_timing'[LastPtr'] = write_timing[LastPtr]
      /\ w_ptr = h_ptr /\ totbit = write_timing[h_ptr]
  BY DrainedBits DEF IInv
<1>6. /\ errors \in Nat /\ errors <= MaxErrors /\ (flush_size # 0 => errors < MaxErrors)  BY <1>3, <1>4 DEF IInv, ErrorsInv
<1>7. /\ totbit' \in Nat /\ left' \in Nat /\ main_bits' \in Nat /\ gr' \in 0..Granules /\ drain_post' \in Nat /\ main_data_begin' \in Nat
      /\ slot_lag' \in Nat /\ ResvSize' \in Int /\ ResvMax' \in Int
      /\ write_timing' \in [Slots -> Int] /\ h_ptr' \in Slots /\ w_ptr' \in Slots /\ buf_bit_idx' \in 0..7 /\ padding' \in {0, 1}
      /\ nsamples' \in Nat /\ mp3buf_size' \in Int /\ mp3size' \in Nat /\ coded' \in BOOLEAN
  BY <1>1, <1>2, <1>5
<1>8. CASE TooSmall(RoomLeft) /\ Fail /\ UNCHANGED <<totbit, buf_bytes, buf_bit_idx, w_ptr>>
  <2>1. /\ pc' = "broken" /\ flushing' = FALSE /\ flushed' = FALSE /\ errors' = errors + 1 /\ mf_samples_to_encode' = 0
        /\ UNCHANGED <<mf_size, last, frames_left, flush_size, mp3count>>  BY <1>4, <1>8 DEF Fail
  <2>2. flush_size # 0  BY <1>8 DEF TooSmall, RoomLeft
  <2>3. TypeOK'
    <3>1. buf_bytes' \in Nat /\ mf_size' \in Nat /\ last' \in Nat /\ frames_left' \in Nat /\ flush_size' \in Nat /\ mp3count' \in Nat
          /\ mf_samples_to_encode' \in Int
      BY <2>1, <1>2, <1>8
    <3> QED  BY <2>1, <3>1, <1>7, TypesNext
  <2>4. BegunInv'
    <3>1. pc' \notin InCall /\ pc' \notin {"main", "post", "drain"} /\ pc \notin {"granule", "pre"}  BY <2>1, <1>1 DEF InCall, InFrame
    <3> QED  BY <1>1, <1>5, <1>8, <2>1, <3>1, BegunKept DEF IInv
  <2>5. DelayInv' /\ CallInv'  BY <2>1 DEF DelayInv, CallInv, InFrame
  <2>6. ErrorsInv'
    <3>1. errors + 1 \in 0..MaxErrors  BY <2>2, <1>3, <1>6
    <3> QED  BY <2>1, <3>1 DEF ErrorsInv, InFrame, InCall
  <2>7. FlushInv'  BY <2>1 DEF FlushInv, InCall, InFrame
  <2> QED  BY <1>5, <2>3, <2>4, <2>5, <2>6, <2>7 DEF IInv
<1>9. CASE /\ buf_bytes' = 0 /\ UNCHANGED <<totbit, w_ptr>>
           /\ pc' = "idle" /\ flushing' = FALSE /\ flushed' = TRUE
           /\ UNCHANGED <<mf_size, mf_samples_to_encode, last, frames_left, flush_size, mp3count, errors>>
  <2>1. TypeOK'
    <3>1. buf_bytes' \in Nat /\ mf_size' \in Nat /\ last' \in Nat /\ frames_left' \in Nat /\ flush_size' \in Nat /\ mp3count' \in Nat
          /\ mf_samples_to_encode' \in Int
      BY <1>2, <1>9
    <3> QED  BY <1>9, <3>1, <1>7, TypesNext
  <2>2. BegunInv'
    <3>1. pc' \notin InCall /\ pc' \notin {"main", "post", "drain"} /\ pc \notin {"granule", "pre"}  BY <1>1, <1>9 DEF InCall, InFrame
    <3> QED  BY <1>1, <1>5, <1>9, <3>1, BegunKept DEF IInv
  <2>3. DelayInv'
    <3>1. Samples' = EncDelay
      <4>1. mf_samples_to_encode' = 0  BY <1>4, <1>9
      <4> QED  BY <4>1 DEF Samples
    <3>2. mf_size >= 1 /\ mf_size <= EncDelay + EndPadding /\ EncDelay <= mf_size + EncDelay /\ last <= mf_size  BY <1>2, <1>3, <1>4
    <3> QED  BY <3>1, <3>2, <1>9 DEF DelayInv
  <2>4. CallInv'  BY <1>9 DEF CallInv, InFrame
  <2>5. ErrorsInv'
    <3>1. PICK e \in Nat : e = errors * FrameSize  BY <1>6, ErrorsGrow
    <3>2. mf_size < Needed + errors * FrameSize  BY <3>1, <1>2, <1>3, <1>4
    <3>3. errors \in 0..MaxErrors  BY <1>3, <1>6
    <3> QED  BY <3>2, <3>3, <1>9 DEF ErrorsInv, InFrame, InCall
  <2>6. FlushInv'
    <3>1. FlushSendsAll'  BY <1>1, <1>4, <1>5, <1>9 DEF FlushSendsAll
    <3> QED  BY <3>1, <1>9 DEF FlushInv, InCall, InFrame
  <2> QED  BY <1>5, <2>1, <2>2, <2>3, <2>4, <2>5, <2>6 DEF IInv
<1> QED  BY <1>1, <1>8, <1>9

(* A new encoder satisfies the invariant. *)
LEMMA IInvInit ==
  ASSUME Init
  PROVE  IInv
<1>1. /\ Byte = 8 /\ TagBytes \in Nat /\ HeaderBuf \in Nat /\ HeaderBuf >= 2 /\ ResvLimit \in Nat /\ FracSpF \in Nat
      /\ EncDelay \in Nat /\ PostDelay \in Nat /\ MdctDelay \in Nat /\ MdctDelay < EncDelay /\ EndPadding \in Nat
      /\ Needed \in Nat /\ MaxErrors \in Nat /\ Granules \in {1, 2} /\ EncDelay + EndPadding < Needed /\ FrameSize \in Nat
      /\ FrameSlots \in Nat /\ SideInfo \in Nat
  BY Constants, DelaysHold DEF DelaysHold
<1>2. /\ pc = "idle" /\ totbit = 8 * TagBytes /\ buf_bytes = TagBytes /\ buf_bit_idx = 0
      /\ write_timing = [p \in Slots |-> 8 * TagBytes] /\ h_ptr = 0 /\ w_ptr = 0 /\ left = 0
      /\ ResvSize = 0 /\ ResvMax = 0 /\ main_data_begin = 0 /\ drain_post = 0 /\ padding = 0 /\ slot_lag = FracSpF
      /\ gr = 0 /\ main_bits = 0
      /\ mf_size = EncDelay - MdctDelay /\ mf_samples_to_encode = EncDelay + PostDelay /\ last = 0
      /\ nsamples = 0 /\ mp3buf_size = 0 /\ mp3size = 0 /\ coded = FALSE
      /\ flushing = FALSE /\ frames_left = 0 /\ flush_size = 0 /\ mp3count = 0 /\ flushed = FALSE /\ errors = 0
  BY <1>1 DEF Init
<1>3. 0 \in Slots  BY <1>1 DEF Slots
<1>4. PICK t \in Nat : t = 8 * TagBytes /\ t % 8 = 0  BY <1>1
<1>5. write_timing \in [Slots -> Int] /\ \A p \in Slots : write_timing[p] = t  BY <1>2, <1>4
<1>6. TypeOK
  <2>1. {totbit, buf_bytes, left, main_bits, drain_post, main_data_begin, slot_lag} \subseteq Nat  BY <1>1, <1>2
  <2>2. {mf_size, last, nsamples, mp3size, frames_left, flush_size, mp3count} \subseteq Nat  BY <1>1, <1>2
  <2>3. {ResvSize, ResvMax, mf_samples_to_encode, mp3buf_size} \subseteq Int  BY <1>1, <1>2
  <2>4. {coded, flushing, flushed} \subseteq BOOLEAN  BY <1>2
  <2>5. buf_bit_idx \in 0..Byte - 1 /\ gr \in 0..Granules /\ padding \in {0, 1} /\ h_ptr \in Slots /\ w_ptr \in Slots  BY <1>1, <1>2, <1>3
  <2> QED  BY <1>2, <1>5, <2>1, <2>2, <2>3, <2>4, <2>5 DEF TypeOK
<1>7. Pending = 0  BY <1>1, <1>2 DEF Pending
<1>8. h_ptr \in Slots /\ w_ptr \in Slots  BY <1>2, <1>3
<1>9. RingInv
  <2>1. Spaced
    <3>1. SUFFICES ASSUME NEW i \in 0..0, NEW j \in 0..0  PROVE write_timing[At(j)] >= write_timing[At(i)] + SlotBits * (j - i)
      BY <1>7 DEF Spaced
    <3>2. i = 0 /\ j = 0 /\ SlotBits * (j - i) = 0  BY <1>1 DEF SlotBits
    <3>3. At(0) \in Slots  BY <1>8, AtRing
    <3> QED  BY <3>2, <3>3, <1>4, <1>5
  <2>2. InBytes  BY <1>1, <1>2, <1>4, <1>5 DEF InBytes
  <2>3. totbit <= write_timing[w_ptr]  BY <1>2, <1>4, <1>5, <1>8
  <2> QED  BY <2>1, <2>2, <2>3 DEF RingInv
<1>10. ResvInv
  <2>1. SideBits * 0 = 0  BY <1>1 DEF SideBits
  <2>2. Gap = 0  BY <2>1, <1>2, <1>4, <1>5, <1>7, <1>8 DEF Gap
  <2> QED  BY <2>2, <1>1, <1>2 DEF ResvInv, Resting, Dividing, Formatting, Limits
<1>11. BegunInv
  <2>1. LastPtr \in Slots  BY <1>8, AtRing
  <2>2. ~Begun  BY <2>1, <1>5, <1>8 DEF Begun
  <2> QED  BY <2>2, <1>2 DEF BegunInv, InCall, InFrame
<1>12. DelayInv
  <2>1. Samples = EncDelay  BY <1>1, <1>2 DEF Samples
  <2> QED  BY <2>1, <1>1, <1>2 DEF DelayInv
<1>13. CallInv  BY <1>2 DEF CallInv, InFrame
<1>14. ErrorsInv
  <2>1. 0 * FrameSize = 0  BY <1>1
  <2>2. mf_size < Needed + 0  BY <1>1, <1>2
  <2> QED  BY <2>1, <2>2, <1>1, <1>2 DEF ErrorsInv, InFrame, InCall
<1>15. FlushInv  BY <1>2 DEF FlushInv, InCall, InFrame
<1> QED  BY <1>6, <1>9, <1>10, <1>11, <1>12, <1>13, <1>14, <1>15 DEF IInv

(* The invariant speaks of the variables only. *)
LEMMA IInvStutter ==
  ASSUME IInv, UNCHANGED vars
  PROVE  IInv'
<1>1. /\ UNCHANGED <<totbit, buf_bytes, buf_bit_idx, w_ptr>> /\ UNCHANGED <<write_timing, h_ptr>>
      /\ UNCHANGED <<ResvSize, ResvMax, main_data_begin, drain_post>> /\ UNCHANGED <<padding, slot_lag>> /\ UNCHANGED <<gr, main_bits>>
      /\ UNCHANGED <<mf_size, mf_samples_to_encode, last>> /\ UNCHANGED <<nsamples, mp3buf_size, mp3size, coded>>
      /\ UNCHANGED <<flushing, frames_left, flush_size, mp3count, flushed>> /\ UNCHANGED <<fed, errors>> /\ UNCHANGED <<pc, left>>
  BY DEF vars, stream, headers, resv, pad, part, pcm, call, flush, bounds
<1>2. TypeOK'  BY <1>1 DEF IInv, TypeOK
<1>3. /\ RingInv' /\ Gap' = Gap /\ Pending' = Pending /\ LastPtr' = LastPtr /\ (Begun' <=> Begun)
      /\ write_timing'[LastPtr'] = write_timing[LastPtr]  BY <1>1, RingSame DEF IInv
<1>4. FrameBits' = FrameBits /\ SideBits' = SideBits  BY <1>1 DEF FrameBits, SideBits
<1>5. Unspent' = Unspent /\ MeanBits' = MeanBits  BY <1>1, <1>4 DEF Unspent, Whole, MeanBits
<1>6. ResvInv'  BY <1>1, <1>3, <1>5 DEF IInv, ResvInv, Resting, Dividing, Formatting, Limits
<1>7. BegunInv'  BY <1>1, <1>3, <1>4 DEF IInv, BegunInv
<1>8. DelayInv' /\ CallInv'  BY <1>1 DEF IInv, DelayInv, CallInv, Samples
<1>9. ErrorsInv'  BY <1>1 DEF IInv, ErrorsInv
<1>10. FlushInv'  BY <1>1 DEF IInv, FlushInv, ToCode, FlushSendsAll
<1> QED  BY <1>2, <1>3, <1>6, <1>7, <1>8, <1>9, <1>10 DEF IInv

(* Every step keeps the invariant. *)
LEMMA IInvNext ==
  ASSUME IInv, [Next]_vars
  PROVE  IInv'
<1>1. CASE Calls  BY <1>1, EncodeStep, FlushStep DEF Calls
<1>2. CASE Work
  BY <1>2, FillStep, ReturnStep, BeginFrameStep, GranuleStep, ResvFrameEndStep, PutBitsStep, EncodeSideInfoStep,
     WriteMainDataStep, FinishFrameStep, FlushFrameStep, FlushBitstreamStep, DrainedStep DEF Work
<1>3. CASE UNCHANGED vars  BY <1>3, IInvStutter
<1> QED  BY <1>1, <1>2, <1>3 DEF Next

(* The inductive invariant of the encoder: ring of headers, reservoir, waiting samples and the flush. *)
THEOREM IInvHolds == Spec => []IInv
<1>1. Init => IInv  BY IInvInit
<1>2. IInv /\ [Next]_vars => IInv'  BY IInvNext
<1> QED  BY <1>1, <1>2, PTL DEF Spec

(* The variables keep their types: no count of bits, bytes, samples or frames becomes negative, and the
   pointers of the ring of headers (h_ptr, w_ptr) stay inside it. *)
THEOREM TypeCorrect == Spec => []TypeOK
<1>1. IInv => TypeOK  BY DEF IInv
<1> QED  BY <1>1, IInvHolds, PTL

(* A header is written exactly where write_timing says (putbits2's assertion), no header is overwritten before
   it is written, and at the end of a frame the reservoir, main_data_begin of the next frame and the bits put
   agree (the checks at the end of format_bitstream): for every frame size, rate, reservoir and ring. *)
THEOREM StreamCorrect == Spec => []StreamAgrees
<1>1. IInv => StreamAgrees  BY StreamAgreesFrom DEF IInv
<1> QED  BY <1>1, IInvHolds, PTL

(* A lame_encode_flush that succeeds has encoded all of the caller's samples, written every header that was
   filled in, filled up the last frame and handed out every byte. *)
THEOREM FlushCorrect == Spec => []FlushSendsAll
<1>1. IInv => FlushSendsAll  BY DEF IInv, FlushInv, FlushSendsAll
<1> QED  BY <1>1, IInvHolds, PTL
=============================================================================
