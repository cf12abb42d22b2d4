------------------------------- MODULE VbrTag -------------------------------
(***************************************************************************)
(* The tag that LAME puts into the first frame of an MP3 file: how many    *)
(* frames and bytes the stream has, and a table for seeking in it.  When   *)
(* the stream begins an empty frame is written; the bit rates of the       *)
(* frames are summed up in a bag of limited size; at the end the file is   *)
(* opened again and the empty frame is overwritten, behind the ID3 tag.    *)
(*                                                                         *)
(* A file is the lengths of its parts.  Bytes are written when their frame *)
(* is encoded (Mp3Encoder has the delay of the reservoir), and the floats  *)
(* of the table are fractions.  Left out: the checksums, and the fields    *)
(* that only describe the settings.                                        *)
(***************************************************************************)
EXTENDS Mp3Tables, Sequences

CONSTANTS Configs,                     \* [out, vbr, brate, free, channels, crc, rates]
          BagSize,                     \* 400
          Entries,                     \* NUMTOCENTRIES
          HeaderSize,                  \* LAMEHEADERSIZE
          MaxFrameSize,                \* MAXFRAMESIZE
          Id3Sizes,                    \* the ID3 tags that may come first; 0 for none
          Delays,                      \* <<encoder delay, padding>>
          MaxFrames, MaxStreams        \* bounds

VARIABLES cfg, bWriteVbrTag, TotalFrameSize, bag, pos, seen, want, sum,
          nVbrNumFrames, nBytesWritten,
          file,                        \* the lengths of its parts, and the tag in it
          history,                     \* the bit rates of the stream's frames
          streams, phase
vars == <<cfg, bWriteVbrTag, TotalFrameSize, bag, pos, seen, want, sum, nVbrNumFrames, nBytesWritten, file, history, streams, phase>>

Empty == [id3 |-> 0, dummy |-> 0, music |-> 0, at |-> -1, tag |-> << >>]
FrameBytes(kbps) == ((Version(cfg.out) + 1) * 72000 * kbps) \div cfg.out
SideInfoLen == (IF Version(cfg.out) = 1 THEN IF cfg.channels = 1 THEN 21 ELSE 36
                ELSE IF cfg.channels = 1 THEN 13 ELSE 21) + 2 * cfg.crc

-----------------------------------------------------------------------------
(* The frame's bit rate, chosen when it is first written ... *)
KbpsHeader == CASE ~cfg.vbr -> cfg.brate
                [] cfg.vbr /\ Version(cfg.out) = 1 -> 128
                [] OTHER -> IF cfg.out < 16000 THEN 32 ELSE 64

(* Mutant of HeaderIndex: the shorter table of MPEG-2.5 forgotten. *)
HeaderIndexPlain == IF cfg.free THEN 0 ELSE BitrateIndex(IF ~cfg.vbr THEN cfg.brate ELSE IF Version(cfg.out) = 1 THEN 128 ELSE 64, Version(cfg.out), 16000)

(* ... and the index in its header (setLameTagFrameHeader). *)
HeaderIndex ==
  IF cfg.free THEN 0
  ELSE BitrateIndex(CASE ~cfg.vbr -> cfg.brate
                      [] cfg.vbr /\ Version(cfg.out) = 1 -> 128
                      [] OTHER -> IF cfg.out < 16000 THEN 32 ELSE 64, Version(cfg.out), cfg.out)

Fits(n) == n >= SideInfoLen + HeaderSize /\ n <= MaxFrameSize

(* lame_init_bitstream: the ID3 tag, then InitVbrTag: a tag that does not fit is disabled. *)
Start(id3) ==
  LET n  == FrameBytes(KbpsHeader)
      on == bWriteVbrTag /\ Fits(n)
  IN  /\ TotalFrameSize' = IF bWriteVbrTag THEN n ELSE TotalFrameSize
      /\ bWriteVbrTag' = on
      /\ IF on THEN nVbrNumFrames' = 0 /\ nBytesWritten' = 0 /\ sum' = 0 /\ seen' = 0 /\ want' = 1 /\ pos' = 0
         ELSE UNCHANGED <<nVbrNumFrames, nBytesWritten, sum, seen, want, pos>>
      /\ file' = [Empty EXCEPT !.id3 = id3, !.dummy = IF on THEN n ELSE 0]
      /\ history' = << >> /\ streams' = streams + 1 /\ phase' = "encoding"
      /\ UNCHANGED <<cfg, bag>>

Init ==
  /\ cfg \in Configs /\ bWriteVbrTag = TRUE /\ TotalFrameSize = 0
  /\ bag = [i \in 0..(BagSize - 1) |-> 0] /\ pos = 0 /\ seen = 0 /\ want = 1 /\ sum = 0
  /\ nVbrNumFrames = 0 /\ nBytesWritten = 0 /\ file = Empty /\ history = << >> /\ streams = 0 /\ phase = "new"

Begin == phase = "new" /\ \E n \in Id3Sizes : Start(n)

(* Mutant of Halved: the even entries are kept. *)
HalvedEven(b) == [i \in DOMAIN b |-> IF 2 * i + 1 < BagSize THEN b[2 * i] ELSE b[i]]

Halved(b) == [i \in DOMAIN b |-> IF 2 * i + 1 < BagSize THEN b[2 * i + 1] ELSE b[i]]

(* AddVbrFrame: every want-th sum is kept; a full bag is halved. *)
AddVbr(kbps) ==
  LET full == seen + 1 >= want
      b    == IF full THEN [bag EXCEPT ![pos] = sum + kbps] ELSE bag
      half == full /\ pos + 1 = BagSize
  IN  /\ nVbrNumFrames' = nVbrNumFrames + 1 /\ sum' = sum + kbps
      /\ seen' = IF full THEN 0 ELSE seen + 1
      /\ bag' = IF half THEN Halved(b) ELSE b
      /\ want' = IF half THEN want * 2 ELSE want
      /\ pos' = IF half THEN BagSize \div 2 ELSE IF full THEN pos + 1 ELSE pos

EncodeFrame ==
  /\ phase = "encoding" /\ Len(history) < MaxFrames
  /\ \E kbps \in cfg.rates :
       /\ IF bWriteVbrTag THEN AddVbr(kbps) ELSE UNCHANGED <<nVbrNumFrames, sum, seen, bag, want, pos>>
       /\ nBytesWritten' = nBytesWritten + FrameBytes(kbps)
       /\ file' = [file EXCEPT !.music = @ + FrameBytes(kbps)]
       /\ history' = Append(history, kbps)
  /\ UNCHANGED <<cfg, bWriteVbrTag, TotalFrameSize, streams, phase>>

Finish == phase = "encoding" /\ phase' = "finished"
  /\ UNCHANGED <<cfg, bWriteVbrTag, TotalFrameSize, bag, pos, seen, want, sum, nVbrNumFrames, nBytesWritten, file, history, streams>>

-----------------------------------------------------------------------------
(* Xing_seek_table: 256ths of the stream; none but the first is left at 0. *)
SeekTable ==
  [i \in 1..(Entries - 1) |->
     LET at == Lesser((i * pos) \div Entries, pos - 1)
     IN  IF cfg.free THEN (255 * i) \div 100 ELSE Lesser(255, (256 * bag[at]) \div sum)]

(* Twelve bits each; the rest of what it tells of the settings is left out. *)
PutLameVBR(d) == [delay |-> d[1] % 4096, padding |-> d[2] % 4096]

(* lame_get_lametag_frame: the tag begins where it would without the checksum. *)
LameTagFrame(d) ==
  [version |-> Version(cfg.out), low |-> cfg.out < 16000, freq |-> SmpFrqIndex(cfg.out),
   channels |-> cfg.channels, index |-> HeaderIndex,
   start |-> SideInfoLen - 2 * cfg.crc, end |-> SideInfoLen - 2 * cfg.crc + HeaderSize,
   frames |-> nVbrNumFrames, bytes |-> nBytesWritten + TotalFrameSize, toc |-> SeekTable,
   delay |-> PutLameVBR(d).delay, padding |-> PutLameVBR(d).padding]

(* skipId3v2: four digits of seven bits, behind ten bytes. *)
SkipId3v2 == IF file.id3 = 0 THEN 0 ELSE ((file.id3 - 10) % 268435456) + 10

(* lame_mp3_tags_fid and PutVbrTag: nothing is put when there was no frame. *)
PutVbrTag ==
  /\ phase = "finished" /\ bWriteVbrTag
  /\ \/ pos <= 0 /\ UNCHANGED file
     \/ UNCHANGED file                                   \* the file cannot be read again
     \/ pos > 0 /\ \E d \in Delays : file' = [file EXCEPT !.at = SkipId3v2, !.tag = <<LameTagFrame(d)>>]
  /\ phase' = "tagged"
  /\ UNCHANGED <<cfg, bWriteVbrTag, TotalFrameSize, bag, pos, seen, want, sum, nVbrNumFrames, nBytesWritten, history, streams>>

(* lame_encode_flush_nogap and lame_init_bitstream: the next stream, into a file of its own. *)
NextStream ==
  /\ phase \in {"finished", "tagged"} /\ streams < MaxStreams
  /\ \E n \in Id3Sizes : Start(n)

Next == Begin \/ EncodeFrame \/ Finish \/ PutVbrTag \/ NextStream
Spec == Init /\ [][Next]_vars

-----------------------------------------------------------------------------
(* GetVbrTag, as a decoder reads the frame back. *)

SampleRateOf(f) ==
  LET T == IF f.low THEN <<11025, 12000, 8000>> ELSE IF f.version = 1 THEN <<44100, 48000, 32000>> ELSE <<22050, 24000, 16000>>
  IN  T[f.freq + 1]
OffsetOf(f) == IF f.version = 1 THEN IF f.channels = 1 THEN 21 ELSE 36 ELSE IF f.channels = 1 THEN 13 ELSE 21
Reasonable(n) == IF n > 3000 THEN -1 ELSE n
GetVbrTag(f) ==
  [found |-> f.start = OffsetOf(f), frames |-> f.frames, bytes |-> f.bytes,
   headersize |-> IF f.index = 0 THEN 0 ELSE ((f.version + 1) * 72000 * BitRates[f.version][f.index]) \div SampleRateOf(f),
   enc_delay |-> Reasonable(f.delay), enc_padding |-> Reasonable(f.padding)]

(***************************************************************************)
(* The tag is written exactly over the empty frame that was kept for it,   *)
(* behind the ID3 tag, fits into it, and a decoder finds it, whatever the  *)
(* checksum: it reads the number of frames and the length of this stream,  *)
(* also when an earlier one went through the same encoder, and takes the   *)
(* frame for as long as it is.                                             *)
(***************************************************************************)
TagInPlace ==
  file.tag # << >> =>
    LET f == file.tag[1]
        r == GetVbrTag(f)
    IN  /\ file.at = file.id3 /\ TotalFrameSize = file.dummy /\ f.end <= file.dummy
        /\ r.found /\ r.frames = Len(history) /\ r.bytes = file.dummy + file.music
        /\ ~cfg.free => r.headersize = file.dummy
        /\ r.enc_delay >= 0 /\ r.enc_padding >= 0

SumOf[n \in 0..MaxFrames] == IF n = 0 THEN 0 ELSE SumOf[n - 1] + history[n]

(***************************************************************************)
(* Halving the bag loses accuracy and nothing else: the i-th seek point is *)
(* where the stream's bytes are at the end of the interval of the bag that *)
(* holds the wanted part of the frames counted there, so it is after that  *)
(* part by no more than the frames between two entries, and never before;  *)
(* and the points never go back.                                           *)
(***************************************************************************)
SeekPointsNear ==
  file.tag # << >> /\ ~cfg.free =>
    LET toc     == file.tag[1].toc
        counted == Len(history) - seen
    IN  \A i \in 1..(Entries - 1) :
          /\ i > 1 => toc[i] >= toc[i - 1]
          /\ \E k \in 1..Len(history) :
               /\ i * counted < k * Entries /\ k * Entries <= i * counted + want * Entries
               /\ toc[i] = Lesser(255, (256 * SumOf[k]) \div SumOf[Len(history)])
=============================================================================
