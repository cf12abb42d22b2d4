------------------------------- MODULE Id3Tag -------------------------------
(***************************************************************************)
(* The ID3 tags of an MP3 file (LAME): the old one of 128 bytes at the     *)
(* end, with short fields, and the new one at the start, made of frames of *)
(* any length.  The program sets texts, frames and flags in any order;     *)
(* then the encoder writes the new tag before the first frame and the old  *)
(* one after the last.                                                     *)
(*                                                                         *)
(* A text is its length and its kind: what the setters make of it (a track *)
(* that "fits" into a byte or is "over" it, a "counted" one with the       *)
(* number of tracks, a genre that is "known" or not).  A descriptor is a   *)
(* sequence, since the comparison of two looks at their prefixes.  Left    *)
(* out: failing allocations, and calls once the tags are written.          *)
(***************************************************************************)
EXTENDS Integers, Sequences, FiniteSets, SequencesExt

CONSTANTS Texts,                       \* for title, artist, album, comment
          Years, Tracks, Genres,
          Frames,                      \* ids given to the setters of frames
          Langs, Descs,                \* of comments
          Arts,                        \* <<mime type's length or 0, bytes>>
          Pads,
          MaxArt,                      \* LAME_MAXALBUMART
          Duration,                    \* is num_samples known?
          MaxCalls                     \* bound: calls of the program, but for those of flags only

VARIABLES flags, v1, nodes, values, art, padding_size, phase, calls,
          asked,                       \* what the program last gave for a field
          tag2, tag1                   \* the tags written
vars == <<flags, v1, nodes, values, art, padding_size, phase, calls, asked, tag2, tag1>>

Nothing == [len |-> 0, kind |-> "none"]
Fields  == {"TIT2", "TPE1", "TALB", "TYER", "TRCK", "TCON", "COMM"}
Plain   == [f \in Fields |-> Nothing]
Version == [len |-> 40, kind |-> "plain"]
Length  == [len |-> 6, kind |-> "plain"]
NoTag   == [size |-> 0, bytes |-> 0, nodes |-> << >>, v1 |-> Plain]

IsNumericString(fid) == fid \in {"TDAT", "TIME", "TPOS", "TRCK", "TYER"}
IsMultiFrame(fid)    == fid \in {"TXXX", "WXXX", "COMM", "SYLT", "APIC", "GEOB", "PCNT", "AENC", "LINK", "ENCR", "GRID", "PRIV"}
(* The test of bits takes U, V and W for T as well. *)
IsText(fid)          == fid \in (Fields \ {"COMM"}) \cup {"TXXX", "TPOS", "TDAT", "TIME", "TSSE", "TLEN", "USLT", "VSLT", "WXXX"}

-----------------------------------------------------------------------------
(* The frames. *)

SetLang(l) == IF l = "" THEN "XXX" ELSE l

(* A descriptor is the same as any that it begins; none begins with the    *)
(* characters of the other encoding.                                       *)
SameDescriptor(n, dsc, enc) ==
  /\ n.denc # enc => n.dsc = << >>
  /\ IsPrefix(n.dsc, dsc)
Matches(n, fid, lng, dsc, enc) ==
  n.fid = fid /\ (IsMultiFrame(fid) => n.lng = SetLang(lng) /\ SameDescriptor(n, dsc, enc))

(* id3v2_add_latin1 (enc 0) and id3v2_add_ucs2 (enc 1): the first frame    *)
(* that matches is replaced in its place.                                  *)
Added(N, fid, lng, dsc, txt, enc) ==
  LET node == [fid |-> fid, lng |-> SetLang(lng), dsc |-> dsc, denc |-> enc, txt |-> txt, enc |-> enc]
      M    == {i \in DOMAIN N : Matches(N[i], fid, lng, dsc, enc)}
  IN  IF M = {} THEN Append(N, node) ELSE [N EXCEPT ![CHOOSE i \in M : \A j \in M : i <= j] = node]
CopyV1ToV2(N, fid, txt) == Added(N, fid, "", << >>, txt, 0)

-----------------------------------------------------------------------------
(* id3tag_init *)
Init ==
  /\ flags = {} /\ v1 = Plain /\ values = << >> /\ art = <<0, 0>> /\ padding_size = 128
  /\ nodes = CopyV1ToV2(<< >>, "TSSE", Version)
  /\ phase = "open" /\ calls = 0 /\ asked = Plain
  /\ tag2 = NoTag /\ tag1 = NoTag

Called == phase = "open" /\ calls < MaxCalls /\ calls' = calls + 1 /\ UNCHANGED <<phase, tag2, tag1>>
Flagged == phase = "open" /\ UNCHANGED <<phase, calls, tag2, tag1>>

Reset ==
  /\ Called
  /\ flags' = {} /\ v1' = Plain /\ values' = << >> /\ art' = <<0, 0>> /\ padding_size' = 128
  /\ nodes' = CopyV1ToV2(<< >>, "TSSE", Version) /\ asked' = Plain

(* id3tag_set_title, id3tag_set_artist, id3tag_set_album, id3tag_set_comment *)
SetText ==
  /\ Called
  /\ \E f \in {"TIT2", "TPE1", "TALB", "COMM"}, t \in Texts :
       IF t.len = 0 THEN UNCHANGED <<flags, v1, nodes, asked>>
       ELSE /\ v1' = [v1 EXCEPT ![f] = t] /\ asked' = [asked EXCEPT ![f] = t]
            /\ nodes' = CopyV1ToV2(nodes, f, t)
            /\ flags' = flags \cup {"CHANGED"}
  /\ UNCHANGED <<values, art, padding_size>>

(* Four digits fit into the old tag: a larger year is limited to them.  A text that is no  *)
(* number is no year there, and is only in the frame.                                      *)
Limited(y) == IF y.kind = "long" THEN [y EXCEPT !.len = 4] ELSE y
SetYear ==
  /\ Called
  /\ \E y \in Years :
       /\ nodes' = CopyV1ToV2(nodes, "TYER", y)
       /\ IF y.kind = "zero" THEN UNCHANGED <<v1, flags>>
          ELSE v1' = [v1 EXCEPT !["TYER"] = Limited(y)] /\ flags' = flags \cup {"CHANGED"}
       /\ asked' = [asked EXCEPT !["TYER"] = IF y.kind = "zero" THEN Nothing ELSE y]
  /\ UNCHANGED <<values, art, padding_size>>

(* A track that the old tag cannot hold leaves the one there, and asks for the new tag. *)
SetTrack ==
  /\ Called
  /\ \E t \in Tracks :
       /\ nodes' = CopyV1ToV2(nodes, "TRCK", t)
       /\ v1' = IF t.kind = "over" THEN v1 ELSE [v1 EXCEPT !["TRCK"] = t]
       /\ flags' = flags \cup {"CHANGED"} \cup (IF t.kind = "fits" THEN {} ELSE {"ADD_V2"})
       /\ asked' = [asked EXCEPT !["TRCK"] = t]
  /\ UNCHANGED <<values, art, padding_size>>

(* A genre without a number becomes "other" in the old tag. *)
SetGenre ==
  /\ Called
  /\ \E g \in Genres :
       IF g.kind = "bad" THEN UNCHANGED <<flags, v1, nodes, asked>>
       ELSE /\ nodes' = CopyV1ToV2(nodes, "TCON", g)
            /\ v1' = [v1 EXCEPT !["TCON"] = IF g.kind = "known" THEN g ELSE Nothing]
            /\ flags' = flags \cup {"CHANGED"} \cup (IF g.kind = "known" THEN {} ELSE {"ADD_V2"})
            /\ asked' = [asked EXCEPT !["TCON"] = g]
  /\ UNCHANGED <<values, art, padding_size>>

Given(f, t) == IF f \in Fields THEN [asked EXCEPT ![f] = t] ELSE asked

(* id3tag_set_textinfo_latin1 and id3tag_set_textinfo_ucs2: a number must be in Latin 1. *)
SetTextinfo ==
  /\ Called
  /\ \E f \in Frames, t \in Texts, enc \in {0, 1} :
       IF IsText(f) /\ ~(enc = 1 /\ (IsNumericString(f) \/ t.len = 0))     \* without its mark it is refused
       THEN /\ nodes' = Added(nodes, f, "", << >>, t, enc)
            /\ flags' = flags \cup {"CHANGED", "ADD_V2"}
            /\ asked' = Given(f, t)
       ELSE UNCHANGED <<nodes, flags, asked>>
  /\ UNCHANGED <<v1, values, art, padding_size>>

(* id3tag_set_comment_latin1 and id3tag_set_comment_ucs2.  The comment of  *)
(* SetText has no descriptor, and is replaced by one with any.             *)
SetCommentFrame ==
  /\ Called
  /\ \E l \in Langs, d \in Descs, t \in Texts, enc \in {0, 1} :
       /\ nodes' = Added(nodes, "COMM", l, d, t, enc)
       /\ flags' = flags \cup {"CHANGED", "ADD_V2"}
       /\ asked' = IF SetLang(l) = "XXX" THEN Given("COMM", t) ELSE asked
  /\ UNCHANGED <<v1, values, art, padding_size>>

(* id3tag_set_fieldvalue: what is no text frame is kept as it is; an id    *)
(* that is none only counts as a change, and no field at all is refused.   *)
SetFieldvalue ==
  /\ Called
  /\ \E f \in Frames \cup {"none", "malformed"}, t \in Texts :
       /\ nodes' = IF IsText(f) THEN Added(nodes, f, "", << >>, t, 0) ELSE nodes
       /\ values' = IF IsText(f) \/ f \in {"none", "malformed"} THEN values ELSE Append(values, [fid |-> f, len |-> 5 + t.len])
       /\ asked' = IF IsText(f) THEN Given(f, t) ELSE asked
       /\ flags' = IF f = "malformed" THEN flags ELSE (flags \ {"V1_ONLY"}) \cup {"CHANGED", "ADD_V2"}
  /\ UNCHANGED <<v1, art, padding_size>>

SetAlbumart ==
  /\ Called
  /\ \E a \in Arts :
       IF a[2] > MaxArt \/ a[1] = 0 THEN UNCHANGED <<art, flags>>        \* too large, or of no known kind
       ELSE art' = a /\ flags' = (flags \ {"V1_ONLY"}) \cup {"CHANGED", "ADD_V2"}
  /\ UNCHANGED <<v1, nodes, values, padding_size, asked>>

(* id3tag_add_v2, id3tag_v2_only, id3tag_space_v1, id3tag_set_pad *)
SetFlags ==
  /\ Flagged
  /\ \/ flags' = (flags \ {"V1_ONLY"}) \cup {"ADD_V2"} /\ UNCHANGED padding_size
     \/ flags' = (flags \ {"V1_ONLY"}) \cup {"V2_ONLY"} /\ UNCHANGED padding_size
     \/ flags' = (flags \ {"V2_ONLY"}) \cup {"SPACE_V1"} /\ UNCHANGED padding_size
     \/ \E n \in Pads : flags' = (flags \ {"V1_ONLY"}) \cup {"PAD_V2", "ADD_V2"} /\ padding_size' = n
  /\ UNCHANGED <<v1, nodes, values, art, asked>>

(* id3tag_v1_only, which also takes back what asked for the new tag before: the program    *)
(* gives up what only the new tag could hold, for good.                                   *)
HeldBy(old, f) == old[f] = Limited(asked[f]) /\ (f = "TRCK" => asked[f].kind = "fits")
V1Only ==
  /\ Flagged
  /\ flags' = (flags \ {"ADD_V2", "V2_ONLY"}) \cup {"V1_ONLY"}
  /\ asked' = [f \in Fields |-> IF HeldBy(v1, f) THEN asked[f] ELSE Nothing]
  /\ UNCHANGED <<v1, nodes, values, art, padding_size>>

-----------------------------------------------------------------------------
(* Writing. *)

Wide(enc, dim) == IF enc = 1 THEN 2 * dim ELSE dim
SizeOfNode(n) == 11 + Wide(n.enc, n.txt.len)

(* Mutant of SizeOfCommentNode: one byte ends a descriptor of either encoding. *)
SizeOfCommentNarrow(n) == 14 + 1 + Wide(n.denc, Len(n.dsc)) + Wide(n.enc, n.txt.len)

SizeOfCommentNode(n) == 14 + Wide(n.denc, 1) + Wide(n.denc, Len(n.dsc)) + Wide(n.enc, n.txt.len)

Total(Size(_), s) == FoldLeft(LAMBDA a, x : a + Size(x), 0, s)
NodeSize(n)  == IF n.fid = "COMM" THEN SizeOfCommentNode(n) ELSE SizeOfNode(n)
ValueSize(v) == 6 + v.len
ArtSize(a)   == IF a[2] > 0 THEN 14 + a[1] + a[2] ELSE 0
TagSize(N) ==
  10 + Total(ValueSize, values) + ArtSize(art) + Total(NodeSize, N) + (IF "PAD_V2" \in flags THEN padding_size ELSE 0)

(* set_frame_comment, set_frame_custom2, set_frame_custom, set_frame_apic: *)
(* header, size, flags, then encoding, language, descriptor, its end, text.*)
Header == 4 + 4 + 2
WriteComment(n) == Header + 1 + 3 + (IF n.denc = 1 THEN 2 * Len(n.dsc) + 2 ELSE Len(n.dsc) + 1)
                     + (IF n.enc = 1 THEN 2 * n.txt.len ELSE n.txt.len)
WriteText(n)    == Header + 1 + (IF n.enc = 1 THEN 2 * n.txt.len ELSE n.txt.len)
WriteNode(n)    == IF n.fid = "COMM" THEN WriteComment(n) ELSE WriteText(n)
WriteValue(v)   == Header + 1 + (v.len - 5)
WriteArt(a)     == IF a[2] > 0 THEN Header + 1 + a[1] + 1 + 1 + 1 + a[2] ELSE 0
Written(N) == 10 + Total(WriteNode, N) + Total(WriteValue, values) + WriteArt(art)

(* Mutant of Overflows: the byte of the track is forgotten. *)
OverflowsWithoutTrack == \E f \in {"TIT2", "TPE1", "TALB", "COMM"} : v1[f].len > 30

Overflows ==
  \/ \E f \in {"TIT2", "TPE1", "TALB", "COMM"} : v1[f].len > 30
  \/ v1["TRCK"] # Nothing /\ v1["COMM"].len > 28

(* lame_get_id3v2_tag, which id3tag_write_v2 calls for the size and then for the tag. *)
WriteV2 ==
  /\ phase = "open"
  /\ LET wanted == "V1_ONLY" \notin flags /\ (flags \cap {"ADD_V2", "V2_ONLY"} # {} \/ Overflows)
         N == IF Duration THEN CopyV1ToV2(nodes, "TLEN", Length) ELSE nodes
     IN  IF "CHANGED" \in flags /\ wanted
         THEN nodes' = N /\ tag2' = [size |-> TagSize(N), bytes |-> Written(N), nodes |-> N, v1 |-> Plain]
         ELSE UNCHANGED <<nodes, tag2>>
  /\ phase' = "encoding"
  /\ UNCHANGED <<flags, v1, values, art, padding_size, calls, asked, tag1>>

(* set_text_field cuts what is too long. *)
Cut(t, n) == IF t.len > n THEN [len |-> n, kind |-> "cut"] ELSE t
Cuts == [f \in Fields |->
  CASE f \in {"TIT2", "TPE1", "TALB"} -> Cut(v1[f], 30)
    [] f = "COMM" -> Cut(v1[f], IF v1["TRCK"] # Nothing THEN 28 ELSE 30)
    [] f = "TYER" -> Cut(v1[f], 4)
    [] OTHER -> v1[f]]

(* id3tag_write_v1 *)
WriteV1 ==
  /\ phase = "encoding"
  /\ tag1' = IF "CHANGED" \in flags /\ "V2_ONLY" \notin flags
             THEN [size |-> 128, bytes |-> 128, nodes |-> << >>, v1 |-> Cuts] ELSE NoTag
  /\ phase' = "written"
  /\ UNCHANGED <<flags, v1, nodes, values, art, padding_size, calls, asked, tag2>>

Next ==
  \/ Reset \/ SetText \/ SetYear \/ SetTrack \/ SetGenre \/ SetTextinfo \/ SetCommentFrame
  \/ SetFieldvalue \/ SetAlbumart \/ SetFlags \/ V1Only \/ WriteV2 \/ WriteV1
Spec == Init /\ [][Next]_vars

-----------------------------------------------------------------------------
(***************************************************************************)
(* No text is lost: unless the program asks for the old tag only, what it  *)
(* last gave for a field is whole in one of the two tags.  The old tag     *)
(* cuts long texts, has no place for large or counted tracks and unknown   *)
(* genres, and a track takes two bytes from the comment: each of these     *)
(* must bring the new tag with it, however the flags were set before       *)
(* (id3tag.c:1180-1195) and, but for id3tag_v1_only, are set afterwards.   *)
(* id3tag_v1_only gives up for good what was set before it and only the    *)
(* new tag holds: id3tag_v2_only and id3tag_space_v1 together do not bring *)
(* it back (id3tag.c:263-282).  A year over 9999 counts as kept when the   *)
(* old tag has the 9999 it is limited to; a year that is no number is not  *)
(* promised to be kept.                                                   *)
(***************************************************************************)
TextsKept ==
  phase = "written" /\ "V1_ONLY" \notin flags =>
    \A f \in Fields : asked[f].len > 0 =>
      \/ HeldBy(tag1.v1, f)
      \/ \E i \in DOMAIN tag2.nodes : tag2.nodes[i].fid = f /\ tag2.nodes[i].txt = asked[f]

(***************************************************************************)
(* The new tag is as long as the size in its header says, which a reader   *)
(* of the file skips, and the buffer that was allocated for it is never    *)
(* overrun: the frames fill it but for the padding.  No two frames of it   *)
(* stand for the same thing, though a descriptor counts as the same as     *)
(* any that begins with it.                                                *)
(***************************************************************************)
TagWhole ==
  /\ tag2.bytes + (IF "PAD_V2" \in flags /\ tag2.size > 0 THEN padding_size ELSE 0) = tag2.size
  /\ \A i, j \in DOMAIN nodes : i < j /\ nodes[i].fid = nodes[j].fid =>
       /\ IsMultiFrame(nodes[i].fid)
       /\ <<nodes[i].lng, nodes[i].dsc, nodes[i].denc>> # <<nodes[j].lng, nodes[j].dsc, nodes[j].denc>>
=============================================================================
