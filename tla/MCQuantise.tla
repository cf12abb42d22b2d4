----------------------------- MODULE MCQuantise -----------------------------
(***************************************************************************)
(* An instance of BitAllocation, NoiseShaping and VbrScalefacs for TLC:    *)
(* how a frame's bits are divided, and how a granule is quantised within   *)
(* its part.  part chooses which of the three runs, and the others stay in *)
(* one initial state.  Long blocks of three bands with scale factors and   *)
(* one without, short blocks of two windows; frames of MPEG-1 in stereo.   *)
(***************************************************************************)
EXTENDS NoiseShaping, TLC

VARIABLES part, at, grain, shaping, max_nbits, vbrsfmin, sfwork, cod, wrk, vbrmax, phase, p, bi, bi_ok, bu, bo,
          mode, bounds, ms, move, pe, need, silent, bitrate_index, ResvSize, ResvMax, main_data_begin, targ, used, b_gr, b_pc

Long  == [short |-> FALSE, bands |-> 4, sfbmax |-> 3, sfbdivide |-> 1, window |-> <<3, 3, 3, 3>>,
          pretab |-> <<0, 1, 2, 0>>, part |-> <<1, 2, 2, 2>>]
Short == [short |-> TRUE, bands |-> 6, sfbmax |-> 4, sfbdivide |-> 2, window |-> <<0, 1, 0, 1, 0, 1>>,
          pretab |-> <<0, 0, 0, 0, 0, 0>>, part |-> <<1, 1, 2, 2, 2, 2>>]
Mild  == [Long EXCEPT !.pretab = <<0, 1, 1, 0>>]

(* What NoiseShaping quantises. *)
Signal(b, extra, l, a) == [s |-> b, psymax |-> IF extra THEN b.bands ELSE b.sfbmax, loud |-> l, allow |-> a]
LongSignals  == {Signal(Mild, FALSE, <<9, l[1], l[2], 5>>, <<1, l[3], l[4], 4>>) :
                   l \in {<<0, 5, 1, 1>>, <<0, 5, 4, 1>>, <<0, 5, 1, 3>>, <<9, 9, 1, 3>>}}
Quiet        == {Signal(Mild, FALSE, <<9, 9, 9, 5>>, a) : a \in {<<0, 1, 9, 9>>, <<-2, 9, 9, 9>>}}
ShortSignals == {Signal(Short, x, <<9, 5, 9, 5, 6, 0>>, <<a1, 2, 3, 2, 4, 4>>) : x \in BOOLEAN, a1 \in {0, 2}}
Silent       == {Signal(Mild, FALSE, <<0, 0, 0, 0>>, <<1, 1, 1, 1>>)}
AllSignals   == LongSignals \cup Quiet \cup ShortSignals \cup Silent

Setting(v, n, a, g, ss, x, c) ==
  [vbr |-> v, shaping |-> n, amp |-> a, subblock_gain |-> g, substep |-> ss, sfb21 |-> x, comp |-> c]
SomeSettings == {Setting(FALSE, 0, 0, FALSE, FALSE, FALSE, 0), Setting(FALSE, 1, 0, TRUE, FALSE, FALSE, 9),
                 Setting(FALSE, 2, 1, TRUE, TRUE, FALSE, 0), Setting(TRUE, 2, 1, TRUE, FALSE, TRUE, 9),
                 Setting(TRUE, 2, 2, TRUE, TRUE, FALSE, 3)}

Pairs == {<<0, 0>>, <<0, 1>>, <<2, 0>>, <<1, 1>>, <<2, 1>>}
Caps  == << <<2, 1>>, <<2, 1>> >>
Pair  == {{1}, {2, 3}}

(* What VbrScalefacs quantises. *)
Top == 32
Lev == 14
Floor(l) == IF l > Lev THEN l - Lev ELSE 1
GrainsOf(b, psy, L, S) ==
  LET X == [1..psy -> {<<l, st>> \in L \X S : st >= Floor(l)}]
      top(f) == MaxOf({f[i][2] : i \in 1..psy})
  IN  {[s |-> b, psymax |-> psy,
        loud |-> [i \in 1..b.bands |-> IF i <= psy THEN f[i][1] ELSE 6],
        steps |-> [i \in 1..b.bands |-> IF i <= psy THEN f[i][2] ELSE Max({top(f), Floor(6)})]] : f \in X}
AllGrains == GrainsOf(Long, 3, {0, 12, 30}, {2, 9, 20, 32}) \cup GrainsOf(Long, 4, {6, 30}, {2, 22, 32})
               \cup GrainsOf(Short, 4, {6, 30}, {2, 22, 32})
Pre == <<1, 0, 0>>

V == INSTANCE VbrScalefacs WITH Grains <- AllGrains, Budgets <- {4, 30, 100}, Shapings <- {1, 2},
       MaxStep <- Top, IxMax <- Lev, RangeLow <- 3, RangeHigh <- 1, PreRange <- Pre, SbgMax <- 1

(* The frames that BitAllocation divides. *)
Wanted      == {0, 900, 6000}
SomeNeeds   == {<<x, y>> : x \in Wanted \X Wanted, y \in {<<0, 0>>, <<100, 900>>, <<3000, 900>>, <<6000, 6000>>}}
SomeBounds  == {<<1, 3, 417>>, <<1, 1, 104>>, <<2, 2, 208>>, <<2, 4, 1044>>}
SomeSlots   == <<104, 208, 522, 1044>>
SomeEntropy == {<<0, 0>>, <<4000, 0>>, <<4000, 2000>>}
B == INSTANCE BitAllocation WITH pc <- b_pc, gr <- b_gr,
       Granules <- 2, Slots <- SomeSlots, Bounds <- SomeBounds, SideInfo <- 36, ChannelMax <- 4095, GranuleMax <- 7680,
       ResvLimit <- 4088, MaxMp3Buf <- 11520, SideFloor <- 125, GranuleSlack <- 125, ChannelSlack <- 32,
       Reservoirs <- {0, 1200, 4088}, Needs <- SomeNeeds, Entropies <- SomeEntropy, Moves <- {33},
       Modes <- {"cbr", "abr", "rh", "mtrh"}

derived == <<at, grain, shaping, max_nbits, vbrsfmin, sfwork, cod, wrk, vbrmax, phase, p, bi, bi_ok, bu, bo>>
divided == <<mode, bounds, ms, move, pe, need, silent, bitrate_index, ResvSize, ResvMax, main_data_begin, targ, used, b_gr, b_pc>>
all     == <<part, vars, derived, divided>>

(* The initial states in which the others stay. *)
OneGrain == [s |-> Long, psymax |-> 3, loud |-> <<0, 0, 0, 6>>, steps |-> <<2, 2, 2, 2>>]
V0 == INSTANCE VbrScalefacs WITH Grains <- {OneGrain}, Budgets <- {4}, Shapings <- {1},
        MaxStep <- Top, IxMax <- Lev, RangeLow <- 3, RangeHigh <- 1, PreRange <- Pre, SbgMax <- 1
B0 == INSTANCE BitAllocation WITH pc <- b_pc, gr <- b_gr,
        Granules <- 2, Slots <- SomeSlots, Bounds <- {<<2, 2, 208>>}, SideInfo <- 36, ChannelMax <- 4095, GranuleMax <- 7680,
        ResvLimit <- 4088, MaxMp3Buf <- 11520, SideFloor <- 125, GranuleSlack <- 125, ChannelSlack <- 32,
        Reservoirs <- {0}, Needs <- {<< <<0, 0>>, <<0, 0>> >>}, Entropies <- {<<0, 0>>}, Moves <- {33}, Modes <- {"cbr"}
MCInit ==
  /\ part \in {"search", "derive", "divide"}
  /\ Init /\ (part # "search" => cfg = (CHOOSE c \in Settings : TRUE))
  /\ IF part = "derive" THEN V!Init ELSE V0!Init
  /\ IF part = "divide" THEN B!Init ELSE B0!Init /\ ms = FALSE /\ silent = {}
MCNext ==
  \/ part = "search" /\ Next   /\ UNCHANGED <<part, derived, divided>>
  \/ part = "derive" /\ V!Next /\ UNCHANGED <<part, vars, divided>>
  \/ part = "divide" /\ B!Next /\ UNCHANGED <<part, vars, derived>>
MCSpec == MCInit /\ [][MCNext]_all /\ WF_all(part = "search" /\ Next /\ UNCHANGED <<part, derived, divided>>)

(* What a decoder makes of the stored scale factors are the amplitudes that the        *)
(* quantiser worked with, under every packing that best_scalefac_store tries; what is  *)
(* stored is the best result found; and no band is quantised with a smaller step than  *)
(* its largest coefficient allows.                                                     *)
DecoderAgrees == AmplitudesAgree /\ StoredRight /\ FoundIsKept /\ V!AboveFloor

(* No granule takes more bits than its target, none of a variable bit rate more than   *)
(* its budget, and no frame more than it and the reservoir hold.                       *)
BitsKept == FitsTarget /\ V!BudgetKept /\ B!FrameHolds

(* At an average bit rate some size of frame holds what was used (quantize.c:1945). *)
AverageFits == B!FrameFound

(* bin_search_StepSize, outer_loop and VBR_encode_granule come to an end. *)
SearchingEnds == part = "search" ~> pc = "done"
=============================================================================
