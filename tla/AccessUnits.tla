----------------------------- MODULE AccessUnits -----------------------------
(***************************************************************************)
(* The data path of a picture: the packet callback filters an access unit, *)
(* learns the parameter sets in it, puts them in front of a keyframe, and  *)
(* stores what it relays; a keyframe is saved as an Annex-B byte stream,   *)
(* and ParseAnnexB takes such a stream, or FFmpeg's, apart again.          *)
(* A NAL unit is the sequence of its bytes; a type is read from the first. *)
(***************************************************************************)
EXTENDS Integers, Sequences, FiniteSets, SequencesExt

CONSTANTS
    Codecs,         \* the codecs of the handlers
    UnitsOf(_),     \* the NAL units a camera or encoder of the codec emits
    MaxUnits,       \* NAL units in an access unit of the camera
    MaxEncoded,     \* NAL units in one of FFmpeg's
    MaxBytes        \* bytes of a stream that is not of this program's making

None == <<>>
Units == UNION {UnitsOf(c) : c \in Codecs}
AUs(c) == BoundedSeq(UnitsOf(c), MaxUnits)

(* What the standards say of a NAL unit: no start code inside, and no zero *)
(* byte at the end.  A byte that matters to no parser is 2 or more.        *)
Bytes == {0, 1, 2}
WellFormed(n) ==
    /\ n # <<>> => n[Len(n)] # 0
    /\ \A i \in 1 .. Len(n) - 2 : ~(n[i] = 0 /\ n[i+1] = 0 /\ n[i+2] \in Bytes)
ASSUME UnitsAssumption ==
    /\ Codecs \subseteq {"h264", "h265"}
    /\ \A n \in Units : n \in Seq(0 .. 255) /\ WellFormed(n)
    /\ MaxEncoded \in 0 .. MaxUnits /\ MaxUnits \in Nat /\ MaxBytes \in Nat

VARIABLES
    codec,      \* the codec of the session
    sets,       \* camVPS, camSPS and camPPS of its callback
    seen,       \* seenIDR and not needKey
    pc,         \* what in, stream and out are about
    in,         \* the access unit the camera or FFmpeg has made
    stream,     \* a byte stream
    out         \* what is relayed and stored, or encoded

vars == <<codec, sets, seen, pc, in, stream, out>>

-----------------------------------------------------------------------------
(* NAL units and access units.                                             *)

Type(c, n) == IF c = "h264" THEN n[1] % 32 ELSE (n[1] \div 2) % 64
Short(c, n) == Len(n) < (IF c = "h264" THEN 1 ELSE 2)
Is(c, n, types) == ~Short(c, n) /\ Type(c, n) \in types
NALs(c, types) == {n \in Seq(0 .. 255) : Is(c, n, types)}

SetTypes(c) == IF c = "h264" THEN {7, 8} ELSE {32, 33, 34}
KeyTypes(c) == IF c = "h264" THEN {5} ELSE 16 .. 21
PictureTypes(c) == IF c = "h264" THEN {1, 5} ELSE 0 .. 31

(* What the whitelists let through: pictures, parameter sets and SEI.      *)
SafeTypes264 == PictureTypes("h264") \cup SetTypes("h264") \cup {6}
SafeTypes265 == PictureTypes("h265") \cup SetTypes("h265") \cup {39, 40}
SafeTypes(c) == IF c = "h264" THEN SafeTypes264 ELSE SafeTypes265

Has(c, au, types) == \E i \in DOMAIN au : Is(c, au[i], types)
isKeyframeAU(c, au) == Has(c, au, KeyTypes(c))

(* Variants named Mut... are plausible slips in the definition below them; *)
(* nothing uses them but the checks that the properties notice such slips. *)

(* hasVCL that is content with any NAL unit.                               *)
MutNonEmpty(c, au) == au # <<>>
(* hasVCL and hasH265VCL.                                                  *)
hasVCL(c, au) == Has(c, au, PictureTypes(c))

(* What is left of a sequence when a loop appends the elements to keep to  *)
(* a new one: SelectSeq for a set of elements, one element at a time.      *)
Select(s, keep) ==
    LET kept[i \in 0 .. Len(s)] ==
            IF i = 0 THEN <<>>
            ELSE IF s[i] \in keep THEN Append(kept[i - 1], s[i]) ELSE kept[i - 1]
    IN  kept[Len(s)]

(* filterH264NALUs and filterH265NALUs.                                    *)
filterNALUs(c, au) ==
    IF c = "h264" /\ Has(c, au, 2 .. 4) THEN <<>>
    ELSE Select(au, NALs(c, SafeTypes(c)))

(* The last NAL unit of a type, or else what was known before.             *)
Latest(c, au, t, before) ==
    LET of == Select(au, NALs(c, {t}))
    IN  IF of = <<>> THEN before ELSE of[Len(of)]
track(c, au, before) ==
    [vps |-> IF c = "h265" THEN Latest(c, au, 32, before.vps) ELSE before.vps,
     sps |-> Latest(c, au, IF c = "h264" THEN 7 ELSE 33, before.sps),
     pps |-> Latest(c, au, IF c = "h264" THEN 8 ELSE 34, before.pps)]
NoSets == [vps |-> None, sps |-> None, pps |-> None]
paramSets(c, au) == track(c, au, NoSets)
Complete(c, s) == s.sps # None /\ s.pps # None /\ (c = "h265" => s.vps # None)

InFront(c, s) == IF c = "h264" THEN <<s.sps, s.pps>> ELSE <<s.vps, s.sps, s.pps>>
Rest(c, au) == Select(au, NALs(c, (0 .. 63) \ SetTypes(c)))
(* ensureSPSPPS that keeps the slices of the keyframe and nothing else.    *)
MutSlicesOnly(c, au, s) ==
    IF Complete(c, s) /\ isKeyframeAU(c, au)
    THEN InFront(c, s) \o Select(au, NALs(c, KeyTypes(c))) ELSE au
(* ensureSPSPPS and ensureVPSSPSPPS.                                       *)
ensureSets(c, au, s) ==
    IF Complete(c, s) /\ isKeyframeAU(c, au) THEN InFront(c, s) \o Rest(c, au) ELSE au

-----------------------------------------------------------------------------
(* Annex-B byte streams.                                                   *)

StartCode(length) == IF length = 4 THEN <<0, 0, 0, 1>> ELSE <<0, 0, 1>>
(* The stream of some NAL units, each behind a start code of a length.     *)
Stream(units, lengths) ==
    FlattenSeq([i \in DOMAIN units |-> StartCode(lengths[i]) \o units[i]])
(* What saveKeyframe writes.                                               *)
Saved(au) == Stream(au, [i \in DOMAIN au |-> 4])

At(data, i, bytes) == i + Len(bytes) - 1 <= Len(data) /\ SubSeq(data, i, i + Len(bytes) - 1) = bytes

(* The search that ends one byte early.                                    *)
MutStarts(data) ==
    {i \in 1 .. Len(data) - 4 :
        At(data, i, StartCode(4)) \/ (At(data, i, StartCode(3)) /\ (i = 1 \/ ~At(data, i - 1, StartCode(4))))}
(* The start codes ParseAnnexB finds: one of three bytes within one of     *)
(* four is skipped, and one in the last three bytes is not looked at.      *)
Starts(data) ==
    {i \in 1 .. Len(data) - 3 :
        At(data, i, StartCode(4)) \/ (At(data, i, StartCode(3)) /\ (i = 1 \/ ~At(data, i - 1, StartCode(4))))}
(* Every start code taken for one of three bytes.                          *)
MutCodeLength(data, i) == 3
CodeLength(data, i) == IF At(data, i, StartCode(4)) THEN 4 ELSE 3

(* Where they are, from the first to the last.                             *)
Positions(data) == Select([i \in 1 .. Len(data) |-> i], Starts(data))
(* The bytes between one start code and the next, or the end.              *)
Pieces(data) ==
    LET starts == Positions(data)
        End(k) == IF k < Len(starts) THEN starts[k + 1] - 1 ELSE Len(data)
    IN  [k \in DOMAIN starts |->
            SubSeq(data, starts[k] + CodeLength(data, starts[k]), End(k))]
ParseAnnexB(data) == Select(Pieces(data), Seq(0 .. 255) \ {<<>>})

Zeros(n) == [i \in 1 .. n |-> 0]
Reading == [unit |-> <<>>, zeros |-> 0, sent |-> <<>>]
Sent(s) == IF s.unit = <<>> THEN s.sent ELSE Append(s.sent, s.unit)
(* One byte of StreamNALUs.                                                *)
ReadByte(s, b) ==
    IF b = 0 THEN [s EXCEPT !.zeros = @ + 1]
    ELSE IF b = 1 /\ s.zeros >= 2 THEN [Reading EXCEPT !.sent = Sent(s)]
    ELSE [s EXCEPT !.unit = @ \o Zeros(s.zeros) \o <<b>>, !.zeros = 0]
(* The reader after all bytes, one after the other.                        *)
ReadAll(data) ==
    LET read[i \in 0 .. Len(data)] ==
            IF i = 0 THEN Reading ELSE ReadByte(read[i - 1], data[i])
    IN  read[Len(data)]
(* What StreamNALUs has sent to its channel when the reader is at its end. *)
StreamNALUs(data) ==
    LET s == ReadAll(data)
    IN  Sent([s EXCEPT !.unit = @ \o Zeros(s.zeros)])

(* restoreKeyframe's view of a file: the access unit, or nothing of use.   *)
Restored(c, data) ==
    LET au == ParseAnnexB(data)
    IN  IF isKeyframeAU(c, au) /\ Complete(c, paramSets(c, au)) THEN au ELSE None

(* encodePNGToAUProfile: of H.264 the NAL units it knows, of H.265 all.    *)
Encoded(c, data) ==
    LET au == ParseAnnexB(data)
    IN  IF c = "h265" THEN au ELSE Select(au, NALs(c, SafeTypes(c)))

-----------------------------------------------------------------------------
(* Behaviour.                                                              *)

Kinds == {"start", "between", "dropped", "relayed", "encoded", "foreign"}
SetsOf(c) == [vps : UnitsOf(c) \cup {None}, sps : UnitsOf(c) \cup {None}, pps : UnitsOf(c) \cup {None}]
TypeOK ==
    /\ codec \in Codecs /\ seen \in BOOLEAN /\ pc \in Kinds
    /\ sets \in SetsOf(codec)
    /\ in \in AUs(codec) /\ stream \in Seq(0 .. 255)
    /\ out \in Seq(UnitsOf(codec)) /\ (pc = "relayed" => Has(codec, out, PictureTypes(codec)))

Blank == in = <<>> /\ stream = <<>> /\ out = <<>>
Init == codec \in Codecs /\ sets = NoSets /\ seen = FALSE /\ pc = "start" /\ Blank

(* FFmpeg encodes a picture, with start codes of either length.            *)
Encode ==
    /\ pc = "start" /\ pc' = "encoded"
    /\ \E units \in BoundedSeq({n \in UnitsOf(codec) : ~Short(codec, n)}, MaxEncoded) :
         /\ in' = units
         /\ \E lengths \in [DOMAIN units -> {3, 4}] : stream' = Stream(units, lengths)
    /\ out' = Encoded(codec, stream')
    /\ UNCHANGED <<codec, sets, seen>>

(* A file that something else has written is read.                         *)
ReadForeign ==
    /\ pc = "start" /\ pc' = "foreign"
    /\ stream' \in BoundedSeq(Bytes, MaxBytes)
    /\ UNCHANGED <<codec, sets, seen, in, out>>

(* registerCallback: each set is in the answer to DESCRIBE or is not.      *)
Connect ==
    /\ pc \in {"start", "between"} /\ pc' = "between"
    /\ \E announced \in BoundedSeq({n \in UnitsOf(codec) : Is(codec, n, SetTypes(codec))}, 3) :
         sets' = paramSets(codec, announced)
    /\ seen' = FALSE
    /\ UNCHANGED <<codec, in, stream, out>>

(* The callback that prepends the sets it knew before this access unit.    *)
MutTrackLate ==
    /\ pc = "between"
    /\ \E au \in AUs(codec) :
         LET kept == filterNALUs(codec, au)
         IN  /\ in' = au
             /\ IF hasVCL(codec, kept) /\ (seen \/ isKeyframeAU(codec, kept))
                THEN /\ pc' = "relayed" /\ seen' = TRUE
                     /\ sets' = track(codec, kept, sets)
                     /\ out' = ensureSets(codec, kept, sets)
                ELSE pc' = "dropped" /\ UNCHANGED <<sets, seen, out>>
    /\ UNCHANGED <<codec, stream>>
(* The callback with an access unit: without a picture, or before the      *)
(* first keyframe, it returns early, and learns no parameter sets.         *)
Receive ==
    /\ pc = "between"
    /\ \E au \in AUs(codec) :
         LET kept == filterNALUs(codec, au)
         IN  /\ in' = au
             /\ IF hasVCL(codec, kept) /\ (seen \/ isKeyframeAU(codec, kept))
                THEN /\ pc' = "relayed" /\ seen' = TRUE
                     /\ sets' = track(codec, kept, sets)
                     /\ out' = ensureSets(codec, kept, sets')
                ELSE pc' = "dropped" /\ UNCHANGED <<sets, seen, out>>
    /\ UNCHANGED <<codec, stream>>

(* The callback is done with the access unit, or the handler is started    *)
(* with what it has read.                                                  *)
Return ==
    /\ pc \in {"dropped", "relayed", "encoded", "foreign"} /\ pc' = "between"
    /\ in' = <<>> /\ stream' = <<>> /\ out' = <<>>
    /\ UNCHANGED <<codec, sets, seen>>

(* A stall: needKey.                                                       *)
Stall ==
    /\ pc = "between" /\ seen
    /\ seen' = FALSE
    /\ UNCHANGED <<codec, sets, pc, in, stream, out>>

Next == Encode \/ ReadForeign \/ Connect \/ Receive \/ Return \/ Stall
Spec == Init /\ [][Next]_vars

-----------------------------------------------------------------------------
(* Properties.                                                             *)

Key == pc = "relayed" /\ isKeyframeAU(codec, out)

(* A relayed keyframe carries the parameter sets that came with it, where  *)
(* any did, and never those of an earlier one; and once the callback knows *)
(* all of them they are at its head, each exactly once.                    *)
OwnSetsWin ==
    Key => LET own == track(codec, in, sets)
               n == Len(InFront(codec, sets))
           IN  /\ paramSets(codec, out) = track(codec, in, paramSets(codec, out))
               /\ Complete(codec, own) =>
                     /\ SubSeq(out, 1, n) = InFront(codec, own)
                     /\ ~Has(codec, SubSeq(out, n + 1, Len(out)), SetTypes(codec))

(* Nothing of a picture is lost or moved on its way through the filter and *)
(* the normalisation, and nothing of a partitioned picture gets through.   *)
PictureKept ==
    pc = "relayed" =>
        /\ ~(codec = "h264" /\ Has(codec, in, 2 .. 4))
        /\ Rest(codec, out) = Select(in, NALs(codec, SafeTypes(codec) \ SetTypes(codec)))

(* A keyframe that is saved and restored is the one that was relayed, with *)
(* the parameter sets the callback knew; one without them is not restored. *)
RestoredExactly ==
    Key => LET r == Restored(codec, Saved(out))
           IN  IF Complete(codec, sets) THEN r = out /\ paramSets(codec, r) = sets
               ELSE r = None

(* What FFmpeg has encoded comes out of its byte stream whole, whatever    *)
(* start codes it uses, from either parser.  Of any other bytes            *)
(* ParseAnnexB drops those in front of the first start code and nothing    *)
(* else, and no unit holds a start code but at the very end of the bytes.  *)
ParsedExactly ==
    /\ pc = "encoded" =>
        /\ ParseAnnexB(stream) = in /\ StreamNALUs(stream) = in
        /\ codec = "h264" => out = Select(in, NALs(codec, SafeTypes(codec)))
    /\ pc = "foreign" /\ Starts(stream) # {} =>
        LET starts == Positions(stream)
            pieces == Pieces(stream)
        IN  /\ SubSeq(stream, starts[1], Len(stream)) =
                  Stream(pieces, [k \in DOMAIN starts |-> CodeLength(stream, starts[k])])
            /\ \A k \in DOMAIN pieces : \A i \in 1 .. Len(pieces[k]) - 3 : ~At(pieces[k], i, StartCode(3))
=============================================================================
