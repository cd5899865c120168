------------------------- MODULE FallbackFramesProofs -------------------------
(***************************************************************************)
(* Proofs about FallbackFrames: which pictures a consumer is sent, under   *)
(* which parameter sets, and what /status says of them.                    *)
(***************************************************************************)
EXTENDS FallbackFrames, TLAPS

(* Slices with the sets they were encoded with in band.                    *)
Whole(au) == au.sps = au.by /\ (CodecOf(au.by) = "h265" => au.vps = au.by)
Choosing == {"codec", "frame", "choose", "encode"}
HasPicture == {"sets", "serve", "switch"}
InSession == {"relay", "left"}
HasUnit == {"store", "live", "capture"}

(* The handler's codec is that of its SDP, and from DESCRIBE, or the       *)
(* rebuild it leads to, on that of the camera.                             *)
CodecsAgree ==
    /\ desc.codec = codec
    /\ loop \in {"copy", "setup"} \cup InSession => CodecOf(cam) = codec

(* The callback runs in a session only, with a whole picture.              *)
CallbackWhole ==
    /\ cb.pc # "idle" => loop \in InSession
    /\ cb.pc \in HasUnit => /\ cb.au.origin = "live" /\ Whole(cb.au)
                            /\ cb.au.by \in CameraSets /\ CodecOf(cb.au.by) = codec

(* Where the pictures a fallback may take come from; what is kept of the   *)
(* camera.                                                                 *)
Stores ==
    /\ camSets \in {SetPair(p) : p \in CameraSets} \cup {Unset}
    /\ disk # None => Whole(disk) /\ disk.by \in CameraSets
    /\ lastAU # None => lastAU.origin \in {"live", "restored"}
    /\ pre # None => pre.origin = "generated"
    /\ neutral # None => neutral.origin = "neutral" /\ Whole(neutral)

(* The fallback goroutine has the neutral image in neutral mode only, and  *)
(* of the current codec, also when it was begun before it was waited for.  *)
FallbackPicture ==
    /\ loop = "boot" => fb.pc = "off"
    /\ fb.pc \in {"frame", "choose", "encode"} \cup HasPicture => fb.codec = codec
    /\ fb.pc \in {"choose", "encode"} /\ fb.frame # None => fb.frame.origin \in {"live", "restored"}
    /\ fb.pc \in HasPicture /\ fb.frame.origin = "neutral" =>
          /\ Neutral /\ Whole(fb.frame) /\ CodecOf(fb.frame.by) = codec
          /\ fb.pc # "switch"
    /\ enc # None /\ enc.for = "fallback" =>
          fb.pc \in {"encode", "switch"} /\ Neutral /\ enc.codec = codec

(* Who stops a fallback waits until it is gone.                            *)
Joins ==
    /\ fb.pc = "off" => ~fb.stopped
    /\ fb.stopped => cb.pc = "join" \/ loop = "rebuild"

(* The kind from the moment it is set until the next change of picture.    *)
KindFollows ==
    /\ fb.pc = "off" => kind = "none"
    /\ Recorded => kind # "none"
    /\ Recorded /\ fb.pc \in Choosing => kind = "last_keyframe"
    /\ Recorded /\ fb.pc \in HasPicture =>
          /\ kind = "neutral" => fb.frame.origin \in {"generated", "neutral"}
          /\ kind = "last_keyframe" => \/ fb.frame.origin \in {"live", "restored"}
                                       \/ ~Neutral /\ pre = None

PictureInv ==
    TypeOK /\ CodecsAgree /\ CallbackWhole /\ Stores /\ FallbackPicture /\ Joins /\ KindFollows

(* The handler has a live picture from the moment a fallback may run       *)
(* behind it, and the flag says so.                                        *)
LiveIsKept ==
    /\ loop = "boot" => ~live /\ lastAU = None
    /\ live /\ lastAU # None => lastAU.origin = "live"
    /\ lastAU # None /\ lastAU.origin = "live" => live \/ cb.pc = "live"
    /\ loop \in InSession /\ seenIDR /\ cb.pc \in {"idle", "capture"} => live /\ lastAU # None
    /\ cb.pc \in {"live", "capture"} => lastAU = cb.au
    /\ cb.pc \in HasUnit => seenIDR /\ (fb.pc = "off" \/ (live /\ lastAU # None))

(* What a fallback shows first, and later.                                 *)
Choice == CASE Neutral -> IF Kept = "live" THEN "live" ELSE "neutral"
            [] OTHER   -> IF Kept = "nothing" THEN "generated" ELSE Kept
FallbackChoice ==
    /\ fb.pc # "off" => cfg.mode # "none"
    /\ loop = "rebuild" => camSets # Unset
    /\ fb.pc \in {"choose", "encode"} =>
          /\ fb.frame = None <=> lastAU = None
          /\ fb.frame # None => fb.frame.origin = lastAU.origin
    /\ fb.pc = "encode" => Neutral /\ (fb.frame = None \/ ~live)
    /\ fb.pc = "sets" => fb.frame.origin = Choice
    /\ fb.pc = "serve" => IF Neutral THEN fb.frame.origin \in {"live", "neutral"}
                                     ELSE fb.frame.origin # "neutral"
    /\ fb.pc = "switch" => Neutral /\ fb.frame.origin = "live"
HoldInv == PictureInv /\ LiveIsKept /\ FallbackChoice

(* initialVPS/SPS/PPS are the sets p, as far as its codec has them, or     *)
(* nothing.                                                                *)
InitialIs(p) ==
    CodecOf(p) = codec /\ initial.sps = p /\ (codec = "h265" => initial.vps = p)
InitialUnset == initial.sps = None /\ (codec = "h265" => initial.vps = None)
OfCamera(au) == au.origin \in {"live", "restored"}

(* The SDP has the handler's sets, which from CopyParams on are the        *)
(* camera's, and a picture that is kept is one made under them.            *)
SetsFollow ==
    /\ desc.sets = Description(codec, initial).sets
    /\ loop \in {"rebuild", "copy"} => camSets = SetPair(cam)
    /\ loop = "copy" => InitialIs(cam) \/ InitialUnset
    /\ loop \in {"setup"} \cup InSession => InitialIs(cam)
    /\ cb.pc \in HasUnit => cb.au.by = cam
StoredFits ==
    /\ loop = "boot" => lastAU = None
    /\ lastAU # None => Whole(lastAU) /\ InitialIs(lastAU.by)
TakenFits ==
    /\ fb.pc \in {"choose", "encode"} \cup HasPicture /\ fb.frame # None /\ OfCamera(fb.frame) =>
          Whole(fb.frame) /\ InitialIs(fb.frame.by)
    /\ fb.pc \in {"serve", "switch"} /\ OfCamera(fb.frame) =>
          /\ fb.sets.sps = fb.frame.by
          /\ codec = "h265" => fb.sets.vps = fb.frame.by
SetsInv == PictureInv /\ SetsFollow /\ StoredFits /\ TakenFits

(* What a consumer has read is still so, or was nothing.                   *)
SdpCurrent ==
    /\ loop = "boot" => consumer.pc = "out"
    /\ consumer.pc # "out" =>
          consumer.sdp.codec = codec /\ consumer.sdp.sets \in {Unset, desc.sets}

(* With a pre-encoded frame the sets noted are those in initialSPS, unless *)
(* these are still the encoder's, or have just been replaced in a rebuild  *)
(* that has ended the fallback; so the neutral image a fallback has, or is *)
(* waiting for, is of their size.                                          *)
NotedInitial ==
    /\ loop = "boot" => pre = None
    /\ pre # None =>
          /\ initial.sps # None
          /\ \/ initial.sps = noted
             \/ initial.sps \notin CameraSets
             \/ loop = "copy" /\ fb.pc = "off"
SizeFollows ==
    pre # None =>
        /\ fb.pc \in HasPicture /\ fb.frame.origin = "neutral" => fb.frame.size = noted
        /\ enc # None /\ enc.for = "fallback" => enc.size = noted

-----------------------------------------------------------------------------
(* Codecs, sets and pictures.                                              *)

LEMMA Codecs ==
  /\ \A p : CodecOf(p) \in {"h264", "h265"}
  /\ \A c \in {"h264", "h265"} : SetsOf(c) \in AllSets /\ CodecOf(SetsOf(c)) = c
  /\ \A p \in AllSets : SetPair(p) \in Pair /\ SetPair(p) # Unset /\ p # None
<1>1. \A p : CodecOf(p) \in {"h264", "h265"}
  BY DEF CodecOf
<1>2. CodecOf("x264") = "h264" /\ CodecOf("x265") = "h265"
  BY FramesAssumption DEF CodecOf, CameraSets
<1>3. \A p \in AllSets : p # None
  BY FramesAssumption
<1>4. \A p \in AllSets : SetPair(p) \in Pair /\ SetPair(p) # Unset
  BY <1>3 DEF SetPair, Pair, Unset
<1> QED
  BY <1>1, <1>2, <1>3, <1>4 DEF SetsOf, AllSets

LEMMA EncodedIsFrame ==
  ASSUME NEW p \in AllSets, NEW pair \in Pair, NEW size \in CameraSets \cup {"default"},
         NEW origin \in {"live", "restored", "generated", "neutral"}
  PROVE  /\ Encoded(p, pair, origin, size) \in Frame
         /\ Encoded(p, pair, origin, size) # None
         /\ Encoded(p, pair, origin, size).by = p
         /\ Encoded(p, pair, origin, size).origin = origin
         /\ Encoded(p, pair, origin, size).size = size
         /\ pair = SetPair(p) => Whole(Encoded(p, pair, origin, size))
<1>1. Encoded(p, pair, origin, size) \in Frame
  BY DEF Encoded, Pair, Frame
<1>2. pair = SetPair(p) => Whole(Encoded(p, pair, origin, size))
  BY DEF Encoded, Whole, SetPair
<1> QED
  BY <1>1, <1>2, FramesAssumption DEF Encoded

(* A picture of the camera behind ensureSPSPPS with its own sets.          *)
LEMMA EnsuredIsWhole ==
  ASSUME NEW p \in CameraSets, NEW own \in {SetPair(p), Unset}
  PROVE  LET au == ensureSets(Encoded(p, own, "live", p), SetPair(p), CodecOf(p))
         IN  au \in Frame /\ au.by = p /\ au.origin = "live" /\ Whole(au)
<1> DEFINE e == Encoded(p, own, "live", p)
           au == ensureSets(e, SetPair(p), CodecOf(p))
<1>1. p \in AllSets /\ p # None /\ own \in Pair
  BY Codecs DEF AllSets, Pair, Unset
<1>2. e \in Frame /\ e.by = p /\ e.origin = "live"
  BY <1>1, EncodedIsFrame
<1>3. au = [e EXCEPT !.sps = p, !.vps = IF CodecOf(p) = "h265" THEN p ELSE @]
  BY <1>1, Codecs DEF ensureSets, SetPair
<1> HIDE DEF e, au
<1>4. au \in Frame /\ au.by = p /\ au.origin = "live" /\ Whole(au)
  BY <1>1, <1>2, <1>3 DEF Frame, Whole
<1> QED
  BY <1>4 DEF e, au

(* A fallback that is not running, one that begins, and steps of it.       *)
LEMMA FallbackStates ==
  /\ Off \in FbState /\ Off.pc = "off" /\ ~Off.stopped
  /\ LET f == [Off EXCEPT !.pc = "codec"]
     IN  f \in FbState /\ f.pc = "codec" /\ ~f.stopped
  BY DEF FbState, Off, Unset, Pair

LEMMA FilledIsPair ==
  ASSUME NEW c \in {"h264", "h265"}, NEW pair \in Pair PROVE Filled(c, pair) \in Pair
  BY Codecs DEF Filled, Pair, AllSets

LEMMA DescriptionIsPair ==
  ASSUME NEW c \in {"h264", "h265"}, NEW pair \in Pair
  PROVE  Description(c, pair) \in Sdp /\ Description(c, pair).codec = c
  BY DEF Description, Pair, Sdp

LEMMA JoinedOutside ==
  ASSUME PictureInv, loop # "rebuild", cb.pc # "join" PROVE fb.stopped = FALSE
  BY DEF PictureInv, TypeOK, FbState, Joins

(* startFallback begins a fallback or leaves it as it is.                  *)
LEMMA StartStates ==
  ASSUME PictureInv, fb.stopped = FALSE, startFallback
  PROVE  \/ fb' = fb /\ kind' = kind /\ fb.pc # "off"
         \/ /\ fb.pc = "off" /\ fb' \in FbState /\ fb'.pc = "codec" /\ ~fb'.stopped
            /\ kind' = "last_keyframe"
  BY FallbackStates DEF startFallback, Recorded

LEMMA StopStates ==
  ASSUME PictureInv, stopFallback
  PROVE  /\ fb' \in FbState /\ kind' = "none"
         /\ fb'.pc = fb.pc /\ fb'.frame = fb.frame /\ fb'.codec = fb.codec /\ fb'.sets = fb.sets
         /\ fb'.stopped = (fb.pc # "off")
  BY DEF stopFallback, PictureInv, TypeOK, FbState

(* A new neutral image.                                                    *)
LEMMA NeutralImage ==
  ASSUME NEW c \in {"h264", "h265"}, NEW size \in CameraSets \cup {"default"}
  PROVE  LET au == Encoded(SetsOf(c), SetPair(SetsOf(c)), "neutral", size)
         IN  au \in Frame /\ au # None /\ au.origin = "neutral" /\ au.size = size
             /\ Whole(au) /\ CodecOf(au.by) = c
<1>1. SetsOf(c) \in AllSets /\ SetPair(SetsOf(c)) \in Pair /\ CodecOf(SetsOf(c)) = c
  BY Codecs
<1> QED
  BY <1>1, EncodedIsFrame

-----------------------------------------------------------------------------
(* The fallback goroutine.                                                 *)

(* What its steps leave alone.                                             *)
LEMMA FallbackLeaves ==
  ASSUME PictureInv, UNCHANGED fbFrame,
         fb' \in FbState, kind' \in {"none", "last_keyframe", "neutral"},
         fb'.pc \in HasPicture => fb'.frame # None,
         neutral' \in Frame \cup {None}, enc' \in Encoding \cup {None}, warm' \in BOOLEAN,
         neutral' # None => neutral'.origin = "neutral" /\ Whole(neutral')
  PROVE  TypeOK' /\ CodecsAgree' /\ CallbackWhole' /\ Stores'
<1>1. TypeOK'
  BY DEF PictureInv, TypeOK, HasPicture, fbFrame, params
<1>2. CodecsAgree' /\ CallbackWhole' /\ Stores'
  BY DEF PictureInv, CodecsAgree, CallbackWhole, Stores, fbFrame, params
<1> QED
  BY <1>1, <1>2

LEMMA FbReadKeeps ==
  ASSUME PictureInv, FbReadCodec \/ FbReadFrame
  PROVE  PictureInv'
<1>1. /\ UNCHANGED fbFrame /\ UNCHANGED image /\ kind' = kind
      /\ fb.pc \in {"codec", "frame"} /\ loop # "boot"
      /\ fb' \in FbState /\ fb'.pc \in {"frame", "choose"} /\ fb'.stopped = fb.stopped
      /\ fb'.codec = codec
      /\ fb'.pc = "choose" => fb'.frame = lastAU
  BY DEF FbReadCodec, FbReadFrame, PictureInv, TypeOK, FallbackPicture, FbState
<1>2. TypeOK' /\ CodecsAgree' /\ CallbackWhole' /\ Stores'
  BY <1>1, FallbackLeaves DEF PictureInv, TypeOK, Stores, HasPicture, image
<1>3. FallbackPicture'
  BY <1>1 DEF PictureInv, FallbackPicture, Stores, HasPicture, fbFrame, params, image
<1>4. Joins' /\ KindFollows'
  BY <1>1 DEF PictureInv, Joins, KindFollows, Recorded, Choosing, HasPicture, fbFrame
<1> QED
  BY <1>2, <1>3, <1>4 DEF PictureInv

LEMMA FbHoldKeeps ==
  ASSUME PictureInv, FbHold
  PROVE  PictureInv'
<1>1. /\ UNCHANGED fbFrame /\ UNCHANGED <<neutral, enc>> /\ warm' = TRUE /\ kind' = "last_keyframe"
      /\ fb.pc = "choose" /\ fb' \in FbState /\ fb'.pc = "sets" /\ fb'.frame = fb.frame
      /\ fb'.stopped = fb.stopped /\ fb'.codec = fb.codec
      /\ fb.frame # None /\ fb.frame.origin \in {"live", "restored"}
  BY DEF FbHold, PictureInv, TypeOK, FbState, FallbackPicture
<1>2. TypeOK' /\ CodecsAgree' /\ CallbackWhole' /\ Stores'
  BY <1>1, FallbackLeaves DEF PictureInv, TypeOK, Stores, HasPicture
<1>3. FallbackPicture'
  BY <1>1 DEF PictureInv, FallbackPicture, HasPicture, fbFrame, params
<1>4. Joins' /\ KindFollows'
  BY <1>1 DEF PictureInv, Joins, KindFollows, Recorded, Choosing, HasPicture, fbFrame
<1> QED
  BY <1>2, <1>3, <1>4 DEF PictureInv

(* The neutral image goes to the fallback that has asked for it.           *)
LEMMA TakeNeutralStates ==
  ASSUME PictureInv, NEW au \in Frame, TakeNeutral(au)
  PROVE  /\ fb' \in FbState /\ fb'.pc \in {"sets", "serve"} /\ fb'.frame = au
         /\ fb'.pc = "sets" <=> fb.pc \in {"choose", "encode"}
         /\ fb'.stopped = fb.stopped /\ fb'.codec = fb.codec /\ fb'.sets = fb.sets
         /\ kind' = "neutral" /\ au # None
<1>1. fb \in FbState /\ au # None
  BY FramesAssumption DEF PictureInv, TypeOK
<1>2. CASE fb.pc \in {"choose", "encode"}
  BY <1>1, <1>2 DEF TakeNeutral, FbState
<1>3. CASE fb.pc \notin {"choose", "encode"}
  BY <1>1, <1>3 DEF TakeNeutral, FbState
<1> QED
  BY <1>2, <1>3

LEMMA TakeNeutralKeeps ==
  ASSUME PictureInv, UNCHANGED fbFrame, Neutral,
         fb.pc \in {"choose", "encode", "serve", "switch"},
         NEW au \in Frame, au.origin = "neutral", Whole(au), CodecOf(au.by) = codec,
         TakeNeutral(au), neutral' = au, enc' = None, warm' \in BOOLEAN
  PROVE  PictureInv'
<1>1. /\ fb' \in FbState /\ fb'.pc \in {"sets", "serve"} /\ fb'.frame = au
      /\ fb'.stopped = fb.stopped /\ fb'.codec = fb.codec /\ kind' = "neutral" /\ au # None
  BY TakeNeutralStates
<1>2. TypeOK' /\ CodecsAgree' /\ CallbackWhole' /\ Stores'
  BY <1>1, FallbackLeaves
<1>3. FallbackPicture'
  BY <1>1 DEF PictureInv, FallbackPicture, HasPicture, Neutral, fbFrame, params
<1>4. Joins' /\ KindFollows'
  BY <1>1 DEF PictureInv, Joins, KindFollows, Recorded, Choosing, HasPicture, fbFrame
<1> QED
  BY <1>2, <1>3, <1>4 DEF PictureInv

LEMMA FbCachedKeeps ==
  ASSUME PictureInv, FbCached
  PROVE  PictureInv'
  BY TakeNeutralKeeps DEF FbCached, WantsNeutral, Cached, PictureInv, TypeOK, Stores, image

(* What is encoded for the fallback.                                       *)
LEMMA EncodedImage ==
  ASSUME PictureInv, enc # None
  PROVE  LET au == Encoded(SetsOf(enc.codec), SetPair(SetsOf(enc.codec)), "neutral", enc.size)
         IN  au \in Frame /\ au # None /\ au.origin = "neutral" /\ au.size = enc.size
             /\ Whole(au) /\ CodecOf(au.by) = enc.codec
<1>1. enc.codec \in {"h264", "h265"} /\ enc.size \in CameraSets \cup {"default"}
  BY DEF PictureInv, TypeOK, Encoding
<1> QED
  BY <1>1, NeutralImage

LEMMA FbEncodedKeeps ==
  ASSUME PictureInv, FbEncoded
  PROVE  PictureInv'
<1> DEFINE au == Encoded(SetsOf(enc.codec), SetPair(SetsOf(enc.codec)), "neutral", enc.size)
<1>1. fb.pc \in {"encode", "switch"} /\ Neutral /\ enc.codec = codec
  BY DEF FbEncoded, PictureInv, FallbackPicture
<1>2. au \in Frame /\ au.origin = "neutral" /\ Whole(au) /\ CodecOf(au.by) = codec
  BY <1>1, EncodedImage DEF FbEncoded
<1>3. /\ UNCHANGED fbFrame /\ neutral' = au /\ enc' = None /\ TakeNeutral(au)
      /\ warm' \in BOOLEAN
  BY DEF FbEncoded, PictureInv, TypeOK
<1> QED
  BY <1>1, <1>2, <1>3, TakeNeutralKeeps

LEMMA FbEncodeStates ==
  ASSUME PictureInv, FbEncode
  PROVE  /\ UNCHANGED fbFrame /\ UNCHANGED <<neutral, warm, kind>> /\ Neutral
         /\ enc' \in Encoding /\ enc'.codec = codec /\ enc'.size = noted
         /\ fb' \in FbState /\ fb'.stopped = fb.stopped /\ fb'.codec = fb.codec
         /\ fb'.frame = fb.frame /\ fb'.sets = fb.sets
         /\ \/ fb.pc = "choose" /\ fb'.pc = "encode" /\ (fb.frame = None \/ ~live)
            \/ fb.pc = "serve" /\ fb'.pc = "switch" /\ fb.frame.origin # "neutral"
  BY DEF FbEncode, WantsNeutral, PictureInv, TypeOK, FbState, Encoding

LEMMA FbEncodeKeeps ==
  ASSUME PictureInv, FbEncode
  PROVE  PictureInv'
<1>1. TypeOK' /\ CodecsAgree' /\ CallbackWhole' /\ Stores'
  BY FbEncodeStates, FallbackLeaves DEF PictureInv, TypeOK, Stores, HasPicture
<1>2. FallbackPicture'
  BY FbEncodeStates DEF PictureInv, FallbackPicture, HasPicture, Neutral, fbFrame, params
<1>3. Joins' /\ KindFollows'
  BY FbEncodeStates DEF PictureInv, Joins, KindFollows, Recorded, Choosing, HasPicture, Neutral,
     fbFrame, params
<1> QED
  BY <1>1, <1>2, <1>3 DEF PictureInv

LEMMA FbEncodeFailsStates ==
  ASSUME PictureInv, FbEncodeFails
  PROVE  /\ UNCHANGED fbFrame /\ UNCHANGED <<neutral, warm, kind>> /\ enc' = None
         /\ fb' \in FbState /\ fb'.stopped = fb.stopped /\ fb'.codec = fb.codec
         /\ fb'.frame = fb.frame /\ fb'.sets = fb.sets
         /\ \/ fb.pc = "encode" /\ fb'.pc = "exit"
            \/ fb.pc = "switch" /\ fb'.pc = "serve"
<1>1. fb.pc \in {"encode", "switch"} /\ fb \in FbState
  BY DEF FbEncodeFails, PictureInv, TypeOK, FallbackPicture
<1>2. CASE fb.pc = "encode"
  BY <1>1, <1>2 DEF FbEncodeFails, FbState
<1>3. CASE fb.pc = "switch"
  BY <1>1, <1>3 DEF FbEncodeFails, FbState
<1> QED
  BY <1>1, <1>2, <1>3

LEMMA FbEncodeFailsKeeps ==
  ASSUME PictureInv, FbEncodeFails
  PROVE  PictureInv'
<1>1. TypeOK' /\ CodecsAgree' /\ CallbackWhole' /\ Stores'
  BY FbEncodeFailsStates, FallbackLeaves DEF PictureInv, TypeOK, Stores, HasPicture
<1>2. FallbackPicture'
  BY FbEncodeFailsStates DEF PictureInv, FallbackPicture, HasPicture, Neutral, fbFrame, params
<1>3. Joins' /\ KindFollows'
  BY FbEncodeFailsStates DEF PictureInv, Joins, KindFollows, Recorded, Choosing, HasPicture,
     Neutral, fbFrame, params
<1> QED
  BY <1>1, <1>2, <1>3 DEF PictureInv

LEMMA WarmStates ==
  ASSUME PictureInv, WarmBegin \/ WarmEnd
  PROVE  /\ UNCHANGED fbFrame /\ UNCHANGED <<fb, kind>> /\ warm' \in BOOLEAN
         /\ enc' \in Encoding \cup {None} /\ (enc' # None => enc'.for = "cache")
         /\ neutral' \in Frame \cup {None}
         /\ neutral' # None => neutral'.origin = "neutral" /\ Whole(neutral')
<1>1. CASE WarmBegin
  BY <1>1 DEF WarmBegin, PictureInv, TypeOK, Stores, Encoding
<1>2. CASE WarmEnd
  <2> DEFINE au == Encoded(SetsOf(enc.codec), SetPair(SetsOf(enc.codec)), "neutral", enc.size)
  <2>1. neutral' \in {au, neutral} /\ enc' = None /\ UNCHANGED fbFrame /\ UNCHANGED <<fb, kind, warm>>
    BY <1>2 DEF WarmEnd
  <2>2. au \in Frame /\ au.origin = "neutral" /\ Whole(au)
    BY <1>2, EncodedImage DEF WarmEnd
  <2> QED
    BY <2>1, <2>2 DEF PictureInv, TypeOK, Stores
<1> QED
  BY <1>1, <1>2

LEMMA WarmKeeps ==
  ASSUME PictureInv, WarmBegin \/ WarmEnd
  PROVE  PictureInv'
<1>1. TypeOK' /\ CodecsAgree' /\ CallbackWhole' /\ Stores'
  BY WarmStates, FallbackLeaves DEF PictureInv, TypeOK, HasPicture
<1>2. FallbackPicture'
  BY WarmStates DEF PictureInv, FallbackPicture, HasPicture, Neutral, fbFrame, params
<1>3. Joins' /\ KindFollows'
  BY WarmStates DEF PictureInv, Joins, KindFollows, Recorded, Neutral, fbFrame, params
<1> QED
  BY <1>1, <1>2, <1>3 DEF PictureInv

(* Without the neutral mode: what is chosen, and what that is called.      *)
LEMMA FbChooseStates ==
  ASSUME PictureInv, FbChoose
  PROVE  /\ UNCHANGED fbFrame /\ UNCHANGED image /\ fb.pc = "choose" /\ ~Neutral
         /\ fb' \in FbState /\ fb'.stopped = fb.stopped /\ fb'.codec = fb.codec
         /\ \/ fb'.pc = "exit" /\ kind' = kind
            \/ /\ fb'.pc = "sets" /\ fb'.frame = fb.frame /\ fb.frame # None /\ kind' = kind
               /\ fb.frame.origin \in {"live", "restored"}
            \/ /\ fb'.pc = "sets" /\ fb'.frame # None /\ fb.frame = None
               /\ fb'.frame.origin = "generated"
               /\ kind' = "neutral" \/ (kind' = kind /\ pre = None)
<1> DEFINE made == Encoded(SetsOf(fb.codec), SetPair(SetsOf(fb.codec)), "generated", "default")
<1>1. /\ fb.pc = "choose" /\ fb \in FbState /\ fb.codec \in {"h264", "h265"}
      /\ fb.frame # None => fb.frame.origin \in {"live", "restored"}
      /\ pre # None => pre \in Frame /\ pre.origin = "generated"
  BY DEF FbChoose, PictureInv, TypeOK, Stores, FallbackPicture
<1>2. made \in Frame /\ made.origin = "generated" /\ made # None
  BY <1>1, Codecs, EncodedIsFrame
<1>3. UNCHANGED fbFrame /\ UNCHANGED image /\ ~Neutral
  BY DEF FbChoose
<1>4. CASE fb.frame # None
  <2>1. fb' = [fb EXCEPT !.pc = "sets"] /\ kind' = kind
    BY <1>4 DEF FbChoose
  <2> QED
    BY <1>1, <1>3, <1>4, <2>1 DEF FbState
<1>5. CASE fb.frame = None /\ pre # None
  <2>1. fb' = [fb EXCEPT !.pc = "sets", !.frame = pre] /\ kind' = "neutral"
    BY <1>5 DEF FbChoose
  <2>2. pre \in Frame /\ pre # None
    BY <1>1, <1>5
  <2>3. /\ fb' \in FbState /\ fb'.pc = "sets" /\ fb'.frame = pre
        /\ fb'.stopped = fb.stopped /\ fb'.codec = fb.codec
    BY <1>1, <2>1, <2>2 DEF FbState
  <2> QED
    BY <1>1, <1>3, <1>5, <2>1, <2>2, <2>3
<1>6. CASE fb.frame = None /\ pre = None
  <2>1. kind' = kind
    BY <1>6 DEF FbChoose
  <2>2. fb' = [fb EXCEPT !.pc = "sets", !.frame = made] \/ fb' = [fb EXCEPT !.pc = "exit"]
    BY <1>6 DEF FbChoose
  <2>3. CASE fb' = [fb EXCEPT !.pc = "sets", !.frame = made]
    <3> HIDE DEF made
    <3>1. /\ fb' \in FbState /\ fb'.pc = "sets" /\ fb'.frame = made
          /\ fb'.stopped = fb.stopped /\ fb'.codec = fb.codec
      BY <1>1, <1>2, <2>3 DEF FbState
    <3> QED
      BY <1>1, <1>2, <1>3, <1>6, <2>1, <3>1
  <2>4. CASE fb' = [fb EXCEPT !.pc = "exit"]
    BY <1>1, <1>3, <2>1, <2>4 DEF FbState
  <2> QED
    BY <2>2, <2>3, <2>4
<1> QED
  BY <1>4, <1>5, <1>6

LEMMA FbChooseKeeps ==
  ASSUME PictureInv, FbChoose
  PROVE  PictureInv'
<1>1. TypeOK' /\ CodecsAgree' /\ CallbackWhole' /\ Stores'
  BY FbChooseStates, FallbackLeaves DEF PictureInv, TypeOK, Stores, HasPicture, image
<1>2. FallbackPicture'
  BY FbChooseStates DEF PictureInv, FallbackPicture, HasPicture, fbFrame, params, image
<1>3. Joins' /\ KindFollows'
  BY FbChooseStates DEF PictureInv, Joins, KindFollows, Recorded, Choosing, HasPicture,
     Neutral, fbFrame, params
<1> QED
  BY <1>1, <1>2, <1>3 DEF PictureInv

LEMMA FbReadSetsStates ==
  ASSUME PictureInv, FbReadSets
  PROVE  /\ UNCHANGED fbFrame /\ UNCHANGED image /\ kind' = kind /\ fb.pc = "sets"
         /\ fb' \in FbState /\ fb'.stopped = fb.stopped /\ fb'.codec = fb.codec
         /\ fb'.frame = fb.frame
         /\ fb'.pc = "exit" \/ (fb'.pc = "serve" /\ fb'.sets = initial)
  BY DEF FbReadSets, PictureInv, TypeOK, FbState

LEMMA FbReadSetsKeeps ==
  ASSUME PictureInv, FbReadSets
  PROVE  PictureInv'
<1>1. TypeOK' /\ CodecsAgree' /\ CallbackWhole' /\ Stores'
  BY FbReadSetsStates, FallbackLeaves DEF PictureInv, TypeOK, Stores, HasPicture, image
<1>2. FallbackPicture'
  BY FbReadSetsStates DEF PictureInv, FallbackPicture, HasPicture, Neutral, fbFrame, params, image
<1>3. Joins' /\ KindFollows'
  BY FbReadSetsStates DEF PictureInv, Joins, KindFollows, Recorded, Choosing, HasPicture,
     Neutral, fbFrame, params
<1> QED
  BY <1>1, <1>2, <1>3 DEF PictureInv

LEMMA FbDoneKeeps ==
  ASSUME PictureInv, FbDone
  PROVE  PictureInv'
<1>1. /\ UNCHANGED fbFrame /\ UNCHANGED image /\ kind' = kind /\ fb.pc = "serve" /\ fb.stopped
      /\ fb' \in FbState /\ fb'.pc = "exit" /\ fb'.stopped = fb.stopped
  BY DEF FbDone, PictureInv, TypeOK, FbState
<1>2. TypeOK' /\ CodecsAgree' /\ CallbackWhole' /\ Stores'
  BY <1>1, FallbackLeaves DEF PictureInv, TypeOK, Stores, HasPicture, image
<1>3. FallbackPicture' /\ Joins' /\ KindFollows'
  BY <1>1 DEF PictureInv, FallbackPicture, Joins, KindFollows, Recorded, Choosing, HasPicture,
     fbFrame, image
<1> QED
  BY <1>2, <1>3 DEF PictureInv

LEMMA FbForgetKeeps ==
  ASSUME PictureInv, FbForget
  PROVE  PictureInv'
<1>1. /\ UNCHANGED fbFrame /\ UNCHANGED image /\ kind' = "none" /\ fb.pc = "exit"
      /\ fb' \in FbState /\ fb'.pc = "off" /\ ~fb'.stopped
  BY FallbackStates DEF FbForget
<1>2. TypeOK' /\ CodecsAgree' /\ CallbackWhole' /\ Stores'
  BY <1>1, FallbackLeaves DEF PictureInv, TypeOK, Stores, HasPicture, image
<1>3. FallbackPicture' /\ Joins' /\ KindFollows'
  BY <1>1 DEF PictureInv, FallbackPicture, Joins, KindFollows, Recorded, Choosing, HasPicture,
     fbFrame, image
<1> QED
  BY <1>2, <1>3 DEF PictureInv


-----------------------------------------------------------------------------
(* The connection loop.                                                    *)

LEMMA BlankStates ==
  /\ Unset \in Pair /\ CbIdle \in CbState /\ CbIdle.pc = "idle"
  /\ [codec |-> "h264", sets |-> Unset] \in Sdp
  /\ Out \in [pc : {"out", "described", "playing"}, sdp : Sdp \cup {None}] /\ Out.pc = "out"
<1>1. Unset \in Pair
  BY DEF Unset, Pair
<1> QED
  BY <1>1 DEF CbState, CbIdle, Sdp, Out

LEMMA InitPicture == Init => PictureInv
<1> SUFFICES ASSUME Init PROVE PictureInv
  OBVIOUS
<1>1. TypeOK
  BY BlankStates, FallbackStates DEF Init, Blank, TypeOK
<1>2. CodecsAgree /\ CallbackWhole /\ Stores
  BY BlankStates DEF Init, Blank, CodecsAgree, CallbackWhole, Stores, InSession, HasUnit
<1>3. FallbackPicture /\ Joins /\ KindFollows
  BY FallbackStates
  DEF Init, Blank, FallbackPicture, Joins, KindFollows, Recorded, Choosing, HasPicture
<1> QED
  BY <1>1, <1>2, <1>3 DEF PictureInv

LEMMA ExitKeeps ==
  ASSUME PictureInv, Exit
  PROVE  PictureInv'
<1>1. TypeOK'
  BY BlankStates, FallbackStates DEF Exit, PictureInv, TypeOK
<1>2. CodecsAgree' /\ CallbackWhole' /\ Stores'
  BY BlankStates DEF Exit, PictureInv, CodecsAgree, CallbackWhole, Stores, InSession, HasUnit
<1>3. FallbackPicture' /\ Joins' /\ KindFollows'
  BY FallbackStates
  DEF Exit, FallbackPicture, Joins, KindFollows, Recorded, Choosing, HasPicture
<1> QED
  BY <1>1, <1>2, <1>3 DEF PictureInv

LEMMA PreEncoded ==
  ASSUME PictureInv, NEW c \in {"h264", "h265"}, NEW pair \in Pair, preEncodeFallback(c, pair)
  PROVE  /\ initial' \in Pair /\ pre' \in Frame \cup {None}
         /\ pre' # None => pre'.origin = "generated"
<1>1. CASE /\ initial' = Filled(c, pair)
           /\ pre' = Encoded(SetsOf(c), SetPair(SetsOf(c)), "generated", "default")
  BY <1>1, Codecs, FilledIsPair, EncodedIsFrame
<1>2. CASE initial' = pair /\ pre' = pre
  BY <1>2 DEF PictureInv, TypeOK, Stores
<1> QED
  BY <1>1, <1>2 DEF preEncodeFallback

(* enterFallback where nobody waits for a fallback to end.                 *)
LEMMA EnterStates ==
  ASSUME PictureInv, loop # "rebuild", cb.pc # "join", Enter \/ startFallback
  PROVE  \/ fb' = fb /\ kind' = kind
         \/ /\ fb.pc = "off" /\ fb' \in FbState /\ fb'.pc = "codec" /\ ~fb'.stopped
            /\ kind' = "last_keyframe"
  BY JoinedOutside, StartStates DEF Enter

LEMMA StartKeeps ==
  ASSUME PictureInv, Start
  PROVE  PictureInv'
<1> DEFINE c == IF cfg.codec = "h265" THEN "h265" ELSE "h264"
           made == Encoded(SetsOf(c), SetPair(SetsOf(c)), "generated", "default")
<1>1. /\ codec' \in {"h264", "h265"} /\ initial' \in Pair
      /\ pre' \in Frame \cup {None} /\ (pre' # None => pre'.origin = "generated")
      /\ lastAU' \in Frame \cup {None} /\ (lastAU' # None => lastAU'.origin \in {"live", "restored"})
      /\ noted' \in CameraSets \cup {"default"}
  <2>1. CASE Restorable
    <3>1. disk \in Frame /\ disk.sps = disk.by /\ disk.by \in CameraSets
      BY <2>1 DEF Restorable, PictureInv, TypeOK, Stores, Whole
    <3>2. /\ codec' = CodecOf(disk.by) /\ initial' = [vps |-> disk.vps, sps |-> disk.sps]
          /\ pre' \in {None, made} /\ lastAU' = [disk EXCEPT !.origin = "restored"]
          /\ noted' = disk.sps
      BY <2>1 DEF Start
    <3>3. made \in Frame /\ made.origin = "generated"
      BY Codecs, EncodedIsFrame
    <3>4. initial' \in Pair /\ lastAU' \in Frame /\ lastAU'.origin = "restored"
      BY <3>1, <3>2 DEF Frame, Pair
    <3> QED
      BY <3>1, <3>2, <3>3, <3>4, Codecs
  <2>2. CASE ~Restorable
    <3>1. codec' = c /\ lastAU' = lastAU /\ noted' = noted
      BY <2>2 DEF Start
    <3>2. (initial' = Unset /\ pre' = None) \/ preEncodeFallback(c, Unset)
      BY <2>2 DEF Start
    <3> QED
      BY <3>1, <3>2, PreEncoded, BlankStates DEF PictureInv, TypeOK, Stores
  <2> QED
    BY <2>1, <2>2
<1>2. desc' \in Sdp /\ desc'.codec = codec'
  BY <1>1, DescriptionIsPair DEF Start
<1>3. /\ loop' = "connect" /\ loop = "boot"
      /\ UNCHANGED <<cam, cfg, live, image, disk, camSets, seenIDR, cb, consumer>>
      /\ Enter
  BY DEF Start, Enter
<1>4. /\ cb.pc = "idle" /\ fb.pc = "off" /\ fb' \in FbState /\ fb'.pc \in {"off", "codec"}
      /\ \/ fb' = fb /\ kind' = kind
         \/ fb'.pc = "codec" /\ kind' = "last_keyframe" /\ ~fb'.stopped
  BY <1>3, EnterStates DEF PictureInv, TypeOK, FallbackPicture, CallbackWhole, InSession
<1>5. TypeOK'
  BY <1>1, <1>2, <1>3, <1>4 DEF PictureInv, TypeOK, image
<1>6. CodecsAgree' /\ CallbackWhole' /\ Stores'
  BY <1>1, <1>2, <1>3, <1>4 DEF PictureInv, CodecsAgree, CallbackWhole, Stores, InSession,
     HasUnit, image
<1>7. FallbackPicture' /\ Joins' /\ KindFollows'
  BY <1>3, <1>4 DEF PictureInv, FallbackPicture, Joins, KindFollows, Recorded, Choosing,
     HasPicture, image
<1> QED
  BY <1>5, <1>6, <1>7 DEF PictureInv

(* DESCRIBE, which stops the fallback where the stream has to be rebuilt.  *)
LEMMA DescribeStates ==
  ASSUME PictureInv, Describe
  PROVE  /\ UNCHANGED <<cam, cfg, params, desc, lastAU, live, noted, image, disk, seenIDR, cb, consumer>>
         /\ loop = "connect" /\ cb.pc = "idle"
         /\ camSets' \in {SetPair(cam), Unset}
         /\ FALSE \notin Announces => camSets' = SetPair(cam)
         /\ \/ loop' = "rebuild" /\ stopFallback
            \/ /\ loop' = "copy" /\ UNCHANGED <<fb, kind>>
               /\ CodecOf(cam) = codec /\ ~cameraParamsDiffer(camSets', codec)
<1>1. PICK a \in Announces :
         LET src == IF a THEN SetPair(cam) ELSE Unset
         IN  /\ camSets' = src
             /\ IF CodecOf(cam) # codec \/ cameraParamsDiffer(src, CodecOf(cam))
                THEN loop' = "rebuild" /\ stopFallback
                ELSE loop' = "copy" /\ UNCHANGED <<fb, kind>>
  BY DEF Describe
<1>2. camSets' \in {SetPair(cam), Unset} /\ (FALSE \notin Announces => camSets' = SetPair(cam))
  BY <1>1, FramesAssumption
<1>3. \/ loop' = "rebuild" /\ stopFallback
      \/ /\ loop' = "copy" /\ UNCHANGED <<fb, kind>>
         /\ CodecOf(cam) = codec /\ ~cameraParamsDiffer(camSets', codec)
  BY <1>1
<1>4. /\ UNCHANGED <<cam, cfg, params, desc, lastAU, live, noted, image, disk, seenIDR, cb, consumer>>
      /\ loop = "connect" /\ cb.pc = "idle"
  BY DEF Describe, PictureInv, CallbackWhole, InSession
<1> QED
  BY <1>2, <1>3, <1>4

LEMMA DescribeKeeps ==
  ASSUME PictureInv, Describe
  PROVE  PictureInv'
<1>1. cam \in CameraSets /\ SetPair(cam) \in Pair /\ Unset \in Pair /\ ~fb.stopped
  BY Codecs, BlankStates, DescribeStates, JoinedOutside DEF PictureInv, TypeOK, AllSets
<1>2. /\ fb' \in FbState /\ kind' \in {kind, "none"}
      /\ fb'.pc = fb.pc /\ fb'.frame = fb.frame /\ fb'.codec = fb.codec
      /\ \/ loop' = "rebuild" /\ (~fb'.stopped => fb.pc = "off") /\ kind' = "none"
            /\ fb'.stopped = (fb.pc # "off")
         \/ loop' = "copy" /\ UNCHANGED <<fb, kind>> /\ CodecOf(cam) = codec
  BY DescribeStates, StopStates DEF PictureInv, TypeOK
<1>3. TypeOK'
  BY <1>1, <1>2, DescribeStates DEF PictureInv, TypeOK, params, image
<1>4. CodecsAgree' /\ CallbackWhole' /\ Stores'
  BY <1>1, <1>2, DescribeStates DEF PictureInv, TypeOK, CodecsAgree, CallbackWhole, Stores,
     InSession, HasUnit, params, image
<1>5. FallbackPicture'
  BY <1>2, DescribeStates DEF PictureInv, FallbackPicture, HasPicture, Neutral, params, image
<1>6. Joins' /\ KindFollows'
  BY <1>1, <1>2, DescribeStates DEF PictureInv, Joins, KindFollows, Recorded, Choosing,
     HasPicture, Neutral, params
<1> QED
  BY <1>3, <1>4, <1>5, <1>6 DEF PictureInv

LEMMA RebuildStates ==
  ASSUME PictureInv, Rebuild
  PROVE  /\ UNCHANGED rebuildFrame /\ loop = "rebuild" /\ loop' = "copy" /\ cb.pc = "idle"
         /\ fb.pc = "off" /\ codec' = CodecOf(cam) /\ codec' \in {"h264", "h265"} /\ lastAU' = None
         /\ initial' \in Pair
         /\ pre' \in Frame \cup {None} /\ (pre' # None => pre'.origin = "generated")
         /\ fb' \in FbState
         /\ \/ camSets # Unset /\ UNCHANGED <<pre, fb, kind>>
               /\ initial' = IF codec' = "h265" THEN camSets ELSE [initial EXCEPT !.sps = camSets.sps]
            \/ camSets = Unset /\ fb'.pc = "codec" /\ ~fb'.stopped /\ kind' = "last_keyframe"
               /\ preEncodeFallback(codec', initial)
         /\ desc' = Description(codec', initial') /\ desc' \in Sdp /\ desc'.codec = codec'
         /\ consumer' = IF consumer.pc = "playing" THEN Out ELSE consumer
         /\ SetupRaces \/ consumer.pc # "described"
<1>1. initial \in Pair /\ camSets \in Pair /\ fb \in FbState /\ CodecOf(cam) \in {"h264", "h265"}
  BY Codecs DEF PictureInv, TypeOK
<1>2. /\ UNCHANGED rebuildFrame /\ loop = "rebuild" /\ loop' = "copy" /\ fb.pc = "off"
      /\ codec' = CodecOf(cam) /\ lastAU' = None /\ desc' = Description(codec', initial')
      /\ consumer' = IF consumer.pc = "playing" THEN Out ELSE consumer
      /\ SetupRaces \/ consumer.pc # "described"
  BY DEF Rebuild
<1>3. cb.pc = "idle" /\ ~fb.stopped
  BY <1>2 DEF PictureInv, CallbackWhole, Joins, InSession
<1>4. CASE camSets # Unset
  <2>1. /\ initial' = IF codec' = "h265" THEN camSets ELSE [initial EXCEPT !.sps = camSets.sps]
        /\ UNCHANGED <<pre, fb, kind>>
    BY <1>4 DEF Rebuild
  <2>2. initial' \in Pair
    BY <1>1, <2>1 DEF Pair
  <2> QED
    BY <1>1, <1>2, <1>3, <1>4, <2>1, <2>2, DescriptionIsPair DEF PictureInv, TypeOK, Stores
<1>5. CASE camSets = Unset
  <2>1. preEncodeFallback(codec', initial) /\ startFallback
    BY <1>5 DEF Rebuild
  <2>2. initial' \in Pair /\ pre' \in Frame \cup {None} /\ (pre' # None => pre'.origin = "generated")
    BY <1>1, <1>2, <2>1, PreEncoded
  <2>3. fb' \in FbState /\ fb'.pc = "codec" /\ ~fb'.stopped /\ kind' = "last_keyframe"
    BY <1>2, <1>3, <2>1, FallbackStates DEF startFallback, Recorded
  <2> QED
    BY <1>1, <1>2, <1>3, <1>5, <2>1, <2>2, <2>3, DescriptionIsPair
<1> QED
  BY <1>4, <1>5

LEMMA RebuildKeeps ==
  ASSUME PictureInv, Rebuild
  PROVE  PictureInv'
<1>1. \/ fb' = fb /\ kind' = kind
      \/ fb'.pc = "codec" /\ ~fb'.stopped /\ kind' = "last_keyframe"
  BY RebuildStates
<1>2. consumer' \in {consumer, Out}
  BY RebuildStates
<1>3. TypeOK'
  BY <1>1, <1>2, RebuildStates, BlankStates DEF PictureInv, TypeOK, rebuildFrame, image
<1>4. CodecsAgree' /\ CallbackWhole' /\ Stores'
  BY RebuildStates DEF PictureInv, CodecsAgree, CallbackWhole, Stores, InSession, HasUnit,
     rebuildFrame, image
<1>5. FallbackPicture' /\ Joins' /\ KindFollows'
  BY <1>1, RebuildStates DEF PictureInv, FallbackPicture, Joins, KindFollows, Recorded, Choosing,
     HasPicture, rebuildFrame, image
<1> QED
  BY <1>3, <1>4, <1>5 DEF PictureInv

LEMMA CopyParamsKeeps ==
  ASSUME PictureInv, CopyParams
  PROVE  PictureInv'
<1>1. initial' \in Pair /\ desc' \in Sdp /\ desc'.codec = codec
  BY DEF CopyParams, PictureInv, TypeOK, CodecsAgree, Pair, Sdp
<1>2. noted' \in CameraSets \cup {"default"}
  BY DEF CopyParams, PictureInv, TypeOK, Stores, SetPair
<1>3. TypeOK'
  BY <1>1, <1>2 DEF CopyParams, PictureInv, TypeOK, image
<1>4. CodecsAgree' /\ CallbackWhole' /\ Stores'
  BY <1>1 DEF CopyParams, PictureInv, CodecsAgree, CallbackWhole, Stores, InSession, image
<1>5. FallbackPicture' /\ Joins' /\ KindFollows'
  BY DEF CopyParams, PictureInv, FallbackPicture, Joins, KindFollows, Recorded, Neutral, image
<1> QED
  BY <1>3, <1>4, <1>5 DEF PictureInv

(* The steps of the loop that may enter the fallback and go on.            *)
GoesOn == Play \/ Fail \/ Stall \/ Leave \/ Close
LEMMA GoesOnStates ==
  ASSUME PictureInv, GoesOn
  PROVE  /\ UNCHANGED loopFrame /\ cb' = cb /\ seenIDR' \in BOOLEAN /\ cb.pc # "join"
         /\ loop \in {"connect", "setup"} \cup InSession
         /\ loop' \in {"connect"} \cup InSession
         /\ cb.pc # "idle" => loop' \in InSession
         /\ loop' \in InSession => loop \in {"setup"} \cup InSession
         /\ \/ fb' = fb /\ kind' = kind
            \/ /\ fb.pc = "off" /\ fb' \in FbState /\ fb'.pc = "codec" /\ ~fb'.stopped
               /\ kind' = "last_keyframe" /\ CanFallback
<1>1. /\ UNCHANGED loopFrame /\ cb' = cb /\ seenIDR' \in BOOLEAN
      /\ loop \in {"connect", "setup"} \cup InSession
      /\ loop' \in {"connect"} \cup InSession
      /\ loop' \in InSession => loop \in {"setup"} \cup InSession
      /\ UNCHANGED <<fb, kind>> \/ (CanFallback /\ startFallback)
  BY DEF GoesOn, Play, Fail, Stall, Leave, Close, Enter, InSession, PictureInv, TypeOK
<1>2. cb.pc # "join" /\ (cb.pc # "idle" => loop' \in InSession)
  BY DEF GoesOn, Play, Fail, Stall, Leave, Close, MayOvertake, PictureInv, CallbackWhole, InSession
<1> QED
  BY <1>1, <1>2, EnterStates DEF InSession

LEMMA GoesOnKeeps ==
  ASSUME PictureInv, GoesOn
  PROVE  PictureInv'
<1>1. TypeOK'
  <2>1. UNCHANGED <<cam, cfg, codec, initial, pre, desc, lastAU, live, noted>>
    BY GoesOnStates DEF loopFrame, params
  <2>2. UNCHANGED <<neutral, enc, warm, disk, camSets, cb, consumer>>
    BY GoesOnStates DEF loopFrame, image
  <2> QED
    BY <2>1, <2>2, GoesOnStates DEF PictureInv, TypeOK, InSession
<1>2. CodecsAgree' /\ CallbackWhole' /\ Stores'
  BY GoesOnStates DEF PictureInv, CodecsAgree, CallbackWhole, Stores, InSession, params, loopFrame, image
<1>3. FallbackPicture'
  BY GoesOnStates DEF PictureInv, FallbackPicture, HasPicture, Neutral, params, loopFrame, image,
     InSession
<1>4. Joins' /\ KindFollows'
  BY GoesOnStates DEF PictureInv, Joins, KindFollows, Recorded, Choosing, HasPicture, Neutral,
     params, loopFrame, InSession
<1> QED
  BY <1>1, <1>2, <1>3, <1>4 DEF PictureInv

-----------------------------------------------------------------------------
(* The callback.                                                           *)

LEMMA TakeOverKeeps ==
  ASSUME PictureInv, TakeOver
  PROVE  PictureInv'
<1>1. /\ UNCHANGED <<cam, cfg, params, desc, lastAU, live, noted, image, disk, loop, camSets,
                     seenIDR, consumer>>
      /\ loop \in InSession /\ cb' = CbJoin /\ cb'.pc = "join" /\ CbJoin \in CbState /\ stopFallback
  BY DEF TakeOver, InSession, CbJoin, CbState
<1>2. TypeOK'
  BY <1>1, StopStates DEF PictureInv, TypeOK, params, image
<1>3. CodecsAgree' /\ CallbackWhole' /\ Stores'
  BY <1>1 DEF PictureInv, CodecsAgree, CallbackWhole, Stores, HasUnit, params, image
<1>4. FallbackPicture'
  BY <1>1, StopStates DEF PictureInv, FallbackPicture, HasPicture, Neutral, params, image
<1>5. Joins' /\ KindFollows'
  BY <1>1, StopStates DEF PictureInv, Joins, KindFollows, Recorded
<1> QED
  BY <1>2, <1>3, <1>4, <1>5 DEF PictureInv

LEMMA ReceiveStates ==
  ASSUME PictureInv, Receive
  PROVE  /\ UNCHANGED <<cam, cfg, params, desc, lastAU, live, noted, image, disk, loop, fb, kind, consumer>>
         /\ cb.pc \in {"idle", "join"} /\ cb'.pc = "store" /\ camSets' = SetPair(cam)
         /\ cb' \in CbState /\ cb'.au.by = cam /\ cb'.au.origin = "live" /\ Whole(cb'.au)
         /\ loop \in InSession /\ cam \in CameraSets /\ CodecOf(cam) = codec
         /\ seenIDR' = TRUE /\ ~fb.stopped
         /\ (cb.pc = "idle" /\ seenIDR) \/ fb.pc = "off"
<1>1. loop \in InSession /\ cb.pc \in {"idle", "join"} /\ (cb.pc = "join" => fb.pc = "off")
  BY DEF Receive, PictureInv, CallbackWhole, InSession
<1>2. cam \in CameraSets /\ CodecOf(cam) = codec /\ cam \in AllSets
  BY <1>1 DEF PictureInv, TypeOK, CodecsAgree, AllSets
<1>3. PICK own \in {SetPair(cam), Unset} :
         /\ camSets' = SetPair(cam)
         /\ cb' = [pc |-> "store", au |-> ensureSets(Encoded(cam, own, "live", cam), SetPair(cam), codec)]
  BY DEF Receive
<1>4. /\ cb'.pc = "store" /\ cb'.au \in Frame /\ cb'.au.by = cam /\ cb'.au.origin = "live"
      /\ Whole(cb'.au)
  BY <1>2, <1>3, EnsuredIsWhole
<1>5. cb' \in CbState
  BY <1>3, <1>4 DEF CbState
<1>6. ~fb.stopped
  BY <1>1 DEF PictureInv, Joins, InSession
<1> QED
  BY <1>1, <1>2, <1>3, <1>4, <1>5, <1>6 DEF Receive

LEMMA ReceiveKeeps ==
  ASSUME PictureInv, Receive
  PROVE  PictureInv'
<1>1. TypeOK'
  BY ReceiveStates, Codecs DEF PictureInv, TypeOK, params, image, AllSets
<1>2. CodecsAgree' /\ CallbackWhole' /\ Stores'
  BY ReceiveStates DEF PictureInv, CodecsAgree, CallbackWhole, Stores, HasUnit, params, image
<1>3. FallbackPicture' /\ Joins' /\ KindFollows'
  BY ReceiveStates DEF PictureInv, FallbackPicture, Joins, KindFollows, Recorded, Neutral, params,
     image
<1> QED
  BY <1>1, <1>2, <1>3 DEF PictureInv

(* Its further steps, which leave the fallback alone.                      *)
Works == CbStore \/ CbLive \/ CbCapture
LEMMA WorksStates ==
  ASSUME PictureInv, Works
  PROVE  /\ UNCHANGED <<cam, cfg, params, image, loop, camSets, seenIDR, fb, kind, consumer>>
         /\ cb.pc \in HasUnit /\ cb' \in CbState /\ cb'.pc # "join"
         /\ cb'.pc = "idle" \/ (cb'.pc \in HasUnit /\ cb'.au = cb.au)
         /\ cb.au \in Frame /\ cb.au.origin = "live" /\ Whole(cb.au) /\ cb.au.by \in CameraSets
         /\ lastAU' \in {lastAU, cb.au} /\ live' \in BOOLEAN /\ disk' \in {disk, cb.au}
         /\ desc' \in Sdp /\ desc'.codec = desc.codec
         /\ noted' \in CameraSets \cup {"default"}
<1>1. cb.pc \in HasUnit
  BY DEF Works, CbStore, CbLive, CbCapture, HasUnit
<1>2. /\ cb.au \in Frame /\ cb.au.origin = "live" /\ Whole(cb.au) /\ cb.au.by \in CameraSets
      /\ desc \in Sdp
  BY <1>1 DEF PictureInv, TypeOK, CbState, CbIdle, CbJoin, CallbackWhole, HasUnit
<1>3. CASE CbStore \/ CbLive
  <2>1. cb' \in CbState /\ cb'.pc \in {"live", "capture"} /\ cb'.au = cb.au
    BY <1>3 DEF CbStore, CbLive, PictureInv, TypeOK, CbState, CbIdle, CbJoin
  <2> QED
    BY <1>1, <1>2, <1>3, <2>1 DEF CbStore, CbLive, cbFrame, HasUnit, PictureInv, TypeOK, params
<1>4. CASE CbCapture
  <2>1. desc' \in Sdp /\ desc'.codec = desc.codec
    BY <1>2, <1>4 DEF CbCapture, Frame, Pair, Sdp
  <2>2. noted' \in CameraSets \cup {"default"}
    BY <1>2, <1>4 DEF CbCapture, PictureInv, TypeOK, Whole
  <2> QED
    BY <1>1, <1>2, <1>4, <2>1, <2>2, BlankStates DEF CbCapture, PictureInv, TypeOK
<1> QED
  BY <1>3, <1>4 DEF Works

LEMMA WorksKeeps ==
  ASSUME PictureInv, Works
  PROVE  PictureInv'
<1>1. TypeOK'
  BY WorksStates DEF PictureInv, TypeOK, params, image
<1>2. CodecsAgree' /\ CallbackWhole' /\ Stores'
  BY WorksStates DEF PictureInv, CodecsAgree, CallbackWhole, Stores, HasUnit, params, image
<1>3. FallbackPicture' /\ Joins' /\ KindFollows'
  BY WorksStates DEF PictureInv, FallbackPicture, Joins, KindFollows, Recorded, Neutral, params,
     image, HasUnit
<1> QED
  BY <1>1, <1>2, <1>3 DEF PictureInv

-----------------------------------------------------------------------------
(* The camera and the consumer.                                            *)

LEMMA CameraChangesKeeps ==
  ASSUME PictureInv, CameraChanges
  PROVE  PictureInv'
<1>1. TypeOK'
  BY DEF CameraChanges, PictureInv, TypeOK, params, image
<1>2. CodecsAgree'
  BY DEF CameraChanges, PictureInv, CodecsAgree, InSession, params
<1>3. CallbackWhole' /\ Stores'
  BY DEF CameraChanges, PictureInv, CallbackWhole, Stores, InSession, HasUnit, params, image
<1>4. FallbackPicture' /\ Joins' /\ KindFollows'
  BY DEF CameraChanges, PictureInv, FallbackPicture, Joins, KindFollows, Recorded, Neutral,
     params, image
<1> QED
  BY <1>1, <1>2, <1>3, <1>4 DEF PictureInv

LEMMA ConsumerStates ==
  ASSUME PictureInv, Consumer
  PROVE  /\ UNCHANGED consumerFrame
         /\ consumer' \in [pc : {"out", "described", "playing"}, sdp : Sdp \cup {None}]
<1>1. CASE OnDescribe \/ ConsumerLeaves
  BY <1>1, BlankStates DEF OnDescribe, ConsumerLeaves, PictureInv, TypeOK
<1>2. CASE OnSetup
  BY <1>2 DEF OnSetup, PictureInv, TypeOK
<1> QED
  BY <1>1, <1>2 DEF Consumer

LEMMA ConsumerKeeps ==
  ASSUME PictureInv, Consumer \/ UNCHANGED vars
  PROVE  PictureInv'
<1>1. /\ UNCHANGED consumerFrame
      /\ consumer' \in [pc : {"out", "described", "playing"}, sdp : Sdp \cup {None}]
  BY ConsumerStates DEF vars, consumerFrame, PictureInv, TypeOK
<1>2. TypeOK'
  BY <1>1 DEF PictureInv, TypeOK, consumerFrame, params, image
<1>3. CodecsAgree' /\ CallbackWhole' /\ Stores'
  BY <1>1 DEF PictureInv, CodecsAgree, CallbackWhole, Stores, consumerFrame, params, image
<1>4. FallbackPicture' /\ Joins' /\ KindFollows'
  BY <1>1 DEF PictureInv, FallbackPicture, Joins, KindFollows, Recorded, Neutral, consumerFrame,
     params, image
<1> QED
  BY <1>2, <1>3, <1>4 DEF PictureInv

-----------------------------------------------------------------------------
(* What holds of every picture and of the kind in /status.                 *)

LEMMA PictureNext == PictureInv /\ [Next]_vars => PictureInv'
<1> SUFFICES ASSUME PictureInv, [Next]_vars PROVE PictureInv'
  OBVIOUS
<1>1. CASE Fallback
  BY <1>1, FbReadKeeps, FbHoldKeeps, FbCachedKeeps, FbEncodeKeeps, FbEncodedKeeps,
     FbEncodeFailsKeeps, WarmKeeps, FbChooseKeeps, FbReadSetsKeeps, FbDoneKeeps, FbForgetKeeps
  DEF Fallback
<1>2. CASE Loop
  BY <1>2, StartKeeps, ExitKeeps, DescribeKeeps, RebuildKeeps, CopyParamsKeeps, GoesOnKeeps
  DEF Loop, GoesOn
<1>3. CASE Callback
  BY <1>3, TakeOverKeeps, ReceiveKeeps, WorksKeeps DEF Callback, Works
<1>4. CASE CameraChanges
  BY <1>4, CameraChangesKeeps
<1>5. CASE Consumer \/ UNCHANGED vars
  BY <1>5, ConsumerKeeps
<1> QED
  BY <1>1, <1>2, <1>3, <1>4, <1>5 DEF Next

THEOREM PictureInvariant == Spec => []PictureInv
<1> QED
  BY InitPicture, PictureNext, PTL DEF Spec

(* Every picture, parameter set and goroutine state is one the code has.   *)
THEOREM FramesTypeCorrect == Spec => []TypeOK
<1>1. PictureInv => TypeOK
  BY DEF PictureInv
<1> QED
  BY <1>1, PictureInvariant, PTL

(* A relayed keyframe and the neutral image carry the sets of the encoder  *)
(* that made them and have the codec of the SDP, also for a camera that    *)
(* announces no sets or changes them in a session, and when FFmpeg fails.  *)
THEOREM OwnSetsAlwaysFit == Spec => []OwnSetsFit
<1>1. PictureInv => OwnSetsFit
  <2> SUFFICES ASSUME PictureInv PROVE OwnSetsFit
    OBVIOUS
  <2>1. cb.au # None => cb.pc \in HasUnit
    BY DEF PictureInv, TypeOK, CbState, CbIdle, CbJoin, HasUnit
  <2>2. cb.au # None => Fits(cb.au)
    BY <2>1 DEF PictureInv, CodecsAgree, CallbackWhole, Fits, Whole
  <2>3. Serving({"neutral"}) => Fits(fb.frame)
    BY DEF PictureInv, CodecsAgree, FallbackPicture, Serving, Fits, Whole, HasPicture
  <2> QED
    BY <2>2, <2>3 DEF OwnSetsFit
<1> QED
  BY <1>1, PictureInvariant, PTL

(* /status calls what a fallback serves by its name from the moment it is  *)
(* chosen until the fallback is stopped, wherever a rebuild, the end of a  *)
(* session or a returning camera overtakes the choice; and a stopped       *)
(* fallback that still sets the kind leaves nothing of it behind.          *)
THEOREM KindAlwaysTells == Spec => []KindTells
<1>1. PictureInv => KindTells
  BY DEF PictureInv, KindFollows, KindTells, Recorded, HasPicture
<1> QED
  BY <1>1, PictureInvariant, PTL

-----------------------------------------------------------------------------
(* What a step does to the fallback: nothing but stop it, or one of these. *)

Same ==
    fb'.pc = fb.pc /\ fb'.frame = fb.frame /\ fb'.codec = fb.codec /\ fb'.sets = fb.sets
Drops == fb'.pc \in {"off", "codec", "frame", "exit"}
Reads == fb.pc = "frame" /\ fb'.pc = "choose" /\ fb'.frame = lastAU
Waits ==
    /\ fb'.frame = fb.frame /\ fb'.sets = fb.sets /\ Neutral
    /\ \/ fb.pc = "choose" /\ fb'.pc = "encode" /\ (fb.frame = None \/ ~live)
       \/ fb.pc = "serve" /\ fb'.pc = "switch" /\ fb.frame.origin # "neutral"
       \/ fb.pc = "switch" /\ fb'.pc = "serve"
Holds ==
    /\ fb.pc = "choose" /\ fb'.pc = "sets" /\ fb'.frame = fb.frame /\ fb.frame # None
    /\ Neutral => live
Makes ==
    /\ fb.pc = "choose" /\ fb'.pc = "sets" /\ ~Neutral /\ fb.frame = None
    /\ fb'.frame # None /\ fb'.frame.origin = "generated"
Takes ==
    /\ fb'.frame.origin = "neutral" /\ Neutral
    /\ \/ fb.pc \in {"choose", "encode"} /\ fb'.pc = "sets"
          /\ (fb.pc = "choose" => fb.frame = None \/ ~live)
       \/ fb.pc \in {"serve", "switch"} /\ fb'.pc = "serve"
    /\ \/ fb'.frame.size = noted
       \/ enc # None /\ enc.for = "fallback" /\ fb'.frame.size = enc.size
Serves == fb.pc = "sets" /\ fb'.pc = "serve" /\ fb'.frame = fb.frame /\ fb'.sets = initial
(* The fallback that waits for an image asked for one of the size noted.   *)
Asks == enc' # None /\ enc'.for = "fallback" => enc' = enc \/ enc'.size = noted

LEMMA FallbackMoves ==
  ASSUME PictureInv, Fallback
  PROVE  /\ UNCHANGED fbFrame /\ Asks
         /\ Same \/ Drops \/ Reads \/ Waits \/ Holds \/ Makes \/ Takes \/ Serves
<1>1. CASE FbReadCodec \/ FbReadFrame
  <2>1. /\ UNCHANGED fbFrame /\ enc' = enc
        /\ fb'.pc = "frame" \/ (fb.pc = "frame" /\ fb'.pc = "choose" /\ fb'.frame = lastAU)
    BY <1>1 DEF FbReadCodec, FbReadFrame, PictureInv, TypeOK, FbState, image
  <2> QED
    BY <2>1 DEF Drops, Reads, Asks
<1>2. CASE FbHold
  <2>1. /\ UNCHANGED fbFrame /\ enc' = enc /\ live /\ fb.frame # None
        /\ fb.pc = "choose" /\ fb'.pc = "sets" /\ fb'.frame = fb.frame
    BY <1>2 DEF FbHold, PictureInv, TypeOK, FbState
  <2> QED
    BY <2>1 DEF Holds, Asks
<1>3. CASE FbCached
  <2>1. /\ UNCHANGED fbFrame /\ enc' = enc /\ TakeNeutral(neutral) /\ Neutral
        /\ neutral \in Frame /\ neutral.origin = "neutral" /\ neutral.size = noted
        /\ \/ fb.pc = "choose" /\ (fb.frame = None \/ ~live)
           \/ fb.pc = "serve"
    BY <1>3 DEF FbCached, Cached, WantsNeutral, PictureInv, TypeOK, Stores, image
  <2>2. fb'.pc \in {"sets", "serve"} /\ fb'.frame = neutral /\ (fb'.pc = "sets" <=> fb.pc = "choose")
    BY <2>1, TakeNeutralStates
  <2> QED
    BY <2>1, <2>2 DEF Takes, Asks
<1>4. CASE FbEncode
  BY <1>4, FbEncodeStates DEF Waits, Asks
<1>5. CASE FbEncoded
  <2> DEFINE au == Encoded(SetsOf(enc.codec), SetPair(SetsOf(enc.codec)), "neutral", enc.size)
  <2>1. /\ UNCHANGED fbFrame /\ enc' = None /\ TakeNeutral(au) /\ enc # None /\ enc.for = "fallback"
    BY <1>5 DEF FbEncoded
  <2>2. au \in Frame /\ au.origin = "neutral" /\ au.size = enc.size
    BY <2>1, EncodedImage
  <2>3. fb.pc \in {"encode", "switch"} /\ Neutral
    BY <2>1 DEF PictureInv, FallbackPicture
  <2>4. /\ fb'.pc \in {"sets", "serve"} /\ fb'.frame = au
        /\ fb'.pc = "sets" <=> fb.pc \in {"choose", "encode"}
    BY <2>1, <2>2, TakeNeutralStates
  <2> HIDE DEF au
  <2> QED
    BY <2>1, <2>2, <2>3, <2>4 DEF Takes, Asks
<1>6. CASE FbEncodeFails
  <2>1. Neutral
    BY <1>6 DEF FbEncodeFails, PictureInv, FallbackPicture
  <2> QED
    BY <1>6, <2>1, FbEncodeFailsStates DEF Drops, Waits, Asks
<1>7. CASE WarmBegin \/ WarmEnd
  BY <1>7, WarmStates DEF Same, Asks
<1>8. CASE FbChoose
  BY <1>8, FbChooseStates DEF Drops, Holds, Makes, Asks, image
<1>9. CASE FbReadSets
  BY <1>9, FbReadSetsStates DEF Drops, Serves, Asks, image
<1>10. CASE FbDone \/ FbForget
  <2>1. UNCHANGED fbFrame /\ enc' = enc /\ fb'.pc \in {"exit", "off"}
    BY <1>10, FallbackStates DEF FbDone, FbForget, PictureInv, TypeOK, FbState, image
  <2> QED
    BY <2>1 DEF Drops, Asks
<1> QED
  BY <1>1, <1>2, <1>3, <1>4, <1>5, <1>6, <1>7, <1>8, <1>9, <1>10 DEF Fallback

LEMMA FallbackRuns == ASSUME PictureInv, Fallback, fb.pc = "off" PROVE fb'.pc = "off"
  BY DEF Fallback, FbReadCodec, FbReadFrame, FbHold, FbCached, FbEncode, FbEncoded, FbEncodeFails,
     WarmBegin, WarmEnd, FbChoose, FbReadSets, FbDone, FbForget, WantsNeutral, PictureInv,
     FallbackPicture

(* The other steps begin one, stop it or let it be.                        *)
LEMMA OthersMove ==
  ASSUME PictureInv, [Next]_vars, ~Fallback
  PROVE  /\ Same \/ fb'.pc \in {"off", "codec"}
         /\ enc' \in {enc, None}
         /\ Exit \/ Same \/ fb.pc = "off"
<1>1. CASE Start
  <2>1. loop # "rebuild" /\ cb.pc # "join" /\ Enter /\ enc' = enc /\ fb.pc = "off"
    BY <1>1 DEF Start, Enter, image, PictureInv, CallbackWhole, FallbackPicture, InSession
  <2> QED
    BY <2>1, EnterStates DEF Same
<1>2. CASE Exit
  BY <1>2, FallbackStates DEF Exit
<1>3. CASE Describe
  BY <1>3, DescribeStates, StopStates DEF Same, image
<1>4. CASE Rebuild
  BY <1>4, RebuildStates DEF Same, rebuildFrame, image
<1>5. CASE GoesOn
  BY <1>5, GoesOnStates DEF Same, loopFrame, image
<1>6. CASE TakeOver
  BY <1>6, StopStates DEF TakeOver, Same, image
<1>7. CASE Receive \/ Works
  BY <1>7, ReceiveStates, WorksStates DEF Same, image
<1>8. CASE CopyParams \/ CameraChanges \/ Consumer \/ UNCHANGED vars
  BY <1>8, ConsumerStates DEF CopyParams, CameraChanges, consumerFrame, vars, Same, image
<1> QED
  BY <1>1, <1>2, <1>3, <1>4, <1>5, <1>6, <1>7, <1>8 DEF Next, Loop, Callback, GoesOn, Works

-----------------------------------------------------------------------------
(* The policy of the fallback modes.                                       *)

LEMMA InitHold == Init => LiveIsKept /\ FallbackChoice
<1> SUFFICES ASSUME Init PROVE LiveIsKept /\ FallbackChoice
  OBVIOUS
<1>1. live = FALSE /\ lastAU = None /\ loop = "boot" /\ cb.pc = "idle" /\ fb.pc = "off"
  BY FallbackStates DEF Init, Blank, CbIdle
<1> QED
  BY <1>1 DEF LiveIsKept, FallbackChoice, InSession, HasUnit

LEMMA LiveKept ==
  ASSUME ~Outrun, HoldInv, [Next]_vars
  PROVE  LiveIsKept'
<1>1. CASE Fallback
  <2>1. UNCHANGED fbFrame /\ (fb.pc = "off" => fb'.pc = "off")
    BY <1>1, FallbackMoves, FallbackRuns DEF HoldInv
  <2> QED
    BY <2>1 DEF HoldInv, LiveIsKept, fbFrame
<1>2. CASE Start
  <2>1. /\ cb.pc = "idle" /\ cb' = cb /\ live' = live /\ loop = "boot" /\ loop' = "connect"
        /\ seenIDR' = seenIDR
    BY <1>2 DEF Start, HoldInv, PictureInv, CallbackWhole, InSession
  <2>2. lastAU' # None => lastAU'.origin = "restored"
    <3>1. CASE Restorable
      BY <1>2, <3>1 DEF Start, Restorable, HoldInv, PictureInv, TypeOK, Frame
    <3>2. CASE ~Restorable
      BY <1>2, <2>1, <3>2 DEF Start, HoldInv, LiveIsKept
    <3> QED
      BY <3>1, <3>2
  <2> QED
    BY <2>1, <2>2 DEF HoldInv, LiveIsKept, InSession, HasUnit
<1>3. CASE Exit
  BY <1>3, BlankStates DEF Exit, LiveIsKept, InSession, HasUnit
<1>4. CASE Describe
  BY <1>4, DescribeStates DEF HoldInv, LiveIsKept, InSession, HasUnit
<1>5. CASE Rebuild
  BY <1>5, RebuildStates DEF HoldInv, LiveIsKept, InSession, HasUnit, rebuildFrame
<1>6. CASE CopyParams
  BY <1>6 DEF CopyParams, HoldInv, LiveIsKept, InSession, HasUnit, PictureInv, CallbackWhole
<1>7. CASE GoesOn
  <2>1. \/ cb.pc = "idle" /\ (loop' \in InSession => seenIDR' = FALSE)
        \/ loop \in InSession /\ seenIDR' = seenIDR /\ fb' = fb
        \/ loop \in InSession /\ seenIDR' = seenIDR /\ cb.pc = "idle"
    BY <1>7, GoesOnStates DEF GoesOn, Play, Fail, Stall, Leave, Close, MayOvertake, InSession,
       HoldInv, PictureInv, CallbackWhole
  <2>2. UNCHANGED <<lastAU, live, cb>> /\ loop # "boot" /\ loop' # "boot"
    BY <1>7, GoesOnStates DEF HoldInv, loopFrame, InSession
  <2> QED
    BY <2>1, <2>2 DEF HoldInv, LiveIsKept, HasUnit
<1>8. CASE TakeOver
  BY <1>8 DEF TakeOver, CbJoin, HoldInv, LiveIsKept, HasUnit, InSession
<1>9. CASE Receive
  BY <1>9, ReceiveStates DEF HoldInv, LiveIsKept, HasUnit
<1>10. CASE CbStore
  <2>1. /\ cb.pc = "store" /\ cb'.pc = "live" /\ cb'.au = cb.au /\ lastAU' = cb.au
        /\ UNCHANGED <<live, loop, seenIDR, fb>> /\ cb.au.origin = "live"
        /\ lastAU' # None /\ loop # "boot"
    BY <1>10, WorksStates, FramesAssumption
    DEF CbStore, Works, cbFrame, HoldInv, PictureInv, TypeOK, CbState, CbIdle, CbJoin, CallbackWhole,
        InSession
  <2> QED
    BY <2>1 DEF HoldInv, LiveIsKept, HasUnit
<1>11. CASE CbLive
  <2>1. /\ cb.pc = "live" /\ cb'.pc = "capture" /\ cb'.au = cb.au
        /\ UNCHANGED <<lastAU, loop, seenIDR, fb>> /\ live' = TRUE /\ cb.au.origin = "live"
        /\ cb.au # None /\ loop # "boot"
    BY <1>11, WorksStates, FramesAssumption
    DEF CbLive, Works, cbFrame, params, HoldInv, PictureInv, TypeOK, CbState, CbIdle, CbJoin,
        CallbackWhole, InSession
  <2> QED
    BY <2>1 DEF HoldInv, LiveIsKept, HasUnit
<1>12. CASE CbCapture
  BY <1>12, BlankStates DEF CbCapture, HoldInv, LiveIsKept, HasUnit
<1>13. CASE CameraChanges \/ Consumer \/ UNCHANGED vars
  <2>1. UNCHANGED <<live, lastAU, loop, seenIDR, cb, fb>>
    BY <1>13, ConsumerStates DEF CameraChanges, HoldInv, consumerFrame, vars
  <2> QED
    BY <2>1 DEF HoldInv, LiveIsKept
<1> QED
  BY <1>1, <1>2, <1>3, <1>4, <1>5, <1>6, <1>7, <1>8, <1>9, <1>10, <1>11, <1>12, <1>13
  DEF Next, Loop, Callback, GoesOn

(* What the handler has of the camera, and its mode: unchanged, or one of  *)
(* these.                                                                  *)
LEMMA KeptSteps ==
  ASSUME HoldInv, [Next]_vars
  PROVE  \/ UNCHANGED <<cfg, Kept, live>> /\ (lastAU' = None <=> lastAU = None)
            /\ (lastAU # None => lastAU'.origin = lastAU.origin)
         \/ Start /\ Kept = "unread" /\ Kept' \in {"nothing", "restored"} /\ cfg' = cfg
         \/ Exit
         \/ Rebuild /\ Kept # "unread" /\ Kept' = "nothing" /\ cfg' = cfg
         \/ CbStore /\ Kept # "unread" /\ Kept' = "live" /\ UNCHANGED <<cfg, live, fb, camSets>>
            /\ lastAU' # None /\ lastAU'.origin = "live"
         \/ CbLive /\ UNCHANGED <<cfg, Kept, fb, lastAU, camSets>> /\ live' = TRUE
<1>1. CASE Fallback
  BY <1>1, FallbackMoves DEF HoldInv, fbFrame, Kept
<1>2. CASE Start
  <2>1. loop = "boot" /\ loop' = "connect" /\ cfg' = cfg /\ lastAU = None
    BY <1>2 DEF Start, HoldInv, LiveIsKept
  <2>2. lastAU' # None => lastAU'.origin = "restored"
    BY <1>2, <2>1 DEF Start, Restorable, HoldInv, PictureInv, TypeOK, Frame
  <2> QED
    BY <1>2, <2>1, <2>2 DEF Kept
<1>3. CASE Exit
  BY <1>3
<1>4. CASE Rebuild
  BY <1>4, RebuildStates DEF HoldInv, PictureInv, Stores, rebuildFrame, Kept
<1>5. CASE CbStore
  <2>1. /\ UNCHANGED <<cfg, live, fb, loop, camSets>> /\ loop # "boot" /\ lastAU' = cb.au
        /\ cb.au.origin = "live" /\ cb.au # None
    BY <1>5, WorksStates, FramesAssumption DEF CbStore, Works, cbFrame, HoldInv, PictureInv,
       TypeOK, CallbackWhole, InSession
  <2> QED
    BY <1>5, <2>1 DEF HoldInv, PictureInv, Stores, Kept
<1>6. CASE CbLive
  <2>1. UNCHANGED <<cfg, loop, lastAU, fb, camSets>> /\ live' = TRUE
    BY <1>6 DEF CbLive, cbFrame
  <2> QED
    BY <1>6, <2>1 DEF Kept
<1>7. CASE \/ Describe \/ CopyParams \/ GoesOn \/ TakeOver \/ Receive \/ CbCapture
           \/ CameraChanges \/ Consumer \/ UNCHANGED vars
  <2>1. UNCHANGED <<cfg, lastAU, live>> /\ (loop' = "boot" <=> loop = "boot")
    BY <1>7, DescribeStates, GoesOnStates, ReceiveStates, ConsumerStates
    DEF CopyParams, TakeOver, CbCapture, CameraChanges, vars, loopFrame, consumerFrame, HoldInv,
        InSession
  <2> QED
    BY <2>1 DEF Kept
<1> QED
  BY <1>1, <1>2, <1>3, <1>4, <1>5, <1>6, <1>7 DEF Next, Loop, Callback, GoesOn

LEMMA ModeKept ==
  ASSUME FALSE \notin Announces, HoldInv, [Next]_vars
  PROVE  /\ fb'.pc # "off" => cfg'.mode # "none"
         /\ loop' = "rebuild" => camSets' # Unset
<1>1. CASE Fallback
  BY <1>1, FallbackMoves, FallbackRuns DEF HoldInv, FallbackChoice, fbFrame
<1>2. CASE Start
  <2>1. /\ loop' = "connect" /\ cfg' = cfg /\ fb.pc = "off"
        /\ IF CanFallback THEN startFallback ELSE fb' = fb
    BY <1>2 DEF Start, HoldInv, PictureInv, FallbackPicture
  <2> QED
    BY <2>1 DEF CanFallback
<1>3. CASE Exit
  BY <1>3, FallbackStates DEF Exit
<1>4. CASE Describe
  <2>1. camSets' # Unset
    BY <1>4, DescribeStates, Codecs DEF HoldInv, PictureInv, TypeOK, AllSets
  <2>2. cfg' = cfg /\ fb'.pc = fb.pc
    BY <1>4, DescribeStates, StopStates DEF HoldInv
  <2> QED
    BY <2>1, <2>2 DEF HoldInv, FallbackChoice
<1>5. CASE Rebuild
  BY <1>5, RebuildStates DEF HoldInv, FallbackChoice, rebuildFrame
<1>6. CASE GoesOn
  BY <1>6, GoesOnStates DEF HoldInv, FallbackChoice, CanFallback, loopFrame, InSession
<1>7. CASE TakeOver
  BY <1>7, StopStates DEF TakeOver, HoldInv, FallbackChoice
<1>8. CASE Receive \/ Works
  BY <1>8, ReceiveStates, WorksStates DEF HoldInv, FallbackChoice, InSession
<1>9. CASE CopyParams \/ CameraChanges \/ Consumer \/ UNCHANGED vars
  BY <1>9, ConsumerStates
  DEF CopyParams, CameraChanges, consumerFrame, vars, HoldInv, FallbackChoice
<1> QED
  BY <1>1, <1>2, <1>3, <1>4, <1>5, <1>6, <1>7, <1>8, <1>9 DEF Next, Loop, Callback, GoesOn, Works

LEMMA ChoiceKept ==
  ASSUME FALSE \notin Announces, HoldInv, [Next]_vars
  PROVE  FallbackChoice'
<1>1. CASE Fallback
  <2>1. UNCHANGED <<cfg, loop, lastAU, live>>
    BY <1>1, FallbackMoves DEF HoldInv, fbFrame
  <2>2. UNCHANGED <<Kept, Neutral, Choice>>
    BY <2>1 DEF Kept, Neutral, Choice
  <2>3. lastAU # None => lastAU.origin \in {"live", "restored"}
    BY DEF HoldInv, PictureInv, Stores
  <2>4. fb.pc \in {"choose", "encode", "sets", "serve", "switch"} => loop # "boot"
    BY DEF HoldInv, PictureInv, FallbackPicture
  <2>5. CASE Same
    BY <2>1, <2>2, <2>5, ModeKept DEF Same, HoldInv, FallbackChoice
  <2>6. CASE Drops
    BY <2>6, ModeKept DEF Drops, FallbackChoice
  <2>7. CASE Reads
    BY <2>1, <2>7, ModeKept DEF Reads, FallbackChoice
  <2>8. CASE Waits
    BY <2>1, <2>2, <2>8, ModeKept DEF Waits, HoldInv, FallbackChoice
  <2>9. CASE Holds
    <3>1. fb'.frame.origin = Choice
      BY <2>3, <2>4, <2>9 DEF Holds, Choice, Kept, HoldInv, LiveIsKept, FallbackChoice
    <3> QED
      BY <2>1, <2>2, <2>9, <3>1, ModeKept DEF Holds, FallbackChoice
  <2>10. CASE Makes
    <3>1. fb'.frame.origin = Choice
      BY <2>4, <2>10 DEF Makes, Choice, Kept, HoldInv, FallbackChoice
    <3> QED
      BY <2>1, <2>2, <2>10, <3>1, ModeKept DEF Makes, FallbackChoice
  <2>11. CASE Takes
    <3>1. fb'.pc = "sets" => fb'.frame.origin = Choice
      <4>1. ASSUME fb'.pc = "sets" PROVE fb.pc \in {"choose", "encode"} /\ (fb.frame = None \/ ~live)
        BY <2>11, <4>1 DEF Takes, HoldInv, FallbackChoice
      <4>2. ASSUME fb'.pc = "sets" PROVE Kept # "live"
        BY <2>3, <2>4, <4>1, <4>2 DEF Kept, HoldInv, LiveIsKept, FallbackChoice, HasUnit
      <4> QED
        BY <2>11, <4>2 DEF Takes, Choice
    <3> QED
      BY <2>1, <2>2, <2>11, <3>1, ModeKept DEF Takes, FallbackChoice
  <2>12. CASE Serves
    <3>1. IF Neutral THEN fb.frame.origin \in {"live", "neutral"} ELSE fb.frame.origin # "neutral"
      BY <2>3, <2>4, <2>12 DEF Serves, HoldInv, FallbackChoice, Choice, Kept
    <3> QED
      BY <2>1, <2>2, <2>12, <3>1, ModeKept DEF Serves, FallbackChoice
  <2> QED
    BY <1>1, <2>5, <2>6, <2>7, <2>8, <2>9, <2>10, <2>11, <2>12, FallbackMoves DEF HoldInv
<1>2. CASE ~Fallback /\ fb'.pc \in {"off", "codec"}
  BY <1>2, ModeKept DEF FallbackChoice
<1>3. CASE ~Fallback /\ Same /\ fb.pc # "off"
  <2>1. CASE /\ UNCHANGED <<cfg, Kept, live>> /\ (lastAU' = None <=> lastAU = None)
             /\ (lastAU # None => lastAU'.origin = lastAU.origin)
    BY <1>3, <2>1, ModeKept DEF Same, HoldInv, FallbackChoice, Choice, Neutral
  <2>2. CASE /\ CbStore /\ Kept' = "live" /\ UNCHANGED <<cfg, live, fb>>
             /\ lastAU' # None /\ lastAU'.origin = "live"
    <3>1. live /\ lastAU # None /\ lastAU.origin = "live" /\ loop # "boot"
      BY <1>3, <2>2 DEF CbStore, HoldInv, LiveIsKept, HasUnit
    <3> QED
      BY <1>3, <2>2, <3>1, ModeKept DEF HoldInv, FallbackChoice, Choice, Kept, Neutral
  <2>3. CASE CbLive /\ UNCHANGED <<cfg, Kept, fb, lastAU>> /\ live' = TRUE
    <3>1. live
      BY <1>3, <2>3 DEF CbLive, HoldInv, LiveIsKept, HasUnit
    <3> QED
      BY <1>3, <2>3, <3>1, ModeKept DEF HoldInv, FallbackChoice, Choice, Neutral
  <2>4. CASE Start \/ Exit \/ Rebuild
    BY <1>3, <2>4, RebuildStates, FallbackStates
    DEF Start, Exit, Same, HoldInv, PictureInv, FallbackPicture
  <2> QED
    BY <2>1, <2>2, <2>3, <2>4, KeptSteps
<1> QED
  BY <1>1, <1>2, <1>3, OthersMove DEF HoldInv, Same

LEMMA HoldInvariant ==
  ASSUME ~Outrun, FALSE \notin Announces  PROVE  Spec => []HoldInv
<1>1. Init => HoldInv
  BY InitPicture, InitHold DEF HoldInv
<1>2. HoldInv /\ [Next]_vars => HoldInv'
  <2> SUFFICES ASSUME HoldInv, [Next]_vars PROVE HoldInv'
    OBVIOUS
  <2>1. PictureInv'
    BY PictureNext DEF HoldInv
  <2> QED
    BY <2>1, LiveKept, ChoiceKept DEF HoldInv
<1> QED
  BY <1>1, <1>2, PTL DEF Spec

(* What the fallback of a handler shows is what its mode promises for what *)
(* the handler has of the camera: a detection stream holds a picture that  *)
(* came live and no other, a replaying stream shows a generated image only *)
(* while it has no picture, mode none shows nothing; for a camera that     *)
(* announces its sets, where no stall is noticed while the callback works. *)
THEOREM FramesFollowPolicy ==
  ASSUME ~Outrun, FALSE \notin Announces  PROVE  Spec => FollowsPolicy
<1>1. Init => Policy!Init
  <2>1. ASSUME Init PROVE fb.pc = "off" /\ loop = "boot"
    BY <2>1, FallbackStates DEF Init, Blank
  <2> QED
    BY <2>1 DEF Policy!Init, Mode, Kept, Shown
<1>2. ASSUME HoldInv, HoldInv', [Next]_vars
      PROVE  [Policy!Next]_<<Mode, Kept, Shown>>
  <2>1. Mode' \in {"detection", "replay", "none"}
    BY DEF Mode
  <2>2. /\ lastAU # None => lastAU.origin \in {"live", "restored"}
        /\ fb.pc # "off" => cfg.mode # "none" /\ loop # "boot"
    BY <1>2 DEF HoldInv, PictureInv, Stores, FallbackPicture, FallbackChoice
  <2>3. CASE Fallback
    <3>1. UNCHANGED <<Mode, Kept>>
      BY <1>2, <2>3, FallbackMoves DEF HoldInv, fbFrame, Mode, Neutral, Kept
    <3>2. CASE Same \/ (fb.pc \notin {"serve", "switch"} /\ fb'.pc \notin {"serve", "switch"})
      BY <3>1, <3>2 DEF Same, Shown
    <3>3. CASE fb.pc \in {"serve", "switch"} /\ fb'.pc \notin {"serve", "switch"}
      <4>1. fb.frame.origin # "nothing"
        BY <1>2, <3>3 DEF HoldInv, PictureInv, TypeOK, FbState, Frame
      <4> QED
        BY <3>1, <3>3, <4>1 DEF Shown, Policy!Next, Policy!End
    <3>4. CASE Serves
      <4>1. fb'.frame.origin = Choice /\ fb.pc # "off"
        BY <1>2, <3>4 DEF Serves, HoldInv, FallbackChoice
      <4>2. Shown = "nothing" /\ Shown' = Choice
        BY <3>4, <4>1 DEF Serves, Shown
      <4>3. Kept # "unread" /\ Mode = IF Neutral THEN "detection" ELSE "replay"
        BY <2>2, <4>1 DEF Kept, Mode
      <4>4. Policy!Begin
        BY <3>1, <4>2, <4>3 DEF Policy!Begin, Choice
      <4> QED
        BY <4>4 DEF Policy!Next
    <3>5. CASE Waits /\ fb.pc # "choose"
      BY <3>1, <3>5 DEF Waits, Shown
    <3>6. CASE Takes /\ fb'.pc = "serve"
      <4>1. Mode = "detection" /\ Shown' = "neutral"
        BY <2>2, <3>6 DEF Takes, Mode, Shown
      <4>2. Shown \in {"live", "neutral"}
        BY <1>2, <3>6 DEF Takes, Shown, HoldInv, FallbackChoice
      <4> QED
        BY <3>1, <4>1, <4>2 DEF Policy!Next, Policy!HoldEnds
    <3> QED
      BY <1>2, <2>3, <3>2, <3>3, <3>4, <3>5, <3>6, FallbackMoves
      DEF HoldInv, Drops, Reads, Waits, Holds, Makes, Takes
  <2>4. CASE Exit
    BY <2>1, <2>4, FallbackStates DEF Exit, Kept, Shown, Policy!Next, Policy!Configure
  <2>5. CASE ~Fallback /\ ~Exit
    <3>1. UNCHANGED Shown
      BY <1>2, <2>5, OthersMove DEF HoldInv, Same, Shown
    <3>2. CASE UNCHANGED <<cfg, Kept>>
      BY <3>1, <3>2 DEF Mode, Neutral
    <3>3. CASE Start /\ Kept = "unread" /\ Kept' \in {"nothing", "restored"} /\ cfg' = cfg
      BY <3>1, <3>3 DEF Mode, Neutral, Policy!Next, Policy!Look
    <3>4. CASE Rebuild /\ Kept # "unread" /\ Kept' = "nothing" /\ cfg' = cfg
      <4>1. Shown = "nothing"
        BY <1>2, <3>4, RebuildStates DEF HoldInv, Shown
      <4> QED
        BY <3>1, <3>4, <4>1 DEF Mode, Neutral, Policy!Next, Policy!GiveUp
    <3>5. CASE CbStore /\ Kept # "unread" /\ Kept' = "live" /\ cfg' = cfg
      BY <3>1, <3>5 DEF Mode, Neutral, Policy!Next, Policy!Keep
    <3> QED
      BY <1>2, <2>5, <3>2, <3>3, <3>4, <3>5, KeptSteps
  <2> QED
    BY <2>3, <2>4, <2>5
<1> QED
  BY <1>1, <1>2, HoldInvariant, PTL DEF Spec, FollowsPolicy, Policy!Spec

-----------------------------------------------------------------------------
(* The sets of the SDP, for a camera that announces its own and keeps them *)
(* through a session.                                                      *)

LEMMA DescribedSets ==
  ASSUME NEW c \in {"h264", "h265"}, NEW pair \in Pair
  PROVE  Description(c, pair).sets
            = [vps |-> IF c = "h265" THEN pair.vps ELSE None, sps |-> pair.sps]
  BY DEF Description, Pair

LEMMA InitialDescribed ==
  ASSUME SetsInv
  PROVE  /\ \A p : InitialIs(p) => desc.sets = SetPair(p)
         /\ InitialUnset => desc.sets = Unset
  BY DescribedSets DEF SetsInv, PictureInv, TypeOK, SetsFollow, InitialIs, InitialUnset, SetPair,
       Unset

(* DESCRIBE leaves the handler with the camera's sets, or with nothing     *)
(* that contradicts them, unless it leads to a rebuild.                    *)
LEMMA DescribeSets ==
  ASSUME FALSE \notin Announces, SetsInv, Describe
  PROVE  /\ camSets' = SetPair(cam)
         /\ loop' \in {"rebuild", "copy"}
         /\ loop' = "copy" => InitialIs(cam) \/ InitialUnset
<1>1. camSets' = SetPair(cam) /\ loop' \in {"rebuild", "copy"}
  BY DescribeStates DEF SetsInv
<1>2. /\ cam \in CameraSets /\ cam \in AllSets /\ cam # None
      /\ SetPair(cam) # Unset
      /\ SetPair(cam) = [vps |-> IF CodecOf(cam) = "h265" THEN cam ELSE None, sps |-> cam]
      /\ initial \in Pair
  BY Codecs DEF SetsInv, PictureInv, TypeOK, AllSets, SetPair
<1>3. ASSUME loop' = "copy" PROVE InitialIs(cam) \/ InitialUnset
  <2>1. CodecOf(cam) = codec /\ ~cameraParamsDiffer(SetPair(cam), codec)
    BY <1>1, <1>3, DescribeStates DEF SetsInv
  <2> QED
    BY <1>2, <2>1 DEF cameraParamsDiffer, InitialIs, InitialUnset, Unset
<1> QED
  BY <1>1, <1>3

(* A rebuild leaves it with the camera's sets.                             *)
LEMMA RebuildSets ==
  ASSUME SetsInv, Rebuild
  PROVE  InitialIs(cam)' /\ camSets # Unset /\ fb' = fb /\ UNCHANGED pre
<1>1. /\ camSets = SetPair(cam) /\ camSets # Unset /\ CodecOf(cam) \in {"h264", "h265"}
      /\ initial \in Pair
  BY RebuildStates, Codecs DEF SetsInv, SetsFollow, PictureInv, TypeOK, AllSets
<1>2. /\ initial' = IF codec' = "h265" THEN camSets ELSE [initial EXCEPT !.sps = camSets.sps]
      /\ codec' = CodecOf(cam) /\ cam' = cam /\ UNCHANGED <<fb, pre>>
  BY <1>1, RebuildStates DEF SetsInv, rebuildFrame
<1>3. InitialIs(cam)'
  BY <1>1, <1>2 DEF InitialIs, SetPair, Pair
<1> QED
  BY <1>1, <1>2, <1>3

LEMMA InitSets ==
  Init => SetsFollow /\ StoredFits /\ TakenFits /\ SdpCurrent /\ NotedInitial /\ SizeFollows
<1> SUFFICES ASSUME Init
             PROVE  SetsFollow /\ StoredFits /\ TakenFits /\ SdpCurrent /\ NotedInitial /\ SizeFollows
  OBVIOUS
<1>1. /\ fb.pc = "off" /\ cb.pc = "idle" /\ loop = "boot" /\ lastAU = None /\ consumer.pc = "out"
      /\ pre = None
  BY FallbackStates, BlankStates DEF Init, Blank
<1>2. desc.sets = Description(codec, initial).sets
  BY DEF Init, Blank, Description, Unset
<1> QED
  BY <1>1, <1>2 DEF SetsFollow, StoredFits, TakenFits, SdpCurrent, NotedInitial, SizeFollows,
     HasPicture, InSession, HasUnit

LEMMA CopySets ==
  ASSUME SetsInv, CopyParams
  PROVE  /\ InitialIs(cam)' /\ desc'.sets = SetPair(cam) /\ initial' \in Pair /\ codec' = codec
         /\ InitialIs(cam) \/ InitialUnset
         /\ noted' = cam
<1>1. /\ camSets = SetPair(cam) /\ (InitialIs(cam) \/ InitialUnset) /\ CodecOf(cam) = codec
      /\ cam \in AllSets /\ initial \in Pair /\ desc \in Sdp
  BY DEF CopyParams, SetsInv, SetsFollow, PictureInv, TypeOK, CodecsAgree, AllSets, InSession
<1>2. SetPair(cam) # Unset /\ SetPair(cam) \in Pair
  BY <1>1, Codecs
<1>3. /\ initial' = IF codec = "h265" THEN SetPair(cam) ELSE [initial EXCEPT !.sps = SetPair(cam).sps]
      /\ desc' = [desc EXCEPT !.sets = SetPair(cam)] /\ codec' = codec /\ cam' = cam
      /\ noted' = SetPair(cam).sps
  BY <1>1, <1>2 DEF CopyParams
<1>4. desc'.sets = SetPair(cam) /\ initial' \in Pair
  BY <1>1, <1>2, <1>3 DEF Sdp, Pair
<1>5. InitialIs(cam)' /\ noted' = cam
  BY <1>1, <1>3 DEF InitialIs, SetPair, Pair
<1> QED
  BY <1>1, <1>3, <1>4, <1>5

(* A picture that is captured has the sets the SDP has already.            *)
LEMMA CaptureKeepsSdp == ASSUME SetsInv, CbCapture PROVE desc' = desc /\ noted' = cam
<1>1. /\ cb.au.sps = cam /\ desc \in Sdp /\ cam # None
      /\ InitialIs(cam)
  BY FramesAssumption DEF CbCapture, SetsInv, SetsFollow, PictureInv, TypeOK, CallbackWhole,
     Whole, InSession, HasUnit, AllSets
<1>2. desc.sets = SetPair(cam)
  BY <1>1, InitialDescribed
<1> QED
  BY <1>1, <1>2 DEF CbCapture, SetPair, Sdp

LEMMA FollowKept ==
  ASSUME FALSE \notin Announces, ~MidSession, SetsInv, [Next]_vars
  PROVE  SetsFollow'
<1>1. CASE Fallback
  BY <1>1, FallbackMoves DEF fbFrame, params, SetsInv, SetsFollow, InitialIs, InitialUnset
<1>2. CASE Start
  <2>1. cb.pc = "idle" /\ loop' = "connect" /\ cb' = cb
    BY <1>2 DEF Start, SetsInv, PictureInv, CallbackWhole, InSession
  <2> QED
    BY <1>2, <2>1 DEF Start, SetsFollow, Description, InSession, HasUnit
<1>3. CASE Exit
  BY <1>3, BlankStates DEF Exit, SetsFollow, InSession, HasUnit, Description, Unset
<1>4. CASE Describe
  BY <1>4, DescribeStates, DescribeSets
  DEF SetsInv, SetsFollow, InitialIs, InitialUnset, InSession, HasUnit, params
<1>5. CASE Rebuild
  BY <1>5, RebuildStates, RebuildSets
  DEF SetsInv, SetsFollow, InSession, HasUnit, rebuildFrame
<1>6. CASE CopyParams
  <2>1. /\ InitialIs(cam)' /\ desc'.sets = SetPair(cam) /\ initial' \in Pair /\ codec' = codec
        /\ cam' = cam /\ codec \in {"h264", "h265"}
    BY <1>6, CopySets DEF CopyParams, SetsInv, PictureInv, TypeOK
  <2>2. desc'.sets = Description(codec', initial').sets
    BY <2>1, DescribedSets DEF InitialIs, SetPair
  <2> QED
    BY <1>6, <2>1, <2>2 DEF CopyParams, SetsInv, SetsFollow, InSession
<1>7. CASE GoesOn
  BY <1>7, GoesOnStates DEF loopFrame, params, SetsInv, SetsFollow, InitialIs, InSession
<1>8. CASE TakeOver
  BY <1>8 DEF TakeOver, CbJoin, params, SetsInv, SetsFollow, InitialIs, HasUnit, InSession
<1>9. CASE Receive
  BY <1>9, ReceiveStates DEF params, SetsInv, SetsFollow, InitialIs, InSession
<1>10. CASE CbStore \/ CbLive
  BY <1>10, WorksStates DEF CbStore, CbLive, Works, cbFrame, params, SetsInv, SetsFollow,
     InitialIs, InitialUnset, InSession, HasUnit
<1>11. CASE CbCapture
  <2>1. desc' = desc
    BY <1>11, CaptureKeepsSdp
  <2> QED
    BY <1>11, <2>1, WorksStates DEF Works, params, SetsInv, SetsFollow, InitialIs, InitialUnset,
       InSession, HasUnit
<1>12. CASE CameraChanges
  BY <1>12 DEF CameraChanges, params, SetsInv, SetsFollow, InSession, HasUnit
<1>13. CASE Consumer \/ UNCHANGED vars
  BY <1>13, ConsumerStates DEF consumerFrame, vars, params, SetsInv, SetsFollow, InitialIs,
     InitialUnset, InSession
<1> QED
  BY <1>1, <1>2, <1>3, <1>4, <1>5, <1>6, <1>7, <1>8, <1>9, <1>10, <1>11, <1>12, <1>13
  DEF Next, Loop, Callback, GoesOn

(* CopyParams leaves every picture that is kept with the sets it has.      *)
LEMMA CopyKeepsFit ==
  ASSUME SetsInv, CopyParams, NEW p, p # None, InitialIs(p)
  PROVE  CodecOf(p) = codec' /\ initial'.sps = p /\ (codec' = "h265" => initial'.vps = p)
<1>1. p = cam
  BY CopySets DEF InitialIs, InitialUnset
<1>2. InitialIs(cam)' /\ cam' = cam
  BY CopySets DEF CopyParams
<1> QED
  BY <1>1, <1>2 DEF InitialIs

LEMMA StoredKept ==
  ASSUME FALSE \notin Announces, ~MidSession, SetsInv, [Next]_vars
  PROVE  StoredFits'
<1>1. CASE Fallback
  BY <1>1, FallbackMoves DEF fbFrame, params, SetsInv, StoredFits, InitialIs
<1>2. CASE Start
  <2>1. CASE Restorable
    <3>1. /\ disk \in Frame /\ Whole(disk) /\ codec' = CodecOf(disk.by)
          /\ initial' = [vps |-> disk.vps, sps |-> disk.sps]
          /\ lastAU' = [disk EXCEPT !.origin = "restored"] /\ loop' = "connect"
      BY <1>2, <2>1 DEF Start, Restorable, SetsInv, PictureInv, TypeOK, Stores
    <3>2. lastAU'.by = disk.by /\ lastAU'.sps = disk.sps /\ lastAU'.vps = disk.vps
      BY <3>1 DEF Frame
    <3> QED
      BY <3>1, <3>2 DEF StoredFits, InitialIs, Whole
  <2>2. CASE ~Restorable
    BY <1>2, <2>2 DEF Start, SetsInv, StoredFits
  <2> QED
    BY <2>1, <2>2
<1>3. CASE Exit
  BY <1>3 DEF Exit, StoredFits
<1>4. CASE Describe
  BY <1>4, DescribeStates DEF SetsInv, StoredFits, InitialIs, params
<1>5. CASE Rebuild
  BY <1>5, RebuildStates DEF SetsInv, StoredFits
<1>6. CASE CopyParams
  <2>1. UNCHANGED lastAU /\ loop' = "setup" /\ (lastAU # None => lastAU.by # None)
    BY <1>6, FramesAssumption DEF CopyParams, SetsInv, PictureInv, TypeOK, Frame
  <2> QED
    BY <1>6, <2>1, CopyKeepsFit DEF SetsInv, StoredFits, InitialIs
<1>7. CASE GoesOn
  BY <1>7, GoesOnStates DEF loopFrame, params, SetsInv, StoredFits, InitialIs, InSession
<1>8. CASE Receive \/ TakeOver
  BY <1>8 DEF Receive, TakeOver, params, SetsInv, StoredFits, InitialIs
<1>9. CASE CbStore
  <2>1. Whole(cb.au) /\ InitialIs(cb.au.by) /\ loop # "boot"
    BY <1>9 DEF CbStore, SetsInv, SetsFollow, PictureInv, CallbackWhole, InSession, HasUnit
  <2> QED
    BY <1>9, <2>1 DEF CbStore, cbFrame, params, StoredFits, InitialIs
<1>10. CASE CbLive \/ CbCapture
  BY <1>10 DEF CbLive, CbCapture, cbFrame, params, SetsInv, StoredFits, InitialIs
<1>11. CASE CameraChanges \/ Consumer \/ UNCHANGED vars
  BY <1>11, ConsumerStates DEF CameraChanges, consumerFrame, vars, params, SetsInv, StoredFits,
     InitialIs
<1> QED
  BY <1>1, <1>2, <1>3, <1>4, <1>5, <1>6, <1>7, <1>8, <1>9, <1>10, <1>11
  DEF Next, Loop, Callback, GoesOn

LEMMA TakenKept ==
  ASSUME FALSE \notin Announces, ~MidSession, SetsInv, [Next]_vars
  PROVE  TakenFits'
<1>1. CASE Fallback
  <2>1. UNCHANGED <<codec, initial>>
    BY <1>1, FallbackMoves DEF SetsInv, fbFrame, params
  <2>2. CASE Same \/ Drops
    BY <2>1, <2>2 DEF Same, Drops, SetsInv, TakenFits, InitialIs, HasPicture
  <2>3. CASE Reads
    BY <2>1, <2>3 DEF Reads, SetsInv, StoredFits, TakenFits, InitialIs, HasPicture
  <2>4. CASE Waits \/ Holds
    BY <2>1, <2>4 DEF Waits, Holds, SetsInv, TakenFits, InitialIs, HasPicture
  <2>5. CASE Makes \/ Takes
    BY <2>5 DEF Makes, Takes, TakenFits, OfCamera
  <2>6. CASE Serves
    <3>1. fb.frame # None
      BY <2>6 DEF Serves, SetsInv, PictureInv, TypeOK
    <3> QED
      BY <2>1, <2>6, <3>1 DEF Serves, SetsInv, TakenFits, InitialIs, HasPicture
  <2> QED
    BY <1>1, <2>2, <2>3, <2>4, <2>5, <2>6, FallbackMoves DEF SetsInv
<1>2. CASE fb'.pc \in {"off", "codec"}
  BY <1>2 DEF TakenFits, HasPicture
<1>3. CASE ~Fallback /\ Same /\ fb.pc \notin {"off", "codec"}
  <2>1. CASE CopyParams
    <3>1. UNCHANGED <<fb, codec>> /\ (fb.frame # None => fb.frame.by # None)
      BY <2>1, FramesAssumption DEF CopyParams, SetsInv, PictureInv, TypeOK, FbState, Frame
    <3> QED
      BY <2>1, <3>1, CopyKeepsFit DEF SetsInv, TakenFits, InitialIs
  <2>2. CASE Start \/ Exit \/ Rebuild
    BY <1>3, <2>2, RebuildStates, FallbackStates
    DEF Start, Exit, Same, SetsInv, PictureInv, FallbackPicture
  <2>3. CASE UNCHANGED <<codec, initial>>
    BY <1>3, <2>3 DEF Same, SetsInv, TakenFits, InitialIs
  <2> QED
    BY <1>3, <2>1, <2>2, <2>3, DescribeStates, GoesOnStates, ReceiveStates, WorksStates, ConsumerStates
    DEF Next, Loop, Callback, GoesOn, Works, TakeOver, CameraChanges, loopFrame, consumerFrame,
        vars, params, SetsInv
<1> QED
  BY <1>1, <1>2, <1>3, OthersMove DEF SetsInv, Same

LEMMA SdpKept ==
  ASSUME FALSE \notin Announces, ~MidSession, ~SetupRaces, SetsInv, SdpCurrent, [Next]_vars
  PROVE  SdpCurrent'
<1>1. CASE Fallback
  BY <1>1, FallbackMoves DEF SetsInv, fbFrame, params, SdpCurrent
<1>2. CASE Start
  BY <1>2 DEF Start, SdpCurrent
<1>3. CASE Exit
  BY <1>3, BlankStates DEF Exit, SdpCurrent
<1>4. CASE Describe
  BY <1>4, DescribeStates DEF SetsInv, SdpCurrent, params
<1>5. CASE Rebuild
  <2>1. consumer'.pc = "out"
    BY <1>5, RebuildStates, BlankStates DEF SetsInv, PictureInv, TypeOK
  <2> QED
    BY <2>1 DEF SdpCurrent
<1>6. CASE CopyParams
  <2>1. /\ UNCHANGED <<codec, consumer>> /\ loop' = "setup" /\ loop = "copy"
        /\ desc.sets \in {Unset, desc'.sets}
    BY <1>6, CopySets, InitialDescribed DEF CopyParams
  <2> QED
    BY <2>1 DEF SdpCurrent
<1>7. CASE GoesOn
  BY <1>7, GoesOnStates DEF loopFrame, params, SetsInv, SdpCurrent, InSession
<1>8. CASE Receive \/ CbStore \/ CbLive \/ TakeOver \/ CameraChanges
  BY <1>8 DEF Receive, CbStore, CbLive, TakeOver, CameraChanges, cbFrame, params, SdpCurrent
<1>9. CASE CbCapture
  BY <1>9, CaptureKeepsSdp DEF CbCapture, params, SdpCurrent
<1>10. CASE OnDescribe
  BY <1>10 DEF OnDescribe, consumerFrame, params, SetsInv, PictureInv, CodecsAgree, SdpCurrent
<1>11. CASE OnSetup \/ ConsumerLeaves
  <2>1. UNCHANGED <<codec, desc, loop>> /\ consumer'.pc \in {"out", "playing"} /\ loop # "boot"
        /\ (consumer'.pc = "playing" => consumer.pc = "described" /\ consumer'.sdp = consumer.sdp)
    BY <1>11 DEF OnSetup, ConsumerLeaves, Out, consumerFrame, params, SetsInv, PictureInv,
         TypeOK, SdpCurrent
  <2> QED
    BY <2>1 DEF SdpCurrent
<1>12. CASE UNCHANGED vars
  BY <1>12 DEF vars, params, SdpCurrent
<1> QED
  BY <1>1, <1>2, <1>3, <1>4, <1>5, <1>6, <1>7, <1>8, <1>9, <1>10, <1>11, <1>12
  DEF Next, Loop, Callback, Consumer, GoesOn

(* The sets that gave the generator its size are those of initialSPS.      *)
LEMMA NotedKept ==
  ASSUME FALSE \notin Announces, ~MidSession, SetsInv, NotedInitial, [Next]_vars
  PROVE  NotedInitial'
<1>1. CASE Fallback
  BY <1>1, FallbackMoves, FallbackRuns DEF SetsInv, fbFrame, params, NotedInitial
<1>2. CASE Start
  <2>1. loop = "boot" /\ loop' = "connect" /\ pre = None
    BY <1>2 DEF Start, NotedInitial
  <2>2. CASE Restorable
    BY <1>2, <2>1, <2>2 DEF Start, Restorable, NotedInitial
  <2>3. CASE ~Restorable
    <3> DEFINE c == IF cfg.codec = "h265" THEN "h265" ELSE "h264"
    <3>1. (pre' = None) \/ (initial' = Filled(c, Unset)) \/ (pre' = pre)
      BY <1>2, <2>3 DEF Start, preEncodeFallback
    <3>2. Filled(c, Unset).sps = SetsOf(c) /\ SetsOf(c) \notin CameraSets /\ SetsOf(c) # None
      BY FramesAssumption DEF Filled, Unset, SetsOf, AllSets
    <3> QED
      BY <2>1, <3>1, <3>2 DEF NotedInitial
  <2> QED
    BY <2>2, <2>3
<1>3. CASE Exit
  BY <1>3 DEF Exit, NotedInitial
<1>4. CASE Describe
  BY <1>4, DescribeStates, StopStates DEF SetsInv, NotedInitial, params
<1>5. CASE Rebuild
  <2>1. InitialIs(cam)' /\ loop' = "copy" /\ fb'.pc = "off" /\ cam' # None
    BY <1>5, RebuildStates, RebuildSets, FramesAssumption
    DEF SetsInv, PictureInv, TypeOK, rebuildFrame, AllSets
  <2> QED
    BY <2>1 DEF NotedInitial, InitialIs
<1>6. CASE CopyParams
  <2>1. InitialIs(cam)' /\ noted' = cam' /\ cam' # None /\ loop' = "setup"
    BY <1>6, CopySets, FramesAssumption DEF CopyParams, SetsInv, PictureInv, TypeOK, AllSets
  <2> QED
    BY <2>1 DEF NotedInitial, InitialIs
<1>7. CASE GoesOn
  BY <1>7, GoesOnStates DEF SetsInv, loopFrame, params, NotedInitial, InSession
<1>8. CASE Receive \/ TakeOver
  BY <1>8, ReceiveStates DEF TakeOver, params, SetsInv, NotedInitial, InSession
<1>9. CASE CbStore \/ CbLive
  BY <1>9 DEF CbStore, CbLive, cbFrame, params, NotedInitial
<1>10. CASE CbCapture
  <2>1. initial.sps = cam /\ noted' = cam /\ UNCHANGED <<initial, pre, loop>>
    BY <1>10, CaptureKeepsSdp DEF CbCapture, params, SetsInv, SetsFollow, InitialIs, PictureInv,
       CallbackWhole, HasUnit
  <2> QED
    BY <2>1 DEF NotedInitial
<1>11. CASE CameraChanges \/ Consumer \/ UNCHANGED vars
  BY <1>11, ConsumerStates DEF CameraChanges, consumerFrame, vars, params, SetsInv, NotedInitial
<1> QED
  BY <1>1, <1>2, <1>3, <1>4, <1>5, <1>6, <1>7, <1>8, <1>9, <1>10, <1>11
  DEF Next, Loop, Callback, GoesOn

(* They do not change while a fallback has the neutral image, or waits for *)
(* one.                                                                    *)
LEMMA NotedStays ==
  ASSUME FALSE \notin Announces, ~MidSession, SetsInv, NotedInitial, [Next]_vars, ~Exit, ~Start
  PROVE  \/ UNCHANGED noted
         \/ pre' = None
         \/ fb.pc \in {"off", "codec"} /\ fb'.pc \in {"off", "codec"}
<1>1. CASE CopyParams
  <2>1. noted' = cam /\ UNCHANGED <<pre, fb>> /\ loop = "copy" /\ cam \in CameraSets
        /\ (InitialIs(cam) \/ InitialUnset)
    BY <1>1, CopySets DEF CopyParams, SetsInv, PictureInv, TypeOK
  <2> QED
    BY <2>1 DEF NotedInitial, InitialIs, InitialUnset
<1>2. CASE CbCapture
  <2>1. initial.sps = cam /\ noted' = cam /\ UNCHANGED <<pre, fb>> /\ loop # "copy"
        /\ cam \in CameraSets
    BY <1>2, CaptureKeepsSdp DEF CbCapture, params, SetsInv, SetsFollow, InitialIs, PictureInv,
       TypeOK, CallbackWhole, HasUnit, InSession
  <2> QED
    BY <2>1 DEF NotedInitial
<1>3. CASE ~CopyParams /\ ~CbCapture
  BY <1>3, FallbackMoves, DescribeStates, RebuildStates, GoesOnStates, ReceiveStates, ConsumerStates
  DEF Next, Loop, Callback, GoesOn, TakeOver, CbStore, CbLive, CameraChanges, fbFrame, rebuildFrame,
      loopFrame, cbFrame, consumerFrame, vars, SetsInv
<1> QED
  BY <1>1, <1>2, <1>3

LEMMA SizeKept ==
  ASSUME FALSE \notin Announces, ~MidSession, SetsInv, PictureInv', NotedInitial, SizeFollows,
         [Next]_vars
  PROVE  SizeFollows'
<1>1. CASE fb'.pc \in {"off", "codec"}
  BY <1>1 DEF PictureInv, FallbackPicture, SizeFollows, HasPicture
<1>2. CASE pre' = None
  BY <1>2 DEF SizeFollows
<1>3. CASE Fallback
  <2>1. UNCHANGED <<noted, pre>> /\ Asks
    BY <1>3, FallbackMoves DEF SetsInv, fbFrame, params
  <2>2. ASSUME pre # None, enc' # None, enc'.for = "fallback" PROVE enc'.size = noted
    BY <2>1, <2>2 DEF Asks, SizeFollows
  <2>3. ASSUME pre # None, fb'.pc \in HasPicture, fb'.frame.origin = "neutral"
        PROVE  fb'.frame.size = noted
    <3>1. CASE Same \/ Serves
      BY <2>3, <3>1 DEF Same, Serves, SizeFollows, HasPicture
    <3>2. CASE Drops \/ Reads \/ Makes
      BY <2>3, <3>2 DEF Drops, Reads, Makes, HasPicture
    <3>3. CASE Waits
      BY <2>3, <3>3 DEF Waits, SizeFollows, HasPicture
    <3>4. CASE Holds
      BY <2>3, <3>4 DEF Holds, SetsInv, PictureInv, FallbackPicture
    <3>5. CASE Takes
      BY <2>3, <3>5 DEF Takes, SizeFollows
    <3> QED
      BY <1>3, <3>1, <3>2, <3>3, <3>4, <3>5, FallbackMoves DEF SetsInv
  <2> QED
    BY <2>1, <2>2, <2>3 DEF SizeFollows
<1>4. CASE ~Fallback /\ Same /\ fb.pc \notin {"off", "codec"} /\ pre' # None
  <2>1. ~Start /\ ~Exit
    BY <1>4, FallbackStates DEF Start, Exit, Same, SetsInv, PictureInv, FallbackPicture
  <2>2. UNCHANGED noted
    BY <1>4, <2>1, NotedStays DEF Same
  <2>3. pre # None
    <3>1. CASE Rebuild
      BY <1>4, <3>1, RebuildSets
    <3>2. CASE ~Rebuild
      BY <1>4, <2>1, <3>2, DescribeStates, GoesOnStates, ReceiveStates, WorksStates, ConsumerStates
      DEF Next, Loop, Callback, GoesOn, Works, TakeOver, CopyParams, CameraChanges, loopFrame,
          consumerFrame, vars, params, SetsInv
    <3> QED
      BY <3>1, <3>2
  <2>4. enc' \in {enc, None}
    BY <1>4, OthersMove DEF SetsInv
  <2> QED
    BY <1>4, <2>2, <2>3, <2>4 DEF Same, SizeFollows
<1> QED
  BY <1>1, <1>2, <1>3, <1>4, OthersMove DEF SetsInv, Same

LEMMA SetsInvariant ==
  ASSUME FALSE \notin Announces, ~MidSession  PROVE  Spec => []SetsInv
<1>1. Init => SetsInv
  BY InitPicture, InitSets DEF SetsInv
<1>2. SetsInv /\ [Next]_vars => SetsInv'
  <2> SUFFICES ASSUME SetsInv, [Next]_vars PROVE SetsInv'
    OBVIOUS
  <2>1. PictureInv'
    BY PictureNext DEF SetsInv
  <2> QED
    BY <2>1, FollowKept, StoredKept, TakenKept DEF SetsInv
<1> QED
  BY <1>1, <1>2, PTL DEF Spec

(* A keyframe a fallback replays is never put behind the parameter sets of *)
(* another encoder, through any rebuild, restart with another              *)
(* configuration or change of the camera's settings between sessions, as   *)
(* long as the camera announces its sets.                                  *)
THEOREM ReplayAlwaysFits ==
  ASSUME FALSE \notin Announces, ~MidSession  PROVE  Spec => []ReplayFits
<1>1. ASSUME SetsInv, fb.pc = "serve", OfCamera(fb.frame)
      PROVE  Fits(Served)
  <2>1. /\ fb.frame \in Frame /\ Whole(fb.frame) /\ CodecOf(fb.frame.by) = codec
        /\ fb.sets.sps = fb.frame.by /\ (codec = "h265" => fb.sets.vps = fb.frame.by)
        /\ fb.codec = codec /\ desc.codec = codec
    BY <1>1 DEF SetsInv, PictureInv, TypeOK, FbState, CodecsAgree, FallbackPicture, TakenFits,
       HasPicture, InitialIs
  <2>2. Served = ensureSets(fb.frame, fb.sets, codec)
    BY <1>1, <2>1 DEF Served, OfCamera
  <2>3. /\ Served.by = fb.frame.by /\ Served.sps = fb.frame.by
        /\ codec = "h265" => Served.vps = fb.frame.by
    BY <2>1, <2>2 DEF ensureSets, Frame, Whole
  <2> QED
    BY <2>1, <2>3 DEF Fits
<1>2. SetsInv => ReplayFits
  BY <1>1 DEF ReplayFits, Serving, OfCamera
<1> QED
  BY <1>2, SetsInvariant, PTL

(* Under the same conditions, and while no rebuild comes between the       *)
(* requests of a consumer, whatever picture of the camera it receives is   *)
(* of the encoder its SDP describes.                                       *)
THEOREM SdpAlwaysDescribes ==
  ASSUME FALSE \notin Announces, ~MidSession, ~SetupRaces  PROVE  Spec => []SdpDescribesCamera
<1>1. SetsInv /\ SdpCurrent => SdpDescribesCamera
  <2> SUFFICES ASSUME SetsInv, SdpCurrent, consumer.pc = "playing"
               PROVE  SdpDescribesCamera
    BY DEF SdpDescribesCamera
  <2>1. ASSUME NEW au, InitialIs(au.by)
        PROVE  consumer.sdp.codec = CodecOf(au.by) /\ consumer.sdp.sets \in {Unset, SetPair(au.by)}
    BY <2>1, InitialDescribed DEF SdpCurrent, InitialIs
  <2>2. cb.au # None => InitialIs(cb.au.by)
    BY DEF SetsInv, SetsFollow, PictureInv, TypeOK, CbState, CbIdle, CbJoin, CallbackWhole, InSession,
       HasUnit
  <2>3. Serving({"live", "restored"}) => InitialIs(fb.frame.by)
    BY DEF Serving, OfCamera, SetsInv, TakenFits, PictureInv, TypeOK, HasPicture
  <2> QED
    BY <2>1, <2>2, <2>3 DEF SdpDescribesCamera
<1>2. Init => SdpCurrent
  BY InitSets
<1>3. SetsInv /\ SdpCurrent /\ [Next]_vars => SdpCurrent'
  BY SdpKept
<1> QED
  BY <1>1, <1>2, <1>3, SetsInvariant, PTL DEF Spec

(* Under the conditions of ReplayAlwaysFits the neutral image a fallback   *)
(* serves has the size of the camera's latest pictures, for as long as it  *)
(* is served: FFmpeg may have begun it in one session, a rebuild or a      *)
(* warming goroutine may come between, and a cached one may be older.      *)
THEOREM NeutralAlwaysFollows ==
  ASSUME FALSE \notin Announces, ~MidSession  PROVE  Spec => []NeutralFollowsCamera
<1>1. SizeFollows => NeutralFollowsCamera
  BY DEF SizeFollows, NeutralFollowsCamera, Serving, HasPicture
<1>2. Init => NotedInitial /\ SizeFollows
  BY InitSets
<1>3. SetsInv /\ SetsInv' /\ NotedInitial /\ SizeFollows /\ [Next]_vars => NotedInitial' /\ SizeFollows'
  BY NotedKept, SizeKept DEF SetsInv
<1> QED
  BY <1>1, <1>2, <1>3, SetsInvariant, PTL DEF Spec
=============================================================================
