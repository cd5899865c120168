---------------------------- MODULE FallbackFrames ----------------------------
(***************************************************************************)
(* Which picture a handler sends, and under which parameter sets: the      *)
(* stored keyframe, the pre-encoded frame and the neutral image; the sets  *)
(* in initialVPS/SPS/PPS and in the SDP; a consumer that has read the SDP. *)
(* A parameter set stands for the SPS and PPS of one encoder run, and for  *)
(* its VPS in H.265.  There is one generator: a fallback that is started   *)
(* while a packet waits for the one before it is left to StreamHandler.    *)
(***************************************************************************)
CONSTANTS
    Sets264, Sets265,   \* parameter sets the camera may use
    Announces,          \* whether its DESCRIBE carries them: what may happen
    MidSession,         \* it may change them, or its picture size, in a session
    Battery,            \* cfg.BatteryMode
    Configs,            \* fallback_mode and codec the proxy may be started with
    FFmpegFails,        \* FFmpeg may fail
    Outrun,             \* a stall may be noticed while the callback runs
    SetupRaces,         \* a rebuild may come between a consumer's requests
    None

CameraSets == Sets264 \cup Sets265
SetsOf(c) == IF c = "h264" THEN "x264" ELSE "x265"
AllSets == CameraSets \cup {"x264", "x265"}
CodecOf(p) == IF p \in Sets264 \cup {"x264"} THEN "h264" ELSE "h265"
Modes == {"offline", "neutral", "none"}

(* A keyframe: whose slices they are, the sets in band, where it is from.  *)
Frame == [by : AllSets, vps : AllSets \cup {None}, sps : AllSets \cup {None},
          origin : {"live", "restored", "generated", "neutral"},
          size : CameraSets \cup {"default"}]

ASSUME FramesAssumption ==
    /\ Sets264 \cap Sets265 = {} /\ {"x264", "x265", "default"} \cap CameraSets = {}
    /\ None \notin AllSets \cup {"default"} \cup Frame
    /\ Announces \subseteq BOOLEAN
    /\ Configs \subseteq [mode : Modes, codec : {"auto", "h264", "h265"}]
    /\ {MidSession, Battery, FFmpegFails, Outrun, SetupRaces} \subseteq BOOLEAN

VARIABLES
    cam,            \* the camera's parameter sets
    cfg,            \* the configuration
    codec,          \* sh.detectedCodec
    initial,        \* sh.initialVPS and sh.initialSPS/PPS
    desc,           \* the SDP: sh.desc, which the server stream shares
    lastAU,         \* sh.lastCameraVideoAU
    live,           \* sh.liveKeyframe
    pre,            \* sh.preBaseAU
    noted,          \* the sets that gave the generator its size (lastDimSPS)
    neutral,        \* sh.neutral
    enc,            \* who encodes a neutral image under neutralMu, and its key
    warm,           \* a goroutine that warms the cache waits for neutralMu
    disk,           \* the keyframe in data_dir
    loop,           \* the connection loop
    camSets,        \* camVPS and camSPS/camPPS of the session's callback
    seenIDR,        \* seenIDR and not needKey
    cb,             \* the callback, with the access unit it works on
    fb,             \* the fallback goroutine with its local variables
    kind,           \* sh.fbKind
    consumer        \* a consumer with the SDP it has read

params == <<codec, initial, pre>>
image == <<neutral, enc, warm>>
vars == <<cam, cfg, params, desc, lastAU, live, noted, image, disk, loop, camSets,
          seenIDR, cb, fb, kind, consumer>>

Pair == [vps : AllSets \cup {None}, sps : AllSets \cup {None}]
Unset == [vps |-> None, sps |-> None]
SetPair(p) == [vps |-> IF CodecOf(p) = "h265" THEN p ELSE None, sps |-> p]
Encoded(p, in, origin, size) ==
    [by |-> p, vps |-> in.vps, sps |-> in.sps, origin |-> origin, size |-> size]
Off == [pc |-> "off", stopped |-> FALSE, codec |-> None, frame |-> None, sets |-> Unset]
Out == [pc |-> "out", sdp |-> None]
CbIdle == [pc |-> "idle", au |-> None]

Sdp == [codec : {"h264", "h265"}, sets : Pair]
CbJoin == [pc |-> "join", au |-> None]
CbState == [pc : {"store", "live", "capture"}, au : Frame] \cup {CbIdle, CbJoin}
FbState == [pc : {"off", "codec", "frame", "choose", "encode", "sets", "serve", "switch", "exit"},
            stopped : BOOLEAN, codec : {"h264", "h265", None}, frame : Frame \cup {None},
            sets : Pair]
Encoding == [for : {"fallback", "cache"}, codec : {"h264", "h265"},
             size : CameraSets \cup {"default"}]

TypeOK ==
    /\ cam \in CameraSets /\ cfg \in Configs
    /\ codec \in {"h264", "h265"} /\ initial \in Pair /\ pre \in Frame \cup {None}
    /\ desc \in Sdp
    /\ lastAU \in Frame \cup {None} /\ live \in BOOLEAN
    /\ noted \in CameraSets \cup {"default"}
    /\ neutral \in Frame \cup {None} /\ disk \in Frame \cup {None}
    /\ enc \in Encoding \cup {None} /\ warm \in BOOLEAN
    /\ loop \in {"boot", "connect", "rebuild", "copy", "setup", "relay", "left"}
    /\ camSets \in Pair /\ seenIDR \in BOOLEAN
    /\ cb \in CbState /\ fb \in FbState
    /\ fb.pc \in {"sets", "serve", "switch"} => fb.frame # None
    /\ kind \in {"none", "last_keyframe", "neutral"}
    /\ consumer \in [pc : {"out", "described", "playing"}, sdp : Sdp \cup {None}]

(* The process does not run.                                               *)
Blank ==
    /\ codec = "h264" /\ initial = Unset /\ pre = None
    /\ desc = [codec |-> "h264", sets |-> Unset]
    /\ lastAU = None /\ live = FALSE /\ noted = "default"
    /\ neutral = None /\ enc = None /\ warm = FALSE
    /\ loop = "boot" /\ camSets = Unset /\ seenIDR = FALSE
    /\ cb = CbIdle /\ fb = Off /\ kind = "none" /\ consumer = Out
Init == cam \in CameraSets /\ cfg \in Configs /\ disk = None /\ Blank

-----------------------------------------------------------------------------
(* Access units and descriptions.                                          *)

(* ensureSPSPPS and ensureVPSSPSPPS, for a keyframe.                       *)
ensureSets(au, in, c) ==
    IF in.sps = None \/ (c = "h265" /\ in.vps = None) THEN au
    ELSE [au EXCEPT !.sps = in.sps, !.vps = IF c = "h265" THEN in.vps ELSE @]

(* BuildDescription.                                                       *)
Description(c, in) ==
    [codec |-> c, sets |-> IF c = "h265" THEN in ELSE [in EXCEPT !.vps = None]]

(* Variants named Mut... are plausible slips in the definition below them; *)
(* nothing uses them but the checks that the properties notice such slips. *)

(* cameraParamsDiffer that notices a change of codec only.                 *)
MutNeverDiffer(src, c) == FALSE
(* cameraParamsDiffer: with nothing announced, or nothing advertised yet,  *)
(* there is nothing to differ.                                             *)
cameraParamsDiffer(src, c) ==
    /\ src # Unset
    /\ IF c = "h265" THEN initial # Unset /\ initial # src
       ELSE initial.sps # None /\ initial.sps # src.sps

(* What preEncodeFallback makes of the sets it finds: the encoder's own    *)
(* fill the gaps.                                                          *)
Filled(c, in) ==
    [vps |-> IF c = "h265" /\ in.vps = None THEN "x265" ELSE in.vps,
     sps |-> IF in.sps = None THEN SetsOf(c) ELSE in.sps]
preEncodeFallback(c, in) ==
    \/ /\ initial' = Filled(c, in)
       /\ pre' = Encoded(SetsOf(c), SetPair(SetsOf(c)), "generated", "default")
    \/ FFmpegFails /\ initial' = in /\ UNCHANGED pre

(* Mode "neutral" stands for fallback_mode neutral on a low stream; on a   *)
(* main stream that mode is "offline".                                     *)
Neutral == cfg.mode = "neutral"
CanFallback == Battery /\ cfg.mode # "none"

(* A cached neutral image of the right codec is taken as it is.            *)
MutAnySize == neutral # None /\ CodecOf(neutral.by) = codec
(* The cached image was made for neutralWanted's key.                      *)
Cached == neutral # None /\ CodecOf(neutral.by) = codec /\ neutral.size = noted

-----------------------------------------------------------------------------
(* The fallback goroutine.                                                 *)

(* sh.fallbackCancel # nil: also while the goroutine dies of itself.       *)
Recorded == fb.pc # "off" /\ ~fb.stopped
startFallback ==
    IF Recorded THEN UNCHANGED <<fb, kind>>
    ELSE fb' = [Off EXCEPT !.pc = "codec"] /\ kind' = "last_keyframe"

(* stopFallback up to its join: the record and the kind are cleared and    *)
(* the goroutine is told; until it ends it may set the kind once more.     *)
stopFallback ==
    /\ fb' = [fb EXCEPT !.stopped = fb.pc # "off"]
    /\ kind' = "none"

fbFrame == <<cam, cfg, params, desc, lastAU, live, noted, disk, loop, camSets, seenIDR, cb, consumer>>

FbReadCodec ==
    /\ fb.pc = "codec"
    /\ fb' = [fb EXCEPT !.pc = "frame", !.codec = codec]
    /\ UNCHANGED <<fbFrame, image, kind>>
FbReadFrame ==
    /\ fb.pc = "frame"
    /\ fb' = [fb EXCEPT !.pc = "choose", !.frame = lastAU]
    /\ UNCHANGED <<fbFrame, image, kind>>

(* runFallback that takes any stored keyframe for the hold.                *)
MutHoldStored ==
    /\ fb.pc = "choose" /\ Neutral /\ fb.frame # None
    /\ fb' = [fb EXCEPT !.pc = "sets"]
    /\ kind' = "last_keyframe" /\ warm' = TRUE
    /\ UNCHANGED <<fbFrame, neutral, enc>>
(* Neutral mode: the keyframe is held, if one arrived live, and the cache  *)
(* is warmed meanwhile by a goroutine of its own.                          *)
FbHold ==
    /\ fb.pc = "choose" /\ Neutral /\ fb.frame # None /\ live
    /\ fb' = [fb EXCEPT !.pc = "sets"]
    /\ kind' = "last_keyframe" /\ warm' = TRUE
    /\ UNCHANGED <<fbFrame, neutral, enc>>

(* Where runFallback calls ensureNeutral: at once, or when the hold is     *)
(* over.  A goroutine that has been stopped may still get here.            *)
WantsNeutral ==
    /\ Neutral
    /\ \/ fb.pc = "choose" /\ (fb.frame = None \/ ~live)
       \/ fb.pc = "serve" /\ fb.frame.origin # "neutral"

(* The neutral image is taken, with the status of what was shown.          *)
MutKindOfHold(au) ==
    /\ fb' = [fb EXCEPT !.pc = IF @ \in {"choose", "encode"} THEN "sets" ELSE "serve", !.frame = au]
    /\ UNCHANGED kind
TakeNeutral(au) ==
    /\ fb' = [fb EXCEPT !.pc = IF @ \in {"choose", "encode"} THEN "sets" ELSE "serve", !.frame = au]
    /\ kind' = "neutral"

(* ensureNeutral: the cached image, or neutralWanted's key for a new one,  *)
(* which FFmpeg takes its time for.                                        *)
FbCached ==
    /\ WantsNeutral /\ enc = None /\ Cached
    /\ TakeNeutral(neutral)
    /\ UNCHANGED <<fbFrame, image>>
FbEncode ==
    /\ WantsNeutral /\ enc = None /\ ~Cached
    /\ enc' = [for |-> "fallback", codec |-> codec, size |-> noted]
    /\ fb' = [fb EXCEPT !.pc = IF @ = "choose" THEN "encode" ELSE "switch"]
    /\ UNCHANGED <<fbFrame, neutral, warm, kind>>

(* The image is cached under the key it was begun with.                    *)
FbEncoded ==
    /\ enc # None /\ enc.for = "fallback"
    /\ neutral' = Encoded(SetsOf(enc.codec), SetPair(SetsOf(enc.codec)), "neutral", enc.size)
    /\ enc' = None
    /\ TakeNeutral(neutral')
    /\ UNCHANGED <<fbFrame, warm>>
(* Without an image there is no fallback; the hold goes on and the next    *)
(* tick tries again.                                                       *)
FbEncodeFails ==
    /\ enc # None /\ enc.for = "fallback" /\ FFmpegFails
    /\ enc' = None
    /\ fb' = [fb EXCEPT !.pc = IF @ = "encode" THEN "exit" ELSE "serve"]
    /\ UNCHANGED <<fbFrame, neutral, warm, kind>>

(* The warming goroutines, which nobody stops or joins; several may wait.  *)
WarmBegin ==
    /\ warm /\ enc = None
    /\ warm' \in BOOLEAN
    /\ enc' = IF Cached THEN None ELSE [for |-> "cache", codec |-> codec, size |-> noted]
    /\ UNCHANGED <<fbFrame, neutral, fb, kind>>
WarmEnd ==
    /\ enc # None /\ enc.for = "cache"
    /\ neutral' \in {Encoded(SetsOf(enc.codec), SetPair(SetsOf(enc.codec)), "neutral", enc.size)}
                    \cup (IF FFmpegFails THEN {neutral} ELSE {})
    /\ enc' = None
    /\ UNCHANGED <<fbFrame, warm, fb, kind>>

(* The pre-encoded frame without a test that there is one.                 *)
MutChooseUnchecked ==
    /\ fb.pc = "choose" /\ ~Neutral
    /\ \/ fb.frame # None /\ fb' = [fb EXCEPT !.pc = "sets"] /\ UNCHANGED kind
       \/ fb.frame = None /\ fb' = [fb EXCEPT !.pc = "sets", !.frame = pre] /\ kind' = "neutral"
    /\ UNCHANGED <<fbFrame, image>>
(* The keyframe, else the pre-encoded frame, else one encoded on the spot, *)
(* which keeps the kind startFallback has set.                             *)
FbChoose ==
    /\ fb.pc = "choose" /\ ~Neutral
    /\ \/ fb.frame # None /\ fb' = [fb EXCEPT !.pc = "sets"] /\ UNCHANGED kind
       \/ /\ fb.frame = None /\ pre # None
          /\ fb' = [fb EXCEPT !.pc = "sets", !.frame = pre]
          /\ kind' = "neutral"
       \/ /\ fb.frame = None /\ pre = None
          /\ LET au == Encoded(SetsOf(fb.codec), SetPair(SetsOf(fb.codec)), "generated", "default")
             IN  fb' \in {[fb EXCEPT !.pc = "sets", !.frame = au]}
                         \cup (IF FFmpegFails THEN {[fb EXCEPT !.pc = "exit"]} ELSE {})
          /\ UNCHANGED kind
    /\ UNCHANGED <<fbFrame, image>>

(* The first look at the context; then the sets are read.                  *)
FbReadSets ==
    /\ fb.pc = "sets"
    /\ fb' = IF fb.stopped THEN [fb EXCEPT !.pc = "exit"]
             ELSE [fb EXCEPT !.pc = "serve", !.sets = initial]
    /\ UNCHANGED <<fbFrame, image, kind>>

(* What a tick sends: only the neutral image keeps its own sets.           *)
Served == IF fb.frame.origin = "neutral" THEN fb.frame ELSE ensureSets(fb.frame, fb.sets, fb.codec)

(* The context is done; select may take another tick before it sees that.  *)
FbDone ==
    /\ fb.pc = "serve" /\ fb.stopped
    /\ fb' = [fb EXCEPT !.pc = "exit"]
    /\ UNCHANGED <<fbFrame, image, kind>>
(* The deferred functions: the record and the kind are cleared.            *)
FbForget ==
    /\ fb.pc = "exit"
    /\ fb' = Off /\ kind' = "none"
    /\ UNCHANGED <<fbFrame, image>>

-----------------------------------------------------------------------------
(* The process and its connection loop.                                    *)

Restorable ==
    /\ disk # None /\ cfg.codec \in {"auto", CodecOf(disk.by)}
    /\ disk.sps # None /\ (CodecOf(disk.by) = "h265" => disk.vps # None)

(* NewStreamHandler, EnablePersistence, BuildDescription, and the start of *)
(* the loop.                                                               *)
Start ==
    /\ loop = "boot"
    /\ loop' = "connect"
    /\ LET c == IF cfg.codec = "h265" THEN "h265" ELSE "h264"
           Pre == IF cfg.mode = "none" THEN initial' = Unset /\ pre' = None
                  ELSE preEncodeFallback(c, Unset)
       IN  IF Restorable
           THEN /\ codec' = CodecOf(disk.by)
                /\ initial' = [vps |-> disk.vps, sps |-> disk.sps]
                /\ pre' \in IF cfg.mode = "none" THEN {None}
                            ELSE {Encoded(SetsOf(c), SetPair(SetsOf(c)), "generated", "default")}
                                 \cup (IF FFmpegFails THEN {None} ELSE {})
                /\ lastAU' = [disk EXCEPT !.origin = "restored"]
                /\ noted' = disk.sps
           ELSE codec' = c /\ Pre /\ UNCHANGED <<lastAU, noted>>
    /\ desc' = Description(codec', initial')
    /\ IF CanFallback THEN startFallback ELSE UNCHANGED <<fb, kind>>
    /\ UNCHANGED <<cam, cfg, live, image, disk, camSets, seenIDR, cb, consumer>>

(* The process ends anywhere, and is started again with any configuration. *)
Exit ==
    /\ loop # "boot"
    /\ codec' = "h264" /\ initial' = Unset /\ pre' = None
    /\ desc' = [codec |-> "h264", sets |-> Unset]
    /\ lastAU' = None /\ live' = FALSE /\ noted' = "default"
    /\ neutral' = None /\ enc' = None /\ warm' = FALSE
    /\ loop' = "boot" /\ camSets' = Unset /\ seenIDR' = FALSE
    /\ cb' = CbIdle /\ fb' = Off /\ kind' = "none" /\ consumer' = Out
    /\ cfg' \in Configs
    /\ UNCHANGED <<cam, disk>>

(* DESCRIBE with a comparison of parameter sets only.                      *)
MutIgnoreCodec ==
    /\ loop = "connect"
    /\ \E a \in Announces :
         LET src == IF a THEN SetPair(cam) ELSE Unset
         IN  /\ camSets' = src
             /\ IF cameraParamsDiffer(src, CodecOf(cam))
                THEN loop' = "rebuild" /\ stopFallback
                ELSE loop' = "copy" /\ UNCHANGED <<fb, kind>>
    /\ UNCHANGED <<cam, cfg, params, desc, lastAU, live, noted, image, disk, seenIDR, cb, consumer>>
(* DESCRIBE, which carries the camera's sets or not; where the stream has  *)
(* to be rebuilt, the fallback is stopped.                                 *)
Describe ==
    /\ loop = "connect"
    /\ \E a \in Announces :
         LET src == IF a THEN SetPair(cam) ELSE Unset
         IN  /\ camSets' = src
             /\ IF CodecOf(cam) # codec \/ cameraParamsDiffer(src, CodecOf(cam))
                THEN loop' = "rebuild" /\ stopFallback
                ELSE loop' = "copy" /\ UNCHANGED <<fb, kind>>
    /\ UNCHANGED <<cam, cfg, params, desc, lastAU, live, noted, image, disk, seenIDR, cb, consumer>>

rebuildFrame == <<cam, cfg, live, noted, image, disk, camSets, seenIDR, cb>>
(* The rebuild that leaves the stored keyframe in place.                   *)
MutRebuildKeepAU ==
    /\ loop = "rebuild" /\ fb.pc = "off"
    /\ SetupRaces \/ consumer.pc # "described"
    /\ loop' = "copy"
    /\ codec' = CodecOf(cam) /\ UNCHANGED lastAU
    /\ IF camSets # Unset
       THEN /\ initial' = IF codec' = "h265" THEN camSets ELSE [initial EXCEPT !.sps = camSets.sps]
            /\ UNCHANGED <<pre, fb, kind>>
       ELSE preEncodeFallback(codec', initial) /\ startFallback
    /\ desc' = Description(codec', initial')
    /\ consumer' = IF consumer.pc = "playing" THEN Out ELSE consumer
    /\ UNCHANGED rebuildFrame
(* rebuildForCodec behind its join of the fallback: the sets of the        *)
(* camera, or else a new generated frame; a new stream, whose              *)
(* predecessor's consumers are disconnected; a fallback only without the   *)
(* camera's sets, and then in every mode.                                  *)
Rebuild ==
    /\ loop = "rebuild" /\ fb.pc = "off"
    /\ SetupRaces \/ consumer.pc # "described"
    /\ loop' = "copy"
    /\ codec' = CodecOf(cam) /\ lastAU' = None
    /\ IF camSets # Unset
       THEN /\ initial' = IF codec' = "h265" THEN camSets ELSE [initial EXCEPT !.sps = camSets.sps]
            /\ UNCHANGED <<pre, fb, kind>>
       ELSE preEncodeFallback(codec', initial) /\ startFallback
    /\ desc' = Description(codec', initial')
    /\ consumer' = IF consumer.pc = "playing" THEN Out ELSE consumer
    /\ UNCHANGED rebuildFrame

(* The copy of the sets to the live description, which the server stream   *)
(* shares, and to initial.                                                 *)
CopyParams ==
    /\ loop = "copy"
    /\ loop' = "setup"
    /\ IF camSets # Unset
       THEN /\ initial' = IF codec = "h265" THEN camSets ELSE [initial EXCEPT !.sps = camSets.sps]
            /\ desc' = [desc EXCEPT !.sets = camSets]
            /\ noted' = camSets.sps
       ELSE UNCHANGED <<initial, desc, noted>>
    /\ UNCHANGED <<cam, cfg, codec, pre, lastAU, live, image, disk, camSets, seenIDR, cb, fb, kind, consumer>>

Enter == IF CanFallback THEN startFallback ELSE UNCHANGED <<fb, kind>>
loopFrame == <<cam, cfg, params, desc, lastAU, live, noted, image, disk, camSets, consumer>>
(* The loop gives a session up while its callback runs, but not while that *)
(* waits for the fallback to end.                                          *)
MayOvertake == cb.pc = "idle" \/ (Outrun /\ cb.pc # "join")

(* No picture for StallTimeout: needKey, then enterFallback.               *)
Stall ==
    /\ loop = "relay" /\ CanFallback /\ ~Recorded
    /\ MayOvertake
    /\ seenIDR' = FALSE
    /\ startFallback
    /\ UNCHANGED <<loopFrame, loop, cb>>

(* SETUP and PLAY with a new callback, or a failure of dial or handshake.  *)
Play ==
    /\ loop = "setup"
    /\ loop' = "relay" /\ seenIDR' = FALSE
    /\ UNCHANGED <<loopFrame, cb, fb, kind>>
Fail ==
    /\ loop \in {"connect", "setup"}
    /\ loop' = "connect"
    /\ Enter
    /\ UNCHANGED <<loopFrame, seenIDR, cb>>

(* The session is over: enterFallback, and then c.Close joins the callback *)
(* and the loop starts the fallback once more.                             *)
Leave ==
    /\ loop = "relay"
    /\ MayOvertake
    /\ loop' = "left"
    /\ Enter
    /\ UNCHANGED <<loopFrame, seenIDR, cb>>
Close ==
    /\ loop = "left" /\ cb.pc = "idle"
    /\ loop' = "connect"
    /\ Enter
    /\ UNCHANGED <<loopFrame, seenIDR, cb>>

-----------------------------------------------------------------------------
(* The packet callback, for a keyframe.                                    *)

cbFrame == <<cam, cfg, params, noted, image, loop, camSets, seenIDR, fb, kind, consumer>>

(* The keyframe that takes over from the fallback stops it first.          *)
TakeOver ==
    /\ loop \in {"relay", "left"} /\ cb.pc = "idle" /\ ~seenIDR
    /\ cb' = CbJoin
    /\ stopFallback
    /\ UNCHANGED <<cam, cfg, params, desc, lastAU, live, noted, image, disk, loop, camSets,
                   seenIDR, consumer>>

(* The sets in band, and ensureSPSPPS; a takeover behind its join.  A      *)
(* camera sends its sets in band unless DESCRIBE has given them.           *)
Receive ==
    /\ \/ loop \in {"relay", "left"} /\ cb.pc = "idle" /\ seenIDR
       \/ cb.pc = "join" /\ fb.pc = "off"
    /\ \E inBand \in BOOLEAN :
         LET own == IF inBand THEN SetPair(cam) ELSE Unset
         IN  /\ inBand \/ camSets = SetPair(cam)
             /\ camSets' = IF inBand THEN own ELSE camSets
             /\ cb' = [pc |-> "store",
                       au |-> ensureSets(Encoded(cam, own, "live", cam), camSets', codec)]
    /\ seenIDR' = TRUE
    /\ UNCHANGED <<cam, cfg, params, desc, lastAU, live, noted, image, disk, loop, fb, kind, consumer>>

(* storeLastCameraKeyframe: the keyframe, then the flag and the save,      *)
(* which its rate limit may suppress.                                      *)
CbStore ==
    /\ cb.pc = "store"
    /\ cb' = [cb EXCEPT !.pc = "live"]
    /\ lastAU' = cb.au
    /\ UNCHANGED <<cbFrame, desc, live, disk>>
CbLive ==
    /\ cb.pc = "live"
    /\ cb' = [cb EXCEPT !.pc = "capture"]
    /\ live' = TRUE
    /\ disk' \in {disk, cb.au}
    /\ UNCHANGED <<cbFrame, desc, lastAU>>

(* captureKeyframeH264 keeps the description current, captureKeyframeH265  *)
(* only the size; the access unit is written.                              *)
CbCapture ==
    /\ cb.pc = "capture"
    /\ cb' = CbIdle
    /\ desc' = IF codec = "h264" /\ cb.au.sps # None
               THEN [desc EXCEPT !.sets.sps = cb.au.sps] ELSE desc
    /\ noted' = IF cb.au.sps # None THEN cb.au.sps ELSE noted
    /\ UNCHANGED <<cam, cfg, params, lastAU, live, image, disk, loop, camSets, seenIDR,
                   fb, kind, consumer>>

-----------------------------------------------------------------------------
(* The camera's settings, and a consumer of the output.                    *)

CameraChanges ==
    /\ cb.pc = "idle"
    /\ \E p \in CameraSets \ {cam} :
         /\ loop \in {"boot", "connect"} \/ (MidSession /\ CodecOf(p) = CodecOf(cam))
         /\ cam' = p
    /\ UNCHANGED <<cfg, params, desc, lastAU, live, noted, image, disk, loop, camSets,
                   seenIDR, cb, fb, kind, consumer>>

consumerFrame == <<cam, cfg, params, desc, lastAU, live, noted, image, disk, loop, camSets,
                   seenIDR, cb, fb, kind>>
OnDescribe ==
    /\ loop # "boot" /\ consumer.pc = "out"
    /\ consumer' = [pc |-> "described", sdp |-> desc]
    /\ UNCHANGED consumerFrame
OnSetup ==
    /\ consumer.pc = "described"
    /\ consumer' = [consumer EXCEPT !.pc = "playing"]
    /\ UNCHANGED consumerFrame
ConsumerLeaves ==
    /\ consumer.pc # "out"
    /\ consumer' = Out
    /\ UNCHANGED consumerFrame

Fallback ==
    \/ FbReadCodec \/ FbReadFrame \/ FbHold \/ FbChoose \/ FbReadSets \/ FbDone \/ FbForget
    \/ FbCached \/ FbEncode \/ FbEncoded \/ FbEncodeFails \/ WarmBegin \/ WarmEnd
Loop == Start \/ Exit \/ Describe \/ Rebuild \/ CopyParams \/ Play \/ Fail \/ Stall \/ Leave \/ Close
Callback == TakeOver \/ Receive \/ CbStore \/ CbLive \/ CbCapture
Consumer == OnDescribe \/ OnSetup \/ ConsumerLeaves
Next == Fallback \/ Loop \/ Callback \/ CameraChanges \/ Consumer

Spec == Init /\ [][Next]_vars

-----------------------------------------------------------------------------
(* Properties.                                                             *)

(* A picture that can be decoded on its own.                               *)
Fits(au) ==
    /\ CodecOf(au.by) = desc.codec
    /\ au.sps = au.by
    /\ CodecOf(au.by) = "h265" => au.vps = au.by
Serving(origins) == fb.pc = "serve" /\ fb.frame.origin \in origins

(* A keyframe of the camera that a fallback replays carries the sets it    *)
(* was encoded with, and has the codec of the SDP: neither a rebuild nor a *)
(* restart puts another's sets in front of it.                             *)
ReplayFits == Serving({"live", "restored"}) => Fits(Served)

(* A relayed keyframe and the neutral image, which are not normalised to   *)
(* the SDP, carry the sets they were encoded with.                         *)
OwnSetsFit ==
    /\ cb.au # None => Fits(cb.au)
    /\ Serving({"neutral"}) => Fits(fb.frame)

(* Every picture of the camera a consumer receives, relayed or replayed,   *)
(* is of the encoder that its SDP, read when it connected, describes.      *)
SdpDescribesCamera ==
    LET Described(au) == /\ consumer.sdp.codec = CodecOf(au.by)
                         /\ consumer.sdp.sets \in {Unset, SetPair(au.by)}
    IN  consumer.pc = "playing" =>
            /\ cb.au # None => Described(cb.au)
            /\ Serving({"live", "restored"}) => Described(fb.frame)

(* The neutral image a fallback serves has the size of the camera's latest *)
(* pictures, or of the latest DESCRIBE: although FFmpeg may have begun it  *)
(* under an older key, and although it stays cached through sessions and   *)
(* rebuilds.  Without a pre-encoded frame the first DESCRIBE changes the   *)
(* size and rebuilds nothing.                                              *)
NeutralFollowsCamera == Serving({"neutral"}) /\ pre # None => fb.frame.size = noted

(* What /status says is what the fallback shows, as long as nobody has     *)
(* stopped it; it says none once the fallback is gone, although a stopped  *)
(* one may still have set the kind.  A picture encoded on the spot passes  *)
(* for the last keyframe.                                                  *)
KindTells ==
    /\ fb.pc = "off" => kind = "none"
    /\ Recorded => kind # "none"
    /\ fb.pc = "serve" /\ Recorded =>
           /\ kind = "neutral" => fb.frame.origin \in {"generated", "neutral"}
           /\ kind = "last_keyframe" /\ (Neutral \/ pre # None) =>
                  fb.frame.origin \in {"live", "restored"}

(* What the fallback shows follows its mode, given what the handler has of *)
(* the camera: a detection stream shows a keyframe only if it arrived live *)
(* in this process, and never again after the neutral image; any other     *)
(* shows a generated picture only while no keyframe is stored.             *)
Mode == IF cfg.mode = "none" THEN "none" ELSE IF Neutral THEN "detection" ELSE "replay"
Kept == IF loop = "boot" THEN "unread" ELSE IF lastAU = None THEN "nothing" ELSE lastAU.origin
Shown == IF fb.pc \in {"serve", "switch"} THEN fb.frame.origin ELSE "nothing"
Policy == INSTANCE FallbackPolicy WITH mode <- Mode, kept <- Kept, shown <- Shown
FollowsPolicy == Policy!Spec

(* Once the camera has streamed, its last keyframe is replayed and nothing *)
(* generated is shown: README.md of mode offline, and the comments of      *)
(* rebuildForCodec, which know no sets to send a generated picture with.   *)
ReplayOnceStreamed == live => ~Serving({"generated"})
=============================================================================
