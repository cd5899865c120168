---------------------------- MODULE StreamHandler ----------------------------
(***************************************************************************)
(* One StreamHandler (internal/proxy/stream_handler.go): the goroutines    *)
(* that connect to a camera, relay its packets, and feed the output with   *)
(* generated video and silent audio while the camera sleeps.               *)
(*                                                                         *)
(*   loop     loop and connectAndRelay, one goroutine for the whole life   *)
(*   cb       the OnPacketRTPAny callback, run by gortsplib's reader       *)
(*   fb[f]    a runFallback goroutine, one per call of startFallback that  *)
(*            does not return early                                        *)
(*   sil[s]   a runSilenceAudio goroutine                                  *)
(*   main     the goroutine that calls Stop                                *)
(*                                                                         *)
(* A step is what one goroutine does between two points where another can  *)
(* be noticed: a critical section, an atomic store, a blocking wait.       *)
(* Packets are "idr" (an access unit with a keyframe), "pic" (a picture    *)
(* that needs an earlier one), "part" (no complete picture yet) or         *)
(* "audio".  Time is the two flags the ticker tests.                       *)
(***************************************************************************)
EXTENDS Naturals

CONSTANTS
    FbIds,          \* identities of fallback goroutines, reused when dead
    SilIds,         \* identities of silence goroutines, reused when dead
    NoId,           \* a cancel function that is nil, a base nobody has set
    CanFallback,    \* BatteryMode and FallbackMode # "none"
    HasAudio,       \* the camera offers an audio track that can be relayed
    CanRebuild,     \* DESCRIBE may reveal another codec or parameter sets
    FallbackFails,  \* runFallback may return before it sends anything
    SlowSteps       \* a goroutine may be held up for a whole timeout between any
                    \* two steps, not only where the code waits or encodes

ASSUME IdAssumption == NoId \notin FbIds \cup SilIds /\ "camera" \notin FbIds \cup SilIds
ASSUME ConfigAssumption ==
    /\ CanFallback \in BOOLEAN
    /\ HasAudio \in BOOLEAN
    /\ CanRebuild \in BOOLEAN
    /\ FallbackFails \in BOOLEAN
    /\ SlowSteps \in BOOLEAN

VARIABLES
    state,          \* the status: sh.state
    stream,         \* sh.stream is not nil
    needKey,        \* the relay must wait for a fresh keyframe
    videoBase,      \* whose first packet set the video timeline since its reset
    audioBase,      \* the same for audio
    fallbackCancel, \* the goroutine whose cancel function is recorded
    silenceCancel,
    fb,             \* program counter of each fallback goroutine
    fbCancelled,    \* fallback goroutines whose context stopFallback cancelled
    sil,
    silCancelled,
    loop,           \* program counter of the loop goroutine
    playing,        \* the RTSP session is playing and its connection is up
    connQuiet,      \* no packet for Timeout
    videoQuiet,     \* no video packet for StallTimeout
    cb,             \* program counter of the packet callback
    au,             \* the packet it works on
    seenIDR,        \* local to the callback's closure
    silenceStopped, \* local to the callback's closure
    main,           \* program counter of the goroutine that calls Stop
    done            \* the handler's context is cancelled

loopVars == <<loop, playing, connQuiet, videoQuiet>>
cbVars == <<cb, au, seenIDR, silenceStopped>>
fbVars == <<fallbackCancel, fb, fbCancelled>>
silVars == <<silenceCancel, sil, silCancelled>>
outVars == <<stream, videoBase, audioBase>>
statusVars == <<state, needKey>>
stopVars == <<main, done>>

vars == <<state, stream, needKey, videoBase, audioBase,
          fallbackCancel, silenceCancel, fb, fbCancelled, sil, silCancelled,
          loop, playing, connQuiet, videoQuiet, cb, au, seenIDR,
          silenceStopped, main, done>>

Packets == {"idr", "pic", "part"} \cup (IF HasAudio THEN {"audio"} ELSE {})

LoopPCs == {"boot", "check", "dial", "gate", "describe", "rbFallback",
            "rbFbWait", "rbSilence", "rbSilWait", "rbSwap", "rbOpen",
            "rbStart", "setup", "play", "online", "relay",
            "stallKey", "stallSleep", "stallStart", "endSleep", "endStart",
            "close", "closing", "settle", "retry", "done"}
CbPCs == {"idle", "fbStop", "fbWait", "fbAsleep", "fbWoken", "switch",
          "needKey", "online", "write", "silStop", "silWait", "silAsleep",
          "silWoken", "audioReset", "audioWrite"}

FlagsOK ==
    /\ stream \in BOOLEAN /\ needKey \in BOOLEAN
    /\ playing \in BOOLEAN /\ connQuiet \in BOOLEAN /\ videoQuiet \in BOOLEAN
    /\ seenIDR \in BOOLEAN /\ silenceStopped \in BOOLEAN /\ done \in BOOLEAN
CountersOK ==
    /\ state \in {"disconnected", "connecting", "online", "sleeping"}
    /\ videoBase \in FbIds \cup {NoId, "camera"}
    /\ audioBase \in SilIds \cup {NoId, "camera"}
    /\ fallbackCancel \in FbIds \cup {NoId}
    /\ silenceCancel \in SilIds \cup {NoId}
    /\ fb \in [FbIds -> {"none", "prepare", "run", "exit", "last"}]
    /\ fbCancelled \subseteq FbIds
    /\ sil \in [SilIds -> {"none", "run"}]
    /\ silCancelled \subseteq SilIds
    /\ loop \in LoopPCs /\ cb \in CbPCs
    /\ au \in Packets \cup {NoId}
    /\ main \in {"run", "wait", "fallback", "silence", "silWait", "stopped"}
TypeOK == FlagsOK /\ CountersOK

(* The state after NewStreamHandler, SetStream and Start.                  *)
Init ==
    /\ state = "disconnected" /\ stream = TRUE
    /\ needKey = FALSE
    /\ videoBase = NoId /\ audioBase = NoId
    /\ fallbackCancel = NoId /\ fb = [f \in FbIds |-> "none"] /\ fbCancelled = {}
    /\ silenceCancel = NoId /\ sil = [s \in SilIds |-> "none"] /\ silCancelled = {}
    /\ loop = "boot" /\ playing = FALSE
    /\ connQuiet = FALSE /\ videoQuiet = FALSE
    /\ cb = "idle" /\ au = NoId /\ seenIDR = FALSE /\ silenceStopped = FALSE
    /\ main = "run" /\ done = FALSE

-----------------------------------------------------------------------------
(* Shared helpers.                                                         *)

(* The counters of fallbackWg and silenceWg are zero.                      *)
FbAllDone == \A f \in FbIds : fb[f] = "none"
SilAllDone == \A s \in SilIds : sil[s] = "none"

(* A fallback context that is not derived from the handler's.              *)
MutFbBackground(f) == f \in fbCancelled

(* The contexts a generator selects on.                                    *)
FbDone(f) == done \/ f \in fbCancelled
SilDone(s) == done \/ s \in silCancelled

(* Variants named Mut... are plausible slips in the definition below them; *)
(* nothing uses them but the checks that the properties notice such slips. *)

(* startSilenceAudio without its early return.                             *)
MutSilenceTwice ==
    \E s \in SilIds :
        /\ sil[s] = "none"
        /\ sil' = [sil EXCEPT ![s] = "run"]
        /\ silenceCancel' = s
        /\ silCancelled' = silCancelled \ {s}

startSilenceAudio ==
    \/ /\ silenceCancel # NoId
       /\ UNCHANGED silVars
    \/ /\ silenceCancel = NoId
       /\ \E s \in SilIds :
            /\ sil[s] = "none"
            /\ sil' = [sil EXCEPT ![s] = "run"]
            /\ silenceCancel' = s
            /\ silCancelled' = silCancelled \ {s}

(* startFallback without its early return.                                 *)
MutFallbackTwice ==
    /\ \E f \in FbIds :
         /\ fb[f] = "none"
         /\ fb' = [fb EXCEPT ![f] = "prepare"]
         /\ fallbackCancel' = f
    /\ videoBase' = NoId
    /\ audioBase' = NoId
    /\ startSilenceAudio
    /\ UNCHANGED fbCancelled

(* One critical section of fallbackMu.                                     *)
startFallback ==
    \/ /\ fallbackCancel # NoId
       /\ UNCHANGED <<fbVars, silVars, videoBase, audioBase>>
    \/ /\ fallbackCancel = NoId
       /\ \E f \in FbIds :
            /\ fb[f] = "none"
            /\ fb' = [fb EXCEPT ![f] = "prepare"]
            /\ fallbackCancel' = f
       /\ videoBase' = NoId
       /\ audioBase' = NoId
       /\ startSilenceAudio
       /\ UNCHANGED fbCancelled

(* stopFallback that keeps the record, that calls a nil cancel, that       *)
(* forgets to call it.                                                     *)
MutKeepRecord ==
    /\ fbCancelled' = fbCancelled \cup ({fallbackCancel} \ {NoId})
    /\ UNCHANGED <<fb, fallbackCancel>>
MutCancelNil ==
    /\ fallbackCancel' = NoId
    /\ fbCancelled' = fbCancelled \cup {fallbackCancel}
    /\ UNCHANGED fb
MutNoCancel ==
    /\ fallbackCancel' = NoId
    /\ UNCHANGED <<fb, fbCancelled>>

(* stopFallback up to its Wait.  The cancel() that follows the critical    *)
(* section belongs to the same step: only the goroutine it cancels can     *)
(* tell when it happens, and that one may always be late to notice.        *)
takeFallback ==
    /\ fallbackCancel' = NoId
    /\ fbCancelled' = fbCancelled \cup ({fallbackCancel} \ {NoId})
    /\ UNCHANGED fb

(* stopSilenceAudio that forgets to call the cancel function.              *)
MutSilenceNoCancel ==
    /\ silenceCancel' = NoId
    /\ UNCHANGED <<sil, silCancelled>>

(* stopSilenceAudio up to its Wait.                                        *)
takeSilence ==
    /\ silenceCancel' = NoId
    /\ silCancelled' = silCancelled \cup ({silenceCancel} \ {NoId})
    /\ UNCHANGED sil

-----------------------------------------------------------------------------
(* The loop goroutine: loop and connectAndRelay.                           *)

LoopGoto(from, to) == loop = from /\ loop' = to

(* A battery camera gets its fallback before the first connection attempt. *)
Boot ==
    /\ LoopGoto("boot", "check")
    /\ IF CanFallback
         THEN state' = "sleeping" /\ startFallback
         ELSE UNCHANGED <<state, fbVars, silVars, videoBase, audioBase>>
    /\ UNCHANGED <<stream, needKey, playing, connQuiet, videoQuiet,
                   cbVars, stopVars>>

Check ==
    /\ loop = "check"
    /\ IF done THEN loop' = "done" /\ UNCHANGED state
               ELSE loop' = "dial" /\ state' = "connecting"
    /\ UNCHANGED <<needKey, playing, connQuiet, videoQuiet, cbVars,
                   fbVars, silVars, outVars, stopVars>>

(* probeTCP: no client exists yet, a failure returns straight to loop.     *)
Dial ==
    /\ loop = "dial"
    /\ loop' \in IF done THEN {"settle"} ELSE {"gate", "settle"}
    /\ UNCHANGED <<playing, connQuiet, videoQuiet, cbVars, fbVars, silVars,
                   outVars, statusVars, stopVars>>

(* The handshake gate, then the check of the context behind it.            *)
Gate ==
    /\ loop = "gate"
    /\ loop' = IF done THEN "close" ELSE "describe"
    /\ UNCHANGED <<playing, connQuiet, videoQuiet, cbVars, fbVars, silVars,
                   outVars, statusVars, stopVars>>

(* DESCRIBE fails, or its answer fits the advertised SDP, or it does not.  *)
Describe ==
    /\ loop = "describe"
    /\ loop' \in {"close", "setup"} \cup (IF CanRebuild THEN {"rbFallback"} ELSE {})
    /\ UNCHANGED <<playing, connQuiet, videoQuiet, cbVars, fbVars, silVars,
                   outVars, statusVars, stopVars>>

(* rebuildForCodec, in the order of the code.                              *)
RebuildStopFallback ==
    /\ LoopGoto("rbFallback", "rbFbWait")
    /\ takeFallback
    /\ UNCHANGED <<playing, connQuiet, videoQuiet, cbVars, silVars, outVars,
                   statusVars, stopVars>>

(* stopFallback in rebuildForCodec without its Wait.                       *)
MutRebuildNoWait ==
    /\ LoopGoto("rbFbWait", "rbSilence")
    /\ UNCHANGED <<playing, connQuiet, videoQuiet, cbVars, fbVars, silVars,
                   outVars, statusVars, stopVars>>

RebuildWaitFallback ==
    /\ LoopGoto("rbFbWait", "rbSilence")
    /\ FbAllDone
    /\ UNCHANGED <<playing, connQuiet, videoQuiet, cbVars, fbVars, silVars,
                   outVars, statusVars, stopVars>>

RebuildStopSilence ==
    /\ LoopGoto("rbSilence", "rbSilWait")
    /\ takeSilence
    /\ UNCHANGED <<playing, connQuiet, videoQuiet, cbVars, fbVars, outVars,
                   statusVars, stopVars>>

RebuildWaitSilence ==
    /\ LoopGoto("rbSilWait", "rbSwap")
    /\ SilAllDone
    /\ UNCHANGED <<playing, connQuiet, videoQuiet, cbVars, fbVars, silVars,
                   outVars, statusVars, stopVars>>

(* rebuildCb closes the old server stream and opens the new one.           *)
RebuildClearStream ==
    /\ LoopGoto("rbSwap", "rbOpen")
    /\ stream' = FALSE
    /\ UNCHANGED <<playing, connQuiet, videoQuiet, cbVars, fbVars, silVars,
                   videoBase, audioBase, statusVars, stopVars>>

RebuildSetStream ==
    /\ LoopGoto("rbOpen", "rbStart")
    /\ stream' = TRUE
    /\ UNCHANGED <<playing, connQuiet, videoQuiet, cbVars, fbVars, silVars,
                   videoBase, audioBase, statusVars, stopVars>>

(* Silence always; the generated fallback only when the camera's parameter *)
(* sets are unknown, whatever the configured fallback mode.                *)
RebuildStart ==
    /\ LoopGoto("rbStart", "setup")
    /\ \/ startSilenceAudio /\ UNCHANGED <<fbVars, videoBase, audioBase>>
       \/ startFallback
    /\ UNCHANGED <<stream, playing, connQuiet, videoQuiet, cbVars, statusVars,
                   stopVars>>

(* The context checks, SETUP, registerCallback with its fresh closure.     *)
Setup ==
    /\ loop = "setup"
    /\ loop' \in IF done THEN {"close"} ELSE {"play", "close"}
    /\ seenIDR' = FALSE
    /\ silenceStopped' = FALSE
    /\ connQuiet' = FALSE /\ videoQuiet' = FALSE
    /\ UNCHANGED <<playing, cb, au, fbVars, silVars, outVars, statusVars,
                   stopVars>>

(* From here on the callback may run.                                      *)
Play ==
    /\ loop = "play"
    /\ \/ loop' = "online" /\ playing' = TRUE
       \/ loop' = "close" /\ UNCHANGED playing
    /\ UNCHANGED <<connQuiet, videoQuiet, cbVars, fbVars, silVars, outVars,
                   statusVars, stopVars>>

Online ==
    /\ LoopGoto("online", "relay")
    /\ state' = "online"
    /\ UNCHANGED <<needKey, playing, connQuiet, videoQuiet, cbVars,
                   fbVars, silVars, outVars, stopVars>>

(* The three cases of the select: the context, c.Wait, the ticker.  c.Wait *)
(* returns once the reader, and with it the callback, has ended.           *)
RelayDone ==
    /\ LoopGoto("relay", "close")
    /\ done
    /\ UNCHANGED <<playing, connQuiet, videoQuiet, cbVars, fbVars, silVars,
                   outVars, statusVars, stopVars>>

RelayEnds ==
    /\ loop = "relay"
    /\ \/ ~playing /\ cb = "idle"
       \/ connQuiet
    /\ loop' = IF CanFallback THEN "endSleep" ELSE "close"
    /\ UNCHANGED <<playing, connQuiet, videoQuiet, cbVars, fbVars, silVars,
                   outVars, statusVars, stopVars>>

RelayStalls ==
    /\ LoopGoto("relay", "stallKey")
    /\ CanFallback /\ fallbackCancel = NoId /\ videoQuiet /\ ~connQuiet
    /\ UNCHANGED <<playing, connQuiet, videoQuiet, cbVars, fbVars, silVars,
                   outVars, statusVars, stopVars>>

StallNeedKey ==
    /\ LoopGoto("stallKey", "stallSleep")
    /\ needKey' = TRUE
    /\ UNCHANGED <<state, playing, connQuiet, videoQuiet, cbVars,
                   fbVars, silVars, outVars, stopVars>>

(* enterFallback: the status, then the generator.                          *)
EnterSleeping ==
    /\ \/ LoopGoto("stallSleep", "stallStart")
       \/ LoopGoto("endSleep", "endStart")
    /\ state' = "sleeping"
    /\ UNCHANGED <<needKey, playing, connQuiet, videoQuiet, cbVars,
                   fbVars, silVars, outVars, stopVars>>

EnterFallback ==
    /\ \/ LoopGoto("stallStart", "relay")
       \/ LoopGoto("endStart", "close")
    /\ startFallback
    /\ UNCHANGED <<stream, playing, connQuiet, videoQuiet, cbVars, statusVars,
                   stopVars>>

(* connectAndRelay without the deferred c.Close.                           *)
MutNoClose ==
    /\ LoopGoto("close", "settle")
    /\ UNCHANGED <<playing, connQuiet, videoQuiet, cbVars, fbVars, silVars,
                   outVars, statusVars, stopVars>>

(* The deferred c.Close: it cuts the connection and returns when the       *)
(* reader has ended.                                                       *)
Close ==
    /\ LoopGoto("close", "closing")
    /\ playing' = FALSE
    /\ UNCHANGED <<connQuiet, videoQuiet, cbVars, fbVars, silVars, outVars,
                   statusVars, stopVars>>

CloseWait ==
    /\ LoopGoto("closing", "settle")
    /\ cb = "idle"
    /\ UNCHANGED <<playing, connQuiet, videoQuiet, cbVars, fbVars, silVars,
                   outVars, statusVars, stopVars>>

(* Back in loop, every return of connectAndRelay is an error.              *)
Settle ==
    /\ loop = "settle"
    /\ \/ /\ done
          /\ loop' = "done"
          /\ UNCHANGED <<state, fbVars, silVars, videoBase, audioBase>>
       \/ /\ ~done
          /\ loop' = "retry"
          /\ IF CanFallback
               THEN state' = "sleeping" /\ startFallback
               ELSE /\ state' = "disconnected"
                    /\ UNCHANGED <<fbVars, silVars, videoBase, audioBase>>
    /\ UNCHANGED <<stream, needKey, playing, connQuiet, videoQuiet,
                   cbVars, stopVars>>

Retry ==
    /\ loop = "retry"
    /\ loop' \in IF done THEN {"check", "done"} ELSE {"check"}
    /\ UNCHANGED <<playing, connQuiet, videoQuiet, cbVars, fbVars, silVars,
                   outVars, statusVars, stopVars>>

LoopStep ==
    \/ Boot \/ Check \/ Dial \/ Gate \/ Describe
    \/ RebuildStopFallback \/ RebuildWaitFallback \/ RebuildStopSilence
    \/ RebuildWaitSilence \/ RebuildClearStream \/ RebuildSetStream \/ RebuildStart
    \/ Setup \/ Play \/ Online
    \/ RelayDone \/ RelayEnds \/ RelayStalls \/ StallNeedKey
    \/ EnterSleeping \/ EnterFallback
    \/ Close \/ CloseWait \/ Settle \/ Retry

-----------------------------------------------------------------------------
(* The goroutines startFallback starts.                                    *)

(* runFallback up to its ticker: choosing and encoding frames may take     *)
(* seconds, and may fail.                                                  *)
FbPrepare(f) ==
    /\ fb[f] = "prepare"
    /\ \/ ~FbDone(f) /\ fb' = [fb EXCEPT ![f] = "run"]
       \/ (FbDone(f) \/ FallbackFails) /\ fb' = [fb EXCEPT ![f] = "exit"]
    /\ UNCHANGED <<fallbackCancel, fbCancelled, loopVars, cbVars, silVars,
                   outVars, statusVars, stopVars>>

(* A tick: the first packet after a reset fixes the timeline.  The select  *)
(* may take the tick although the context is done.                         *)
FbWrite(f) ==
    /\ fb[f] = "run" /\ stream /\ videoBase = NoId
    /\ videoBase' = f
    /\ UNCHANGED <<stream, audioBase, loopVars, cbVars, fbVars, silVars,
                   statusVars, stopVars>>

FbReturn(f) ==
    /\ fb[f] = "run" /\ FbDone(f)
    /\ fb' = [fb EXCEPT ![f] = "exit"]
    /\ UNCHANGED <<fallbackCancel, fbCancelled, loopVars, cbVars, silVars,
                   outVars, statusVars, stopVars>>

(* The deferred calls, first the one that forgets the recorded cancel      *)
(* function, whichever it is.                                              *)
FbForget(f) ==
    /\ fb[f] = "exit"
    /\ fb' = [fb EXCEPT ![f] = "last"]
    /\ fallbackCancel' = NoId
    /\ UNCHANGED <<fbCancelled, loopVars, cbVars, silVars, outVars, statusVars,
                   stopVars>>

(* fallbackWg.Done, which wakes a waiting callback when the counter gets   *)
(* to zero, and wg.Done.                                                   *)
FbEnd(f) ==
    /\ fb[f] = "last"
    /\ fb' = [fb EXCEPT ![f] = "none"]
    /\ fbCancelled' = fbCancelled \ {f}
    /\ cb' = IF cb = "fbAsleep" /\ \A g \in FbIds \ {f} : fb[g] = "none"
               THEN "fbWoken" ELSE cb
    /\ UNCHANGED <<fallbackCancel, loopVars, au, seenIDR, silenceStopped,
                   silVars, outVars, statusVars, stopVars>>

FbStep(f) == FbPrepare(f) \/ FbWrite(f) \/ FbReturn(f) \/ FbForget(f) \/ FbEnd(f)

SilWrite(s) ==
    /\ sil[s] = "run" /\ stream /\ audioBase = NoId
    /\ audioBase' = s
    /\ UNCHANGED <<stream, videoBase, loopVars, cbVars, fbVars, silVars,
                   statusVars, stopVars>>

SilEnd(s) ==
    /\ sil[s] = "run" /\ SilDone(s)
    /\ sil' = [sil EXCEPT ![s] = "none"]
    /\ silCancelled' = silCancelled \ {s}
    /\ cb' = IF cb = "silAsleep" /\ \A t \in SilIds \ {s} : sil[t] = "none"
               THEN "silWoken" ELSE cb
    /\ UNCHANGED <<silenceCancel, loopVars, au, seenIDR, silenceStopped,
                   fbVars, outVars, statusVars, stopVars>>

SilStep(s) == SilWrite(s) \/ SilEnd(s)

-----------------------------------------------------------------------------
(* The packet callback.                                                    *)

CbGoto(from, to) == cb = from /\ cb' = to

(* A packet arrives: the two arrival times, and the test whether a picture *)
(* must be a keyframe.                                                     *)
Receive(p) ==
    /\ cb = "idle" /\ playing
    /\ connQuiet' = FALSE
    /\ IF p = "audio"
         THEN /\ UNCHANGED videoQuiet
              /\ cb' = IF silenceStopped THEN "audioWrite" ELSE "silStop"
              /\ au' = p
         ELSE /\ videoQuiet' = FALSE
              /\ \/ /\ p = "part" \/ (p = "pic" /\ (~seenIDR \/ needKey))
                    /\ UNCHANGED <<cb, au>>
                 \/ /\ p = "pic" /\ seenIDR /\ ~needKey
                    /\ cb' = "write" /\ au' = p
                 \/ /\ p = "idr"
                    /\ cb' = IF ~seenIDR \/ needKey THEN "fbStop" ELSE "write"
                    /\ au' = p
    /\ UNCHANGED <<loop, playing, seenIDR, silenceStopped, fbVars, silVars,
                   outVars, statusVars, stopVars>>

CbStopFallback ==
    /\ CbGoto("fbStop", "fbWait")
    /\ takeFallback
    /\ UNCHANGED <<loopVars, au, seenIDR, silenceStopped, silVars, outVars,
                   statusVars, stopVars>>

(* stopFallback without its Wait.                                          *)
MutCbNoWait ==
    /\ CbGoto("fbWait", "switch")
    /\ UNCHANGED <<loopVars, au, seenIDR, silenceStopped, fbVars, silVars,
                   outVars, statusVars, stopVars>>

(* fallbackWg.Wait looks at the counter once and sleeps if it is not zero. *)
CbWaitFallback ==
    /\ cb = "fbWait"
    /\ cb' = IF FbAllDone THEN "switch" ELSE "fbAsleep"
    /\ UNCHANGED <<loopVars, au, seenIDR, silenceStopped, fbVars, silVars,
                   outVars, statusVars, stopVars>>

(* A woken waiter that finds the counter raised again panics; the callback *)
(* recovers, and this packet is lost.                                      *)
CbWakeFallback ==
    /\ cb = "fbWoken"
    /\ IF FbAllDone THEN cb' = "switch" /\ UNCHANGED au
                    ELSE cb' = "idle" /\ au' = NoId
    /\ UNCHANGED <<loopVars, seenIDR, silenceStopped, fbVars, silVars, outVars,
                   statusVars, stopVars>>

(* The camera takes over: timeline, keyframe flag, status.                 *)
CbSwitch ==
    /\ CbGoto("switch", "needKey")
    /\ videoBase' = NoId
    /\ seenIDR' = TRUE
    /\ UNCHANGED <<stream, audioBase, state, needKey, au, silenceStopped,
                   loopVars, fbVars, silVars, stopVars>>

CbClearNeedKey ==
    /\ CbGoto("needKey", "online")
    /\ needKey' = FALSE
    /\ UNCHANGED <<state, au, seenIDR, silenceStopped, loopVars,
                   fbVars, silVars, outVars, stopVars>>

CbOnline ==
    /\ CbGoto("online", "write")
    /\ state' = "online"
    /\ UNCHANGED <<needKey, au, seenIDR, silenceStopped, loopVars,
                   fbVars, silVars, outVars, stopVars>>

(* writeToStream for the packets of the access unit.                       *)
CbWrite ==
    /\ CbGoto("write", "idle")
    /\ au' = NoId
    /\ videoBase' = IF stream /\ videoBase = NoId THEN "camera" ELSE videoBase
    /\ UNCHANGED <<stream, audioBase, seenIDR, silenceStopped, loopVars, fbVars,
                   silVars, statusVars, stopVars>>

CbStopSilence ==
    /\ CbGoto("silStop", "silWait")
    /\ takeSilence
    /\ UNCHANGED <<loopVars, au, seenIDR, silenceStopped, fbVars, outVars,
                   statusVars, stopVars>>

(* stopSilenceAudio without its Wait.                                      *)
MutCbNoSilWait ==
    /\ CbGoto("silWait", "audioReset")
    /\ UNCHANGED <<loopVars, au, seenIDR, silenceStopped, fbVars, silVars,
                   outVars, statusVars, stopVars>>

CbWaitSilence ==
    /\ cb = "silWait"
    /\ cb' = IF SilAllDone THEN "audioReset" ELSE "silAsleep"
    /\ UNCHANGED <<loopVars, au, seenIDR, silenceStopped, fbVars, silVars,
                   outVars, statusVars, stopVars>>

CbWakeSilence ==
    /\ cb = "silWoken"
    /\ IF SilAllDone THEN cb' = "audioReset" /\ UNCHANGED au
                     ELSE cb' = "idle" /\ au' = NoId
    /\ UNCHANGED <<loopVars, seenIDR, silenceStopped, fbVars, silVars, outVars,
                   statusVars, stopVars>>

CbAudioReset ==
    /\ CbGoto("audioReset", "audioWrite")
    /\ audioBase' = NoId
    /\ silenceStopped' = TRUE
    /\ UNCHANGED <<stream, videoBase, au, seenIDR, loopVars, fbVars, silVars,
                   statusVars, stopVars>>

(* relayCameraAudio.                                                       *)
CbAudioWrite ==
    /\ CbGoto("audioWrite", "idle")
    /\ au' = NoId
    /\ audioBase' = IF stream /\ audioBase = NoId THEN "camera" ELSE audioBase
    /\ UNCHANGED <<stream, videoBase, seenIDR, silenceStopped, loopVars, fbVars,
                   silVars, statusVars, stopVars>>

CbStep ==
    \/ CbStopFallback \/ CbWaitFallback \/ CbWakeFallback
    \/ CbSwitch \/ CbClearNeedKey \/ CbOnline \/ CbWrite
    \/ CbStopSilence \/ CbWaitSilence \/ CbWakeSilence
    \/ CbAudioReset \/ CbAudioWrite

-----------------------------------------------------------------------------
(* The camera and the clock.                                               *)

CameraCloses ==
    /\ playing
    /\ playing' = FALSE
    /\ UNCHANGED <<loop, connQuiet, videoQuiet, cbVars, fbVars, silVars,
                   outVars, statusVars, stopVars>>

(* Time passes without a packet, or without a video packet.                *)
Quiet ==
    /\ loop = "relay"
    /\ \/ SlowSteps
       \/ /\ cb \in {"idle", "fbAsleep", "silAsleep"}
          /\ \A f \in FbIds : fb[f] \notin {"exit", "last"}
    /\ \/ videoQuiet' = TRUE /\ UNCHANGED connQuiet
       \/ connQuiet' = TRUE /\ UNCHANGED videoQuiet
    /\ UNCHANGED <<loop, playing, cbVars, fbVars, silVars, outVars, statusVars,
                   stopVars>>

-----------------------------------------------------------------------------
(* Stop: cancel, wg.Wait, stopFallback, stopSilenceAudio.                  *)

StopCancel ==
    /\ main = "run" /\ main' = "wait"
    /\ done' = TRUE
    /\ UNCHANGED <<loopVars, cbVars, fbVars, silVars, outVars, statusVars>>

(* startFallback without wg.Add(1).                                        *)
MutWgLoopOnly ==
    /\ main = "wait" /\ main' = "fallback"
    /\ loop = "done"
    /\ UNCHANGED <<done, loopVars, cbVars, fbVars, silVars, outVars, statusVars>>

(* wg counts the loop and every fallback goroutine.                        *)
StopWait ==
    /\ main = "wait" /\ main' = "fallback"
    /\ loop = "done" /\ FbAllDone
    /\ UNCHANGED <<done, loopVars, cbVars, fbVars, silVars, outVars, statusVars>>

StopFallback ==
    /\ main = "fallback" /\ main' = "silence"
    /\ takeFallback
    /\ UNCHANGED <<done, loopVars, cbVars, silVars, outVars, statusVars>>

StopSilence ==
    /\ main = "silence" /\ FbAllDone /\ main' = "silWait"
    /\ takeSilence
    /\ UNCHANGED <<done, loopVars, cbVars, fbVars, outVars, statusVars>>

StopReturn ==
    /\ main = "silWait" /\ main' = "stopped"
    /\ SilAllDone
    /\ UNCHANGED <<done, loopVars, cbVars, fbVars, silVars, outVars, statusVars>>

Stopped == main = "stopped" /\ UNCHANGED vars

StopStep == StopWait \/ StopFallback \/ StopSilence \/ StopReturn

Next ==
    \/ LoopStep
    \/ \E f \in FbIds : FbStep(f)
    \/ \E s \in SilIds : SilStep(s)
    \/ \E p \in Packets : Receive(p)
    \/ CbStep
    \/ CameraCloses \/ Quiet
    \/ StopCancel \/ StopStep \/ Stopped

Spec == Init /\ [][Next]_vars

(* Every goroutine that can go on does.  The select of connectAndRelay     *)
(* picks at random among the cases that are ready, so a context that stays *)
(* done is not passed over for ever in favour of the ticker.  The camera,  *)
(* the clock and the operator who stops the proxy owe nothing.             *)
Fairness ==
    /\ WF_vars(LoopStep)
    /\ SF_vars(RelayDone)
    /\ WF_vars(CbStep)
    /\ \A f \in FbIds : WF_vars(FbStep(f))
    /\ \A s \in SilIds : WF_vars(SilStep(s))
    /\ WF_vars(StopStep)

FairSpec == Spec /\ Fairness

-----------------------------------------------------------------------------
(* Properties.                                                             *)

(* A recorded cancel function belongs to a generator that has not given up *)
(* its record and that nobody has stopped, and the generator still serves  *)
(* unless the handler is being stopped or it could make no picture: then   *)
(* the early return of startFallback ("already running") trusts a dying    *)
(* one, and in no other case, whatever stalls, sessions and callbacks did. *)
RecordedIsLive ==
    fallbackCancel # NoId =>
        /\ fb[fallbackCancel] \in {"prepare", "run", "exit"}
        /\ fallbackCancel \notin fbCancelled
        /\ fb[fallbackCancel] = "exit" => FallbackFails \/ done

(* A battery camera's stream never lacks video between two sessions: from  *)
(* the end of a session to the answer of the next DESCRIBE some fallback   *)
(* goroutine lives that nobody has stopped, whatever the callbacks, stalls *)
(* and generators of earlier sessions did to fallbackCancel.               *)
BetweenSessions == {"check", "dial", "gate", "describe", "retry"}
Serving(f) == fb[f] \in {"prepare", "run"} /\ ~FbDone(f)
AsleepHasFallback ==
    CanFallback /\ ~FallbackFails /\ ~done /\ loop \in BetweenSessions
        => \E f \in FbIds : Serving(f)

(* At most two fallback goroutines can write, although startFallback runs  *)
(* again whenever the record is empty: repeated stalls while a generator   *)
(* is slow to stop do not pile up generators.                              *)
Writers == {f \in FbIds : fb[f] \in {"prepare", "run"}}
AtMostTwoWriters ==
    \A f, g, h \in Writers : f = g \/ g = h \/ f = h

(* At most one silence goroutine is not cancelled, and it is the recorded  *)
(* one, so that stopSilenceAudio always reaches it.                        *)
SilenceReachable ==
    \A s \in SilIds : sil[s] = "run" /\ ~SilDone(s) => silenceCancel = s

(* The status of a handler that is not in a session is the loop's own: a   *)
(* callback or a stall of the session before never shows through.          *)
StatusFollowsLoop ==
    /\ loop = "retry" => state = IF CanFallback THEN "sleeping" ELSE "disconnected"
    /\ loop \in {"dial", "gate", "describe", "rbFallback", "rbFbWait",
                 "rbSilence", "rbSilWait", "rbSwap", "rbOpen", "rbStart",
                 "setup", "play"} => state = "connecting"

(* While rebuildForCodec swaps the server stream nobody is left to write,  *)
(* so writeToStream never drops a packet for want of a stream.             *)
NoWriterDuringRebuild ==
    ~stream => FbAllDone /\ SilAllDone /\ cb = "idle"

(* Nothing runs once the loop has ended and its goroutines are joined: no  *)
(* goroutine outlives Stop, and no fallback starts behind its back.        *)
StopJoinsAll ==
    /\ main \in {"fallback", "silence", "silWait", "stopped"} =>
         loop = "done" /\ cb = "idle" /\ FbAllDone
    /\ main = "stopped" => SilAllDone

(* Without a battery fallback the camera's pictures and generated frames   *)
(* never alternate: the callback has joined every generator before it      *)
(* relays a picture, and each source writes on a timeline of its own.      *)
OneVideoSource ==
    /\ cb = "write" => Writers = {} /\ videoBase \in {NoId, "camera"}
    /\ \A f \in Writers : videoBase \in {NoId, f}

(* The same for audio: camera audio never alternates with silence.         *)
OneAudioSource ==
    cb = "audioWrite" => SilAllDone /\ audioBase \in {NoId, "camera"}

(* Stop returns, however the goroutines were interleaved before.           *)
StopReturns == main = "wait" ~> main = "stopped"

(* A rebuild gets through its two joins.                                   *)
RebuildCompletes == loop = "rbFallback" ~> loop = "setup"

(* A session that is over is left, although its callback may be waiting    *)
(* for generators: it always gets done with its packet.                    *)
SessionEnds == loop = "close" ~> loop \in {"retry", "done"}
=============================================================================
