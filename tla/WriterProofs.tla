----------------------------- MODULE WriterProofs -----------------------------
(***************************************************************************)
(* Theorems about who may write when: how many generators there are, that  *)
(* nobody writes during a rebuild or after Stop, and, for a camera without *)
(* a battery fallback, that camera and generators never alternate.         *)
(***************************************************************************)
EXTENDS StreamHandlerProofs

USE DEF loopVars, cbVars, fbVars, silVars, outVars, statusVars, stopVars

-----------------------------------------------------------------------------
(* Which steps disturb what.                                               *)

(* A step of the loop that neither starts nor stops a generator.           *)
QuietLoop ==
    \/ Check \/ Dial \/ Gate \/ Describe
    \/ RebuildWaitFallback \/ RebuildWaitSilence \/ RebuildClearStream \/ RebuildSetStream
    \/ Setup \/ Play \/ Online
    \/ RelayDone \/ RelayEnds \/ RelayStalls \/ StallNeedKey \/ EnterSleeping
    \/ Close \/ CloseWait \/ Retry

LEMMA LoopSteps ==
  LoopStep <=> QuietLoop \/ Boot \/ Settle \/ EnterFallback \/ RebuildStart
                 \/ RebuildStopFallback \/ RebuildStopSilence
  BY DEF LoopStep, QuietLoop

LEMMA QuietLoopKeeps == QuietLoop => UNCHANGED <<fbVars, silVars, cb, au, videoBase, audioBase, stopVars>>
  BY DEF QuietLoop, Check, Dial, Gate, Describe, RebuildWaitFallback, RebuildWaitSilence,
     RebuildClearStream, RebuildSetStream, Setup, Play, Online, RelayDone, RelayEnds,
     RelayStalls, StallNeedKey, EnterSleeping, Close, CloseWait, Retry

(* A step of the callback but for stopFallback and stopSilenceAudio.       *)
QuietCb ==
    \/ CbWaitFallback \/ CbWakeFallback \/ CbSwitch \/ CbClearNeedKey \/ CbOnline \/ CbWrite
    \/ CbWaitSilence \/ CbWakeSilence \/ CbAudioReset \/ CbAudioWrite

LEMMA QuietCbKeeps == QuietCb => UNCHANGED <<fbVars, silVars, loopVars, stream, stopVars>>
  BY DEF QuietCb, CbWaitFallback, CbWakeFallback, CbSwitch, CbClearNeedKey, CbOnline, CbWrite,
     CbWaitSilence, CbWakeSilence, CbAudioReset, CbAudioWrite

LEMMA CbSteps == CbStep <=> QuietCb \/ CbStopFallback \/ CbStopSilence
  BY DEF CbStep, QuietCb

(* The camera, the clock, and Stop but for its two stops.                  *)
QuietRest == CameraCloses \/ Quiet \/ StopCancel \/ StopWait \/ StopReturn \/ Stopped \/ UNCHANGED vars

LEMMA QuietRestKeeps ==
  QuietRest => UNCHANGED <<loop, fbVars, silVars, cbVars, outVars, statusVars>>
  BY DEF QuietRest, CameraCloses, Quiet, StopCancel, StopWait, StopReturn, Stopped, vars

LEMMA AllSteps ==
  ASSUME [Next]_vars
  PROVE  \/ QuietLoop \/ Boot \/ Settle \/ EnterFallback \/ RebuildStart
         \/ RebuildStopFallback \/ RebuildStopSilence
         \/ \E f \in FbIds : FbStep(f)
         \/ \E s \in SilIds : SilStep(s)
         \/ \E p \in Packets : Receive(p)
         \/ QuietCb \/ CbStopFallback \/ CbStopSilence
         \/ StopFallback \/ StopSilence \/ QuietRest
  BY LoopSteps, CbSteps DEF Next, StopStep, QuietRest

-----------------------------------------------------------------------------
(* How many generators there are.                                          *)

(* Those whose deferred function is still to clear fallbackCancel.         *)
Forgetters == {f \in FbIds : fb[f] \in {"prepare", "run", "exit"}}

(* Somebody has called stopFallback and waits for the join.                *)
Joining == cb \in {"fbWait", "fbAsleep"} \/ loop = "rbFbWait"

(* While nobody joins, the only generator is the recorded one; while       *)
(* somebody does, there may be one besides, which was stopped or has lost  *)
(* its record to the one that was.                                         *)
OneGenerator == ~Joining => Forgetters \subseteq {fallbackCancel}
OneOther == \E x \in FbIds \cup {NoId} : Forgetters \subseteq {x, fallbackCancel}
GeneratorsInv == OneGenerator /\ OneOther

(* Nobody else takes Stop's last steps, and the loop is over by then.      *)
LoopJoined ==
    main \in {"fallback", "silence", "silWait", "stopped"} => loop = "done" /\ FbAllDone

LEMMA StartGenerators ==
  ASSUME TypeOK, GeneratorsInv, startFallback, Joining' <=> Joining
  PROVE  GeneratorsInv'
<1>1. CASE fallbackCancel # NoId
  BY <1>1 DEF startFallback, GeneratorsInv, OneGenerator, OneOther, Forgetters
<1>2. CASE fallbackCancel = NoId
  <2>1. PICK f \in FbIds : fb' = [fb EXCEPT ![f] = "prepare"] /\ fallbackCancel' = f
    BY <1>2 DEF startFallback
  <2>2. Forgetters' = Forgetters \cup {f}
    BY <2>1 DEF Forgetters, TypeOK, CountersOK
  <2>3. NoId \notin Forgetters
    BY IdAssumption DEF Forgetters
  <2> QED
    BY <1>2, <2>1, <2>2, <2>3 DEF GeneratorsInv, OneGenerator, OneOther
<1> QED
  BY <1>1, <1>2

(* stopFallback is called when nobody else joins, or when there is none.   *)
LEMMA TakeGenerators ==
  ASSUME TypeOK, GeneratorsInv, takeFallback, ~Joining,
         Joining' \/ Forgetters = {}
  PROVE  GeneratorsInv'
<1>1. Forgetters' = Forgetters /\ fallbackCancel \in FbIds \cup {NoId}
  BY DEF takeFallback, Forgetters, TypeOK, CountersOK
<1> QED
  BY <1>1 DEF GeneratorsInv, OneGenerator, OneOther

LEMMA FbStepGenerators ==
  ASSUME TypeOK, GenInv, GeneratorsInv, NEW f \in FbIds, FbStep(f)
  PROVE  GeneratorsInv'
<1>1. CASE FbPrepare(f) \/ FbReturn(f) \/ FbWrite(f)
  <2>1. Forgetters' = Forgetters /\ fallbackCancel' = fallbackCancel /\ (Joining' <=> Joining)
    BY <1>1 DEF FbPrepare, FbReturn, FbWrite, Forgetters, TypeOK, CountersOK, Joining
  <2> QED
    BY <2>1 DEF GeneratorsInv, OneGenerator, OneOther
<1>2. CASE FbForget(f)
  <2>1. /\ Forgetters' = Forgetters \ {f} /\ f \in Forgetters /\ fallbackCancel' = NoId
        /\ (Joining' <=> Joining) /\ fallbackCancel \in FbIds \cup {NoId}
    BY <1>2 DEF FbForget, Forgetters, TypeOK, CountersOK, Joining
  <2>2. OneGenerator'
    BY <2>1 DEF GeneratorsInv, OneGenerator
  <2>3. PICK x \in FbIds \cup {NoId} : Forgetters \subseteq {x, fallbackCancel}
    BY DEF GeneratorsInv, OneOther
  <2>4. Forgetters' \subseteq {x} \/ Forgetters' \subseteq {fallbackCancel}
    BY <2>1, <2>3
  <2>5. OneOther'
    BY <2>1, <2>3, <2>4 DEF OneOther
  <2> QED
    BY <2>2, <2>5 DEF GeneratorsInv
<1>3. CASE FbEnd(f)
  <2>1. Forgetters' = Forgetters /\ fallbackCancel' = fallbackCancel /\ loop' = loop
    BY <1>3 DEF FbEnd, Forgetters, TypeOK, CountersOK
  <2>2. cb' = cb \/ Forgetters = {}
    BY <1>3 DEF FbEnd, Forgetters
  <2> QED
    BY <2>1, <2>2 DEF GeneratorsInv, OneGenerator, OneOther, Joining
<1> QED
  BY <1>1, <1>2, <1>3 DEF FbStep

(* Whoever gets out of the join has seen that all are done.                *)
LEMMA JoinedGenerators ==
  ASSUME GeneratorsInv, UNCHANGED <<fb, fallbackCancel>>, Joining => Joining' \/ FbAllDone
  PROVE  GeneratorsInv'
<1>1. Forgetters' = Forgetters /\ (FbAllDone => Forgetters = {})
  BY DEF Forgetters, FbAllDone
<1> QED
  BY <1>1 DEF GeneratorsInv, OneGenerator, OneOther

LEMMA LoopJoinedNext ==
  ASSUME TypeOK, LoopJoined, [Next]_vars
  PROVE  LoopJoined'
<1>1. CASE LoopStep
  <2>1. loop # "done" /\ main' = main
    BY <1>1 DEF LoopStep, Boot, Check, Dial, Gate, Describe, RebuildStopFallback,
       RebuildWaitFallback, RebuildStopSilence, RebuildWaitSilence, RebuildClearStream,
       RebuildSetStream, RebuildStart, Setup, Play, Online, RelayDone, RelayEnds, RelayStalls,
       StallNeedKey, EnterSleeping, EnterFallback, Close, CloseWait, Settle, Retry, LoopGoto
  <2> QED
    BY <2>1 DEF LoopJoined
<1>2. ASSUME NEW f \in FbIds, FbStep(f) PROVE LoopJoined'
  <2>1. fb[f] # "none" /\ UNCHANGED <<loop, main>>
    BY <1>2 DEF FbStep, FbPrepare, FbWrite, FbReturn, FbForget, FbEnd
  <2> QED
    BY <2>1 DEF LoopJoined, FbAllDone
<1>3. CASE \/ \E s \in SilIds : SilStep(s)
           \/ \E p \in Packets : Receive(p)
           \/ CbStep \/ CameraCloses \/ Quiet \/ StopCancel \/ Stopped \/ UNCHANGED vars
  <2>1. UNCHANGED <<loop, fb>> /\ (main' = main \/ main' = "wait")
    BY <1>3 DEF SilStep, SilWrite, SilEnd, Receive, CbStep, CbStopFallback, CbWaitFallback,
       CbWakeFallback, CbSwitch, CbClearNeedKey, CbOnline, CbWrite, CbStopSilence, CbWaitSilence,
       CbWakeSilence, CbAudioReset, CbAudioWrite, CameraCloses, Quiet, StopCancel, Stopped, vars,
       takeFallback
  <2> QED
    BY <2>1 DEF LoopJoined, FbAllDone
<1>4. CASE StopStep
  BY <1>4 DEF StopStep, StopWait, StopFallback, StopSilence, StopReturn, takeFallback,
     LoopJoined, FbAllDone
<1> QED
  BY <1>1, <1>2, <1>3, <1>4 DEF Next

LEMMA GeneratorsNext ==
  ASSUME TypeOK, GenInv, CallbackIdle, LoopJoined, GeneratorsInv, [Next]_vars
  PROVE  GeneratorsInv'
<1>1. CASE Boot \/ Settle \/ EnterFallback \/ RebuildStart
  <2>1. startFallback \/ UNCHANGED fbVars
    BY <1>1 DEF Boot, Settle, EnterFallback, RebuildStart
  <2>2. Joining' <=> Joining
    BY <1>1 DEF Boot, Settle, EnterFallback, RebuildStart, LoopGoto, Joining
  <2> QED
    BY <2>1, <2>2, StartGenerators, JoinedGenerators
<1>2. CASE RebuildStopFallback
  <2>1. ~Joining /\ Joining' /\ takeFallback
    BY <1>2 DEF RebuildStopFallback, LoopGoto, Joining, CallbackIdle, SessionPCs, OpenPCs
  <2> QED
    BY <2>1, TakeGenerators
<1>3. CASE QuietLoop \/ RebuildStopSilence
  <2>1. UNCHANGED <<fb, fallbackCancel, cb>>
    BY <1>3, QuietLoopKeeps DEF RebuildStopSilence
  <2>2. loop = "rbFbWait" => FbAllDone
    BY <1>3 DEF QuietLoop, RebuildStopSilence, Check, Dial, Gate, Describe, RebuildWaitFallback,
       RebuildWaitSilence, RebuildClearStream, RebuildSetStream, Setup, Play, Online, RelayDone,
       RelayEnds, RelayStalls, StallNeedKey, EnterSleeping, Close, CloseWait, Retry, LoopGoto
  <2> QED
    BY <2>1, <2>2, JoinedGenerators DEF Joining
<1>4. ASSUME NEW f \in FbIds, FbStep(f) PROVE GeneratorsInv'
  BY <1>4, FbStepGenerators
<1>5. ASSUME NEW s \in SilIds, SilStep(s) PROVE GeneratorsInv'
  <2>1. UNCHANGED <<fb, fallbackCancel, loop>> /\ (cb \in {"fbWait", "fbAsleep"} => cb' = cb)
    BY <1>5 DEF SilStep, SilWrite, SilEnd
  <2> QED
    BY <2>1, JoinedGenerators DEF Joining
<1>6. ASSUME NEW p \in Packets, Receive(p) PROVE GeneratorsInv'
  <2>1. UNCHANGED <<fb, fallbackCancel, loop>> /\ cb = "idle"
    BY <1>6 DEF Receive
  <2> QED
    BY <2>1, JoinedGenerators DEF Joining
<1>7. CASE CbStopFallback
  <2>1. cb = "fbStop" /\ cb' = "fbWait" /\ takeFallback
    BY <1>7 DEF CbStopFallback, CbGoto
  <2>2. loop # "rbFbWait"
    BY <2>1 DEF CallbackIdle, SessionPCs, OpenPCs
  <2> QED
    BY <2>1, <2>2, TakeGenerators DEF Joining
<1>8. CASE QuietCb \/ CbStopSilence
  <2>1. UNCHANGED <<fb, fallbackCancel, loop>>
    BY <1>8, QuietCbKeeps DEF CbStopSilence
  <2>2. cb \in {"fbWait", "fbAsleep"} => cb' = "fbAsleep" \/ FbAllDone
    BY <1>8 DEF QuietCb, CbStopSilence, CbWaitFallback, CbWakeFallback, CbSwitch, CbClearNeedKey,
       CbOnline, CbWrite, CbWaitSilence, CbWakeSilence, CbAudioReset, CbAudioWrite, CbGoto
  <2> QED
    BY <2>1, <2>2, JoinedGenerators DEF Joining
<1>9. CASE StopFallback
  <2>1. takeFallback /\ loop = "done" /\ FbAllDone /\ UNCHANGED <<loop, cb>>
    BY <1>9 DEF StopFallback, LoopJoined
  <2>2. cb = "idle"
    BY <2>1 DEF CallbackIdle, SessionPCs, OpenPCs
  <2>3. Forgetters = {}
    BY <2>1 DEF Forgetters, FbAllDone
  <2> QED
    BY <2>1, <2>2, <2>3, TakeGenerators DEF Joining
<1>10. CASE StopSilence \/ QuietRest
  <2>1. UNCHANGED <<fb, fallbackCancel, loop, cb>>
    BY <1>10, QuietRestKeeps DEF StopSilence
  <2> QED
    BY <2>1, JoinedGenerators DEF Joining
<1> QED
  BY AllSteps, <1>1, <1>2, <1>3, <1>4, <1>5, <1>6, <1>7, <1>8, <1>9, <1>10

(* The invariants of StreamHandlerProofs that are needed here.             *)
BaseInv == TypeOK /\ GenInv /\ NotPlaying /\ CallbackIdle /\ LoopJoined

LEMMA BaseAlways == Spec => []BaseInv
<1>1. Init => NotPlaying /\ CallbackIdle /\ LoopJoined /\ GenInv
  BY InitAsleep DEF AsleepInv, Init, LoopJoined
<1>2. TypeOK /\ NotPlaying /\ CallbackIdle /\ LoopJoined /\ GenInv /\ [Next]_vars
        => (NotPlaying /\ CallbackIdle /\ LoopJoined /\ GenInv)'
  BY NotPlayingNext, CallbackIdleNext, LoopJoinedNext, NextGen
<1> QED
  BY <1>1, <1>2, TypeCorrect, PTL DEF Spec, BaseInv

LEMMA GeneratorsAlways == Spec => []GeneratorsInv
<1>1. Init => GeneratorsInv
  BY DEF Init, GeneratorsInv, OneGenerator, OneOther, Forgetters
<1>2. BaseInv /\ GeneratorsInv /\ [Next]_vars => GeneratorsInv'
  BY GeneratorsNext DEF BaseInv
<1> QED
  BY <1>1, <1>2, BaseAlways, PTL DEF Spec

(* However often a session stalls while generators are slow to stop, no    *)
(* more than two of them write: one that stopFallback has reached or that  *)
(* lost its record, and the recorded one.                                  *)
THEOREM WritersAlwaysFew == Spec => []AtMostTwoWriters
<1>1. GeneratorsInv => AtMostTwoWriters
  <2>1. Writers \subseteq Forgetters
    BY DEF Writers, Forgetters
  <2> QED
    BY <2>1 DEF GeneratorsInv, OneOther, AtMostTwoWriters
<1> QED
  BY <1>1, GeneratorsAlways, PTL

-----------------------------------------------------------------------------
(* Nobody writes during a rebuild, and nothing runs after Stop.            *)

(* Only the loop starts a generator or touches the stream.                 *)
LEMMA NotLoopKeeps ==
  ASSUME [Next]_vars, ~LoopStep
  PROVE  /\ UNCHANGED <<loop, stream>>
         /\ FbAllDone => FbAllDone'
         /\ SilAllDone => SilAllDone'
<1>1. ASSUME NEW f \in FbIds, FbStep(f)
      PROVE  UNCHANGED <<loop, stream, sil>> /\ fb[f] # "none"
  BY <1>1 DEF FbStep, FbPrepare, FbWrite, FbReturn, FbForget, FbEnd
<1>2. ASSUME NEW s \in SilIds, SilStep(s)
      PROVE  UNCHANGED <<loop, stream, fb>> /\ sil[s] # "none"
  BY <1>2 DEF SilStep, SilWrite, SilEnd
<1>3. (\E p \in Packets : Receive(p)) \/ QuietCb \/ CbStopFallback \/ CbStopSilence
        => UNCHANGED <<loop, stream, fb, sil>>
  BY QuietCbKeeps DEF Receive, CbStopFallback, CbStopSilence, takeFallback, takeSilence
<1>4. StopFallback \/ StopSilence \/ QuietRest => UNCHANGED <<loop, stream, fb, sil>>
  BY QuietRestKeeps DEF StopFallback, StopSilence, takeFallback, takeSilence
<1> QED
  BY AllSteps, LoopSteps, <1>1, <1>2, <1>3, <1>4 DEF FbAllDone, SilAllDone

(* What the joins of rebuildForCodec achieve lasts until it starts the     *)
(* generators of the new stream.                                           *)
RebuildAlone ==
    /\ loop \in {"rbSilence", "rbSilWait", "rbSwap", "rbOpen", "rbStart"} => FbAllDone
    /\ loop \in {"rbSwap", "rbOpen", "rbStart"} => SilAllDone
    /\ ~stream => loop = "rbOpen"

LEMMA RebuildAloneNext ==
  ASSUME RebuildAlone, [Next]_vars
  PROVE  RebuildAlone'
<1>1. CASE \/ RebuildWaitFallback \/ RebuildStopSilence \/ RebuildWaitSilence
           \/ RebuildClearStream \/ RebuildSetStream
  BY <1>1 DEF RebuildWaitFallback, RebuildStopSilence, RebuildWaitSilence, RebuildClearStream,
     RebuildSetStream, takeSilence, LoopGoto, RebuildAlone, FbAllDone, SilAllDone
<1>2. CASE \/ Boot \/ Check \/ Dial \/ Gate \/ Describe \/ RebuildStopFallback \/ RebuildStart
           \/ Setup \/ Play \/ Online \/ RelayDone \/ RelayEnds \/ RelayStalls \/ StallNeedKey
           \/ EnterSleeping \/ EnterFallback \/ Close \/ CloseWait \/ Settle \/ Retry
  <2>1. /\ loop # "rbOpen" /\ stream' = stream
        /\ loop' \notin {"rbSilence", "rbSilWait", "rbSwap", "rbOpen", "rbStart"}
    BY <1>2 DEF Boot, Check, Dial, Gate, Describe, RebuildStopFallback, RebuildStart, Setup, Play,
       Online, RelayDone, RelayEnds, RelayStalls, StallNeedKey, EnterSleeping, EnterFallback,
       Close, CloseWait, Settle, Retry, LoopGoto
  <2> QED
    BY <2>1 DEF RebuildAlone
<1>3. CASE ~LoopStep
  BY <1>3, NotLoopKeeps DEF RebuildAlone
<1> QED
  BY <1>1, <1>2, <1>3 DEF LoopStep

LEMMA RebuildAloneAlways == Spec => []RebuildAlone
<1>1. Init => RebuildAlone
  BY DEF Init, RebuildAlone
<1> QED
  BY <1>1, RebuildAloneNext, PTL DEF Spec

(* rebuildForCodec swaps the stream when both joins are behind it and the  *)
(* callback of the last session has ended, so writeToStream always finds a *)
(* stream.                                                                 *)
THEOREM RebuildNeverDrops == Spec => []NoWriterDuringRebuild
<1>1. RebuildAlone /\ CallbackIdle => NoWriterDuringRebuild
  BY DEF RebuildAlone, CallbackIdle, SessionPCs, OpenPCs, NoWriterDuringRebuild
<1> QED
  BY <1>1, RebuildAloneAlways, BaseAlways, PTL DEF BaseInv

(* The silence goroutine may outlive the loop, until Stop's last join.     *)
SilenceJoined == main = "stopped" => SilAllDone

LEMMA SilenceJoinedNext ==
  ASSUME LoopJoined, SilenceJoined, [Next]_vars
  PROVE  SilenceJoined'
<1>1. CASE LoopStep
  <2>1. loop # "done" /\ main' = main
    BY <1>1 DEF LoopStep, Boot, Check, Dial, Gate, Describe, RebuildStopFallback,
       RebuildWaitFallback, RebuildStopSilence, RebuildWaitSilence, RebuildClearStream,
       RebuildSetStream, RebuildStart, Setup, Play, Online, RelayDone, RelayEnds, RelayStalls,
       StallNeedKey, EnterSleeping, EnterFallback, Close, CloseWait, Settle, Retry, LoopGoto
  <2> QED
    BY <2>1 DEF LoopJoined, SilenceJoined
<1>2. CASE StopReturn
  BY <1>2 DEF StopReturn, SilenceJoined, SilAllDone
<1>3. CASE ~LoopStep /\ ~StopReturn
  <2>1. main' = main \/ main' # "stopped"
    BY <1>3 DEF Next, FbStep, FbPrepare, FbWrite, FbReturn, FbForget, FbEnd, SilStep, SilWrite,
       SilEnd, Receive, CbStep, CbStopFallback, CbWaitFallback, CbWakeFallback, CbSwitch,
       CbClearNeedKey, CbOnline, CbWrite, CbStopSilence, CbWaitSilence, CbWakeSilence,
       CbAudioReset, CbAudioWrite, CameraCloses, Quiet, StopCancel, StopStep, StopWait,
       StopFallback, StopSilence, Stopped, vars
  <2> QED
    BY <1>3, <2>1, NotLoopKeeps DEF SilenceJoined
<1> QED
  BY <1>1, <1>2, <1>3

(* When Stop has joined the loop and the fallbacks nothing of the handler  *)
(* runs but the silence, and when it returns not even that.                *)
THEOREM StopAlwaysJoins == Spec => []StopJoinsAll
<1>1. Init => SilenceJoined
  BY DEF Init, SilenceJoined
<1>2. BaseInv /\ SilenceJoined /\ [Next]_vars => SilenceJoined'
  BY SilenceJoinedNext DEF BaseInv
<1>3. BaseInv /\ SilenceJoined => StopJoinsAll
  BY DEF BaseInv, LoopJoined, CallbackIdle, SessionPCs, OpenPCs, SilenceJoined, StopJoinsAll
<1> QED
  BY <1>1, <1>2, <1>3, BaseAlways, PTL DEF Spec

-----------------------------------------------------------------------------
(* The status of a handler without a session.                              *)

(* Who sets the status: the loop, and a callback that makes it "online".   *)
LEMMA StatusSteps ==
  ASSUME [Next]_vars, ~LoopStep
  PROVE  loop' = loop /\ (state' = state \/ cb = "online")
<1>1. (\E f \in FbIds : FbStep(f)) \/ (\E s \in SilIds : SilStep(s)) \/ (\E p \in Packets : Receive(p))
        => state' = state
  BY DEF FbStep, FbPrepare, FbWrite, FbReturn, FbForget, FbEnd, SilStep, SilWrite, SilEnd, Receive
<1>2. CbStep => state' = state \/ cb = "online"
  BY DEF CbStep, CbStopFallback, CbWaitFallback, CbWakeFallback, CbSwitch, CbClearNeedKey,
     CbOnline, CbWrite, CbStopSilence, CbWaitSilence, CbWakeSilence, CbAudioReset,
     CbAudioWrite, CbGoto
<1>3. StopFallback \/ StopSilence \/ QuietRest => state' = state
  BY QuietRestKeeps DEF StopFallback, StopSilence
<1> QED
  BY NotLoopKeeps, AllSteps, LoopSteps, CbSteps, <1>1, <1>2, <1>3

LEMMA StatusNext ==
  ASSUME StatusFollowsLoop, CallbackIdle, [Next]_vars
  PROVE  StatusFollowsLoop'
<1>1. CASE LoopStep
  <2>1. CASE Boot \/ Check \/ Dial \/ Gate \/ Describe
    BY <2>1 DEF Boot, Check, Dial, Gate, Describe, LoopGoto, StatusFollowsLoop
  <2>2. CASE RebuildStopFallback \/ RebuildWaitFallback \/ RebuildStopSilence \/ RebuildWaitSilence
    BY <2>2 DEF RebuildStopFallback, RebuildWaitFallback, RebuildStopSilence, RebuildWaitSilence,
       LoopGoto, StatusFollowsLoop
  <2>3. CASE RebuildClearStream \/ RebuildSetStream \/ RebuildStart \/ Setup \/ Play
    BY <2>3 DEF RebuildClearStream, RebuildSetStream, RebuildStart, Setup, Play,
       LoopGoto, StatusFollowsLoop
  <2>4. CASE \/ Online \/ RelayDone \/ RelayEnds \/ RelayStalls \/ StallNeedKey \/ EnterSleeping
             \/ EnterFallback \/ Close \/ CloseWait \/ Retry
    BY <2>4 DEF Online, RelayDone, RelayEnds, RelayStalls, StallNeedKey, EnterSleeping,
       EnterFallback, Close, CloseWait, Retry, LoopGoto, StatusFollowsLoop
  <2>5. CASE Settle
    BY <2>5 DEF Settle, StatusFollowsLoop
  <2> QED
    BY <1>1, <2>1, <2>2, <2>3, <2>4, <2>5 DEF LoopStep
<1>2. CASE ~LoopStep
  BY <1>2, StatusSteps DEF StatusFollowsLoop, CallbackIdle, SessionPCs, OpenPCs
<1> QED
  BY <1>1, <1>2

(* A callback sets the status too, but none is left when the loop gets to  *)
(* where the status is the loop's own.                                     *)
THEOREM StatusAlwaysFollows == Spec => []StatusFollowsLoop
<1>1. Init => StatusFollowsLoop
  BY DEF Init, StatusFollowsLoop
<1>2. BaseInv /\ StatusFollowsLoop /\ [Next]_vars => StatusFollowsLoop'
  BY StatusNext DEF BaseInv
<1> QED
  BY <1>1, <1>2, BaseAlways, PTL DEF Spec

-----------------------------------------------------------------------------
(* A silence goroutine that nobody could stop.                             *)

LEMMA StartSilenceReaches ==
  ASSUME TypeOK, SilenceReachable, startSilenceAudio \/ UNCHANGED silVars, done => done'
  PROVE  SilenceReachable'
<1>1. CASE UNCHANGED silVars
  BY <1>1 DEF SilenceReachable, SilDone
<1>2. CASE silenceCancel = NoId /\ startSilenceAudio
  <2>1. PICK t \in SilIds : sil' = [sil EXCEPT ![t] = "run"] /\ silenceCancel' = t
                            /\ silCancelled' = silCancelled \ {t}
    BY <1>2 DEF startSilenceAudio
  <2>2. \A s \in SilIds : sil[s] = "run" => SilDone(s)
    BY <1>2, IdAssumption DEF SilenceReachable
  <2> QED
    BY <2>1, <2>2 DEF TypeOK, CountersOK, SilenceReachable, SilDone
<1> QED
  BY <1>1, <1>2 DEF startSilenceAudio

LEMMA TakeSilenceReaches ==
  ASSUME TypeOK, SilenceReachable, takeSilence, done => done'
  PROVE  SilenceReachable'
  BY DEF takeSilence, TypeOK, CountersOK, SilenceReachable, SilDone

LEMMA SilenceNext ==
  ASSUME TypeOK, StopIsDone, SilenceReachable, [Next]_vars
  PROVE  SilenceReachable'
<1>0. done => done'
  BY StopIsDoneNext
<1>1. CASE Boot \/ Settle \/ EnterFallback \/ RebuildStart
  <2>1. startSilenceAudio \/ UNCHANGED silVars
    BY <1>1 DEF Boot, Settle, EnterFallback, RebuildStart, startFallback
  <2> QED
    BY <1>0, <2>1, StartSilenceReaches
<1>2. CASE RebuildStopSilence \/ CbStopSilence \/ StopSilence
  BY <1>0, <1>2, TakeSilenceReaches DEF RebuildStopSilence, CbStopSilence, StopSilence
<1>3. ASSUME NEW s \in SilIds, SilStep(s) PROVE SilenceReachable'
  <2>1. CASE SilWrite(s)
    BY <1>0, <2>1, StartSilenceReaches DEF SilWrite
  <2>2. CASE SilEnd(s)
    BY <1>0, <2>2 DEF SilEnd, TypeOK, CountersOK, SilenceReachable, SilDone
  <2> QED
    BY <1>3, <2>1, <2>2 DEF SilStep
<1>4. CASE \/ QuietLoop \/ RebuildStopFallback \/ (\E f \in FbIds : FbStep(f))
           \/ (\E p \in Packets : Receive(p)) \/ QuietCb \/ CbStopFallback
           \/ StopFallback \/ QuietRest
  <2>1. UNCHANGED silVars
    BY <1>4, QuietLoopKeeps, QuietCbKeeps, QuietRestKeeps DEF RebuildStopFallback, Receive,
       CbStopFallback, StopFallback, FbStep, FbPrepare, FbWrite, FbReturn, FbForget, FbEnd
  <2> QED
    BY <1>0, <2>1, StartSilenceReaches
<1> QED
  BY AllSteps, <1>1, <1>2, <1>3, <1>4

(* A silence goroutine that still runs on its own account is the recorded  *)
(* one: startSilenceAudio never overwrites the only way to stop one.       *)
THEOREM SilenceAlwaysReachable == Spec => []SilenceReachable
<1>1. Init => SilenceReachable /\ StopIsDone
  BY DEF Init, SilenceReachable, StopIsDone
<1>2. TypeOK /\ SilenceReachable /\ StopIsDone /\ [Next]_vars => (SilenceReachable /\ StopIsDone)'
  BY SilenceNext, StopIsDoneNext
<1> QED
  BY <1>1, <1>2, TypeCorrect, PTL DEF Spec

-----------------------------------------------------------------------------
(* A camera without a battery fallback: camera and generators take turns.  *)

(* Then only rebuildForCodec starts generators.                            *)
NoStall == loop \notin {"stallKey", "stallSleep", "stallStart", "endSleep", "endStart"}

(* What a later session inherits is one generator on a timeline of its own *)
OneFallback ==
    /\ \A f, g \in Forgetters : f = g
    /\ \A f \in Forgetters : videoBase \in {NoId, f}

(* until its callback joins it, and then the camera has the timeline.  The *)
(* flag of the last session survives until Setup makes a new closure.      *)
CameraVideo ==
    /\ cb = "switch" => FbAllDone
    /\ seenIDR /\ loop # "setup" => FbAllDone /\ videoBase \in {NoId, "camera"}
    /\ cb \in {"needKey", "online", "write"} => seenIDR

VideoInv == NoStall /\ OneFallback /\ CameraVideo

LEMMA NoStallNext == ASSUME ~CanFallback, NoStall, [Next]_vars PROVE NoStall'
<1>1. CASE LoopStep
  BY <1>1 DEF LoopStep, Boot, Check, Dial, Gate, Describe, RebuildStopFallback,
     RebuildWaitFallback, RebuildStopSilence, RebuildWaitSilence, RebuildClearStream,
     RebuildSetStream, RebuildStart, Setup, Play, Online, RelayDone, RelayEnds, RelayStalls,
     StallNeedKey, EnterSleeping, EnterFallback, Close, CloseWait, Settle, Retry, LoopGoto, NoStall
<1>2. CASE ~LoopStep
  BY <1>2, NotLoopKeeps DEF NoStall
<1> QED
  BY <1>1, <1>2

(* The loop's steps but Setup and the start of the generators: they leave  *)
(* alone what the sources agree on, and they do not leave Setup behind.    *)
LEMMA LoopKeepsSources ==
  ASSUME ~CanFallback, NoStall, LoopStep, ~Setup, ~RebuildStart
  PROVE  /\ UNCHANGED <<fb, sil, videoBase, audioBase, cbVars>>
         /\ loop # "setup"
<1>1. ~EnterFallback
  BY DEF NoStall, EnterFallback, LoopGoto
<1>2. CASE QuietLoop
  <2>1. UNCHANGED <<seenIDR, silenceStopped>> /\ loop # "setup"
    BY <1>2 DEF QuietLoop, Check, Dial, Gate, Describe, RebuildWaitFallback, RebuildWaitSilence,
       RebuildClearStream, RebuildSetStream, Setup, Play, Online, RelayDone, RelayEnds,
       RelayStalls, StallNeedKey, EnterSleeping, Close, CloseWait, Retry, LoopGoto
  <2> QED
    BY <1>2, <2>1, QuietLoopKeeps
<1>3. CASE Boot \/ Settle \/ RebuildStopFallback \/ RebuildStopSilence
  BY <1>3 DEF Boot, Settle, RebuildStopFallback, RebuildStopSilence, takeFallback, takeSilence, LoopGoto
<1> QED
  BY <1>1, <1>2, <1>3, LoopSteps

LEMMA RebuildStartVideo ==
  ASSUME TypeOK, CallbackIdle, RebuildAlone, VideoInv, RebuildStart
  PROVE  OneFallback' /\ CameraVideo'
<1>1. FbAllDone /\ loop' = "setup" /\ cb' = "idle"
  BY DEF RebuildStart, LoopGoto, RebuildAlone, CallbackIdle, SessionPCs, OpenPCs
<1>2. CameraVideo'
  BY <1>1 DEF CameraVideo
<1>3. CASE UNCHANGED <<fb, videoBase>>
  BY <1>2, <1>3 DEF VideoInv, OneFallback, Forgetters
<1>4. CASE fallbackCancel = NoId /\ startFallback
  <2>1. PICK f \in FbIds : fb' = [fb EXCEPT ![f] = "prepare"] /\ videoBase' = NoId
    BY <1>4 DEF startFallback
  <2>2. Forgetters' = {f}
    BY <1>1, <2>1 DEF FbAllDone, Forgetters, TypeOK, CountersOK
  <2> QED
    BY <1>2, <2>1, <2>2 DEF OneFallback
<1> QED
  BY <1>3, <1>4 DEF RebuildStart, startFallback

LEMMA VideoNext ==
  ASSUME ~CanFallback, TypeOK, CallbackIdle, RebuildAlone, VideoInv, [Next]_vars
  PROVE  VideoInv'
<1>0. NoStall'
  BY NoStallNext DEF VideoInv
<1>1. CASE LoopStep
  <2>1. CASE RebuildStart
    BY <2>1, <1>0, RebuildStartVideo DEF VideoInv
  <2>2. CASE Setup
    <3>1. cb' = "idle" /\ ~seenIDR' /\ UNCHANGED <<fb, videoBase>>
      BY <2>2 DEF Setup, CallbackIdle, SessionPCs, OpenPCs
    <3> QED
      BY <1>0, <3>1 DEF VideoInv, OneFallback, CameraVideo, Forgetters
  <2>3. CASE ~Setup /\ ~RebuildStart
    <3>1. UNCHANGED <<fb, videoBase, cb, seenIDR>> /\ loop # "setup"
      BY <1>1, <2>3, LoopKeepsSources DEF VideoInv
    <3> QED
      BY <1>0, <3>1 DEF VideoInv, OneFallback, CameraVideo, Forgetters, FbAllDone
  <2> QED
    BY <2>1, <2>2, <2>3
<1>2. ASSUME NEW f \in FbIds, FbStep(f) PROVE VideoInv'
  <2>1. fb[f] # "none" /\ UNCHANGED <<loop, seenIDR>>
    BY <1>2 DEF FbStep, FbPrepare, FbWrite, FbReturn, FbForget, FbEnd
  <2>2. /\ Forgetters' \subseteq Forgetters /\ (videoBase' = videoBase \/ (f \in Forgetters /\ videoBase' = f))
        /\ cb' = cb \/ cb' = "fbWoken"
    BY <1>2 DEF FbStep, FbPrepare, FbWrite, FbReturn, FbForget, FbEnd, TypeOK, CountersOK, Forgetters
  <2>3. OneFallback'
    BY <2>2 DEF VideoInv, OneFallback
  <2>4. CameraVideo'
    BY <2>1, <2>2 DEF VideoInv, CameraVideo, FbAllDone
  <2> QED
    BY <1>0, <2>3, <2>4 DEF VideoInv
<1>3. ASSUME NEW p \in Packets, Receive(p) PROVE VideoInv'
  <2>1. UNCHANGED <<loop, fb, videoBase, seenIDR>> /\ cb' # "switch"
        /\ cb' \notin {"needKey", "online"} /\ (cb' = "write" => seenIDR)
    BY <1>3 DEF Receive
  <2> QED
    BY <1>0, <2>1 DEF VideoInv, OneFallback, CameraVideo, Forgetters, FbAllDone
<1>4. CASE CbStep
  <2>1. loop # "setup" /\ UNCHANGED <<loop, fb>>
    BY <1>4, CbSteps, QuietCbKeeps DEF CallbackIdle, SessionPCs, OpenPCs, CbStep, CbStopFallback,
       CbWaitFallback, CbWakeFallback, CbSwitch, CbClearNeedKey, CbOnline, CbWrite, CbStopSilence,
       CbWaitSilence, CbWakeSilence, CbAudioReset, CbAudioWrite, CbGoto, takeFallback
  <2>2. CASE CbSwitch
    BY <1>0, <2>1, <2>2 DEF CbSwitch, CbGoto, VideoInv, OneFallback, CameraVideo, Forgetters, FbAllDone
  <2>3. CASE CbWrite
    <3>1. FbAllDone /\ Forgetters = {}
      BY <2>1, <2>3 DEF CbWrite, CbGoto, VideoInv, CameraVideo, FbAllDone, Forgetters
    <3> QED
      BY <1>0, <2>1, <2>3, <3>1 DEF CbWrite, CbGoto, VideoInv, OneFallback, CameraVideo,
         Forgetters, FbAllDone
  <2>4. CASE ~CbSwitch /\ ~CbWrite
    <3>1. /\ UNCHANGED <<videoBase, seenIDR>> /\ (cb' = "switch" => FbAllDone)
          /\ cb' \in {"needKey", "online", "write"} => cb \in {"needKey", "online"}
      BY <1>4, <2>4 DEF CbStep, CbStopFallback, CbWaitFallback, CbWakeFallback, CbClearNeedKey,
         CbOnline, CbStopSilence, CbWaitSilence, CbWakeSilence, CbAudioReset, CbAudioWrite, CbGoto
    <3> QED
      BY <1>0, <2>1, <3>1 DEF VideoInv, OneFallback, CameraVideo, Forgetters, FbAllDone
  <2> QED
    BY <2>2, <2>3, <2>4
<1>5. CASE (\E s \in SilIds : SilStep(s)) \/ StopFallback \/ StopSilence \/ QuietRest
  <2>1. UNCHANGED <<loop, fb, videoBase, seenIDR>>
        /\ (cb' \in {"switch", "needKey", "online", "write"} => cb' = cb)
    BY <1>5, QuietRestKeeps DEF SilStep, SilWrite, SilEnd, StopFallback, StopSilence, takeFallback
  <2> QED
    BY <1>0, <2>1 DEF VideoInv, OneFallback, CameraVideo, Forgetters, FbAllDone
<1> QED
  BY AllSteps, LoopSteps, CbSteps, <1>1, <1>2, <1>3, <1>4, <1>5

(* A camera without a battery fallback: once its callback relays pictures  *)
(* no generator is left, and a generator that a rebuild started has the    *)
(* output's timeline to itself until the callback has joined it.           *)
THEOREM VideoNeverAlternates ==
  ASSUME ~CanFallback
  PROVE  Spec => []OneVideoSource
<1>1. Init => VideoInv
  BY DEF Init, VideoInv, NoStall, OneFallback, CameraVideo, Forgetters
<1>2. BaseInv /\ RebuildAlone /\ VideoInv /\ [Next]_vars => VideoInv'
  BY VideoNext DEF BaseInv
<1>3. BaseInv /\ VideoInv => OneVideoSource
  <2>1. Writers \subseteq Forgetters /\ (FbAllDone => Writers = {})
    BY DEF Writers, Forgetters, FbAllDone
  <2> QED
    BY <2>1 DEF BaseInv, CallbackIdle, SessionPCs, OpenPCs, VideoInv, OneFallback, CameraVideo,
       OneVideoSource
<1> QED
  BY <1>1, <1>2, <1>3, BaseAlways, RebuildAloneAlways, PTL DEF Spec

(* The same for audio: the session's callback joins the silence, and then  *)
(* the camera has the audio timeline.                                      *)
CameraAudio ==
    /\ cb = "audioReset" => SilAllDone
    /\ silenceStopped /\ loop # "setup" => SilAllDone /\ audioBase \in {NoId, "camera"}
    /\ cb = "audioWrite" => silenceStopped

LEMMA AudioNext ==
  ASSUME ~CanFallback, CallbackIdle, NoStall, CameraAudio, [Next]_vars
  PROVE  CameraAudio'
<1>1. CASE LoopStep
  <2>1. CASE RebuildStart
    <3>1. cb' = "idle" /\ loop' = "setup"
      BY <2>1 DEF RebuildStart, LoopGoto, CallbackIdle, SessionPCs, OpenPCs
    <3> QED
      BY <3>1 DEF CameraAudio
  <2>2. CASE Setup
    <3>1. cb' = "idle" /\ ~silenceStopped'
      BY <2>2 DEF Setup, CallbackIdle, SessionPCs, OpenPCs
    <3> QED
      BY <3>1 DEF CameraAudio
  <2>3. CASE ~Setup /\ ~RebuildStart
    BY <1>1, <2>3, LoopKeepsSources DEF CameraAudio, SilAllDone
  <2> QED
    BY <2>1, <2>2, <2>3
<1>2. ASSUME NEW s \in SilIds, SilStep(s) PROVE CameraAudio'
  <2>1. ~SilAllDone /\ UNCHANGED <<loop, silenceStopped>> /\ (cb' = cb \/ cb' = "silWoken")
    BY <1>2 DEF SilStep, SilWrite, SilEnd, SilAllDone
  <2> QED
    BY <2>1 DEF CameraAudio
<1>3. ASSUME NEW p \in Packets, Receive(p) PROVE CameraAudio'
  <2>1. /\ UNCHANGED <<loop, sil, audioBase, silenceStopped>> /\ cb' # "audioReset"
        /\ cb' = "audioWrite" => silenceStopped
    BY <1>3 DEF Receive
  <2> QED
    BY <2>1 DEF CameraAudio, SilAllDone
<1>4. CASE CbStep
  <2>1. loop # "setup" /\ UNCHANGED <<loop, sil>>
    BY <1>4, CbSteps, QuietCbKeeps DEF CallbackIdle, SessionPCs, OpenPCs, CbStep, CbStopFallback,
       CbWaitFallback, CbWakeFallback, CbSwitch, CbClearNeedKey, CbOnline, CbWrite, CbStopSilence,
       CbWaitSilence, CbWakeSilence, CbAudioReset, CbAudioWrite, CbGoto, takeSilence
  <2>2. CASE CbAudioReset \/ CbAudioWrite
    BY <2>1, <2>2 DEF CbAudioReset, CbAudioWrite, CbGoto, CameraAudio, SilAllDone
  <2>3. CASE ~CbAudioReset /\ ~CbAudioWrite
    <3>1. /\ UNCHANGED <<audioBase, silenceStopped>> /\ (cb' = "audioReset" => SilAllDone)
          /\ cb' # "audioWrite"
      BY <1>4, <2>3 DEF CbStep, CbStopFallback, CbWaitFallback, CbWakeFallback, CbSwitch,
         CbClearNeedKey, CbOnline, CbWrite, CbStopSilence, CbWaitSilence, CbWakeSilence, CbGoto
    <3> QED
      BY <2>1, <3>1 DEF CameraAudio, SilAllDone
  <2> QED
    BY <2>2, <2>3
<1>5. CASE (\E f \in FbIds : FbStep(f)) \/ StopFallback \/ StopSilence \/ QuietRest
  <2>1. UNCHANGED <<loop, sil, audioBase, silenceStopped>>
        /\ (cb' \in {"audioReset", "audioWrite"} => cb' = cb)
    BY <1>5, QuietRestKeeps DEF FbStep, FbPrepare, FbWrite, FbReturn, FbForget, FbEnd,
       StopFallback, StopSilence, takeSilence
  <2> QED
    BY <2>1 DEF CameraAudio, SilAllDone
<1> QED
  BY AllSteps, LoopSteps, CbSteps, <1>1, <1>2, <1>3, <1>4, <1>5

(* Camera audio never alternates with silence, on a camera without a       *)
(* battery fallback.                                                       *)
THEOREM AudioNeverAlternates ==
  ASSUME ~CanFallback
  PROVE  Spec => []OneAudioSource
<1>1. Init => NoStall /\ CameraAudio
  BY DEF Init, NoStall, CameraAudio
<1>2. BaseInv /\ NoStall /\ CameraAudio /\ [Next]_vars => (NoStall /\ CameraAudio)'
  BY AudioNext, NoStallNext DEF BaseInv
<1>3. BaseInv /\ CameraAudio => OneAudioSource
  BY DEF BaseInv, CallbackIdle, SessionPCs, OpenPCs, CameraAudio, OneAudioSource
<1> QED
  BY <1>1, <1>2, <1>3, BaseAlways, PTL DEF Spec
=============================================================================
