------------------------- MODULE StreamHandlerProofs -------------------------
(***************************************************************************)
(* Theorems about StreamHandler, for any sets of goroutine identities and  *)
(* any configuration.  The argument has two layers:                        *)
(*                                                                         *)
(*   GenInv    what a recorded cancel function says about its goroutine;   *)
(*             it holds whatever the callback and the loop do              *)
(*   AsleepInv the handler is asleep, between two sessions: no callback    *)
(*             runs, so the fallback the loop started (or found recorded)  *)
(*             cannot have been stopped                                    *)
(***************************************************************************)
EXTENDS StreamHandler, TLAPS

USE DEF loopVars, cbVars, fbVars, silVars, outVars, statusVars, stopVars

-----------------------------------------------------------------------------
(* Type correctness.                                                       *)

LEMMA InitType == Init => TypeOK
  BY IdAssumption DEF Init, TypeOK, FlagsOK, CountersOK, LoopPCs, CbPCs, Packets

LEMMA StartSilenceType ==
  ASSUME CountersOK, startSilenceAudio
  PROVE  /\ silenceCancel' \in SilIds \cup {NoId}
         /\ sil' \in [SilIds -> {"none", "run"}]
         /\ silCancelled' \subseteq SilIds
  BY DEF CountersOK, startSilenceAudio

LEMMA StartFallbackType ==
  ASSUME CountersOK, startFallback
  PROVE  /\ fallbackCancel' \in FbIds \cup {NoId}
         /\ fb' \in [FbIds -> {"none", "prepare", "run", "exit", "last"}]
         /\ fbCancelled' \subseteq FbIds
         /\ silenceCancel' \in SilIds \cup {NoId}
         /\ sil' \in [SilIds -> {"none", "run"}]
         /\ silCancelled' \subseteq SilIds
         /\ videoBase' \in FbIds \cup {NoId, "camera"}
         /\ audioBase' \in SilIds \cup {NoId, "camera"}
  <1>1. CASE fallbackCancel # NoId
    BY <1>1 DEF CountersOK, startFallback
  <1>2. CASE fallbackCancel = NoId
    <2>1. startSilenceAudio
      BY <1>2 DEF startFallback
    <2>2. QED
      BY <1>2, <2>1, StartSilenceType DEF CountersOK, startFallback
  <1>3. QED
    BY <1>1, <1>2

LEMMA LoopType == ASSUME CountersOK, LoopStep PROVE CountersOK'
  <1>1. CASE Boot
    BY <1>1, StartFallbackType DEF Boot, LoopGoto, CountersOK, LoopPCs
  <1>2. CASE Check
    BY <1>2 DEF Check, CountersOK, LoopPCs
  <1>3. CASE Dial \/ Gate \/ Describe
    BY <1>3 DEF Dial, Gate, Describe, CountersOK, LoopPCs
  <1>4. CASE RebuildStopFallback \/ RebuildStopSilence
    BY <1>4 DEF RebuildStopFallback, RebuildStopSilence, takeFallback,
       takeSilence, LoopGoto, CountersOK, LoopPCs
  <1>5. CASE RebuildWaitFallback \/ RebuildWaitSilence \/ RebuildClearStream \/ RebuildSetStream
    BY <1>5 DEF RebuildWaitFallback, RebuildWaitSilence, RebuildClearStream,
       RebuildSetStream, LoopGoto, CountersOK, LoopPCs
  <1>6. CASE RebuildStart
    BY <1>6, StartFallbackType, StartSilenceType DEF RebuildStart, LoopGoto, CountersOK, LoopPCs
  <1>7. CASE Setup \/ Play \/ Online
    BY <1>7 DEF Setup, Play, Online, LoopGoto, CountersOK, LoopPCs
  <1>8. CASE RelayDone \/ RelayEnds \/ RelayStalls \/ StallNeedKey \/ EnterSleeping
    BY <1>8 DEF RelayDone, RelayEnds, RelayStalls, StallNeedKey, EnterSleeping,
       LoopGoto, CountersOK, LoopPCs
  <1>9. CASE EnterFallback
    BY <1>9, StartFallbackType DEF EnterFallback, LoopGoto, CountersOK, LoopPCs
  <1>10. CASE Close \/ CloseWait \/ Retry
    BY <1>10 DEF Close, CloseWait, Retry, LoopGoto, CountersOK, LoopPCs
  <1>11. CASE Settle
    BY <1>11, StartFallbackType DEF Settle, CountersOK, LoopPCs
  <1>12. QED
    BY <1>1, <1>2, <1>3, <1>4, <1>5, <1>6, <1>7, <1>8, <1>9, <1>10, <1>11 DEF LoopStep

LEMMA FbType == ASSUME CountersOK, NEW f \in FbIds, FbStep(f) PROVE CountersOK'
  <1>1. CASE FbPrepare(f)
    BY <1>1 DEF FbPrepare, CountersOK
  <1>2. CASE FbWrite(f) \/ FbReturn(f) \/ FbForget(f)
    BY <1>2 DEF FbWrite, FbReturn, FbForget, CountersOK
  <1>3. CASE FbEnd(f)
    BY <1>3 DEF FbEnd, CountersOK, CbPCs
  <1>4. QED
    BY <1>1, <1>2, <1>3 DEF FbStep

LEMMA SilType == ASSUME CountersOK, NEW s \in SilIds, SilStep(s) PROVE CountersOK'
  BY DEF SilStep, SilWrite, SilEnd, CountersOK, CbPCs

LEMMA ReceiveType == ASSUME CountersOK, NEW p \in Packets, Receive(p) PROVE CountersOK'
  BY DEF Receive, CountersOK, CbPCs

LEMMA CbType == ASSUME CountersOK, CbStep PROVE CountersOK'
  <1>1. CASE CbStopFallback \/ CbWaitFallback \/ CbWakeFallback
    BY <1>1 DEF CbStopFallback, CbWaitFallback, CbWakeFallback, takeFallback,
       CbGoto, CountersOK, CbPCs
  <1>2. CASE CbSwitch \/ CbClearNeedKey \/ CbOnline \/ CbWrite
    BY <1>2 DEF CbSwitch, CbClearNeedKey, CbOnline, CbWrite, CbGoto, CountersOK, CbPCs
  <1>3. CASE CbStopSilence \/ CbWaitSilence \/ CbWakeSilence
    BY <1>3 DEF CbStopSilence, CbWaitSilence, CbWakeSilence, takeSilence,
       CbGoto, CountersOK, CbPCs
  <1>4. CASE CbAudioReset \/ CbAudioWrite
    BY <1>4 DEF CbAudioReset, CbAudioWrite, CbGoto, CountersOK, CbPCs
  <1>5. QED
    BY <1>1, <1>2, <1>3, <1>4 DEF CbStep

LEMMA OtherType ==
  ASSUME CountersOK, CameraCloses \/ Quiet \/ StopCancel \/ StopStep \/ Stopped
  PROVE  CountersOK'
  BY DEF CameraCloses, Quiet, StopCancel, StopStep, StopWait, StopFallback,
     StopSilence, StopReturn, Stopped, takeFallback, takeSilence, CountersOK, vars

LEMMA FlagsType == ASSUME FlagsOK, Next PROVE FlagsOK'
  <1>1. CASE Boot \/ Check \/ Dial \/ Gate \/ Describe
    BY <1>1, Zenon DEF Boot, Check, Dial, Gate, Describe, FlagsOK
  <1>2. CASE RebuildStopFallback \/ RebuildWaitFallback \/ RebuildStopSilence \/ RebuildWaitSilence
    BY <1>2, Zenon DEF RebuildStopFallback, RebuildWaitFallback,
       RebuildStopSilence, RebuildWaitSilence, FlagsOK
  <1>3. CASE RebuildClearStream \/ RebuildSetStream \/ RebuildStart
    BY <1>3, Zenon DEF RebuildClearStream, RebuildSetStream, RebuildStart, FlagsOK
  <1>4. CASE Setup \/ Play \/ Online
    BY <1>4, Zenon DEF Setup, Play, Online, FlagsOK
  <1>5. CASE RelayDone \/ RelayEnds \/ RelayStalls \/ StallNeedKey
    BY <1>5, Zenon DEF RelayDone, RelayEnds, RelayStalls, StallNeedKey, FlagsOK
  <1>6. CASE EnterSleeping \/ EnterFallback \/ Close \/ CloseWait \/ Settle \/ Retry
    BY <1>6, Zenon DEF EnterSleeping, EnterFallback, Close, CloseWait, Settle, Retry, FlagsOK
  <1>7. ASSUME NEW f \in FbIds, FbStep(f) PROVE FlagsOK'
    BY <1>7, Zenon DEF FbStep, FbPrepare, FbWrite, FbReturn, FbForget, FbEnd, FlagsOK
  <1>8. ASSUME NEW s \in SilIds, SilStep(s) PROVE FlagsOK'
    BY <1>8, Zenon DEF SilStep, SilWrite, SilEnd, FlagsOK
  <1>9. ASSUME NEW p \in Packets, Receive(p) PROVE FlagsOK'
    BY <1>9, Zenon DEF Receive, FlagsOK
  <1>10. CASE CbStopFallback \/ CbWaitFallback \/ CbWakeFallback \/ CbSwitch \/ CbClearNeedKey
    BY <1>10, Zenon DEF CbStopFallback, CbWaitFallback, CbWakeFallback,
       CbSwitch, CbClearNeedKey, FlagsOK
  <1>11. CASE CbOnline \/ CbWrite \/ CbStopSilence \/ CbWaitSilence
    BY <1>11, Zenon DEF CbOnline, CbWrite, CbStopSilence, CbWaitSilence, FlagsOK
  <1>12. CASE CbWakeSilence \/ CbAudioReset \/ CbAudioWrite
    BY <1>12, Zenon DEF CbWakeSilence, CbAudioReset, CbAudioWrite, FlagsOK
  <1>13. CASE CameraCloses \/ Quiet
    BY <1>13, Zenon DEF CameraCloses, Quiet, FlagsOK
  <1>14. CASE StopCancel \/ StopStep
    BY <1>14, Zenon DEF StopCancel, StopStep, StopWait, StopFallback,
       StopSilence, StopReturn, FlagsOK
  <1>15. CASE Stopped
    BY <1>15, Zenon DEF Stopped, vars, FlagsOK
  <1>16. QED
    BY <1>1, <1>2, <1>3, <1>4, <1>5, <1>6, <1>7, <1>8, <1>9, <1>10, <1>11,
       <1>12, <1>13, <1>14, <1>15 DEF Next, LoopStep, CbStep

LEMMA NextType == ASSUME TypeOK, [Next]_vars PROVE TypeOK'
  <1>1. CASE UNCHANGED vars
    BY <1>1 DEF TypeOK, FlagsOK, CountersOK, vars
  <1>2. CASE Next
    <2>1. FlagsOK'
      BY <1>2, FlagsType DEF TypeOK
    <2>2. CountersOK'
      BY <1>2, LoopType, FbType, SilType, ReceiveType, CbType, OtherType DEF Next, TypeOK
    <2>3. QED
      BY <2>1, <2>2 DEF TypeOK
  <1>3. QED
    BY <1>1, <1>2

(* Every variable keeps its type.                                          *)
THEOREM TypeCorrect == Spec => []TypeOK
  BY InitType, NextType, PTL DEF Spec

-----------------------------------------------------------------------------
(* The recorded cancel function.                                           *)

CancelledIsAlive == \A f \in fbCancelled : fb[f] # "none"

(* The part of RecordedIsLive that no argument about failures is needed    *)
(* for.                                                                    *)
RecordedIsStarted ==
    fallbackCancel # NoId =>
        /\ fb[fallbackCancel] \in {"prepare", "run", "exit"}
        /\ fallbackCancel \notin fbCancelled

GenInv == RecordedIsStarted /\ CancelledIsAlive

(* startFallback: a fresh goroutine carries no cancellation of the one     *)
(* that had its identity before.                                           *)
LEMMA StartFallbackGen ==
  ASSUME TypeOK, GenInv, startFallback
  PROVE  GenInv'
  <1>1. CASE fallbackCancel # NoId
    BY <1>1 DEF startFallback, GenInv, RecordedIsStarted, CancelledIsAlive
  <1>2. CASE fallbackCancel = NoId
    <2>1. PICK f \in FbIds : /\ fb[f] = "none"
                             /\ fb' = [fb EXCEPT ![f] = "prepare"]
                             /\ fallbackCancel' = f
                             /\ fbCancelled' = fbCancelled
      BY <1>2 DEF startFallback
    <2>2. f \notin fbCancelled
      BY <2>1 DEF GenInv, CancelledIsAlive
    <2>3. QED
      BY <2>1, <2>2 DEF TypeOK, CountersOK, GenInv, RecordedIsStarted, CancelledIsAlive
  <1>3. QED
    BY <1>1, <1>2

(* stopFallback forgets the cancel function before it calls it.            *)
LEMMA TakeFallbackGen ==
  ASSUME TypeOK, GenInv, takeFallback
  PROVE  GenInv'
  BY DEF takeFallback, TypeOK, CountersOK, GenInv, RecordedIsStarted, CancelledIsAlive

LEMMA FbStepGen ==
  ASSUME TypeOK, GenInv, NEW f \in FbIds, FbStep(f)
  PROVE  GenInv'
  <1>1. CASE FbPrepare(f) \/ FbReturn(f)
    BY <1>1 DEF FbPrepare, FbReturn, TypeOK, CountersOK, GenInv, RecordedIsStarted,
       CancelledIsAlive
  <1>2. CASE FbWrite(f)
    BY <1>2 DEF FbWrite, GenInv, RecordedIsStarted, CancelledIsAlive
  <1>3. CASE FbForget(f)
    BY <1>3 DEF FbForget, TypeOK, CountersOK, GenInv, RecordedIsStarted, CancelledIsAlive
  <1>4. CASE FbEnd(f)
    BY <1>4 DEF FbEnd, TypeOK, CountersOK, GenInv, RecordedIsStarted, CancelledIsAlive
  <1>5. QED
    BY <1>1, <1>2, <1>3, <1>4 DEF FbStep

(* No other step touches a fallback goroutine or its record.               *)
LEMMA OtherGen ==
  ASSUME GenInv, UNCHANGED fbVars
  PROVE  GenInv'
  BY DEF GenInv, RecordedIsStarted, CancelledIsAlive

(* Whoever is not a fallback goroutine starts one, stops one, or leaves    *)
(* them alone.                                                             *)
LEMMA FbVarsSteps ==
  ASSUME [Next]_vars
  PROVE  \/ startFallback \/ takeFallback \/ UNCHANGED fbVars
         \/ \E f \in FbIds : FbStep(f)
  <1>1. LoopStep => startFallback \/ takeFallback \/ UNCHANGED fbVars
    BY DEF LoopStep, Boot, Check, Dial, Gate, Describe, RebuildStopFallback,
       RebuildWaitFallback, RebuildStopSilence, RebuildWaitSilence,
       RebuildClearStream, RebuildSetStream, RebuildStart, Setup, Play, Online,
       RelayDone, RelayEnds, RelayStalls, StallNeedKey,
       EnterSleeping, EnterFallback, Close, CloseWait, Settle, Retry
  <1>2. CbStep => takeFallback \/ UNCHANGED fbVars
    BY DEF CbStep, CbStopFallback, CbWaitFallback, CbWakeFallback, CbSwitch,
       CbClearNeedKey, CbOnline, CbWrite, CbStopSilence, CbWaitSilence,
       CbWakeSilence, CbAudioReset, CbAudioWrite
  <1>3. (\E s \in SilIds : SilStep(s)) \/ (\E p \in Packets : Receive(p)) => UNCHANGED fbVars
    BY DEF SilStep, SilWrite, SilEnd, Receive
  <1>4. CameraCloses \/ Quiet \/ StopCancel \/ StopStep \/ Stopped \/ UNCHANGED vars
          => takeFallback \/ UNCHANGED fbVars
    BY DEF CameraCloses, Quiet, StopCancel, StopStep, StopWait, StopFallback,
       StopSilence, StopReturn, Stopped, vars
  <1>5. QED
    BY <1>1, <1>2, <1>3, <1>4 DEF Next

LEMMA NextGen == ASSUME TypeOK, GenInv, [Next]_vars PROVE GenInv'
  BY FbVarsSteps, StartFallbackGen, TakeFallbackGen, FbStepGen, OtherGen

-----------------------------------------------------------------------------
(* Between two sessions.                                                   *)

OpenPCs == {"online", "relay", "stallKey", "stallSleep",
            "stallStart", "endSleep", "endStart", "close"}
SessionPCs == OpenPCs \cup {"closing"}

(* The callback runs only while a session's client is open.                *)
NotPlaying == loop \notin OpenPCs => ~playing
CallbackIdle == loop \notin SessionPCs => cb = "idle"

LEMMA NotPlayingNext ==
  ASSUME NotPlaying, [Next]_vars
  PROVE  NotPlaying'
  <1>1. CASE LoopStep
    <2>1. CASE Boot \/ Check \/ Dial \/ Gate \/ Describe
      BY <2>1 DEF Boot, Check, Dial, Gate, Describe, LoopGoto, NotPlaying, OpenPCs
    <2>2. CASE RebuildStopFallback \/ RebuildWaitFallback \/ RebuildStopSilence \/ RebuildWaitSilence
      BY <2>2 DEF RebuildStopFallback, RebuildWaitFallback, RebuildStopSilence,
         RebuildWaitSilence, LoopGoto, NotPlaying, OpenPCs
    <2>3. CASE RebuildClearStream \/ RebuildSetStream \/ RebuildStart \/ Setup
      BY <2>3 DEF RebuildClearStream, RebuildSetStream, RebuildStart, Setup,
         LoopGoto, NotPlaying, OpenPCs
    <2>4. CASE Play \/ Online \/ RelayDone \/ RelayEnds \/ RelayStalls
      BY <2>4 DEF Play, Online, RelayDone, RelayEnds, RelayStalls,
         LoopGoto, NotPlaying, OpenPCs
    <2>5. CASE StallNeedKey \/ EnterSleeping \/ EnterFallback
      BY <2>5 DEF StallNeedKey, EnterSleeping, EnterFallback, LoopGoto,
         NotPlaying, OpenPCs
    <2>6. CASE Close \/ CloseWait \/ Settle \/ Retry
      BY <2>6 DEF Close, CloseWait, Settle, Retry, LoopGoto, NotPlaying, OpenPCs
    <2>7. QED
      BY <1>1, <2>1, <2>2, <2>3, <2>4, <2>5, <2>6 DEF LoopStep
  <1>2. CASE UNCHANGED <<loop, playing>>
    BY <1>2 DEF NotPlaying
  <1>3. CASE CameraCloses
    BY <1>3 DEF CameraCloses, NotPlaying
  <1>4. ASSUME NEW f \in FbIds, FbStep(f) PROVE UNCHANGED <<loop, playing>>
    BY <1>4 DEF FbStep, FbPrepare, FbWrite, FbReturn, FbForget, FbEnd
  <1>5. ASSUME NEW s \in SilIds, SilStep(s) PROVE UNCHANGED <<loop, playing>>
    BY <1>5 DEF SilStep, SilWrite, SilEnd
  <1>6. ASSUME CbStep \/ (\E p \in Packets : Receive(p)) PROVE UNCHANGED <<loop, playing>>
    BY <1>6 DEF Receive, CbStep, CbStopFallback, CbWaitFallback, CbWakeFallback,
       CbSwitch, CbClearNeedKey, CbOnline, CbWrite, CbStopSilence,
       CbWaitSilence, CbWakeSilence, CbAudioReset, CbAudioWrite
  <1>7. ASSUME Quiet \/ StopCancel \/ StopStep \/ Stopped \/ UNCHANGED vars
        PROVE  UNCHANGED <<loop, playing>>
    BY <1>7 DEF Quiet, StopCancel, StopStep, StopWait, StopFallback,
       StopSilence, StopReturn, Stopped, vars
  <1>8. QED
    BY <1>1, <1>2, <1>3, <1>4, <1>5, <1>6, <1>7 DEF Next

LEMMA CallbackIdleNext ==
  ASSUME NotPlaying, CallbackIdle, [Next]_vars
  PROVE  CallbackIdle'
  <1>1. CASE LoopStep
    <2>1. CASE CloseWait
      BY <2>1 DEF CloseWait, LoopGoto, CallbackIdle, SessionPCs, OpenPCs
    <2>2. LoopStep /\ ~CloseWait =>
            UNCHANGED cb /\ (loop' \notin SessionPCs => loop \notin SessionPCs)
      BY DEF LoopStep, Boot, Check, Dial, Gate, Describe, RebuildStopFallback,
         RebuildWaitFallback, RebuildStopSilence, RebuildWaitSilence,
         RebuildClearStream, RebuildSetStream, RebuildStart, Setup, Play,
         Online, RelayDone, RelayEnds, RelayStalls, StallNeedKey,
         EnterSleeping, EnterFallback, Close, Settle, Retry, LoopGoto, SessionPCs, OpenPCs
    <2>3. QED
      BY <1>1, <2>1, <2>2 DEF CallbackIdle
  <1>2. CASE UNCHANGED <<loop, cb>>
    BY <1>2 DEF CallbackIdle
  <1>3. ASSUME NEW f \in FbIds, FbStep(f) PROVE CallbackIdle'
    BY <1>3 DEF FbStep, FbPrepare, FbWrite, FbReturn, FbForget, FbEnd, CallbackIdle
  <1>4. ASSUME NEW s \in SilIds, SilStep(s) PROVE CallbackIdle'
    BY <1>4 DEF SilStep, SilWrite, SilEnd, CallbackIdle
  <1>5. ASSUME NEW p \in Packets, Receive(p) PROVE CallbackIdle'
    BY <1>5 DEF Receive, NotPlaying, CallbackIdle, SessionPCs, OpenPCs
  <1>6. ASSUME CbStep PROVE CallbackIdle'
    BY <1>6 DEF CbStep, CbStopFallback, CbWaitFallback, CbWakeFallback,
       CbSwitch, CbClearNeedKey, CbOnline, CbWrite, CbStopSilence,
       CbWaitSilence, CbWakeSilence, CbAudioReset, CbAudioWrite, CbGoto,
       CallbackIdle
  <1>7. ASSUME CameraCloses \/ Quiet \/ StopCancel \/ StopStep \/ Stopped \/ UNCHANGED vars
        PROVE  UNCHANGED <<loop, cb>>
    BY <1>7 DEF CameraCloses, Quiet, StopCancel, StopStep, StopWait,
       StopFallback, StopSilence, StopReturn, Stopped, vars
  <1>8. QED
    BY <1>1, <1>2, <1>3, <1>4, <1>5, <1>6, <1>7 DEF Next

(* Only Stop cancels the handler's context, and nothing revives it.        *)
StopIsDone == main # "run" => done

LEMMA StopIsDoneNext ==
  ASSUME StopIsDone, [Next]_vars
  PROVE  StopIsDone' /\ (done => done')
  <1>1. CASE StopCancel
    BY <1>1 DEF StopCancel, StopIsDone
  <1>2. CASE StopStep
    BY <1>2 DEF StopStep, StopWait, StopFallback, StopSilence, StopReturn, StopIsDone
  <1>3. CASE UNCHANGED stopVars
    BY <1>3 DEF StopIsDone
  <1>4. LoopStep => UNCHANGED stopVars
    BY DEF LoopStep, Boot, Check, Dial, Gate, Describe, RebuildStopFallback,
       RebuildWaitFallback, RebuildStopSilence, RebuildWaitSilence,
       RebuildClearStream, RebuildSetStream, RebuildStart, Setup, Play, Online,
       RelayDone, RelayEnds, RelayStalls, StallNeedKey,
       EnterSleeping, EnterFallback, Close, CloseWait, Settle, Retry
  <1>5. CbStep \/ (\E p \in Packets : Receive(p)) => UNCHANGED stopVars
    BY DEF Receive, CbStep, CbStopFallback, CbWaitFallback, CbWakeFallback,
       CbSwitch, CbClearNeedKey, CbOnline, CbWrite, CbStopSilence,
       CbWaitSilence, CbWakeSilence, CbAudioReset, CbAudioWrite
  <1>6. (\E f \in FbIds : FbStep(f)) \/ (\E s \in SilIds : SilStep(s)) => UNCHANGED stopVars
    BY DEF FbStep, FbPrepare, FbWrite, FbReturn, FbForget, FbEnd, SilStep,
       SilWrite, SilEnd
  <1>7. CameraCloses \/ Quiet \/ Stopped \/ UNCHANGED vars => UNCHANGED stopVars
    BY DEF CameraCloses, Quiet, Stopped, vars
  <1>8. QED
    BY <1>1, <1>2, <1>3, <1>4, <1>5, <1>6, <1>7 DEF Next

(* A goroutine that never fails leaves its loop only when it is told to.   *)
ExitIsDone == ~FallbackFails => \A f \in FbIds : fb[f] = "exit" => FbDone(f)

LEMMA ExitIsDoneNext ==
  ASSUME TypeOK, StopIsDone, ExitIsDone, [Next]_vars
  PROVE  ExitIsDone'
  <1>0. done => done'
    BY StopIsDoneNext
  <1>1. CASE startFallback
    <2>1. \A f \in FbIds : fb'[f] = "exit" => fb[f] = "exit"
      BY <1>1 DEF startFallback, TypeOK, CountersOK
    <2>2. fbCancelled' = fbCancelled
      BY <1>1 DEF startFallback
    <2>3. QED
      BY <1>0, <2>1, <2>2 DEF ExitIsDone, FbDone
  <1>2. CASE takeFallback
    BY <1>0, <1>2 DEF takeFallback, ExitIsDone, FbDone
  <1>3. CASE UNCHANGED fbVars
    BY <1>0, <1>3 DEF ExitIsDone, FbDone
  <1>4. ASSUME NEW f \in FbIds, FbStep(f) PROVE ExitIsDone'
    <2>1. CASE FbPrepare(f)
      BY <1>0, <1>4, <2>1 DEF FbPrepare, TypeOK, CountersOK, ExitIsDone, FbDone
    <2>2. CASE FbWrite(f)
      BY <1>0, <2>2 DEF FbWrite, ExitIsDone, FbDone
    <2>3. CASE FbReturn(f)
      BY <1>0, <1>4, <2>3 DEF FbReturn, TypeOK, CountersOK, ExitIsDone, FbDone
    <2>4. CASE FbForget(f)
      BY <1>0, <1>4, <2>4 DEF FbForget, TypeOK, CountersOK, ExitIsDone, FbDone
    <2>5. CASE FbEnd(f)
      BY <1>0, <1>4, <2>5 DEF FbEnd, TypeOK, CountersOK, ExitIsDone, FbDone
    <2>6. QED
      BY <1>4, <2>1, <2>2, <2>3, <2>4, <2>5 DEF FbStep
  <1>5. QED
    BY <1>1, <1>2, <1>3, <1>4, FbVarsSteps DEF Next

(* A recorded cancel function belongs to a goroutine that stopFallback has *)
(* not reached, at every moment of every interleaving, and this goroutine  *)
(* serves unless the handler stops or the generator could make no picture. *)
THEOREM RecordedAlwaysLive == Spec => []RecordedIsLive
  <1> DEFINE Inv == GenInv /\ StopIsDone /\ ExitIsDone
  <1>1. Init => Inv
    BY DEF Init, GenInv, RecordedIsStarted, CancelledIsAlive, StopIsDone, ExitIsDone
  <1>2. TypeOK /\ Inv /\ [Next]_vars => Inv'
    BY NextGen, StopIsDoneNext, ExitIsDoneNext
  <1>3. TypeOK /\ Inv => RecordedIsLive
    BY DEF GenInv, RecordedIsStarted, ExitIsDone, FbDone, RecordedIsLive,
       TypeOK, CountersOK
  <1> HIDE DEF Inv
  <1>4. QED
    BY <1>1, <1>2, <1>3, TypeCorrect, PTL DEF Spec

(* Whether startFallback starts a goroutine or finds one, one serves.      *)
LEMMA StartServes ==
  ASSUME TypeOK, GenInv, ExitIsDone, ~FallbackFails, ~done, ~done', startFallback
  PROVE  \E f \in FbIds : Serving(f)'
  <1>1. CASE fallbackCancel = NoId
    <2>1. PICK f \in FbIds : /\ fb[f] = "none"
                             /\ fb' = [fb EXCEPT ![f] = "prepare"]
                             /\ fbCancelled' = fbCancelled
      BY <1>1 DEF startFallback
    <2>2. f \notin fbCancelled'
      BY <2>1 DEF GenInv, CancelledIsAlive
    <2>3. fb'[f] = "prepare"
      BY <2>1 DEF TypeOK, CountersOK
    <2>4. QED
      BY <2>2, <2>3 DEF Serving, FbDone
  <1>2. CASE fallbackCancel # NoId
    <2>1. fallbackCancel \in FbIds /\ UNCHANGED <<fb, fbCancelled>>
      BY <1>2 DEF startFallback, TypeOK, CountersOK
    <2>2. fallbackCancel \notin fbCancelled /\ fb[fallbackCancel] \in {"prepare", "run", "exit"}
      BY <1>2 DEF GenInv, RecordedIsStarted
    <2>3. fb[fallbackCancel] # "exit"
      BY <2>1, <2>2 DEF ExitIsDone, FbDone
    <2>4. QED
      BY <2>1, <2>2, <2>3 DEF Serving, FbDone
  <1>3. QED
    BY <1>1, <1>2

(* No step of a fallback goroutine ends the service of one.                *)
LEMMA ServingKept ==
  ASSUME TypeOK, ~FallbackFails, ~done, ~done',
         NEW g \in FbIds, FbStep(g), NEW f \in FbIds, Serving(f)
  PROVE  Serving(f)'
  <1>1. fb[f] \in {"prepare", "run"} /\ f \notin fbCancelled
    BY DEF Serving, FbDone
  <1>2. fb'[f] \in {"prepare", "run"} /\ f \notin fbCancelled'
    <2>1. CASE FbPrepare(g)
      BY <1>1, <2>1 DEF FbPrepare, FbDone, TypeOK, CountersOK
    <2>2. CASE FbWrite(g)
      BY <1>1, <2>2 DEF FbWrite
    <2>3. CASE FbReturn(g)
      BY <1>1, <2>3 DEF FbReturn, FbDone, TypeOK, CountersOK
    <2>4. CASE FbForget(g) \/ FbEnd(g)
      BY <1>1, <2>4 DEF FbForget, FbEnd, TypeOK, CountersOK
    <2>5. QED
      BY <2>1, <2>2, <2>3, <2>4 DEF FbStep
  <1>3. QED
    BY <1>2 DEF Serving, FbDone

LEMMA AsleepNext ==
  ASSUME TypeOK, GenInv, CallbackIdle, StopIsDone, ExitIsDone,
         AsleepHasFallback, [Next]_vars
  PROVE  AsleepHasFallback'
  <1> SUFFICES ASSUME CanFallback, ~FallbackFails, ~done', loop' \in BetweenSessions
               PROVE  \E f \in FbIds : Serving(f)'
    BY DEF AsleepHasFallback
  <1>1. ~done
    BY StopIsDoneNext
  <1>2. ASSUME loop \in BetweenSessions, UNCHANGED fbVars PROVE \E f \in FbIds : Serving(f)'
    <2>1. PICK f \in FbIds : Serving(f)
      BY <1>1, <1>2 DEF AsleepHasFallback
    <2>2. Serving(f)'
      BY <1>1, <1>2, <2>1 DEF Serving, FbDone
    <2>3. QED
      BY <2>2
  <1>3. CASE LoopStep
    <2>1. CASE Boot \/ Settle
      <3>1. startFallback
        BY <1>1, <2>1 DEF Boot, Settle
      <3>2. QED
        BY <1>1, <3>1, StartServes
    <2>2. CASE Check \/ Dial \/ Gate \/ Retry
      BY <1>2, <2>2 DEF Check, Dial, Gate, Retry, BetweenSessions
    <2>3. CASE ~(Boot \/ Settle \/ Check \/ Dial \/ Gate \/ Retry)
      <3>1. loop' \notin BetweenSessions
        BY <1>3, <2>3 DEF LoopStep, Describe, RebuildStopFallback,
           RebuildWaitFallback, RebuildStopSilence, RebuildWaitSilence,
           RebuildClearStream, RebuildSetStream, RebuildStart, Setup, Play,
           Online, RelayDone, RelayEnds, RelayStalls, StallNeedKey,
           EnterSleeping, EnterFallback, Close, CloseWait, LoopGoto, BetweenSessions
      <3>2. QED
        BY <3>1
    <2>4. QED
      BY <2>1, <2>2, <2>3
  <1>4. ASSUME NEW g \in FbIds, FbStep(g) PROVE \E f \in FbIds : Serving(f)'
    <2>1. UNCHANGED loop
      BY <1>4 DEF FbStep, FbPrepare, FbWrite, FbReturn, FbForget, FbEnd
    <2>2. PICK f \in FbIds : Serving(f)
      BY <1>1, <2>1 DEF AsleepHasFallback
    <2>3. QED
      BY <1>1, <1>4, <2>2, ServingKept
  <1>5. CASE \/ \E s \in SilIds : SilStep(s)
             \/ \E p \in Packets : Receive(p)
             \/ CameraCloses \/ Quiet \/ Stopped \/ UNCHANGED vars
    <2>1. UNCHANGED <<loop, fbVars>>
      BY <1>5 DEF SilStep, SilWrite, SilEnd, Receive, CameraCloses, Quiet, Stopped, vars
    <2>2. QED
      BY <1>2, <2>1
  <1>6. CASE CbStep
    <2>1. loop' = loop /\ cb # "idle"
      BY <1>6 DEF CbStep, CbStopFallback, CbWaitFallback, CbWakeFallback, CbSwitch,
         CbClearNeedKey, CbOnline, CbWrite, CbStopSilence, CbWaitSilence,
         CbWakeSilence, CbAudioReset, CbAudioWrite, CbGoto
    <2>2. QED
      BY <2>1 DEF CallbackIdle, BetweenSessions, SessionPCs, OpenPCs
  <1>7. CASE StopCancel \/ StopStep
    BY <1>1, <1>7 DEF StopCancel, StopStep, StopWait, StopFallback, StopSilence,
       StopReturn, StopIsDone
  <1>8. QED
    BY <1>3, <1>4, <1>5, <1>6, <1>7 DEF Next

AsleepInv ==
    /\ GenInv
    /\ NotPlaying
    /\ CallbackIdle
    /\ StopIsDone
    /\ ExitIsDone
    /\ AsleepHasFallback

LEMMA InitAsleep == Init => AsleepInv
  BY DEF Init, AsleepInv, GenInv, RecordedIsStarted, CancelledIsAlive, NotPlaying,
     CallbackIdle, SessionPCs, OpenPCs, StopIsDone, ExitIsDone, AsleepHasFallback,
     BetweenSessions

(* The consumers of a sleeping battery camera always have a source: from   *)
(* the moment a session is left until the next one's DESCRIBE is answered, *)
(* a fallback goroutine lives that nobody has stopped.                     *)
THEOREM AsleepAlwaysServed == Spec => []AsleepHasFallback
  <1>1. TypeOK /\ AsleepInv /\ [Next]_vars => AsleepInv'
    BY NextGen, NotPlayingNext, CallbackIdleNext, StopIsDoneNext,
       ExitIsDoneNext, AsleepNext DEF AsleepInv
  <1>2. AsleepInv => AsleepHasFallback
    BY DEF AsleepInv
  <1>3. QED
    BY InitAsleep, <1>1, <1>2, TypeCorrect, PTL DEF Spec
=============================================================================
