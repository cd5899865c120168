# A TLA+ model of rtsp-keepalive-proxy

The proxy sits between battery cameras and a recorder. It relays a camera while
it streams, and sends a generated or replayed picture and silent audio while it
sleeps, on one continuous RTP stream. This directory models the parts of the
program in which goroutines, the order of messages, wrapping numbers, byte
formats or a crash make that promise hard to keep, checks them with TLC, and
proves the central invariants with TLAPS.

`PROJECT.json` lists the runs, the theorems, the source lines behind each
definition, and the places where code and comment disagree.

## 1. The system

| Component | Source | State | Operations |
|---|---|---|---|
| Stream handler loop | `stream_handler.go` `loop`, `connectAndRelay` | `state`, the RTSP client, arrival times | dial, handshake, rebuild, relay, stall and timeout detection, retry |
| Packet callback | `registerCallback` | `seenIDR`, `silenceStopped` (per session), `needKey` | filter, take over from the fallback, relay video and audio |
| Fallback generator | `startFallback`, `stopFallback`, `runFallback` | `fallbackCancel`, `fallbackWg` | start, stop and join, choose a frame, tick |
| Silence generator | `startSilenceAudio`, `stopSilenceAudio`, `runSilenceAudio` | `silenceCancel`, `silenceWg` | the same for audio |
| RTP normaliser | `writeToStream`, `writeAudioToStream` | source base, output base, high-water mark | place a packet on the output timeline, reset for a new source |
| Handshake gate | `hostgate.go` | one buffered channel per host | acquire, release after a pause |
| Keyframe persistence | `persist.go`, `storeLastCameraKeyframe` | one file per codec, `lastCameraVideoAU`, `lastWrite` | save (rate-limited, in a goroutine), restore |
| Neutral fallback | `neutral.go` | cached frame, `fbKind`, `fbSince` | encode once per parameters, switch after a hold, report |
| Server and manager | `server.go`, `manager.go` | map from path to server stream | serve consumers, rebuild a stream, start and stop everything |
| Configuration | `config.go` | none | expand, default, validate |
| Bitstream helpers | `annexb.go`, filters in `stream_handler.go` and `persist.go` | none | split, filter, complete access units |
| Status API, logging, start-up | `health/`, `logger/`, `redact.go`, `cmd/proxy` | none of their own | read and print |

How they meet: the loop and the callback are two goroutines of one session, and
each of them starts or stops generators through `fallbackCancel` and
`silenceCancel`. All writers meet at the normaliser's mutexes. Handlers of one
camera meet only at the handshake gate. `rebuildForCodec` calls back into the
server to swap the stream. Saving a keyframe leaves the handler's control
altogether: nothing waits for that goroutine.

What a picture is made of is a second thread through the code. Parameter sets
come from four encoders (the camera's, libx264 or libx265 at the start, the
neutral image's, and the one whose keyframe was saved by an earlier process)
and sit in five places: in band, in the callback's local variables, in
`initialVPS/SPS/PPS`, in the SDP the server stream shares with the handler, and
in what a consumer has read. Frames of one encoder under the sets of another
cannot be decoded.

What is hard to test: a stop, its join and a start are separate critical
sections; a generator may take seconds before it notices that it is cancelled;
the callback waits for generators while the loop's ticker goes on; timestamps
wrap once in 13 hours; an exit may fall between two file operations.

What makes each part correct: video and audio never lack a source and never
have two; every wait ends; the status is that of the current session; nothing
survives Stop; handshakes take turns; files are whole and ordered; the timeline
never goes back at a splice; every picture travels with its own encoder's
parameter sets, and unharmed; a detection stream never shows a restored
picture; no packet goes to a closed stream and no consumer waits at one.

## 2. The modules

| Module | Models | Extends |
|---|---|---|
| `StreamHandler` | one handler with all its goroutines | |
| `MCStreamHandler` | symmetry for TLC | `StreamHandler` |
| `StreamHandlerProofs` | theorems | `StreamHandler`, TLAPS |
| `WriterProofs` | theorems on who writes when | `StreamHandlerProofs` |
| `HandshakeTurns` | what a gate promises: turns with a pause behind each | |
| `HostGate` | the gates and their users; implements `HandshakeTurns` | |
| `MCHostGate` | an assignment of streams to gates | `HostGate` |
| `HostGateProofs` | theorems, refinement included | `HostGate`, TLAPS |
| `KeyframeStore` | the keyframe in memory and on disk | |
| `MCKeyframeStore` | symmetry for TLC | `KeyframeStore` |
| `KeyframeStoreProofs` | theorems | `KeyframeStore`, TLAPS |
| `RtpTimeline` | the normaliser of one track and a consumer | |
| `RtpTimelineProofs` | theorems | `RtpTimeline`, TLAPS |
| `FallbackPolicy` | which picture a fallback of each mode shows, given what the handler has | |
| `FallbackFrames` | which picture is sent under which parameter sets, and the SDP; implements `FallbackPolicy` | |
| `MCFallbackFrames` | configurations to start with | `FallbackFrames` |
| `FallbackFramesProofs` | theorems, refinement included | `FallbackFrames`, TLAPS |
| `AccessUnits` | filters, parameter sets and byte streams, byte by byte | |
| `MCAccessUnits` | NAL units for both codecs | `AccessUnits` |
| `AccessUnitsProofs` | theorems | `AccessUnits`, TLAPS |
| `ProxyServer` | manager, RTSP server, consumers, shutdown | |
| `MCProxyServer` | two names that may collide | `ProxyServer` |
| `ProxyServerProofs` | theorems | `ProxyServer`, TLAPS |

In every module the definitions named `Mut...` are deliberate slips (a
forgotten wait, a missing reset) placed in front of the operator they vary. The
specifications do not use them; `PROJECT.json` says which property notices
which slip.

### StreamHandler

A goroutine is a program counter; a step is what it does between two points at
which another goroutine can notice something: a critical section, an atomic
store, a blocking wait.

- `loop` follows `loop` and `connectAndRelay` through dial, gate, DESCRIBE,
  `rebuildForCodec`, SETUP, PLAY, the select, `c.Close` and the retry.
- `cb` follows `registerCallback` for one packet. The H.264 and H.265 branches
  are the same control flow and share it. A packet is a keyframe (`idr`), a
  dependent picture (`pic`), something without a picture (`part`) or `audio`.
- `fb[f]` and `sil[s]` are the goroutines of `startFallback` and
  `startSilenceAudio`. An identity is reused when its goroutine has ended, so
  the sets bound how many exist at the same time, not how many are started.
- `fallbackCancel` and `silenceCancel` name the goroutine whose cancel function
  is recorded; `fbCancelled` and `silCancelled` hold the contexts cancelled
  through them. A goroutine also sees `done`, the handler's own context.
- `videoBase` and `audioBase` name the source that set the timeline since its
  last reset.
- Time is two flags, `connQuiet` (Timeout has passed without a packet) and
  `videoQuiet` (StallTimeout without video), raised by `Quiet` and lowered by
  packets. With `SlowSteps` they may be raised between any two steps, which
  models a goroutine that is not scheduled for seconds; without it only while
  the callback waits or is idle, which keeps counterexamples realistic.
- `WaitGroup.Wait` in the callback looks once and then sleeps. A sleeper is
  woken when the count drops to zero, and panics when it then finds it raised
  again; `recover` in the callback turns that into a lost packet
  (`CbWakeFallback`). The waits of the loop and of `Stop` are guards, since
  nothing can raise the count at those points.

Configuration: `CanFallback` (battery mode and a fallback mode other than
`none`), `HasAudio`, `CanRebuild`, `FallbackFails`. `sessionKey` and
`unreachableLogged` only feed log lines and are left out.

### HostGate

`full` is the set of gates whose channel holds its token, `timers` the armed
`time.AfterFunc` of `releaseAfter`, `held` the streams whose local `gateHeld`
is true. `GateOf` is the key of a stream, which the code takes from the text of
its URL.
`turn` maps this to `HandshakeTurns`: a gate is taken by a stream, pausing, or
free.

### KeyframeStore

Keyframes are numbered in the order the camera sends them. `disk` has a file
per codec and temporary files; each goroutine of `saveKeyframe` is a record in
`saves` that goes through create, write, rename and remove, each of which may
fail as `writeFileAtomic` allows. `Exit` is the end of the process, by crash or
by a plain stop, and drops those goroutines wherever they are. `Start` is
`restoreKeyframe` with its order of codecs; the configured codec may change
between two runs. `SlowDisk` decides whether a save may last longer than
`persistEvery`.

### RtpTimeline

The arithmetic is the code's, modulo `2^Width`. A history part (`clock`,
`begun`, `before`, `newest`, `at`) is a consumer that unwraps what it receives,
against which the pace of a source and the splices are judged. Sequence numbers
and SSRC are left out: one counter, one constant.

### FallbackFrames and FallbackPolicy

A parameter set stands for the SPS and PPS (and the VPS) of one encoder run;
`x264`, `x265` are those of the proxy's own encodings. A frame records whose
slices it holds, the sets in band, where it comes from and the picture size.
The variables are the fields of the handler that carry frames or sets
(`initial`, `desc`, `lastAU`, `live`, `pre`, `neutral`, `kind`), the file on
disk, the local sets of the callback, and a consumer with the SDP it has read.

The loop goes through `Describe`, `Rebuild`, `CopyParams`, `Play`, `Stall`,
`Leave`, `Close`; the callback takes a keyframe through `TakeOver` (the one that
ends a fallback), `Receive`, `CbStore`, `CbLive`, `CbCapture`; the fallback
goroutine reads codec, keyframe, flag and sets one after the other, as
`runFallback` does, and may be overtaken between any two. `Exit` ends the
process anywhere; it is started again with any configuration.

A stop and its join are apart, as in the code. `stopFallback` clears the record
and the kind and marks the goroutine; `Rebuild` and the takeover in `Receive`
are its joins. In between the goroutine goes on: it may choose a picture, set
the kind, have FFmpeg run, and it looks at its context only where the code
does (`FbReadSets`, `FbDone`). Its deferred function clears the kind once more
(`FbForget`). What is not here is a second generator: a stall that starts one
while the callback waits in its join is the subject of `StreamHandler`
(`MCHandlerStuck`), and `MayOvertake` excludes it.

`ensureNeutral` takes two steps. `FbEncode` reads the key and gives it to
FFmpeg, with `neutralMu` held (`enc`); `FbEncoded` returns the image made for
that key, or `FbEncodeFails`. DESCRIBE, captures and rebuilds may change the
size meanwhile. `FbCached` is the way past FFmpeg. The warming goroutine of the
hold (`warm`, `WarmBegin`, `WarmEnd`) competes for the lock, is stopped by
nobody, and outlives its fallback. `neutralWanted` reads size, codec and
profile under three locks; here it is one step.

`fallback_mode: last_frame` behaves like `offline` here, except for what the
generated PNG shows. `neutral` on a main stream is `offline`.

`FallbackPolicy` has three variables: the mode, the picture the handler has of
the camera, and what is shown. `FollowsPolicy` is the refinement. The policy is
the table in `src/README.md` but for one row: the table allows a generated
image only until the camera has streamed once, the policy whenever the handler
has no picture, since a rebuild gives the picture up. The row as it stands is
`ReplayOnceStreamed`, which the code breaks (`MCFramesOnce`).

### AccessUnits

A NAL unit is the sequence of its bytes, with real type bytes. `Receive` is the
callback from the decoder to `storeLastCameraKeyframe`: filter, early returns,
tracking, `ensureSPSPPS`. `Stream`, `ParseAnnexB` and `StreamNALUs` are
functions of byte sequences. `Encode` is FFmpeg's output with start codes of
either length; `ReadForeign` is any string of bytes that matter to a parser.
The NAL units obey what the standards say of them: no start code inside, no
zero at the end (`UnitsAssumption`).

### ProxyServer

`main` is the goroutine of `main.go` from `NewManager` to the end;
`loop[p]` is the loop of the handler at path `p`, of which only rebuilds and the
end are visible here. `streams` is the server's map, `open` the streams not yet
closed, `ptr` each handler's own reference. A consumer is described, has been
given a stream by `OnSetup` (`asked`), and only then becomes its reader: a
rebuild may come in between. gortsplib closes a stream's readers with it and
refuses to add one to a closed stream (`Disconnected`, `AddReader`). Stream
identities are reused once nothing refers to them.

## 3. The runs

| Run | States | Shows |
|---|---|---|
| `MCHandlerBattery` | 987k | A battery camera with audio and codec changes. `AsleepHasFallback`: between sessions a generator always serves. `AtMostTwoWriters`: repeated stalls do not pile up generators. `RecordedIsLive`: "already running" in `startFallback` is true, as the recorded generator is not stopped and, while the handler is not, still serves. `SilenceReachable`: a silence that runs can be stopped. `StatusFollowsLoop`: no status of an old session shows through. `NoWriterDuringRebuild`: nothing is written while the stream is swapped. `StopJoinsAll`: nothing outlives Stop. |
| `MCHandlerMains` | 100k | A camera without a battery fallback. `OneVideoSource`, `OneAudioSource`: sources never alternate, although a rebuild starts generators. `SessionEnds`: every session that is over is left, although its callback may be waiting. |
| `MCHandlerStop` | 196k | `StopReturns`, `RebuildCompletes` for a battery camera. |
| `MCHostGate` | 2.6k | Exclusion, refinement of `HandshakeTurns` (`TakesTurns`), and `WaitEnds`: no stream waits for ever behind its sibling. |
| `MCKeyframeStore` | 91k | `WholeFiles`, `NeverOlder`, `KeyframeKept`: files are whole, ordered, and not lost. |
| `MCRtpTimeline` | 161k | `SourcePace`: a source keeps its pace on the output through every wrap. `NoStepBack`: no step back at a splice. |
| `MCFallbackFrames` | 1.6M | `ReplayFits`, `OwnSetsFit`: replayed and relayed keyframes and the neutral image carry their encoder's sets and the codec of the SDP. `SdpDescribesCamera`: so does the SDP a playing consumer has read. `NeutralFollowsCamera`: the neutral image on show has the size of the camera's pictures, however long ago FFmpeg began it or it was cached. `KindTells`: `/status` names what is shown, and nothing once it is gone. `FollowsPolicy`: the fallback shows what its mode allows; a detection stream never a restored picture. |
| `MCAccessUnits` | 134k | `PictureKept`: filter and normalisation lose and move nothing of a picture. `OwnSetsWin`: a keyframe has its own sets, once, at its head. `RestoredExactly`: saving and restoring changes nothing. `ParsedExactly`: both parsers give back what was encoded; of any bytes nothing behind the first start code is lost. |
| `MCProxyServer` | 117k | `WritesReachConsumers`: a handler's stream is open and is the one consumers get, through rebuilds and until it has stopped. `ReadersAreFed`: no consumer stays on a replaced stream, or on another camera's. `ShutsDown`: the signal leads to the end, with every stream closed. |

Every module has one type invariant, `TypeOK`, checked by its run.

Runs that are expected to fail, each with a disagreement between the code and
what the repository says about it:

| Run | What happens |
|---|---|
| `MCHandlerStuck` | A stall starts fallback 2 while fallback 1 is still returning; 1's deferred function clears the record of 2. The callback's join then waits for 2, which nobody can cancel, `c.Close` waits for the callback, and the camera is never connected again. |
| `MCFramesInBand` | A camera announces no sets in DESCRIBE and sends them in band. `initialSPS/PPS` stay libx264's, and the fallback puts them in front of the camera's keyframe. |
| `MCFramesOnce` | The camera has streamed, sleeps, and comes back with other sets. The rebuild advertises them and drops the keyframe, the handshake fails, and the fallback shows the generated image again, which the table of modes allows only until the camera has streamed once. It is sent behind the camera's SPS, against the comments of `rebuildForCodec`, and cannot be decoded. |

### Known divergences without a run

Seen in these models, or in variants of them, and recorded here:

- *Stall race* (`stream_handler.go:891`, against 98-100): the stall test,
  `needKey.Store(true)` and `startFallback` are three steps. A keyframe's
  callback in between clears `needKey`, or a picture passes the test before it
  is set; pictures without a fresh keyframe are relayed over the fallback.
- *Audio mix* (line 1697, against 331-332): a video stall with live audio
  starts silence on the same track, which nothing stops while the session lasts.
- *Generated picture at a cold start* (line 1801, against 474-476): as in
  `MCFramesOnce`, but before the camera has streamed: the first DESCRIBE rebuilds
  the stream with the camera's sets, the camera goes back to sleep before its
  first keyframe, and the pre-encoded frame is sent behind the camera's SPS.
- *Picture in mode `none`* (line 507, against `src/README.md:136`): a rebuild
  starts the fallback whatever the mode, when a camera of another codec
  announces no sets (`Announces = {FALSE}`, mode `none`: `fb.pc = "serve"` is
  reached, and `FollowsPolicy` false). When the handshake then fails,
  consumers are shown the generated image while the camera sleeps.
- *Start on a dying generator* (line 1686): a generator that could make no
  picture (lines 1785, 1814, 1826) keeps its record until its deferred
  function runs.
  A `startFallback` in between returns early, and the camera sleeps without
  fallback until the next dial. `RecordedIsLive` and `AsleepHasFallback` except
  such generators (`FallbackFails`).
- *Missing silence* (line 1686, against 332): audio that comes before the
  first keyframe stops the silence; if the session then ends, `startFallback`
  returns early and the fallback stays without audio.
- *Gate spelling* (line 685): `rtsp://cam/..` and `rtsp://cam:554/..` get two
  gates.
- *Shadowing file* (`persist.go:119`): an exit between rename and removal
  leaves two files, and the older codec may win on restore.
- *Restored picture on a detection stream* (`stream_handler.go:1756-1770`):
  with `Outrun = TRUE`, `FollowsPolicy` is false. A generator that has read the
  restored keyframe finds `liveKeyframe` set by a callback that stored a new
  one in between. A stall or timeout must be noticed while the callback works
  on the first keyframe of the process.
- *DESCRIBE and SETUP around a rebuild*: with `SetupRaces = TRUE`,
  `SdpDescribesCamera` is false; nothing ties the two requests together.
- *Sets that change within a session*: with `MidSession = TRUE`, `ReplayFits`
  and `SdpDescribesCamera` are false; `initialSPS/PPS` are taken from DESCRIBE
  only, so a replay of the new keyframe is sent behind the old sets until the
  next session.
- *Slow path* (line 1811): a frame encoded on the spot is reported as
  `last_keyframe`. `KindTells` excepts it: without a pre-encoded frame a
  replaying stream may be called `last_keyframe` whatever it shows.
- *Kind of a successor* (lines 1704-1709): a fallback that a stall starts while
  the callback joins the one before it has its kind, like its record, cleared
  by that one; `/status` then says `none` while it serves. The record is the
  subject of `MCHandlerStuck`.
- *Size of the neutral image* (`neutral.go:86`): an image is served as long as
  its fallback runs, and nothing replaces it when the size changes.
  `NeutralFollowsCamera` holds since what changes the size between sessions
  changes the SPS, and so rebuilds the stream and ends the fallback. It is
  false for a camera that changes its size within a session
  (`MidSession`), for one that does not announce its sets, and when
  pre-encoding has failed: then nothing is advertised that the first DESCRIBE
  could differ from, there is no rebuild, and the fallback goes on with an
  image of the default size until it ends.
- *Timeline*: a high-water mark of 0 counts as "nothing sent", so the source
  that follows it starts without the 40 ms gap (`NoStepBack` therefore allows
  `begun = before`); and with `Back > Gap`, B-frames that lead a new source's
  first keyframe by more than the gap, `NoStepBack` is false.
- *Slow disk*: with `SlowDisk = TRUE` both `NeverOlder` and `KeyframeKept` are
  false; two overlapping saves can finish in either order, and the removal of
  one may delete the file of the other.

### Bounds, and why they are enough

- Three fallback identities: `AtMostTwoWriters` needs a third to be refuted
  (for any number of them it is a theorem);
  two silence identities: `startSilenceAudio` refuses to start while one is
  recorded, so a second is enough to overlap a dying one. An action that needs
  an identity when none is free is disabled; this loses no behaviour that a
  larger set would show to these properties, as the same three phases (about to
  end, recorded, overlapping) are all present.
- The handler's behaviours are not bounded otherwise: sessions, packets, stalls
  and rebuilds repeat for ever.
- Three streams on two cameras: two that share a gate and one that does not.
- Five keyframes, two exits and three temporary names: two codecs, a change in
  between, and a save in flight at each exit.
- `Width = 4` with `MaxTime = 40` lets the output wrap twice, and each source
  at any point of its own; gap, step and reordering together stay below half
  the range, as they do in 32 bits.
- `MCFallbackFrames`: two sets of one codec and one of the other, so that the
  camera can change either; its behaviours are otherwise unbounded. The
  constants that narrow it are `Announces = {TRUE}` (the camera's DESCRIBE
  carries its sets, as that of most cameras does), `MidSession = FALSE`,
  `SetupRaces = FALSE`, and `Outrun = FALSE`: no goroutine is held up for as
  long as `StallTimeout`. What fails without each is listed above. The others
  are theorems without it: `OwnSetsFit` and `KindTells` need none of the four,
  `FollowsPolicy` neither `MidSession` nor `SetupRaces`, `ReplayFits` and
  `NeutralFollowsCamera` neither `Outrun` nor `SetupRaces`, and
  `SdpDescribesCamera` not `Outrun`.
- `MCAccessUnits`: eight NAL units per codec, one of each kind the code
  distinguishes, two SPS, and slices whose bytes go as near to a start code as
  the standards let them. Four units hold every combination of three sets and
  a slice, three encoded units every neighbourhood of a start code. Eight
  bytes hold two start codes with something before, between and after them.
- `MCProxyServer`: two cameras whose names may collide, hence up to three
  handlers, and one consumer, since consumers do not affect one another; five
  identities, so that there is always a fresh one.
- `CHECK_DEADLOCK` is on everywhere. `Stopped`, `Ended`, `Exited` and `Bounded`
  are the states in which the system, or the bound, has come to its end.

### Fairness

- Weak fairness of the loop, of the callback, of each generator and of `Stop`:
  Go's scheduler runs every goroutine that can go on.
- Strong fairness of `RelayDone`: a `select` chooses at random among its ready
  cases, so a context that stays done is not passed over for ever in favour of
  the ticker.
- `HostGate`: requests have read and write timeouts, so a handshake ends
  (`Fail` or `Played`); timers fire; strong fairness of `Acquire`, because a Go
  channel serves its blocked senders in the order of their arrival.
- `ProxyServer`: weak fairness of the shutdown and of the rest of a rebuild that
  has begun; strong fairness of the end of a cancelled loop, which may be
  between DESCRIBE and its rebuild but does not dial again, so that at most one
  rebuild comes before its end. That it ends is `StopReturns` of
  `StreamHandler`.
- Nothing is assumed of the camera, the clock, or the operator who stops the
  proxy. In particular a playing session need not end.

`MCHandlerStuck` fails under that same fairness: the blocked callback is not
a matter of scheduling.

## 4. The theorems

All for every value of the constants, from the assumptions named in the modules
(`IdAssumption`, `ConfigAssumption`, `GateAssumption`, `StoreAssumption`,
`FramesAssumption`, `ServerAssumption`, `TimelineAssumption`,
`UnitsAssumption`); what a theorem assumes beyond them is
in its ASSUME and named below.

- `TypeCorrect`, `RecordedAlwaysLive`, `AsleepAlwaysServed`
  (`StreamHandlerProofs`). `RecordedIsLive` needs two companions:
  `CancelledIsAlive`, a cancelled identity still belongs to its old goroutine,
  so that a goroutine `startFallback` creates never inherits a cancellation;
  and `ExitIsDone`, a generator that does not fail returns only because its
  context is done, so that one that is recorded, and hence not cancelled, has
  returned only when the handler is stopped.
  `AsleepHasFallback` is not inductive: that the callback of the last session
  cannot stop the fallback the loop has just started depends on `c.Close`
  having joined it. Three facts close the gap: `NotPlaying` and `CallbackIdle`
  (outside a session no packet is delivered and the callback is idle, so no one
  else calls `stopFallback`), and `ExitIsDone`. With them `startFallback` leaves a
  serving generator whether it starts one or finds one recorded, and the late
  `FbForget` of an older one may take away the record but not the goroutine.
- `WriterProofs` builds on these, for any number of goroutines.
  - `WritersAlwaysFew`: two writers at a time are not inductive by themselves,
    since a stall may start a generator while others are still returning. The
    invariant counts every generator that has not yet given up its record
    (`Forgetters`): while nobody joins, the recorded one is the only one
    (`OneGenerator`), and while the callback or a rebuild does, there is at
    most one besides (`OneOther`). `LoopJoined`, that Stop's last steps come
    after the loop's join, excludes a third actor.
  - `RebuildNeverDrops`: what the joins of `rebuildForCodec` achieve lasts
    until it starts generators on the new stream (`RebuildAlone`), and outside
    a session no callback can start or stop one.
  - `StopAlwaysJoins`, `StatusAlwaysFollows`, `SilenceAlwaysReachable`: with
    `LoopJoined`, `SilenceJoined` and `CallbackIdle`. That a late callback
    cannot set the status of the next session rests on `c.Close` joining it.
  - `VideoNeverAlternates` and `AudioNeverAlternates` assume `~CanFallback`,
    which is the configuration of `MCHandlerMains`; with a battery fallback
    they are false (the stall race and the audio mix of section 3).
    `VideoInv` says that the loop never takes the stall branch (`NoStall`),
    that a rebuild's generator is the only one (`OneFallback`), and that once
    the callback has let the first keyframe through, every generator has been
    joined and nobody but the camera sets the base (`CameraVideo`).
    `CameraAudio` is its counterpart.
- `TimelineTypeCorrect`, `PaceAlwaysKept`, `NeverStepsBack`
  (`RtpTimelineProofs`), for every width, gap and pace that
  `TimelineAssumption` allows. The code's modular variables are the residues of
  the consumer's unwrapped ones (`Following`). Because gap, step and reordering
  together stay below half the range, the sign test on the difference finds the
  true distance (`Distance`), which is what makes the high-water mark follow
  the newest packet through every wrap. `Started` and `Counted` place a source
  after the one before it. `NeverStepsBack` assumes `Back <= Gap`; the
  divergence above shows that it must.
- `TokenAlwaysConserved`, `HandshakesExclusive`, `GateTakesTurns`,
  `GateTypeCorrect` (`HostGateProofs`). The invariant counts the token: holders of one gate are
  equal, a holder excludes a timer, and every stream inside a handshake is a
  holder. The refinement maps each step to a step of `HandshakeTurns` or to
  stuttering.
- `FilesAlwaysWhole`, `SavesInOrder`, `KeyframeAlwaysKept`, `StoreTypeCorrect`
  (`KeyframeStoreProofs`).
  `FilesAlwaysWhole` needs that no two saves share a temporary file and that a
  save about to rename has a whole one; it holds for a slow disk too.
  `SavesInOrder` assumes `SlowDisk = FALSE`: then at most one save is in
  flight, and its keyframe is newer than anything on disk. Under the same
  assumption `KeyframeAlwaysKept` adds that a save about to remove the other
  codec's file has left its own.
- `FallbackFramesProofs`, in three layers.
  `OwnSetsAlwaysFit`, `KindAlwaysTells` and `FramesTypeCorrect` hold without
  further assumptions, and follow from `PictureInv`: the handler's codec is
  that of its SDP and, in a session, of the camera (`CodecsAgree`); the callback
  runs in a session and carries a whole keyframe (`CallbackWhole`); what is
  stored is whole or generated (`Stores`); only a detection stream has the
  neutral image, of the current codec, also when FFmpeg is still at it
  (`FallbackPicture`); whoever stops a fallback waits until it is gone
  (`Joins`), so the kind a stopped one may still set is cleared by its deferred
  function before anybody else sets one; and the kind is that of the start
  until a picture is chosen, and follows the picture from then on
  (`KindFollows`). `KindAlwaysTells` is about one generator: that a second may
  be started during the join is the divergence above.
  `FramesFollowPolicy` assumes `~Outrun` and `FALSE \notin Announces`. It adds
  that once a live keyframe has been stored no restored one is left to be
  chosen (`LiveIsKept`), which is what the flag `liveKeyframe` is for and what
  `Outrun` breaks; and that what a goroutine has read is what the handler has,
  from the choice to the first picture (`FallbackChoice`), since whoever
  changes it, a rebuild or a callback, has joined the fallback. Without its
  second assumption mode `none` shows a picture.
  `ReplayAlwaysFits` assumes `FALSE \notin Announces` and `~MidSession`: then
  `initialVPS/SPS/PPS` are, from the copy in a session to the next rebuild, the
  sets of every keyframe kept or about to be served (`SetsFollow`,
  `StoredFits`, `TakenFits`). A rebuild is what changes them, and it drops the
  stored keyframe and stops the fallback, so that none outlives its sets.
  `NeutralAlwaysFollows`, under the same assumptions, is about all of the time
  from the key FFmpeg is given to the end of the fallback that shows the image.
  With a pre-encoded frame the sets that gave the size are those in
  `initialSPS`, but for a moment in a rebuild at which no fallback lives
  (`NotedInitial`); so whatever would change the size under a running fallback,
  or under FFmpeg, is a change `cameraParamsDiffer` sees, and ends it first
  (`SizeFollows`). The warming goroutine may finish later and store an old
  size, which the key then keeps from being taken.
  `SdpAlwaysDescribes` assumes `~SetupRaces` as well, and adds that
  the SDP a consumer has read is the current one or has no sets (`SdpCurrent`).
  The divergences of section 3 show that each of these assumptions is needed.
- `WritesAlwaysReachConsumers`, `ReadersAlwaysFed`, `ServerTypeCorrect`
  (`ProxyServerProofs`), for any cameras, low streams and consumers.
  `ServerInv` says that the open streams are those of the paths, one each
  (`StreamsOwned`); that a handler's reference is its path's stream except
  within a rebuild, and for the one handler `Server.Start` is at
  (`PtrFollows`); that no loop runs before all streams exist or after the join
  (`LoopsJoined`), which keeps a rebuild out of `Server.Stop`; and that a
  consumer holds its path's stream or a closed one (`ConsumersCurrent`), which
  `AddReader` refuses. That a fresh stream is always there is a counting
  argument from `ServerAssumption`.
- `PictureAlwaysKept`, `OwnSetsAlwaysWin`, `UnitsTypeCorrect`,
  `KeyframesRestoredExactly`, `BytesParsedExactly` (`AccessUnitsProofs`), for
  any NAL units that `UnitsAssumption` allows, of any length, and access units
  and streams of any length. These are statements about data: the loops of the
  code are recursive functions (`Select`, `ReadAll`), and what they compute is
  proved by induction, over sets of numbers (`SetInduction`) and of sequences
  (`SeqInduction`), both derived from the well-foundedness of `<`, since the
  library's own rules take an operator. From the equation for one more element
  (`SelectAppend`, `StreamAppend`, `ReadAllAppend`) follow the laws that are used.
  - The relay needs `RelayInv`: each known set is a unit of its own type, and
    what is relayed is the filtered access unit behind the sets learned from
    it. The rest is calculation with `Select` (`SelectConcat`,
    `SelectSelect`): the filter takes no set away, the sets in front are found
    again and leave the picture alone.
  - `StreamNALUs`: a start code of either length makes the reader send the
    unit before it (`ReadCode`), and a unit that obeys the standards is read as
    it is (`ReadUnit`), so reading undoes `Stream` (`StreamRead`).
  - `ParseAnnexB` searches all of the bytes at once. A stream whose last byte
    is not zero, and which does not end in a start code (`Closed`), can be
    continued (`Extended`) without any start code appearing but the one put
    there (`StartsExtended`); therefore one unit more is one piece more
    (`PiecesExtended`). This is where both halves of `UnitsAssumption`, no
    start code inside and no zero at the end, are needed.
  - For bytes of any other origin nothing is assumed of them: the positions
    found are in order with none left out (`PositionsInOrder`), each piece
    with its start code reaches to the next (`PieceIs`, `PieceBounds`), so
    together they cover all bytes behind the first (`PiecesCover`), and no
    start code is left in one (`NoCodeInside`).
  - `PathInv` adds the type invariant, that H.264 has no VPS, and that FFmpeg's
    stream is one of well-formed units.

### Only model-checked

Liveness (`SessionEnds`, `StopReturns`, `RebuildCompletes`, `WaitEnds`,
`ShutsDown`) is beyond the prover, as is `ENABLED`. No run and no theorem is
about a fallback that is started while the callback joins another, in
`FallbackFrames`, or about a size that changes between the three reads of
`neutralWanted`. Every other property of a passing run is a
theorem, under the assumptions named above.

## 5. Not modelled

- FFmpeg, the drawing of images, gortsplib and the network, except as sources
  of packets, frames, errors and closed connections.
- Power loss between rename and disk (there is no fsync), unreadable files.
- `decodeAndStore`, the background snapshot of `last_frame` mode: it changes
  what a generated PNG shows, and nothing a property tells apart.
- `config.go` but for the claim of output paths, `capFallbackFPS`,
  `lowDimensions`, `ulawToAlaw`, `redact.go`: formulas of their inputs without
  state, which the repository's table tests cover.
- The status server and the logger: they read and print.
- `none` as a fallback mode is `CanFallback = FALSE` in `StreamHandler`, and a
  mode of its own in `FallbackFrames`.

Worth doing next: the loop variants behind the liveness properties, as
safety theorems (that a wait always has somebody who will end it), and a second
generator in `FallbackFrames`.
