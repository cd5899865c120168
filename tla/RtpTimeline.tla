----------------------------- MODULE RtpTimeline ------------------------------
(***************************************************************************)
(* The RTP output normaliser: writeToStream and writeAudioToStream, which  *)
(* give every source, camera or generated, a place on one timeline.  The   *)
(* timestamps of a source start anywhere and, like those of the output,    *)
(* wrap; a consumer follows the output by unwrapping it against the newest *)
(* timestamp it has.                                                       *)
(***************************************************************************)
EXTENDS Integers

CONSTANTS
    Width,          \* bits of a timestamp: 32
    Gap,            \* 3600 ticks for video, 160 for audio
    MaxStep,        \* bound on how far a source's timestamp advances at once
    Back,           \* how far a B-frame lies behind the newest picture
    MaxTime         \* bound on the time the consumer sees

M == 2 ^ Width

ASSUME TimelineAssumption ==
    /\ Width \in Nat \ {0} /\ Gap \in Nat \ {0} /\ MaxStep \in Nat /\ Back \in Nat
    /\ MaxTime \in Nat
    /\ 2 * (MaxStep + Gap + Back) < M

VARIABLES
    inited, srcBase, outBase, lastOut, \* the fields videoInited, videoSrcBase, ...
    src,            \* the newest timestamp of the current source
    clock,          \* and its time since its first packet
    begun,          \* the consumer's time of that first packet
    before,         \* the newest time of the sources before, if any
    newest,         \* the newest time the consumer has seen
    at,             \* the consumer's time of the latest packet
    since           \* the source's own time of that packet

code == <<inited, srcBase, outBase, lastOut>>
vars == <<code, src, clock, begun, before, newest, at, since>>

Stamps == 0 .. M - 1

TypeOK ==
    /\ inited \in BOOLEAN
    /\ {srcBase, outBase, lastOut, src} \subseteq Stamps
    /\ {begun, before, newest, at, since} \subseteq Int /\ clock \in Nat

Init ==
    /\ inited = FALSE /\ srcBase = 0 /\ outBase = 0 /\ lastOut = 0
    /\ src \in Stamps
    /\ clock = 0 /\ begun = 0 /\ before = -M /\ newest = 0 /\ at = 0 /\ since = 0

(* The conversion to int32: the distance of two timestamps.                *)
Signed(x) == LET r == x % M IN IF 2 * r < M THEN r ELSE r - M

(* lastOut that follows every packet, that ignores wrapping.               *)
MutFollow(out) == out
MutUnsigned(out) == IF out > lastOut THEN out ELSE lastOut
highWater(out) == IF Signed(out - lastOut) > 0 THEN out ELSE lastOut

(* newBase in wider arithmetic.                                            *)
MutNoWrap == IF lastOut = 0 THEN 0 ELSE lastOut + Gap
(* The base of a source that starts after the others.                      *)
newBase == IF lastOut = 0 THEN 0 ELSE (lastOut + Gap) % M

(* A packet with a timestamp d after the newest of its source.             *)
Write(d) ==
    LET ts == (src + d) % M
        sb == IF inited THEN srcBase ELSE ts
        ob == IF inited THEN outBase ELSE newBase
        out == (ob + (ts - sb)) % M
        seenAt == newest + Signed(out - newest)
    IN  /\ newest < MaxTime
        /\ inited' = TRUE /\ srcBase' = sb /\ outBase' = ob
        /\ lastOut' = highWater(out)
        /\ at' = seenAt
        /\ newest' = IF seenAt > newest THEN seenAt ELSE newest
        /\ begun' = IF inited THEN begun ELSE seenAt
        /\ since' = clock + d
        /\ src' = IF d > 0 THEN ts ELSE src
        /\ clock' = IF d > 0 THEN clock + d ELSE clock
        /\ UNCHANGED before

(* The first packet of a source is the one its time is counted from.       *)
First == ~inited /\ Write(0)
Later == inited /\ \E d \in -Back .. MaxStep : Write(d)

(* A switch of sources without the reset.                                  *)
MutNoReset ==
    /\ inited
    /\ src' \in Stamps /\ clock' = 0 /\ before' = newest
    /\ UNCHANGED <<code, begun, newest, at, since>>
(* Another source takes over: resetVideoTimeline or resetAudioTimeline.    *)
Switch ==
    /\ inited
    /\ inited' = FALSE
    /\ src' \in Stamps /\ clock' = 0 /\ before' = newest
    /\ at' = newest /\ begun' = newest /\ since' = 0
    /\ UNCHANGED <<srcBase, outBase, lastOut, newest>>

(* The bound is reached.                                                   *)
Bounded == newest >= MaxTime /\ UNCHANGED vars

Next == First \/ Later \/ Switch \/ Bounded

Spec == Init /\ [][Next]_vars

-----------------------------------------------------------------------------
(* Properties.                                                             *)

(* A consumer sees every source at its own pace, to the tick, however      *)
(* often the source's timestamps and the output's wrap.                    *)
SourcePace == inited => at - begun = since

(* No source begins before the end of the one before it, and when it       *)
(* begins later no packet of it goes back there: neither wrapping nor the  *)
(* B-frames of the old source mislead the high-water mark, which           *)
(* "prevents backwards timestamp jumps on source splice".  The gap is all  *)
(* the room there is for the B-frames of the new source: Back <= Gap.      *)
NoStepBack == inited => begun >= before /\ (begun > before => at >= before)
=============================================================================
