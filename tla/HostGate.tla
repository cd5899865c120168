------------------------------ MODULE HostGate -------------------------------
(***************************************************************************)
(* The per-camera handshake gate (internal/proxy/hostgate.go) and the way  *)
(* connectAndRelay uses it.  A gate is a channel with room for one token:  *)
(* sending takes the gate, and a timer receives the token back a while     *)
(* after the handshake.                                                    *)
(***************************************************************************)
EXTENDS Naturals

CONSTANTS
    Streams,    \* the stream handlers of all cameras
    Gates,      \* the keys of hostGates
    GateOf,     \* the key a stream passes to gateFor: its URL's Host
    Free, Pause \* for the promise, see HandshakeTurns

ASSUME GateAssumption ==
    /\ GateOf \in [Streams -> Gates]
    /\ Free \notin Streams /\ Pause \notin Streams /\ Free # Pause

VARIABLES
    full,       \* gates whose channel holds a token
    timers,     \* armed releaseAfter timers of each gate
    held,       \* streams whose gateHeld is true
    pc,         \* where each connectAndRelay is
    done        \* streams whose context is cancelled

vars == <<full, timers, held, pc, done>>

TypeOK ==
    /\ full \subseteq Gates
    /\ timers \in [Gates -> 0 .. 1]
    /\ held \subseteq Streams
    /\ pc \in [Streams -> {"away", "waiting", "acquired", "handshake", "playing", "failed"}]
    /\ done \subseteq Streams

Init ==
    /\ full = {}
    /\ timers = [g \in Gates |-> 0]
    /\ held = {}
    /\ pc = [s \in Streams |-> "away"]
    /\ done = {}

(* probeTCP found the camera awake and the client is started.              *)
Probe(s) ==
    /\ pc[s] = "away" /\ s \notin done
    /\ pc' = [pc EXCEPT ![s] = "waiting"]
    /\ UNCHANGED <<full, timers, held, done>>

(* The select of acquire may still send when the context is done as well.  *)
Acquire(s) ==
    /\ pc[s] = "waiting" /\ GateOf[s] \notin full
    /\ full' = full \cup {GateOf[s]}
    /\ held' = held \cup {s}
    /\ pc' = [pc EXCEPT ![s] = "acquired"]
    /\ UNCHANGED <<timers, done>>

GiveUp(s) ==
    /\ pc[s] = "waiting" /\ s \in done
    /\ pc' = [pc EXCEPT ![s] = "away"]
    /\ UNCHANGED <<full, timers, held, done>>

(* The check of the context behind acquire.                                *)
Begin(s) ==
    /\ pc[s] = "acquired"
    /\ pc' = [pc EXCEPT ![s] = IF s \in done THEN "failed" ELSE "handshake"]
    /\ UNCHANGED <<full, timers, held, done>>

(* DESCRIBE or SETUP or PLAY fails.                                        *)
Fail(s) ==
    /\ pc[s] = "handshake"
    /\ pc' = [pc EXCEPT ![s] = "failed"]
    /\ UNCHANGED <<full, timers, held, done>>

(* releaseGate releases once, whether called behind PLAY or deferred.      *)
MutReleaseAlways(s) ==
    /\ held' = held \ {s}
    /\ timers' = [timers EXCEPT ![GateOf[s]] = @ + 1]
releaseGate(s) ==
    /\ held' = held \ {s}
    /\ timers' = IF s \in held THEN [timers EXCEPT ![GateOf[s]] = @ + 1] ELSE timers

(* releaseGate that frees the gate at once, as releaseAfter(0) does.       *)
MutPlayed(s) ==
    /\ pc[s] = "handshake"
    /\ pc' = [pc EXCEPT ![s] = "playing"]
    /\ held' = held \ {s}
    /\ full' = full \ {GateOf[s]}
    /\ UNCHANGED <<timers, done>>
Played(s) ==
    /\ pc[s] = "handshake"
    /\ pc' = [pc EXCEPT ![s] = "playing"]
    /\ releaseGate(s)
    /\ UNCHANGED <<full, done>>

(* The end of connectAndRelay: the deferred releaseGate.                   *)
MutReturnNoRelease(s) ==
    /\ pc[s] \in {"playing", "failed"}
    /\ pc' = [pc EXCEPT ![s] = "away"]
    /\ held' = held \ {s}
    /\ UNCHANGED <<full, timers, done>>
Return(s) ==
    /\ pc[s] \in {"playing", "failed"}
    /\ pc' = [pc EXCEPT ![s] = "away"]
    /\ releaseGate(s)
    /\ UNCHANGED <<full, done>>

(* The timer's receive, which would wait for ever on an empty channel.     *)
TimerFires(g) ==
    /\ timers[g] > 0 /\ g \in full
    /\ timers' = [timers EXCEPT ![g] = @ - 1]
    /\ full' = full \ {g}
    /\ UNCHANGED <<held, pc, done>>

Cancel(s) ==
    /\ s \notin done
    /\ done' = done \cup {s}
    /\ UNCHANGED <<full, timers, held, pc>>

(* The proxy has shut down.                                                *)
Ended ==
    /\ done = Streams /\ \A s \in Streams : pc[s] = "away"
    /\ UNCHANGED vars

Step(s) ==
    \/ Acquire(s) \/ GiveUp(s) \/ Begin(s) \/ Fail(s) \/ Played(s) \/ Return(s)

Next ==
    \/ \E s \in Streams : Probe(s) \/ Step(s) \/ Cancel(s)
    \/ \E g \in Gates : TimerFires(g)
    \/ Ended

Spec == Init /\ [][Next]_vars

(* Requests and their timeouts end a handshake; a timer fires; a Go        *)
(* channel serves blocked senders in the order they came, so a stream that *)
(* waits is not overtaken for ever.                                        *)
Fairness ==
    /\ \A s \in Streams : WF_vars(Begin(s)) /\ WF_vars(Fail(s) \/ Played(s))
                          /\ WF_vars(pc[s] = "failed" /\ Return(s))
                          /\ SF_vars(Acquire(s)) /\ WF_vars(GiveUp(s))
    /\ \A g \in Gates : WF_vars(TimerFires(g))

FairSpec == Spec /\ Fairness

-----------------------------------------------------------------------------
(* Properties.                                                             *)

(* The comment on hostGate: "hostGate lets one stream at a time run its    *)
(* RTSP handshake (DESCRIBE/SETUP/PLAY) towards a given camera address".   *)
(* Here for two streams with the same key.                                 *)
InHandshake(s) == pc[s] = "handshake"
OneHandshakePerGate ==
    \A s, t \in Streams :
        InHandshake(s) /\ InHandshake(t) /\ GateOf[s] = GateOf[t] => s = t

(* The token is never lost and never doubled: it is in the channel exactly *)
(* while one stream holds the gate or one timer is to give it back.  So no *)
(* timer waits for ever, and none gives back the token of a later holder.  *)
TokenConserved ==
    \A g \in Gates :
        /\ g \in full <=> (timers[g] = 1 \/ \E s \in held : GateOf[s] = g)
        /\ timers[g] = 1 => \A s \in held : GateOf[s] # g

(* A stream that waits for the gate gets it or gives up, however its       *)
(* siblings come and go.                                                   *)
WaitEnds == \A s \in Streams : pc[s] = "waiting" ~> pc[s] # "waiting"

(* The gate implements the promise of HandshakeTurns, the pause included.  *)
turn == [g \in Gates |->
           IF \E s \in held : GateOf[s] = g
             THEN CHOOSE s \in held : GateOf[s] = g
             ELSE IF timers[g] > 0 THEN Pause ELSE Free]
Turns == INSTANCE HandshakeTurns WITH turn <- turn
TakesTurns == Turns!Spec
=============================================================================
