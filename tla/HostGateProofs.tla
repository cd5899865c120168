---------------------------- MODULE HostGateProofs -----------------------------
(***************************************************************************)
(* Proofs about HostGate: for every set of streams and cameras, the token  *)
(* of a gate is neither lost nor doubled, handshakes with one key exclude  *)
(* each other, and the gate implements HandshakeTurns.                     *)
(***************************************************************************)
EXTENDS HostGate, TLAPS

(* Where a stream holds the gate, and that no other then does.             *)
HeldAt == \A s \in Streams : s \in held <=> pc[s] \in {"acquired", "handshake", "failed"}
OneHolder == \A s, t \in held : GateOf[s] = GateOf[t] => s = t

IInv == TypeOK /\ HeldAt /\ OneHolder /\ TokenConserved

-----------------------------------------------------------------------------
(* Taking and giving back the gate are the only steps that touch it.       *)
LEMMA InitIInv == Init => IInv
  BY GateAssumption DEF Init, IInv, TypeOK, HeldAt, OneHolder, TokenConserved

LEMMA AcquireKeeps ==
  ASSUME IInv, NEW s \in Streams, Acquire(s)
  PROVE  IInv'
<1>1. /\ TypeOK /\ HeldAt /\ OneHolder /\ TokenConserved
      /\ GateOf \in [Streams -> Gates]
  BY GateAssumption DEF IInv
<1>2. \A t \in held : GateOf[t] # GateOf[s]
  BY <1>1 DEF TypeOK, TokenConserved, Acquire
<1>3. timers[GateOf[s]] = 0
  BY <1>1 DEF TypeOK, TokenConserved, Acquire
<1>4. TypeOK'
  BY <1>1 DEF TypeOK, Acquire
<1>5. HeldAt'
  BY <1>1 DEF TypeOK, HeldAt, Acquire
<1>6. OneHolder'
  BY <1>1, <1>2 DEF TypeOK, OneHolder, Acquire
<1>7. TokenConserved'
  BY <1>1, <1>2, <1>3 DEF TypeOK, TokenConserved, Acquire
<1> QED
  BY <1>4, <1>5, <1>6, <1>7 DEF IInv

(* A holder that gives the gate back leaves a timer in its place.          *)
LEMMA ReleaseKeeps ==
  ASSUME IInv, NEW s \in Streams, Played(s) \/ Return(s)
  PROVE  IInv'
<1>1. /\ TypeOK /\ HeldAt /\ OneHolder /\ TokenConserved
      /\ GateOf \in [Streams -> Gates]
  BY GateAssumption DEF IInv
<1>2. /\ held' = held \ {s}
      /\ timers' = IF s \in held THEN [timers EXCEPT ![GateOf[s]] = @ + 1] ELSE timers
      /\ full' = full /\ done' = done
      /\ \/ pc' = [pc EXCEPT ![s] = "playing"]
         \/ pc' = [pc EXCEPT ![s] = "away"]
  BY DEF Played, Return, releaseGate
<1>3. s \in held => timers[GateOf[s]] = 0 /\ GateOf[s] \in full
  BY <1>1 DEF TypeOK, TokenConserved
<1>4. TypeOK'
  BY <1>1, <1>2, <1>3 DEF TypeOK
<1>5. HeldAt'
  BY <1>1, <1>2 DEF TypeOK, HeldAt
<1>6. OneHolder'
  BY <1>1, <1>2 DEF OneHolder
<1>7. TokenConserved'
  <2> SUFFICES ASSUME NEW g \in Gates
               PROVE  /\ g \in full' <=> (timers'[g] = 1 \/ \E t \in held' : GateOf[t] = g)
                      /\ timers'[g] = 1 => \A t \in held' : GateOf[t] # g
    BY DEF TokenConserved
  <2>1. CASE s \in held /\ g = GateOf[s]
    BY <1>1, <1>2, <1>3, <2>1 DEF TypeOK, OneHolder
  <2>2. CASE ~(s \in held /\ g = GateOf[s])
    BY <1>1, <1>2, <2>2 DEF TypeOK, TokenConserved
  <2> QED BY <2>1, <2>2
<1> QED
  BY <1>4, <1>5, <1>6, <1>7 DEF IInv

LEMMA TimerKeeps ==
  ASSUME IInv, NEW g \in Gates, TimerFires(g)
  PROVE  IInv'
<1>1. TypeOK /\ HeldAt /\ OneHolder /\ TokenConserved
  BY DEF IInv
<1>2. TypeOK'
  BY <1>1 DEF TypeOK, TimerFires
<1>3. HeldAt' /\ OneHolder'
  BY <1>1 DEF HeldAt, OneHolder, TimerFires
<1>4. TokenConserved'
  BY <1>1 DEF TypeOK, TokenConserved, TimerFires
<1> QED
  BY <1>2, <1>3, <1>4 DEF IInv

(* The remaining steps move a program counter or a context only.           *)
LEMMA OthersKeep ==
  ASSUME IInv, NEW s \in Streams,
         Probe(s) \/ GiveUp(s) \/ Begin(s) \/ Fail(s) \/ Cancel(s)
  PROVE  IInv' /\ UNCHANGED <<full, timers, held>>
<1>1. TypeOK /\ HeldAt /\ OneHolder /\ TokenConserved
  BY DEF IInv
<1>2. UNCHANGED <<full, timers, held>>
  BY DEF Probe, GiveUp, Begin, Fail, Cancel
<1>3. TypeOK'
  BY <1>1 DEF TypeOK, Probe, GiveUp, Begin, Fail, Cancel
<1>4. HeldAt'
  BY <1>1 DEF TypeOK, HeldAt, Probe, GiveUp, Begin, Fail, Cancel
<1>5. OneHolder' /\ TokenConserved'
  BY <1>1, <1>2 DEF OneHolder, TokenConserved
<1> QED
  BY <1>2, <1>3, <1>4, <1>5 DEF IInv

LEMMA StutterKeeps ==
  ASSUME IInv, UNCHANGED vars
  PROVE  IInv'
  BY DEF vars, IInv, TypeOK, HeldAt, OneHolder, TokenConserved

LEMMA NextKeeps ==
  ASSUME IInv, [Next]_vars
  PROVE  IInv'
<1>1. ASSUME NEW s \in Streams, Probe(s) \/ Step(s) \/ Cancel(s)
      PROVE  IInv'
  BY <1>1, AcquireKeeps, ReleaseKeeps, OthersKeep DEF Step
<1>2. ASSUME NEW g \in Gates, TimerFires(g)
      PROVE  IInv'
  BY <1>2, TimerKeeps
<1>3. ASSUME Ended \/ UNCHANGED vars
      PROVE  IInv'
  BY <1>3, StutterKeeps DEF Ended
<1> QED
  BY <1>1, <1>2, <1>3 DEF Next

LEMMA IInvAlways == Spec => []IInv
  BY InitIInv, NextKeeps, PTL DEF Spec

(* Channels, timers and the program counter of every stream keep their     *)
(* types, for any streams and keys.                                        *)
THEOREM GateTypeCorrect == Spec => []TypeOK
<1>1. IInv => TypeOK
  BY DEF IInv
<1> QED
  BY <1>1, IInvAlways, PTL

-----------------------------------------------------------------------------
(* The token of a gate (hostgate.go 17-43) is in the channel exactly while *)
(* one stream holds it or one timer is to give it back.                    *)
THEOREM TokenAlwaysConserved == Spec => []TokenConserved
<1>1. IInv => TokenConserved
  BY DEF IInv
<1> QED
  BY <1>1, IInvAlways, PTL

(* Two streams with the same key are never in their handshakes together.   *)
THEOREM HandshakesExclusive == Spec => []OneHandshakePerGate
<1>1. IInv => OneHandshakePerGate
  BY DEF IInv, HeldAt, OneHolder, OneHandshakePerGate, InHandshake
<1> QED
  BY <1>1, IInvAlways, PTL

-----------------------------------------------------------------------------
(* What turn is, without CHOOSE.                                           *)
LEMMA TurnValue ==
  ASSUME IInv, NEW g \in Gates
  PROVE  /\ \A s \in held : GateOf[s] = g => turn[g] = s
         /\ (\A s \in held : GateOf[s] # g) =>
              turn[g] = IF timers[g] > 0 THEN Pause ELSE Free
<1>1. ASSUME NEW s \in held, GateOf[s] = g
      PROVE  turn[g] = s
  BY <1>1 DEF IInv, OneHolder, turn
<1>2. ASSUME \A s \in held : GateOf[s] # g
      PROVE  turn[g] = IF timers[g] > 0 THEN Pause ELSE Free
  BY <1>2 DEF turn
<1> QED
  BY <1>1, <1>2

LEMMA TurnInit == Init => Turns!Init
  BY DEF Init, turn, Turns!Init

LEMMA TurnBegin ==
  ASSUME IInv, IInv', NEW s \in Streams, Acquire(s)
  PROVE  Turns!Begin(s)
<1>0. GateOf \in [Streams -> Gates] /\ TypeOK /\ TokenConserved
  BY GateAssumption DEF IInv
<1>1. turn[GateOf[s]] = Free
  BY <1>0, TurnValue DEF Acquire, TypeOK, TokenConserved
<1>2. ASSUME NEW g \in Gates
      PROVE  turn'[g] = IF g = GateOf[s] THEN s ELSE turn[g]
  BY <1>0, <1>2 DEF turn, Acquire, IInv, OneHolder
<1>3. turn' = [turn EXCEPT ![GateOf[s]] = s]
  BY <1>0, <1>2 DEF turn
<1> QED
  BY <1>1, <1>3 DEF Turns!Begin

(* Giving the gate back is the end of a turn, or nothing if it was given   *)
(* back before.                                                            *)
LEMMA TurnEnd ==
  ASSUME IInv, IInv', NEW s \in Streams, Played(s) \/ Return(s)
  PROVE  Turns!End(s) \/ UNCHANGED turn
<1>0. GateOf \in [Streams -> Gates] /\ TypeOK /\ TokenConserved /\ OneHolder
  BY GateAssumption DEF IInv
<1>1. /\ held' = held \ {s}
      /\ timers' = IF s \in held THEN [timers EXCEPT ![GateOf[s]] = @ + 1] ELSE timers
  BY DEF Played, Return, releaseGate
<1>2. CASE s \notin held
  BY <1>1, <1>2 DEF turn
<1>3. CASE s \in held
  <2>1. turn[GateOf[s]] = s
    BY <1>0, <1>3, TurnValue
  <2>2. timers[GateOf[s]] = 0
    BY <1>0, <1>3 DEF TypeOK, TokenConserved
  <2>3. turn'[GateOf[s]] = Pause
    BY <1>0, <1>1, <1>3, <2>2 DEF turn, TypeOK, OneHolder
  <2>4. ASSUME NEW g \in Gates, g # GateOf[s]
        PROVE  turn'[g] = turn[g]
    <3>1. timers'[g] = timers[g]
      BY <1>0, <1>1, <2>4 DEF TypeOK
    <3>2. CASE \E t \in held : GateOf[t] = g
      <4>1. PICK t \in held : GateOf[t] = g
        BY <3>2
      <4>2. t \in held' /\ turn[g] = t
        BY <1>0, <1>1, <2>4, <4>1, TurnValue
      <4>3. \A v \in held' : GateOf[v] = g => v = t
        BY <1>0, <1>1, <4>1 DEF OneHolder
      <4> QED BY <4>1, <4>2, <4>3 DEF turn
    <3>3. CASE \A t \in held : GateOf[t] # g
      BY <1>1, <3>1, <3>3 DEF turn
    <3> QED BY <3>2, <3>3
  <2>5. turn' = [turn EXCEPT ![GateOf[s]] = Pause]
    BY <1>0, <2>3, <2>4 DEF turn
  <2> QED
    BY <2>1, <2>5 DEF Turns!End
<1> QED
  BY <1>2, <1>3

LEMMA TurnRested ==
  ASSUME IInv, IInv', NEW g \in Gates, TimerFires(g)
  PROVE  Turns!Rested(g)
<1>0. TypeOK /\ TokenConserved
  BY DEF IInv
<1>1. /\ \A s \in held : GateOf[s] # g
      /\ timers[g] = 1 /\ timers'[g] = 0 /\ held' = held
      /\ \A h \in Gates : h # g => timers'[h] = timers[h]
  BY <1>0 DEF TimerFires, TypeOK, TokenConserved
<1>2. turn[g] = Pause
  BY <1>1 DEF turn
<1>3. turn'[g] = Free
  BY <1>1 DEF turn
<1>4. ASSUME NEW h \in Gates, h # g
      PROVE  turn'[h] = turn[h]
  <2>1. timers'[h] = timers[h] /\ held' = held
    BY <1>1, <1>4
  <2> QED BY ONLY <2>1, h \in Gates DEF turn
<1>5. turn' = [turn EXCEPT ![g] = Free]
  BY <1>3, <1>4 DEF turn
<1> QED
  BY <1>2, <1>5 DEF Turns!Rested

(* hostgate.go implements HandshakeTurns: one stream at a time per key,    *)
(* and a pause between the end of a handshake and the next.                *)
THEOREM GateTakesTurns == Spec => TakesTurns
<1>1. ASSUME IInv, IInv', [Next]_vars
      PROVE  [Turns!Next]_turn
  <2>1. ASSUME NEW s \in Streams, Acquire(s)
        PROVE  Turns!Next
    BY <1>1, <2>1, TurnBegin DEF Turns!Next
  <2>2. ASSUME NEW s \in Streams, Played(s) \/ Return(s)
        PROVE  Turns!Next \/ UNCHANGED turn
    BY <1>1, <2>2, TurnEnd DEF Turns!Next
  <2>3. ASSUME NEW s \in Streams,
               Probe(s) \/ GiveUp(s) \/ Begin(s) \/ Fail(s) \/ Cancel(s)
        PROVE  UNCHANGED turn
    <3>1. UNCHANGED <<full, timers, held>>
      BY <1>1, <2>3, OthersKeep
    <3> QED BY <3>1 DEF turn
  <2>4. ASSUME NEW g \in Gates, TimerFires(g)
        PROVE  Turns!Next
    BY <1>1, <2>4, TurnRested DEF Turns!Next
  <2>5. ASSUME Ended \/ UNCHANGED vars
        PROVE  UNCHANGED turn
    BY <2>5 DEF Ended, vars, turn
  <2> QED
    BY <1>1, <2>1, <2>2, <2>3, <2>4, <2>5 DEF Next, Step
<1> QED
  BY <1>1, TurnInit, IInvAlways, PTL DEF Spec, TakesTurns, Turns!Spec
=============================================================================
