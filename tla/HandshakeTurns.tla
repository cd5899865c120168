--------------------------- MODULE HandshakeTurns ----------------------------
(***************************************************************************)
(* What hostgate.go promises of the RTSP handshakes towards one camera     *)
(* address: one stream at a time, and a pause between two of them.         *)
(***************************************************************************)
CONSTANTS
    Streams,    \* the stream handlers of all cameras
    Gates,      \* the addresses they connect to
    GateOf,     \* the address of each stream
    Free, Pause \* nobody's turn: the address may be used, or must rest

VARIABLE turn   \* who runs a handshake towards each address

TypeOK == turn \in [Gates -> Streams \cup {Free, Pause}]

Init == turn = [g \in Gates |-> Free]

Begin(s) ==
    /\ turn[GateOf[s]] = Free
    /\ turn' = [turn EXCEPT ![GateOf[s]] = s]

End(s) ==
    /\ turn[GateOf[s]] = s
    /\ turn' = [turn EXCEPT ![GateOf[s]] = Pause]

Rested(g) ==
    /\ turn[g] = Pause
    /\ turn' = [turn EXCEPT ![g] = Free]

Next ==
    \/ \E s \in Streams : Begin(s) \/ End(s)
    \/ \E g \in Gates : Rested(g)

Spec == Init /\ [][Next]_turn
=============================================================================
