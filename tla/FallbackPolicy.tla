---------------------------- MODULE FallbackPolicy ----------------------------
(***************************************************************************)
(* What a consumer may be shown instead of the camera, given the picture   *)
(* the handler has of it.  A detection stream (the low one, in neutral     *)
(* mode) holds the last picture seen live and then shows the neutral       *)
(* image, at once when the picture was restored from disk.  A replaying    *)
(* stream shows the picture it has, and a generated one only while it has  *)
(* none.  In mode none nothing is shown.  README.md promises more in one   *)
(* row: nothing generated once the camera has streamed.  The handler gives *)
(* its picture up when the stream is rebuilt, and that promise with it     *)
(* (ReplayOnceStreamed of FallbackFrames).                                 *)
(***************************************************************************)
VARIABLES
    mode,           \* what the handler promises
    kept,           \* the picture it has of the camera, once it has looked
    shown           \* what its fallback shows

Init == mode \in {"detection", "replay", "none"} /\ kept = "unread" /\ shown = "nothing"

(* The process starts: a picture may be restored, and only now.            *)
Look == kept = "unread" /\ kept' \in {"nothing", "restored"} /\ UNCHANGED <<mode, shown>>

(* A picture arrives live; a rebuild gives it up, with nothing on show.    *)
Keep == kept # "unread" /\ kept' = "live" /\ UNCHANGED <<mode, shown>>
GiveUp ==
    /\ kept # "unread" /\ shown = "nothing"
    /\ kept' = "nothing"
    /\ UNCHANGED <<mode, shown>>

(* A fallback shows its first picture.                                     *)
Begin ==
    /\ kept # "unread" /\ shown = "nothing"
    /\ \/ mode = "detection" /\ shown' = IF kept = "live" THEN "live" ELSE "neutral"
       \/ mode = "replay" /\ shown' = IF kept = "nothing" THEN "generated" ELSE kept
    /\ UNCHANGED <<mode, kept>>

(* The hold is over: the picture of the camera gives way, for good.        *)
HoldEnds ==
    /\ mode = "detection" /\ shown = "live"
    /\ shown' = "neutral"
    /\ UNCHANGED <<mode, kept>>

End == shown # "nothing" /\ shown' = "nothing" /\ UNCHANGED <<mode, kept>>

(* The process ends, and starts again with another configuration.          *)
Configure ==
    /\ mode' \in {"detection", "replay", "none"}
    /\ kept' = "unread" /\ shown' = "nothing"

Next == Look \/ Keep \/ GiveUp \/ Begin \/ HoldEnds \/ End \/ Configure
Spec == Init /\ [][Next]_<<mode, kept, shown>>
=============================================================================
