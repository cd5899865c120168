---------------------------- MODULE MCAccessUnits ----------------------------
(* NAL units with their real first bytes: two SPS, and a slice whose bytes *)
(* look like a start code as far as a NAL unit may.                        *)
EXTENDS AccessUnits

CameraUnits(c) ==
    IF c = "h264"
    THEN {<<103, 2>>, <<103, 3>>, <<104>>, <<101, 0, 0, 3>>, <<65, 0, 1>>, <<6>>, <<98>>, <<>>}
    ELSE {<<64, 1>>, <<66, 1>>, <<66, 1, 3>>, <<68, 1>>, <<38, 1, 0, 0, 3>>, <<0, 1>>, <<70, 1>>, <<38>>}
=============================================================================
