--------------------------- MODULE MCFallbackFrames ---------------------------
(* Configurations a camera may be started with.                            *)
EXTENDS FallbackFrames

AnyConfig == [mode : Modes, codec : {"auto"}] \cup [mode : {"offline"}, codec : {"h265"}]
OneConfig == [mode : {"offline"}, codec : {"auto"}]
=============================================================================
