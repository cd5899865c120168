---------------------------- MODULE KeyframeStore -----------------------------
(***************************************************************************)
(* The camera's last keyframe, in memory (storeLastCameraKeyframe) and on  *)
(* disk (persist.go).  Saving is left to a goroutine nobody waits for,     *)
(* so the process may end in the middle of it, on a crash as on Stop.      *)
(* Keyframes are numbered in the order in which the camera sends them.     *)
(***************************************************************************)
EXTENDS Integers

CONSTANTS
    Temps,          \* names os.CreateTemp can choose
    MaxKeyframes,   \* bound on the keyframes of a behaviour
    MaxExits,       \* bound on the times the process ends
    SlowDisk,       \* a save may take longer than persistEvery
    None

ASSUME StoreAssumption ==
    /\ MaxKeyframes \in Nat /\ MaxExits \in Nat /\ SlowDisk \in BOOLEAN
    /\ Temps \cap {"h264", "h265"} = {}
    /\ None \notin [kf : Nat, whole : BOOLEAN]

Codecs == {"h264", "h265"}
Configs == Codecs \cup {"auto"}
Other(c) == IF c = "h264" THEN "h265" ELSE "h264"
Content == [kf : 1 .. MaxKeyframes, whole : BOOLEAN]

VARIABLES
    disk,           \* the files of data_dir, under their codec or a temporary name
    up,             \* the process runs
    cfg,            \* cfg.Codec
    codec,          \* sh.detectedCodec
    lastAU,         \* sh.lastCameraVideoAU: its codec and the keyframe, or None
    live,           \* sh.liveKeyframe
    session,        \* a session plays, so that keyframes arrive
    limited,        \* less than persistEvery since lastWrite
    saves,          \* the goroutines of saveKeyframe
    kfs,            \* keyframes sent so far
    exits           \* times the process has ended

vars == <<disk, up, cfg, codec, lastAU, live, session, limited, saves, kfs, exits>>

Save == [codec : Codecs, kf : 1 .. MaxKeyframes, pc : {"create", "write", "rename", "remove"},
         tmp : Temps \cup {None}]

TypeOK ==
    /\ disk \in [Codecs \cup Temps -> Content \cup {None}]
    /\ up \in BOOLEAN /\ live \in BOOLEAN /\ session \in BOOLEAN /\ limited \in BOOLEAN
    /\ cfg \in Configs /\ codec \in Codecs
    /\ lastAU \in [codec : Codecs, kf : 1 .. MaxKeyframes] \cup {None}
    /\ saves \subseteq Save
    /\ kfs \in 0 .. MaxKeyframes /\ exits \in 0 .. MaxExits

(* NewStreamHandler with an empty data_dir.                                *)
Init ==
    /\ disk = [n \in Codecs \cup Temps |-> None]
    /\ cfg \in Configs
    /\ codec = IF cfg = "h265" THEN "h265" ELSE "h264"
    /\ up = TRUE /\ lastAU = None /\ live = FALSE /\ session = FALSE
    /\ limited = FALSE /\ saves = {} /\ kfs = 0 /\ exits = 0

-----------------------------------------------------------------------------
(* The session.                                                            *)

(* DESCRIBE: on another codec, or on other parameter sets, rebuildForCodec *)
(* forgets the keyframe.                                                   *)
Describe(c) ==
    /\ up
    /\ session' = TRUE
    /\ codec' = c
    /\ lastAU' \in IF c # codec THEN {None} ELSE {None, lastAU}
    /\ UNCHANGED <<disk, up, cfg, live, limited, saves, kfs, exits>>

(* saveKeyframe without its rate limit.                                    *)
MutNoLimit(k) ==
    /\ saves' = saves \cup {[codec |-> codec, kf |-> k, pc |-> "create", tmp |-> None]}
    /\ limited' = TRUE
saveKeyframe(k) ==
    \/ limited /\ UNCHANGED <<limited, saves>>
    \/ /\ ~limited
       /\ limited' = TRUE
       /\ saves' = saves \cup {[codec |-> codec, kf |-> k, pc |-> "create", tmp |-> None]}

(* A keyframe of the session: storeLastCameraKeyframe.                     *)
storeLastCameraKeyframe ==
    /\ up /\ session /\ kfs < MaxKeyframes
    /\ kfs' = kfs + 1
    /\ lastAU' = [codec |-> codec, kf |-> kfs']
    /\ live' = TRUE
    /\ saveKeyframe(kfs')
    /\ UNCHANGED <<disk, up, cfg, codec, session, exits>>

(* persistEvery has passed.                                                *)
MinutePasses ==
    /\ limited /\ (SlowDisk \/ saves = {})
    /\ limited' = FALSE
    /\ UNCHANGED <<disk, up, cfg, codec, lastAU, live, session, saves, kfs, exits>>

-----------------------------------------------------------------------------
(* The goroutine of saveKeyframe: writeFileAtomic, then the other codec's  *)
(* file.                                                                   *)

Goto(w, to) == saves' = (saves \ {w}) \cup {[w EXCEPT !.pc = to]}
Ends(w) == saves' = saves \ {w}
SaveFrame == <<up, cfg, codec, lastAU, live, session, limited, kfs, exits>>

(* writeFileAtomic that writes the file itself.                            *)
MutInPlace(w) ==
    /\ w.pc = "create"
    /\ disk' = [disk EXCEPT ![w.codec] = [kf |-> w.kf, whole |-> FALSE]]
    /\ saves' = (saves \ {w}) \cup {[w EXCEPT !.pc = "write", !.tmp = w.codec]}
    /\ UNCHANGED SaveFrame
CreateTemp(w) ==
    /\ w.pc = "create"
    /\ \/ \E t \in Temps :
            /\ disk[t] = None
            /\ disk' = [disk EXCEPT ![t] = [kf |-> w.kf, whole |-> FALSE]]
            /\ saves' = (saves \ {w}) \cup {[w EXCEPT !.pc = "write", !.tmp = t]}
       \/ Ends(w) /\ UNCHANGED disk
    /\ UNCHANGED SaveFrame

(* A failed write or close removes the temporary file.                     *)
WriteTemp(w) ==
    /\ w.pc = "write"
    /\ \/ /\ disk' = [disk EXCEPT ![w.tmp].whole = TRUE]
          /\ Goto(w, "rename")
       \/ /\ disk' = [disk EXCEPT ![w.tmp] = None]
          /\ Ends(w)
    /\ UNCHANGED SaveFrame

Rename(w) ==
    /\ w.pc = "rename"
    /\ \/ /\ disk' = [disk EXCEPT ![w.codec] = disk[w.tmp], ![w.tmp] = None]
          /\ Goto(w, "remove")
       \/ /\ disk' = [disk EXCEPT ![w.tmp] = None]
          /\ Ends(w)
    /\ UNCHANGED SaveFrame

(* The error of the removal is ignored.  In a directory where a rename has *)
(* just succeeded it can only be that there is no such file.  The slip:    *)
(* the save's own file is removed.                                         *)
MutRemoveOwn(w) ==
    /\ w.pc = "remove"
    /\ disk' = [disk EXCEPT ![w.codec] = None]
    /\ Ends(w)
    /\ UNCHANGED SaveFrame
RemoveOther(w) ==
    /\ w.pc = "remove"
    /\ disk' = [disk EXCEPT ![Other(w.codec)] = None]
    /\ Ends(w)
    /\ UNCHANGED SaveFrame

SaveStep(w) == CreateTemp(w) \/ WriteTemp(w) \/ Rename(w) \/ RemoveOther(w)

-----------------------------------------------------------------------------
(* The process ends, with its goroutines, and starts again.                *)

Exit ==
    /\ up /\ exits < MaxExits
    /\ exits' = exits + 1
    /\ up' = FALSE
    /\ saves' = {} /\ session' = FALSE /\ live' = FALSE /\ limited' = FALSE
    /\ lastAU' = None
    /\ UNCHANGED <<disk, cfg, codec, kfs>>

(* The codecs in the order in which restoreKeyframe looks for them.        *)
Found(c, conf) == disk[c] # None /\ conf \in {"auto", c}

(* NewStreamHandler and EnablePersistence, with a configuration that may   *)
(* name another codec than before.                                         *)
Start(conf) ==
    /\ ~up
    /\ up' = TRUE
    /\ cfg' = conf
    /\ \/ /\ Found("h264", conf)
          /\ codec' = "h264" /\ lastAU' = [codec |-> "h264", kf |-> disk["h264"].kf]
       \/ /\ ~Found("h264", conf) /\ Found("h265", conf)
          /\ codec' = "h265" /\ lastAU' = [codec |-> "h265", kf |-> disk["h265"].kf]
       \/ /\ \A c \in Codecs : ~Found(c, conf)
          /\ codec' = IF conf = "h265" THEN "h265" ELSE "h264"
          /\ UNCHANGED lastAU
    /\ UNCHANGED <<disk, live, session, limited, saves, kfs, exits>>

(* The bounds are reached and nothing is left to do.                       *)
Bounded ==
    /\ kfs = MaxKeyframes /\ exits = MaxExits /\ saves = {}
    /\ UNCHANGED vars

Next ==
    \/ \E c \in Codecs : Describe(c)
    \/ storeLastCameraKeyframe
    \/ MinutePasses
    \/ \E w \in saves : SaveStep(w)
    \/ Exit
    \/ \E conf \in Configs : Start(conf)
    \/ Bounded

Spec == Init /\ [][Next]_vars

-----------------------------------------------------------------------------
(* Properties.                                                             *)

(* The comment on writeFileAtomic: it "writes via a temp file + rename so  *)
(* a crash never leaves a truncated keyframe behind" under a name that     *)
(* restoreKeyframe reads.                                                  *)
WholeFiles == \A c \in Codecs : disk[c] # None => disk[c].whole

(* A file is never replaced by an older keyframe, although the goroutines  *)
(* that write it are not ordered: the rate limit keeps them apart.         *)
NeverOlder ==
    [][\A c \in Codecs : disk[c] # None /\ disk'[c] # None => disk[c].kf <= disk'[c].kf]_vars

(* Once a keyframe is on disk there is always one, across codec changes,   *)
(* failing writes and exits: no save removes the file of another.          *)
KeyframeKept ==
    [][(\E c \in Codecs : disk[c] # None) => \E c \in Codecs : disk'[c] # None]_vars
=============================================================================
