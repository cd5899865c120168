------------------------- MODULE KeyframeStoreProofs --------------------------
(***************************************************************************)
(* Proofs about KeyframeStore: no exit at any moment leaves a truncated    *)
(* keyframe to be restored, and no save replaces a newer one.              *)
(***************************************************************************)
EXTENDS KeyframeStore, TLAPS

(* What is on disk, and what the goroutines of saveKeyframe hold.          *)
StoreTypes ==
    /\ disk \in [Codecs \cup Temps -> Content \cup {None}]
    /\ saves \subseteq Save
    /\ codec \in Codecs
    /\ kfs \in 0 .. MaxKeyframes

HasTemp(w) == w.pc \in {"write", "rename"}

(* A goroutine between create and rename has a temporary file of its own,  *)
(* whole once it has been written.                                         *)
TempHeld ==
    \A w \in saves : HasTemp(w) =>
        /\ w.tmp \in Temps
        /\ disk[w.tmp] # None
        /\ disk[w.tmp].kf = w.kf
        /\ w.pc = "rename" => disk[w.tmp].whole
TempOwn ==
    \A v, w \in saves : HasTemp(v) /\ HasTemp(w) /\ v.tmp = w.tmp => v = w

WholeInv == StoreTypes /\ TempHeld /\ TempOwn /\ WholeFiles

-----------------------------------------------------------------------------
LEMMA NoneIsNoContent == None \notin Content
  BY StoreAssumption DEF Content

LEMMA InitWhole == Init => WholeInv
  BY StoreAssumption DEF Init, WholeInv, StoreTypes, TempHeld, TempOwn, WholeFiles,
     Codecs, Configs, Save

LEMMA StoreKeeps ==
  ASSUME WholeInv, storeLastCameraKeyframe
  PROVE  WholeInv'
<1>1. /\ kfs' = kfs + 1 /\ kfs' \in 1 .. MaxKeyframes
      /\ UNCHANGED <<disk, codec>>
  BY StoreAssumption DEF WholeInv, StoreTypes, storeLastCameraKeyframe
<1>2. \/ saves' = saves
      \/ saves' = saves \cup {[codec |-> codec, kf |-> kfs', pc |-> "create", tmp |-> None]}
  BY DEF storeLastCameraKeyframe, saveKeyframe
<1>3. StoreTypes'
  BY <1>1, <1>2 DEF WholeInv, StoreTypes, Save
<1>4. \A w \in saves' : HasTemp(w) => w \in saves
  BY <1>2 DEF HasTemp
<1>5. TempHeld' /\ TempOwn'
  BY <1>1, <1>4 DEF WholeInv, TempHeld, TempOwn, HasTemp
<1>6. WholeFiles'
  BY <1>1 DEF WholeInv, WholeFiles
<1> QED
  BY <1>3, <1>5, <1>6 DEF WholeInv

LEMMA CreateKeeps ==
  ASSUME WholeInv, NEW w \in saves, CreateTemp(w)
  PROVE  WholeInv'
<1>0. StoreTypes /\ TempHeld /\ TempOwn /\ WholeFiles /\ Temps \cap Codecs = {}
  BY StoreAssumption DEF WholeInv, Codecs
<1>1. CASE Ends(w) /\ UNCHANGED <<disk, codec, kfs>>
  BY <1>0, <1>1 DEF Ends, WholeInv, StoreTypes, TempHeld, TempOwn, WholeFiles, HasTemp
<1>2. ASSUME NEW t \in Temps, disk[t] = None, UNCHANGED <<codec, kfs>>,
             disk' = [disk EXCEPT ![t] = [kf |-> w.kf, whole |-> FALSE]],
             saves' = (saves \ {w}) \cup {[w EXCEPT !.pc = "write", !.tmp = t]}
      PROVE  WholeInv'
  <2> DEFINE x == [w EXCEPT !.pc = "write", !.tmp = t]
  <2>1. w \in Save /\ x \in Save /\ x.pc = "write" /\ x.tmp = t /\ x.kf = w.kf
    BY <1>0 DEF StoreTypes, Save
  <2>2. [kf |-> w.kf, whole |-> FALSE] \in Content
    BY <2>1 DEF Save, Content
  <2>3. StoreTypes'
    BY <1>0, <1>2, <2>1, <2>2 DEF StoreTypes
  <2>4. disk'[t] = [kf |-> w.kf, whole |-> FALSE]
    BY <1>0, <1>2 DEF StoreTypes
  <2>5. disk'[t] # None
    <3>1. disk'[t] \in Content
      BY <2>2, <2>4, Zenon
    <3> QED BY <3>1, NoneIsNoContent
  <2>6. disk'[t].kf = w.kf
    BY <2>4
  <2>7. \A v \in saves : HasTemp(v) => v.tmp # t /\ disk'[v.tmp] = disk[v.tmp]
    BY <1>0, <1>2 DEF StoreTypes, TempHeld
  <2>. HIDE DEF x
  <2>8. \A v \in saves' : v = x \/ v \in saves
    BY <1>2 DEF x
  <2>9. x \in saves'
    BY <1>2 DEF x
  <2>10. TempHeld'
    <3> SUFFICES ASSUME NEW v \in saves', HasTemp(v)
                 PROVE  /\ v.tmp \in Temps
                        /\ disk'[v.tmp] # None
                        /\ disk'[v.tmp].kf = v.kf
                        /\ v.pc = "rename" => disk'[v.tmp].whole
      BY DEF TempHeld, HasTemp
    <3>1. CASE v = x
      BY <3>1, <2>1, <2>5, <2>6
    <3>2. CASE v \in saves
      BY <1>0, <2>7, <3>2 DEF TempHeld
    <3> QED BY <2>8, <3>1, <3>2
  <2>11. TempOwn'
    <3> SUFFICES ASSUME NEW u \in saves', NEW v \in saves',
                        HasTemp(u), HasTemp(v), u.tmp = v.tmp
                 PROVE  u = v
      BY DEF TempOwn, HasTemp
    <3>1. CASE u \in saves /\ v \in saves
      BY <1>0, <3>1 DEF TempOwn
    <3>2. CASE u = x \/ v = x
      BY <2>1, <2>7, <2>8, <3>2
    <3> QED BY <2>8, <3>1, <3>2
  <2>12. WholeFiles'
    BY <1>0, <1>2 DEF StoreTypes, WholeFiles
  <2> QED BY <2>3, <2>10, <2>11, <2>12 DEF WholeInv
<1> QED
  BY <1>1, <1>2 DEF CreateTemp, SaveFrame

LEMMA WriteKeeps ==
  ASSUME WholeInv, NEW w \in saves, WriteTemp(w)
  PROVE  WholeInv'
<1>0. /\ StoreTypes /\ TempHeld /\ TempOwn /\ WholeFiles /\ Temps \cap Codecs = {}
      /\ w \in Save /\ HasTemp(w) /\ w.tmp \in Temps
      /\ disk[w.tmp] \in Content /\ disk[w.tmp].kf = w.kf
      /\ UNCHANGED <<codec, kfs>>
  BY StoreAssumption DEF WholeInv, Codecs, WriteTemp, HasTemp, TempHeld, StoreTypes, SaveFrame
<1>1. ASSUME disk' = [disk EXCEPT ![w.tmp].whole = TRUE], Goto(w, "rename")
      PROVE  WholeInv'
  <2> DEFINE x == [w EXCEPT !.pc = "rename"]
  <2>1. x \in Save /\ x.pc = "rename" /\ x.tmp = w.tmp /\ x.kf = w.kf
    BY <1>0 DEF Save
  <2>2. /\ disk'[w.tmp] \in Content /\ disk'[w.tmp].kf = w.kf /\ disk'[w.tmp].whole
    BY <1>0, <1>1 DEF StoreTypes, Content
  <2>3. StoreTypes'
    BY <1>0, <1>1, <2>1, <2>2 DEF StoreTypes, Goto
  <2>4. \A v \in saves : v # w /\ HasTemp(v) => v.tmp # w.tmp /\ disk'[v.tmp] = disk[v.tmp]
    BY <1>0, <1>1 DEF StoreTypes, TempHeld, TempOwn
  <2>. HIDE DEF x
  <2>5. \A v \in saves' : v = x \/ (v \in saves /\ v # w)
    BY <1>1 DEF x, Goto
  <2>6. TempHeld'
    <3> SUFFICES ASSUME NEW v \in saves', HasTemp(v)
                 PROVE  /\ v.tmp \in Temps
                        /\ disk'[v.tmp] # None
                        /\ disk'[v.tmp].kf = v.kf
                        /\ v.pc = "rename" => disk'[v.tmp].whole
      BY DEF TempHeld, HasTemp
    <3>1. CASE v = x
      BY <1>0, <3>1, <2>1, <2>2, NoneIsNoContent
    <3>2. CASE v \in saves /\ v # w
      BY <1>0, <2>4, <3>2 DEF TempHeld
    <3> QED BY <2>5, <3>1, <3>2
  <2>7. TempOwn'
    <3> SUFFICES ASSUME NEW u \in saves', NEW v \in saves',
                        HasTemp(u), HasTemp(v), u.tmp = v.tmp
                 PROVE  u = v
      BY DEF TempOwn, HasTemp
    <3>1. CASE u # x /\ v # x
      BY <1>0, <2>5, <3>1 DEF TempOwn
    <3>2. CASE u = x \/ v = x
      BY <2>1, <2>4, <2>5, <3>2
    <3> QED BY <3>1, <3>2
  <2>8. WholeFiles'
    BY <1>0, <1>1 DEF StoreTypes, WholeFiles
  <2> QED BY <2>3, <2>6, <2>7, <2>8 DEF WholeInv
<1>2. ASSUME disk' = [disk EXCEPT ![w.tmp] = None], Ends(w)
      PROVE  WholeInv'
  <2>1. \A v \in saves' : v \in saves /\ v # w
    BY <1>2 DEF Ends
  <2>2. \A v \in saves' : HasTemp(v) => disk'[v.tmp] = disk[v.tmp]
    BY <1>0, <1>2, <2>1 DEF StoreTypes, TempHeld, TempOwn
  <2>3. StoreTypes'
    BY <1>0, <1>2, <2>1 DEF StoreTypes
  <2>4. TempHeld' /\ TempOwn'
    BY <1>0, <2>1, <2>2 DEF TempHeld, TempOwn, HasTemp
  <2>5. WholeFiles'
    BY <1>0, <1>2 DEF StoreTypes, WholeFiles
  <2> QED BY <2>3, <2>4, <2>5 DEF WholeInv
<1> QED
  BY <1>1, <1>2 DEF WriteTemp

LEMMA RenameKeeps ==
  ASSUME WholeInv, NEW w \in saves, Rename(w)
  PROVE  WholeInv'
<1>0. /\ StoreTypes /\ TempHeld /\ TempOwn /\ WholeFiles /\ Temps \cap Codecs = {}
      /\ w \in Save /\ HasTemp(w) /\ w.tmp \in Temps /\ w.codec \in Codecs
      /\ disk[w.tmp] \in Content /\ disk[w.tmp].whole
      /\ UNCHANGED <<codec, kfs>>
  BY StoreAssumption DEF WholeInv, Codecs, Rename, HasTemp, TempHeld, StoreTypes, SaveFrame, Save
<1>1. /\ \A v \in saves' : HasTemp(v) => v \in saves /\ v # w
      /\ saves' \subseteq Save
  <2>1. [w EXCEPT !.pc = "remove"] \in Save /\ [w EXCEPT !.pc = "remove"].pc = "remove"
    BY <1>0 DEF Save
  <2>2. saves \subseteq Save
    BY <1>0 DEF StoreTypes
  <2>3. \A v \in saves' : v = [w EXCEPT !.pc = "remove"] \/ (v \in saves /\ v # w)
    BY DEF Rename, Goto, Ends
  <2> QED BY <2>1, <2>2, <2>3 DEF HasTemp
<1>2. \/ disk' = [disk EXCEPT ![w.codec] = disk[w.tmp], ![w.tmp] = None]
      \/ disk' = [disk EXCEPT ![w.tmp] = None]
  BY DEF Rename
<1>3. StoreTypes'
  BY <1>0, <1>1, <1>2 DEF StoreTypes
<1>4. \A v \in saves' : HasTemp(v) => disk'[v.tmp] = disk[v.tmp]
  BY <1>0, <1>1, <1>2 DEF StoreTypes, TempHeld, TempOwn
<1>5. TempHeld' /\ TempOwn'
  BY <1>0, <1>1, <1>4 DEF TempHeld, TempOwn, HasTemp
<1>6. WholeFiles'
  BY <1>0, <1>2 DEF StoreTypes, WholeFiles
<1> QED
  BY <1>3, <1>5, <1>6 DEF WholeInv

LEMMA RemoveKeeps ==
  ASSUME WholeInv, NEW w \in saves, RemoveOther(w)
  PROVE  WholeInv'
<1>0. /\ StoreTypes /\ TempHeld /\ TempOwn /\ WholeFiles /\ Temps \cap Codecs = {}
      /\ Other(w.codec) \in Codecs /\ saves' \subseteq saves
      /\ disk' = [disk EXCEPT ![Other(w.codec)] = None]
      /\ UNCHANGED <<codec, kfs>>
  BY StoreAssumption DEF WholeInv, Codecs, RemoveOther, Ends, Other, SaveFrame
<1>1. StoreTypes' /\ WholeFiles'
  BY <1>0 DEF StoreTypes, WholeFiles
<1>2. TempHeld' /\ TempOwn'
  BY <1>0 DEF StoreTypes, TempHeld, TempOwn, HasTemp
<1> QED
  BY <1>1, <1>2 DEF WholeInv

(* The other steps leave the disk alone.                                   *)
LEMMA OthersKeep ==
  ASSUME WholeInv,
         \/ \E c \in Codecs : Describe(c)
         \/ MinutePasses \/ Exit
         \/ \E conf \in Configs : Start(conf)
         \/ Bounded \/ UNCHANGED vars
  PROVE  WholeInv'
<1>1. /\ UNCHANGED <<disk, kfs>> /\ saves' \subseteq saves /\ codec' \in Codecs
  BY DEF WholeInv, StoreTypes, Describe, MinutePasses, Exit, Start, Bounded, vars, Codecs
<1> QED
  BY <1>1 DEF WholeInv, StoreTypes, TempHeld, TempOwn, WholeFiles, HasTemp

(* The comment on writeFileAtomic holds for any number of goroutines, on a *)
(* disk of any speed: what restoreKeyframe reads is a whole keyframe.      *)
THEOREM FilesAlwaysWhole == Spec => []WholeFiles
<1>1. WholeInv /\ [Next]_vars => WholeInv'
  BY StoreKeeps, CreateKeeps, WriteKeeps, RenameKeeps, RemoveKeeps, OthersKeep
     DEF Next, SaveStep
<1>2. WholeInv => WholeFiles
  BY DEF WholeInv
<1> QED
  BY InitWhole, <1>1, <1>2, PTL DEF Spec

-----------------------------------------------------------------------------
(* On a disk that needs less than persistEvery for a save, the rate limit  *)
(* lets no two saves overlap, and what a save carries is the newest.       *)
OneSave ==
    /\ \A v, w \in saves : v = w
    /\ saves # {} => limited
Newest ==
    /\ \A w \in saves : w.kf <= kfs
    /\ \A c \in Codecs : disk[c] # None => disk[c].kf <= kfs
    /\ \A w \in saves : w.pc # "remove" /\ disk[w.codec] # None => disk[w.codec].kf <= w.kf
OrderInv == WholeInv /\ OneSave /\ Newest

LEMMA OneSaveNext ==
  ASSUME SlowDisk = FALSE, OneSave, [Next]_vars
  PROVE  OneSave'
<1>1. ASSUME storeLastCameraKeyframe
      PROVE  OneSave'
  BY <1>1 DEF OneSave, storeLastCameraKeyframe, saveKeyframe
<1>2. ASSUME MinutePasses
      PROVE  OneSave'
  BY <1>2 DEF OneSave, MinutePasses
<1>3. ASSUME NEW w \in saves, SaveStep(w)
      PROVE  OneSave'
  <2>1. \/ saves' = saves \ {w}
        \/ \E x : saves' = (saves \ {w}) \cup {x}
    BY <1>3 DEF SaveStep, CreateTemp, WriteTemp, Rename, RemoveOther, Goto, Ends
  <2>2. limited' = limited
    BY <1>3 DEF SaveStep, CreateTemp, WriteTemp, Rename, RemoveOther, SaveFrame
  <2> QED
    BY <2>1, <2>2 DEF OneSave
<1>4. ASSUME \/ \E c \in Codecs : Describe(c)
             \/ Exit \/ (\E conf \in Configs : Start(conf)) \/ Bounded \/ UNCHANGED vars
      PROVE  OneSave'
  BY <1>4 DEF OneSave, Describe, Exit, Start, Bounded, vars
<1> QED
  BY <1>1, <1>2, <1>3, <1>4 DEF Next

(* A save that goes on replaces the only one.                              *)
LEMMA SaveStepNewest ==
  ASSUME OrderInv, NEW w \in saves, SaveStep(w)
  PROVE  /\ Newest'
         /\ \A c \in Codecs : disk[c] # None /\ disk'[c] # None => disk[c].kf <= disk'[c].kf
<1>0. /\ StoreTypes /\ TempHeld /\ saves = {w} /\ w \in Save /\ w.codec \in Codecs
      /\ Temps \cap Codecs = {} /\ kfs' = kfs /\ kfs \in Nat /\ w.kf \in Nat /\ w.kf <= kfs
      /\ \A c \in Codecs : disk[c] # None => disk[c].kf \in Nat /\ disk[c].kf <= kfs
  <2>1. StoreTypes /\ TempHeld /\ saves = {w} /\ w \in Save /\ Temps \cap Codecs = {}
    BY StoreAssumption DEF OrderInv, WholeInv, OneSave, StoreTypes, Codecs
  <2>2. kfs' = kfs
    BY DEF SaveStep, CreateTemp, WriteTemp, Rename, RemoveOther, SaveFrame
  <2>3. w.codec \in Codecs /\ w.kf \in Nat /\ kfs \in Nat
    BY <2>1, StoreAssumption DEF Save, StoreTypes
  <2>4. \A c \in Codecs : disk[c] # None => disk[c].kf \in Nat
    BY <2>1, StoreAssumption DEF StoreTypes, Content
  <2> QED
    BY <2>1, <2>2, <2>3, <2>4 DEF OrderInv, Newest
<1>1. CASE CreateTemp(w) \/ WriteTemp(w)
  <2>1. \A c \in Codecs : disk'[c] = disk[c]
    BY <1>0, <1>1 DEF CreateTemp, WriteTemp, StoreTypes, TempHeld, HasTemp
  <2>2. w.pc # "remove"
    BY <1>1 DEF CreateTemp, WriteTemp
  <2>3. \A v \in saves' : v.kf = w.kf /\ v.codec = w.codec
    <3>1. \A t : LET x == [w EXCEPT !.pc = "write", !.tmp = t]
                IN  x.kf = w.kf /\ x.codec = w.codec
      BY <1>0 DEF Save
    <3>2. LET x == [w EXCEPT !.pc = "rename"]
          IN  x.kf = w.kf /\ x.codec = w.codec
      BY <1>0 DEF Save
    <3>3. CASE CreateTemp(w)
      BY <1>0, <3>1, <3>3 DEF CreateTemp, Ends
    <3>4. CASE WriteTemp(w)
      BY <1>0, <3>2, <3>4 DEF WriteTemp, Goto, Ends
    <3> QED BY <1>1, <3>3, <3>4
  <2> QED
    BY <1>0, <2>1, <2>2, <2>3 DEF OrderInv, Newest
<1>2. CASE Rename(w)
  <2>1. disk[w.tmp] # None /\ disk[w.tmp].kf = w.kf /\ w.tmp \notin Codecs
    BY <1>0, <1>2 DEF TempHeld, HasTemp, Rename
  <2>2. disk[w.codec] # None => disk[w.codec].kf <= w.kf
    BY <1>2 DEF OrderInv, Newest, Rename
  <2>3. \A c \in Codecs : \/ disk'[c] = disk[c]
                          \/ c = w.codec /\ disk'[c] = disk[w.tmp]
    BY <1>0, <1>2, <2>1 DEF Rename, StoreTypes
  <2>4. \A v \in saves' : v.kf = w.kf /\ v.pc = "remove"
    BY <1>0, <1>2 DEF Rename, Goto, Ends, Save
  <2> QED
    BY <1>0, <2>1, <2>2, <2>3, <2>4 DEF Newest
<1>3. CASE RemoveOther(w)
  <2>1. \A c \in Codecs : disk'[c] = disk[c] \/ disk'[c] = None
    BY <1>0, <1>3 DEF RemoveOther, StoreTypes
  <2>2. saves' = {}
    BY <1>0, <1>3 DEF RemoveOther, Ends
  <2> QED
    BY <1>0, <2>1, <2>2 DEF Newest
<1> QED
  BY <1>1, <1>2, <1>3 DEF SaveStep

LEMMA StoreNewest ==
  ASSUME OrderInv, OneSave', storeLastCameraKeyframe
  PROVE  Newest'
<1>1. /\ kfs' = kfs + 1 /\ kfs \in Nat /\ disk' = disk
      /\ \A c \in Codecs : disk[c] # None => disk[c].kf \in Nat /\ disk[c].kf <= kfs
      /\ \A w \in saves : w.kf \in Nat /\ w.kf <= kfs
  BY StoreAssumption DEF OrderInv, WholeInv, Newest, StoreTypes, Save, Content, Codecs,
     storeLastCameraKeyframe
<1>2. \A w \in saves' : \/ w \in saves
                        \/ w.kf = kfs' /\ w.codec \in Codecs
  BY DEF storeLastCameraKeyframe, saveKeyframe, OrderInv, WholeInv, StoreTypes
<1> QED
  BY <1>1, <1>2 DEF OrderInv, Newest

LEMMA OthersNewest ==
  ASSUME OrderInv,
         \/ \E c \in Codecs : Describe(c)
         \/ MinutePasses \/ Exit
         \/ \E conf \in Configs : Start(conf)
         \/ Bounded \/ UNCHANGED vars
  PROVE  Newest' /\ UNCHANGED disk
<1>1. UNCHANGED <<disk, kfs>> /\ saves' \subseteq saves
  BY DEF Describe, MinutePasses, Exit, Start, Bounded, vars
<1> QED
  BY <1>1 DEF OrderInv, Newest

LEMMA InitOrder == Init => OrderInv
  BY InitWhole DEF Init, OrderInv, OneSave, Newest, Codecs

LEMMA OrderNext == ASSUME SlowDisk = FALSE, OrderInv, [Next]_vars PROVE OrderInv'
<1>1. WholeInv'
  BY StoreKeeps, CreateKeeps, WriteKeeps, RenameKeeps, RemoveKeeps, OthersKeep
     DEF Next, SaveStep, OrderInv
<1>2. OneSave'
  BY OneSaveNext DEF OrderInv
<1>3. Newest'
  BY <1>2, SaveStepNewest, StoreNewest, OthersNewest DEF Next
<1> QED
  BY <1>1, <1>2, <1>3 DEF OrderInv

(* A file of data_dir is never replaced by an older keyframe, although the *)
(* goroutines of saveKeyframe share nothing but the time of the last one.  *)
THEOREM SavesInOrder == ASSUME SlowDisk = FALSE PROVE Spec => NeverOlder
<1>1. OrderInv /\ [Next]_vars =>
        [\A c \in Codecs : disk[c] # None /\ disk'[c] # None => disk[c].kf <= disk'[c].kf]_vars
  <2> SUFFICES ASSUME OrderInv, [Next]_vars, NEW c \in Codecs,
                      disk[c] # None, disk'[c] # None
               PROVE  disk[c].kf <= disk'[c].kf
    OBVIOUS
  <2>1. disk[c].kf \in Nat
    BY StoreAssumption DEF OrderInv, WholeInv, StoreTypes, Content, Codecs
  <2>2. CASE UNCHANGED disk
    BY <2>1, <2>2
  <2>3. storeLastCameraKeyframe => UNCHANGED disk
    BY DEF storeLastCameraKeyframe
  <2> QED
    BY <2>2, <2>3, SaveStepNewest, OthersNewest DEF Next
<1> QED
  BY InitOrder, OrderNext, <1>1, PTL DEF Spec, NeverOlder

-----------------------------------------------------------------------------
(* A save that is about to remove the other file has left its own.         *)
OwnIsThere == \A w \in saves : w.pc = "remove" => disk[w.codec] # None
Kept == (\E c \in Codecs : disk[c] # None) => \E c \in Codecs : disk'[c] # None

LEMMA SaveStepKeeps ==
  ASSUME OrderInv, OwnIsThere, NEW w \in saves, SaveStep(w)
  PROVE  OwnIsThere' /\ Kept
<1>0. /\ StoreTypes /\ TempHeld /\ saves = {w} /\ w \in Save /\ w.codec \in Codecs
      /\ Temps \cap Codecs = {}
  BY StoreAssumption DEF OrderInv, WholeInv, OneSave, StoreTypes, Codecs, Save
<1>1. CASE CreateTemp(w) \/ WriteTemp(w)
  <2>1. \A c \in Codecs : disk'[c] = disk[c]
    BY <1>0, <1>1 DEF CreateTemp, WriteTemp, StoreTypes, TempHeld, HasTemp
  <2>2. \A v \in saves' : v.pc # "remove"
    <3>1. \A t : [w EXCEPT !.pc = "write", !.tmp = t].pc = "write"
      BY <1>0 DEF Save
    <3>2. [w EXCEPT !.pc = "rename"].pc = "rename"
      BY <1>0 DEF Save
    <3>3. CASE CreateTemp(w)
      BY <1>0, <3>1, <3>3 DEF CreateTemp, Ends
    <3>4. CASE WriteTemp(w)
      BY <1>0, <3>2, <3>4 DEF WriteTemp, Goto, Ends
    <3> QED BY <1>1, <3>3, <3>4
  <2> QED
    BY <2>1, <2>2 DEF OwnIsThere, Kept
<1>2. CASE Rename(w)
  <2>1. disk[w.tmp] # None /\ w.tmp \in Temps
    BY <1>0, <1>2 DEF TempHeld, HasTemp, Rename
  <2>2. \A c \in Codecs : disk'[c] = disk[c] \/ disk'[c] = disk[w.tmp]
    BY <1>0, <1>2, <2>1 DEF Rename, StoreTypes
  <2>3. \A v \in saves' : v.codec = w.codec /\ disk'[w.codec] = disk[w.tmp]
    BY <1>0, <1>2, <2>1 DEF Rename, Goto, Ends, Save, StoreTypes
  <2> QED
    BY <2>1, <2>2, <2>3 DEF OwnIsThere, Kept
<1>3. CASE RemoveOther(w)
  <2>1. disk[w.codec] # None /\ disk'[w.codec] = disk[w.codec] /\ saves' = {}
    BY <1>0, <1>3 DEF RemoveOther, Ends, OwnIsThere, StoreTypes, Codecs, Other
  <2> QED
    BY <1>0, <2>1 DEF OwnIsThere, Kept
<1> QED
  BY <1>1, <1>2, <1>3 DEF SaveStep

LEMMA OthersKeepFiles ==
  ASSUME OwnIsThere,
         \/ \E c \in Codecs : Describe(c)
         \/ storeLastCameraKeyframe \/ MinutePasses \/ Exit
         \/ \E conf \in Configs : Start(conf)
         \/ Bounded \/ UNCHANGED vars
  PROVE  OwnIsThere' /\ Kept
<1>1. disk' = disk /\ \A w \in saves' : w \in saves \/ w.pc = "create"
  BY DEF Describe, storeLastCameraKeyframe, saveKeyframe, MinutePasses, Exit, Start, Bounded, vars
<1> QED
  BY <1>1 DEF OwnIsThere, Kept

(* From the first keyframe on disk there is always one to restore: what a  *)
(* save removes (persist.go 119) is never the only file, however codecs    *)
(* change, writes fail and processes end in the middle of a save.          *)
THEOREM KeyframeAlwaysKept == ASSUME SlowDisk = FALSE PROVE Spec => KeyframeKept
<1>1. Init => OwnIsThere
  BY DEF Init, OwnIsThere
<1>2. OrderInv /\ OwnIsThere /\ [Next]_vars => OwnIsThere' /\ Kept
  BY SaveStepKeeps, OthersKeepFiles DEF Next
<1>3. Kept => [(\E c \in Codecs : disk[c] # None) => \E c \in Codecs : disk'[c] # None]_vars
  BY DEF Kept
<1> QED
  BY InitOrder, OrderNext, <1>1, <1>2, <1>3, PTL DEF Spec, KeyframeKept

-----------------------------------------------------------------------------
(* What is in memory and on disk keeps its type, with any number of        *)
(* keyframes and exits.                                                    *)
THEOREM StoreTypeCorrect == Spec => []TypeOK
<1>1. Init => TypeOK
  <2>1. Init => exits \in 0 .. MaxExits
    BY StoreAssumption DEF Init
  <2> QED
    BY <2>1, InitWhole DEF Init, TypeOK, WholeInv, StoreTypes
<1>2. ASSUME TypeOK, WholeInv, WholeInv', [Next]_vars
      PROVE  TypeOK'
  <2>1. StoreTypes'
    BY <1>2 DEF WholeInv
  <2>2. CASE storeLastCameraKeyframe
    <3>1. kfs' \in 1 .. MaxKeyframes
      BY <1>2, <2>2, StoreAssumption DEF TypeOK, storeLastCameraKeyframe
    <3>2. limited' \in BOOLEAN
      BY <1>2, <2>2, Zenon DEF TypeOK, storeLastCameraKeyframe, saveKeyframe
    <3> QED
      BY <1>2, <2>1, <2>2, <3>1, <3>2 DEF TypeOK, StoreTypes, storeLastCameraKeyframe
  <2>3. CASE \E conf \in Configs : Start(conf)
    <3>1. \A c \in Codecs : disk[c] # None => disk[c].kf \in 1 .. MaxKeyframes
      BY <1>2 DEF TypeOK, Content
    <3> QED
      BY <1>2, <2>1, <2>3, <3>1 DEF TypeOK, StoreTypes, Start, Found, Codecs
  <2>4. CASE Exit
    <3>1. exits' \in 0 .. MaxExits
      BY <1>2, <2>4, StoreAssumption DEF TypeOK, Exit
    <3> QED
      BY <1>2, <2>1, <2>4, <3>1 DEF TypeOK, StoreTypes, Exit
  <2>5. CASE \E w \in saves : SaveStep(w)
    BY <1>2, <2>1, <2>5 DEF TypeOK, StoreTypes, SaveStep, CreateTemp, WriteTemp, Rename,
       RemoveOther, SaveFrame
  <2>6. CASE \/ \E c \in Codecs : Describe(c)
             \/ MinutePasses \/ Bounded \/ UNCHANGED vars
    BY <1>2, <2>1, <2>6 DEF TypeOK, StoreTypes, Describe, MinutePasses, Bounded, vars
  <2> QED
    BY <1>2, <2>2, <2>3, <2>4, <2>5, <2>6 DEF Next
<1>3. WholeInv /\ [Next]_vars => WholeInv'
  BY StoreKeeps, CreateKeeps, WriteKeeps, RenameKeeps, RemoveKeeps, OthersKeep
     DEF Next, SaveStep
<1> QED
  BY InitWhole, <1>1, <1>2, <1>3, PTL DEF Spec
=============================================================================
