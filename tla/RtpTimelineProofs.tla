--------------------------- MODULE RtpTimelineProofs ---------------------------
(***************************************************************************)
(* Theorems about RtpTimeline for every width of the timestamps: a few     *)
(* facts about remainders, then the invariant that ties the code's fields  *)
(* to the consumer's unwrapped time.                                       *)
(***************************************************************************)
EXTENDS RtpTimeline, TLAPS

-----------------------------------------------------------------------------
(* Remainders.                                                             *)

LEMMA Modulus == M \in Nat \ {0}
  BY TimelineAssumption DEF M

LEMMA ModDivides ==
  ASSUME NEW m \in Nat \ {0}, NEW a \in Int
  PROVE  a = m * (a \div m) + (a % m)
  BY Z3

LEMMA ModUnique ==
  ASSUME NEW m \in Nat \ {0}, NEW a \in Int, NEW q \in Int, NEW r \in 0 .. m - 1, a = m * q + r
  PROVE  a % m = r
  BY SMTT(60)

(* A timestamp is the time less some turns of the counter.                 *)
LEMMA Turns ==
  ASSUME NEW a \in Int
  PROVE  a % M \in Stamps /\ \E k \in Int : a % M = a + M * k
<1> USE Modulus
<1> HIDE DEF M
<1>1. a = M * (a \div M) + (a % M) /\ a \div M \in Int /\ a % M \in 0 .. M - 1
  BY ModDivides
<1>2. -(a \div M) \in Int /\ a % M = a + M * (-(a \div M))
  BY <1>1
<1> QED
  BY <1>1, <1>2 DEF Stamps

(* Turns of the counter do not change a timestamp.                         *)
LEMMA Turning ==
  ASSUME NEW a \in Int, NEW k \in Int
  PROVE  (a + M * k) % M = a % M
<1> USE Modulus
<1> HIDE DEF M
<1>1. PICK j \in Int : a % M = a + M * j
  BY Turns
<1>2. a % M \in 0 .. M - 1
  BY Turns DEF Stamps
<1>3. k - j \in Int /\ a + M * k \in Int /\ a + M * k = M * (k - j) + (a % M)
  BY <1>1
<1> QED
  BY <1>2, <1>3, ModUnique

(* The int32 distance of two timestamps is that of their times, when it is *)
(* less than half a turn.                                                  *)
LEMMA Distance ==
  ASSUME NEW d \in Int, NEW k \in Int, -M < 2 * d, 2 * d < M
  PROVE  Signed(d + M * k) = d
<1> USE Modulus
<1> HIDE DEF M
<1>1. (d + M * k) % M = d % M
  BY Turning
<1>2. \A x : x % M = d % M => Signed(x) = Signed(d)
  BY DEF Signed
<1>3. CASE d >= 0
  <2>1. d \in 0 .. M - 1 /\ d % M = d
    BY <1>3
  <2> QED
    BY <1>1, <1>2, <2>1 DEF Signed
<1>4. CASE d < 0
  <2>1. (d + M) % M = d % M
    <3>1. PICK one \in Int : one = 1
      OBVIOUS
    <3>2. (d + M * one) % M = d % M
      BY Turning
    <3> QED
      BY <3>1, <3>2
  <2>2. d + M \in 0 .. M - 1 /\ (d + M) % M = d + M
    BY <1>4
  <2>3. d % M = d + M
    BY <2>1, <2>2
  <2>4. Signed(d) = d
    BY <1>4, <2>3 DEF Signed
  <2> QED
    BY <1>1, <1>2, <2>4
<1> QED
  BY <1>3, <1>4

-----------------------------------------------------------------------------
(* What the code's fields say of the consumer's time.                      *)

(* lastOut is the newest time; the bases of the current source stand for   *)
(* the time it began, and its newest packet is the newest of all.          *)
Following ==
    /\ lastOut = newest % M
    /\ inited => /\ outBase = begun % M
                 /\ src = (srcBase + clock) % M
                 /\ newest = begun + clock
    /\ ~inited => clock = 0

(* A source begins where the one before it ended or a gap later; "before"  *)
(* the first there is nothing.                                             *)
Started ==
    /\ inited => \/ begun \in {before, before + Gap}
                 \/ begun = 0 /\ before = -M
    /\ ~inited => \/ newest = before
                  \/ newest = 0 /\ before = -M

(* The latest packet is where its source's own time puts it.               *)
Counted == inited => at - begun = since /\ since >= -Back

TimelineInv == Following /\ Started /\ Counted

LEMMA InitTimeline == Init => TypeOK /\ TimelineInv
<1> USE Modulus
<1> HIDE DEF M
<1>1. 0 % M = 0 /\ 0 \in Stamps
  BY DEF Stamps
<1>2. Init => TypeOK
  <2>1. -M \in Int
    OBVIOUS
  <2>2. Init => {begun, before, newest, at, since} \subseteq Int /\ clock \in Nat
    BY <2>1 DEF Init
  <2>3. Init => {srcBase, outBase, lastOut, src} \subseteq Stamps /\ inited \in BOOLEAN
    BY <1>1 DEF Init
  <2> QED
    BY <2>2, <2>3 DEF TypeOK
<1>3. Init => TimelineInv
  BY <1>1 DEF Init, TimelineInv, Following, Started, Counted
<1> QED
  BY <1>2, <1>3

(* Where newBase puts the first packet of a source.                        *)
LEMMA FirstBase ==
  ASSUME TypeOK, Following
  PROVE  \E g \in {0, Gap} : \E k \in Int :
            /\ newBase = newest + g + M * k
            /\ newBase = (newest + g) % M
            /\ g = 0 => newBase = lastOut
            /\ lastOut = 0 => g = 0
<1> USE Modulus, TimelineAssumption
<1> HIDE DEF M
<1>1. newest \in Int /\ lastOut = newest % M
  BY DEF TypeOK, Following
<1>2. CASE lastOut = 0
  <2>1. PICK k \in Int : newest % M = newest + M * k
    BY <1>1, Turns
  <2>2. newBase = 0
    BY <1>2 DEF newBase
  <2>3. newest + 0 = newest
    BY <1>1
  <2> QED
    BY <1>1, <1>2, <2>1, <2>2, <2>3
<1>3. CASE lastOut # 0
  <2>1. newBase = (lastOut + Gap) % M
    BY <1>3 DEF newBase
  <2>2. PICK j \in Int : newest % M = newest + M * j
    BY <1>1, Turns
  <2>3. newest + Gap \in Int /\ lastOut + Gap = (newest + Gap) + M * j
    BY <1>1, <2>2
  <2>4. newBase = (newest + Gap) % M
    BY <2>1, <2>3, Turning
  <2>5. PICK k \in Int : (newest + Gap) % M = newest + Gap + M * k
    BY <2>3, Turns
  <2> QED
    BY <1>3, <2>4, <2>5
<1> QED
  BY <1>2, <1>3

LEMMA FirstNext ==
  ASSUME TypeOK, TimelineInv, First
  PROVE  TypeOK' /\ TimelineInv'
<1> USE Modulus, TimelineAssumption
<1> HIDE DEF M
<1>1. PICK g \in {0, Gap} : \E k \in Int :
         newBase = newest + g + M * k /\ newBase = (newest + g) % M /\ (g = 0 => newBase = lastOut)
         /\ (lastOut = 0 => g = 0)
  BY FirstBase DEF TimelineInv
<1>2. PICK k \in Int : newBase = newest + g + M * k
  BY <1>1
<1>3. src \in Stamps /\ newest \in Int /\ g \in Int /\ newBase \in Stamps /\ lastOut \in Stamps /\ before \in Int
      /\ newest + g \in Int
  <2>1. newest + g \in Int /\ newest \in Int /\ src \in Stamps /\ lastOut \in Stamps /\ before \in Int /\ g \in Int
    BY DEF TypeOK
  <2> QED
    BY <1>1, <2>1, Turns
<1>4. src % M = src /\ newBase % M = newBase
  BY <1>3 DEF Stamps
<1>5. Signed(newBase - newest) = g
  <2>1. newBase - newest = g + M * k /\ -M < 2 * g /\ 2 * g < M
    BY <1>2, <1>3
  <2> QED
    BY <1>3, <2>1, Distance
<1>6. Signed(newBase - lastOut) = g
  <2>1. PICK j \in Int : newest % M = newest + M * j
    BY <1>3, Turns
  <2>2. k - j \in Int /\ newBase - lastOut = g + M * (k - j)
    BY <1>2, <1>3, <2>1 DEF TimelineInv, Following
  <2>3. -M < 2 * g /\ 2 * g < M
    BY <1>3
  <2> QED
    BY <1>3, <2>2, <2>3, Distance
<1>7. /\ ~inited /\ inited' = TRUE /\ clock = 0
      /\ srcBase' = src /\ outBase' = newBase
      /\ lastOut' = highWater(newBase)
      /\ at' = newest + g /\ begun' = newest + g
      /\ newest' = newest + g
      /\ since' = 0 /\ src' = src /\ clock' = 0 /\ before' = before
  <2>1. ~inited /\ clock = 0
    BY DEF First, TimelineInv, Following
  <2>2. src + 0 = src /\ newBase + (src - src) = newBase /\ 0 + 0 = 0
    BY <1>3 DEF Stamps
  <2> QED
    BY <1>3, <1>4, <1>5, <2>1, <2>2 DEF First, Write
<1>8. lastOut' = (newest + g) % M
  BY <1>1, <1>3, <1>6, <1>7 DEF highWater
<1>9. TypeOK'
  BY <1>3, <1>7, <1>8, <1>1 DEF TypeOK
<1>10. Following'
  <2>1. src + 0 = src /\ newest + g + 0 = newest + g
    BY <1>3 DEF Stamps
  <2> QED
    BY <1>1, <1>4, <1>7, <1>8, <2>1 DEF Following
<1>11. Started'
  <2>1. CASE newest = before
    BY <1>3, <1>7, <2>1 DEF Started
  <2>2. CASE newest = 0 /\ before = -M
    BY <1>1, <1>7, <2>2 DEF TimelineInv, Following, Started
  <2> QED
    BY <1>7, <2>1, <2>2 DEF TimelineInv, Started
<1>12. Counted'
  BY <1>3, <1>7 DEF Counted
<1> QED
  BY <1>9, <1>10, <1>11, <1>12 DEF TimelineInv

(* A later packet goes where its source's clock puts it, whichever of the  *)
(* timestamps in between has wrapped.                                      *)
LEMMA LaterPlace ==
  ASSUME TypeOK, Following, inited, NEW d \in -Back .. MaxStep,
         NEW ts, ts = (src + d) % M, NEW out, out = (outBase + (ts - srcBase)) % M
  PROVE  /\ ts \in Stamps /\ ts = (srcBase + (clock + d)) % M
         /\ out \in Stamps /\ out = (newest + d) % M
         /\ Signed(out - newest) = d
         /\ Signed(out - lastOut) = d
<1> USE Modulus, TimelineAssumption
<1> HIDE DEF M
<1>1. /\ d \in Int /\ newest \in Int /\ begun \in Int /\ clock \in Int /\ srcBase \in Int
      /\ src \in Int /\ newest + d \in Int /\ srcBase + clock \in Int
      /\ srcBase + (clock + d) \in Int /\ newest = begun + clock
  <2>1. newest \in Int /\ begun \in Int /\ clock \in Int /\ srcBase \in Int /\ src \in Int
    BY DEF TypeOK, Stamps
  <2>2. newest = begun + clock
    BY DEF Following
  <2> QED
    BY <2>1, <2>2
<1>2. PICK i \in Int : src = srcBase + clock + M * i
  BY <1>1, Turns DEF Following
<1>3. PICK j \in Int : outBase = begun + M * j
  BY <1>1, Turns DEF Following
<1>4. ts = (srcBase + (clock + d)) % M
  <2>1. src + d = (srcBase + (clock + d)) + M * i
    BY <1>1, <1>2
  <2> QED
    BY <1>1, <2>1, Turning
<1>5. PICK k \in Int : ts = srcBase + (clock + d) + M * k
  BY <1>1, <1>4, Turns
<1>6. out = (newest + d) % M
  <2>1. PICK n \in Int : n = j + k
    OBVIOUS
  <2>2. outBase + (ts - srcBase) = (newest + d) + M * n
    <3>1. outBase + (ts - srcBase) = (newest + d) + (M * j + M * k)
      BY <1>1, <1>3, <1>5
    <3> QED
      BY <2>1, <3>1
  <2>3. ((newest + d) + M * n) % M = (newest + d) % M
    BY <1>1, Turning
  <2> QED
    BY <2>2, <2>3
<1>7. PICK l \in Int : out = newest + d + M * l
  BY <1>1, <1>6, Turns
<1>8. PICK n \in Int : lastOut = newest + M * n
  BY <1>1, Turns DEF Following
<1>9. -M < 2 * d /\ 2 * d < M
  BY <1>1
<1>10. Signed(out - newest) = d
  <2>1. out - newest = d + M * l
    BY <1>1, <1>7
  <2> QED
    BY <1>1, <1>9, <2>1, Distance
<1>11. Signed(out - lastOut) = d
  <2>1. l - n \in Int /\ out - lastOut = d + M * (l - n)
    BY <1>1, <1>7, <1>8
  <2> QED
    BY <1>1, <1>9, <2>1, Distance
<1>12. ts \in Stamps /\ out \in Stamps
  BY <1>1, <1>4, <1>6, Turns
<1> QED
  BY <1>4, <1>6, <1>10, <1>11, <1>12

LEMMA LaterNext ==
  ASSUME TypeOK, TimelineInv, Later
  PROVE  TypeOK' /\ TimelineInv'
<1> USE Modulus, TimelineAssumption
<1> HIDE DEF M
<1>1. PICK d \in -Back .. MaxStep : Write(d)
  BY DEF Later
<1>2. PICK ts : ts = (src + d) % M
  OBVIOUS
<1>3. PICK out : out = (outBase + (ts - srcBase)) % M
  OBVIOUS
<1>4. /\ ts \in Stamps /\ ts = (srcBase + (clock + d)) % M
      /\ out \in Stamps /\ out = (newest + d) % M
      /\ Signed(out - newest) = d
      /\ Signed(out - lastOut) = d
  BY <1>2, <1>3, LaterPlace DEF Later, TimelineInv
<1>5. /\ inited /\ inited' = TRUE /\ srcBase' = srcBase /\ outBase' = outBase
      /\ lastOut' = IF d > 0 THEN out ELSE lastOut
      /\ at' = newest + d /\ newest' = IF newest + d > newest THEN newest + d ELSE newest
      /\ begun' = begun /\ since' = clock + d
      /\ src' = IF d > 0 THEN ts ELSE src
      /\ clock' = IF d > 0 THEN clock + d ELSE clock
      /\ before' = before
  BY <1>1, <1>2, <1>3, <1>4 DEF Later, Write, highWater
<1>6. /\ d \in Int /\ -Back <= d /\ newest \in Int /\ begun \in Int /\ before \in Int /\ clock \in Nat
      /\ srcBase \in Stamps /\ outBase \in Stamps /\ lastOut \in Stamps /\ src \in Stamps
  BY DEF TypeOK
<1>7. TypeOK'
  <2>1. {begun', before', newest', at', since'} \subseteq Int /\ clock' \in Nat
    BY <1>5, <1>6
  <2>2. {srcBase', outBase', lastOut', src'} \subseteq Stamps /\ inited' \in BOOLEAN
    BY <1>4, <1>5, <1>6
  <2> QED
    BY <2>1, <2>2 DEF TypeOK
<1>8. Following'
  <2>1. CASE d > 0
    BY <1>4, <1>5, <1>6, <2>1 DEF TimelineInv, Following
  <2>2. CASE ~(d > 0)
    BY <1>5, <1>6, <2>2 DEF TimelineInv, Following
  <2> QED
    BY <2>1, <2>2
<1>9. Started'
  BY <1>5 DEF TimelineInv, Started
<1>10. Counted'
  BY <1>5, <1>6 DEF TimelineInv, Following, Counted
<1> QED
  BY <1>7, <1>8, <1>9, <1>10 DEF TimelineInv

LEMMA SwitchNext ==
  ASSUME TypeOK, TimelineInv, Switch
  PROVE  TypeOK' /\ TimelineInv'
<1>1. inited' = FALSE /\ inited' \in BOOLEAN
  BY DEF Switch
<1>2. TypeOK'
  BY <1>1 DEF Switch, TypeOK
<1>3. TimelineInv'
  BY <1>1 DEF Switch, TypeOK, TimelineInv, Following, Started, Counted
<1> QED
  BY <1>2, <1>3

LEMMA TimelineNext ==
  ASSUME TypeOK, TimelineInv, [Next]_vars
  PROVE  TypeOK' /\ TimelineInv'
<1>1. CASE UNCHANGED vars
  <2>1. TypeOK'
    BY <1>1 DEF TypeOK, vars, code
  <2>2. TimelineInv'
    BY <1>1 DEF TimelineInv, Following, Started, Counted, vars, code
  <2> QED
    BY <2>1, <2>2
<1> QED
  BY <1>1, FirstNext, LaterNext, SwitchNext DEF Next, Bounded

LEMMA TimelineAlways == Spec => [](TypeOK /\ TimelineInv)
  BY InitTimeline, TimelineNext, PTL DEF Spec

-----------------------------------------------------------------------------
(* Every field keeps its type: the fields of the code stay timestamps.     *)
THEOREM TimelineTypeCorrect == Spec => []TypeOK
  BY TimelineAlways, PTL

(* The consumer sees every source at its own pace, for any width of the    *)
(* timestamps and whichever of them have wrapped.                          *)
THEOREM PaceAlwaysKept == Spec => []SourcePace
<1>1. TypeOK /\ TimelineInv => SourcePace
  BY DEF TypeOK, TimelineInv, Counted, SourcePace
<1> QED
  BY <1>1, TimelineAlways, PTL

(* No source begins before the end of the one before it, and one that      *)
(* begins later never goes back there, provided the gap that newBase       *)
(* leaves is enough for the B-frames of the new source.                    *)
THEOREM NeverStepsBack ==
  ASSUME Back <= Gap
  PROVE  Spec => []NoStepBack
<1>1. TypeOK /\ TimelineInv => NoStepBack
  <2> USE Modulus, TimelineAssumption
  <2> HIDE DEF M
  <2>1. TypeOK /\ TimelineInv /\ inited =>
          begun >= before /\ (begun > before => at >= before)
    BY DEF TypeOK, TimelineInv, Started, Counted
  <2> QED
    BY <2>1 DEF NoStepBack
<1> QED
  BY <1>1, TimelineAlways, PTL
=============================================================================
