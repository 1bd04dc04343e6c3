--------------------------- MODULE BackgroundProofs ---------------------------
(***************************************************************************)
(* What is under the chrome, for every value of the constants: the palette *)
(* cache with its watch, the status line, and the wallpaper for images and *)
(* outputs of any size; and that the chrome stays in the rectangle it is   *)
(* said to be in.  (They share a module of proofs and nothing else.)       *)
(***************************************************************************)
EXTENDS Watchers, Wallpaper, Chrome, Induction, SequenceTheorems, TLAPS

-----------------------------------------------------------------------------
(* Arithmetic of the scaled copies.                                        *)
LEMMA DivBounds ==
    ASSUME NEW a \in Nat, NEW b \in Nat \ {0}
    PROVE  /\ a \div b \in Nat
           /\ (a \div b) * b <= a
           /\ a < (a \div b) * b + b
           /\ a % b # 0 => (a \div b) * b < a
OBVIOUS

LEMMA ScaleUp ==
    ASSUME NEW a \in Nat, NEW b \in Nat, a >= b, NEW p \in Nat, p >= 100
    PROVE  a * p >= b * 100
OBVIOUS

LEMMA RoundBounds ==
    ASSUME NEW n \in Nat, NEW d \in Nat \ {0}, NEW t \in Nat, n >= t * d
    PROVE  /\ Round(n, d) \in Nat
           /\ Round(n, d) >= t
           /\ 2 * (Round(n, d) * d - n) <= d
           /\ 2 * (n - Round(n, d) * d) <= d
<1> DEFINE r == Round(n, d)
<1>1. /\ r \in Nat
      /\ r * (2 * d) <= 2 * n + d
      /\ 2 * n + d < r * (2 * d) + 2 * d
  <2> DEFINE a == 2 * n + d
             b == 2 * d
  <2>1. a \in Nat /\ b \in Nat \ {0}
    OBVIOUS
  <2>2. r = a \div b
    BY DEF Round
  <2> HIDE DEF a, b, r
  <2>3. r \in Nat /\ r * b <= a /\ a < r * b + b
    BY <2>1, <2>2, DivBounds
  <2>4. QED
    BY <2>3 DEF a, b
<1> HIDE DEF r
<1>2. r >= t
  <2>1. SUFFICES ASSUME r < t PROVE FALSE
    BY <1>1
  <2>2. r + 1 <= t
    BY <1>1, <2>1
  <2>3. (r + 1) * (2 * d) <= t * (2 * d)
    BY <1>1, <2>2
  <2>4. QED
    BY <1>1, <2>3
<1>3. 2 * (r * d - n) <= d /\ 2 * (n - r * d) <= d
  BY <1>1
<1>4. QED
  BY <1>1, <1>2, <1>3 DEF r

(* The scale is the larger of the two ratios and the zoom is at least 1.   *)
LEMMA SideBounds ==
    ASSUME NEW t \in SizePairs, NEW i \in {1, 2}, NEW p \in Nat, p >= 100
    PROVE  /\ Side(t, i, p)[1] \in Nat
           /\ Side(t, i, p)[2] \in Nat \ {0}
           /\ Side(t, i, p)[1] >= t[i] * Side(t, i, p)[2]
<1> DEFINE k == IF WidthRules(t) THEN 1 ELSE 2
           a == Source[i] * t[k]
           b == t[i] * Source[k]
<1>1. /\ Source[1] \in Nat \ {0} /\ Source[2] \in Nat \ {0}
      /\ t[1] \in Nat \ {0} /\ t[2] \in Nat \ {0}
  <2>1. Source \in SizePairs
    BY WallpaperAssumption DEF WallpaperAssumption
  <2>2. QED
    BY <2>1 DEF SizePairs
<1>2. /\ Source[i] \in Nat /\ t[k] \in Nat /\ t[i] \in Nat
      /\ Source[k] \in Nat \ {0}
  BY <1>1
<1>3. a \in Nat /\ b \in Nat
  BY <1>2
<1>4. a >= b
  BY <1>1 DEF WidthRules
<1> HIDE DEF k
<1>5. a * p >= b * 100
  <2> HIDE DEF a, b
  <2>1. QED
    BY <1>3, <1>4, ScaleUp
<1>6. Side(t, i, p) = <<a * p, Source[k] * 100>>
  BY DEF Side, k
<1>7. t[i] * (Source[k] * 100) = b * 100
  BY <1>2
<1>8. QED
  BY <1>2, <1>3, <1>5, <1>6, <1>7

LEMMA ScaledBounds ==
    ASSUME NEW t \in SizePairs, NEW i \in {1, 2}, NEW p \in Nat, p >= 100
    PROVE  /\ t[i] \in Nat \ {0}
           /\ Scaled(t, p)[i] = Round(Side(t, i, p)[1], Side(t, i, p)[2])
           /\ Scaled(t, p)[i] \in Nat
           /\ Scaled(t, p)[i] >= t[i]
<1>1. t[i] \in Nat \ {0}
  BY DEF SizePairs
<1>2. Scaled(t, p)[i] = Round(Side(t, i, p)[1], Side(t, i, p)[2])
  BY DEF Scaled
<1> DEFINE n == Side(t, i, p)[1]
           d == Side(t, i, p)[2]
<1>3. n \in Nat /\ d \in Nat \ {0} /\ n >= t[i] * d
  BY SideBounds
<1> HIDE DEF n, d
<1>4. Round(n, d) \in Nat /\ Round(n, d) >= t[i]
  BY <1>1, <1>3, RoundBounds
<1>5. QED
  BY <1>1, <1>2, <1>4 DEF n, d

-----------------------------------------------------------------------------
(* The copies in the cache, and the last frame, were scaled as the size    *)
(* and the configuration ask.                                              *)
Entry == {[target |-> t, scaled |-> Scaled(t, Percent)] : t \in Targets}

Copied(c) ==
    /\ c.target \in Targets
    /\ c.scaled = Scaled(c.target, Percent)
    /\ c.phase[1] \in 0..Phases
    /\ c.phase[2] \in 0..Phases

WallpaperInv ==
    /\ kenBurns \in BOOLEAN
    /\ copies \in Seq(Entry)
    /\ copy = NoCopy \/ Copied(copy)

LEMMA WallpaperConstants ==
    /\ Phases \in Nat \ {0}
    /\ Zoom \in Nat /\ Zoom >= 100
    /\ \A t \in Targets : t \in SizePairs
BY WallpaperAssumption DEF WallpaperAssumption

LEMMA PercentIsNat == Percent \in Nat /\ Percent >= 100
BY WallpaperConstants DEF Percent

LEMMA WithoutSeq ==
    ASSUME NEW S, NEW s \in Seq(S), NEW i \in 1..Len(s)
    PROVE  Without(s, i) \in Seq(S)
<1>1. Len(s) \in Nat
  BY LenProperties
<1>2. SubSeq(s, 1, i - 1) \in Seq(S)
  BY <1>1, SubSeqProperties
<1>3. SubSeq(s, i + 1, Len(s)) \in Seq(S)
  BY <1>1, SubSeqProperties
<1>4. QED
  BY <1>2, <1>3, ConcatProperties DEF Without

(* A hit and a miss both put the copy for the target at the end.           *)
LEMMA UsedIsLast ==
    ASSUME WallpaperInv, NEW target \in Targets, NEW i \in Cached(target)
    PROVE  /\ Used(i) \in Seq(Entry)
           /\ Used(i)[Len(Used(i))] = [target |-> target, scaled |-> Scaled(target, Percent)]
<1>1. copies \in Seq(Entry) /\ i \in 1..Len(copies) /\ copies[i].target = target
  BY LenProperties DEF WallpaperInv, Cached
<1>2. copies[i] \in Entry
  BY <1>1, ElementOfSeq
<1>3. copies[i] = [target |-> target, scaled |-> Scaled(target, Percent)]
  BY <1>1, <1>2 DEF Entry
<1>4. Without(copies, i) \in Seq(Entry)
  BY <1>1, WithoutSeq
<1> DEFINE w == Without(copies, i)
<1> HIDE DEF w
<1>5. /\ Append(w, copies[i]) \in Seq(Entry)
      /\ Append(w, copies[i])[Len(Append(w, copies[i]))] = copies[i]
  BY <1>2, <1>4, AppendProperties, LenProperties DEF w
<1>6. QED
  BY <1>3, <1>5 DEF Used, w

LEMMA AddedIsLast ==
    ASSUME WallpaperInv, NEW e \in Entry
    PROVE  /\ Added(e) \in Seq(Entry)
           /\ Added(e)[Len(Added(e))] = e
<1> DEFINE w == IF Len(copies) >= Slots THEN Tail(copies) ELSE copies
<1>1. copies \in Seq(Entry) /\ Len(copies) \in Nat
  BY LenProperties DEF WallpaperInv
<1>2. w \in Seq(Entry)
  <2>1. CASE Len(copies) >= Slots
    <3>1. Slots \in Nat \ {0}
      BY WallpaperAssumption DEF WallpaperAssumption
    <3>2. copies # <<>>
      BY <1>1, <2>1, <3>1, EmptySeq
    <3>3. QED
      BY <1>1, <2>1, <3>2, HeadTailProperties
  <2>2. CASE ~(Len(copies) >= Slots)
    BY <1>1, <2>2
  <2>3. QED
    BY <2>1, <2>2
<1>3. Added(e) = Append(w, e)
  BY DEF Added
<1> HIDE DEF w
<1>4. QED
  BY <1>2, <1>3, AppendProperties, LenProperties

LEMMA WallpaperInitial == WallpaperInit => WallpaperInv
<1> SUFFICES ASSUME WallpaperInit PROVE WallpaperInv
  OBVIOUS
<1>1. copies \in Seq(Entry)
  BY EmptySeq DEF WallpaperInit
<1>2. QED
  BY <1>1 DEF WallpaperInit, WallpaperInv

LEMMA WallpaperStep == WallpaperInv /\ [WallpaperNext]_wallpaperVars => WallpaperInv'
<1> SUFFICES ASSUME WallpaperInv, [WallpaperNext]_wallpaperVars PROVE WallpaperInv'
  OBVIOUS
<1>1. CASE UNCHANGED wallpaperVars
  BY <1>1 DEF wallpaperVars, WallpaperInv, Entry, Copied, Percent, Scaled, Round, Side
<1>2. ASSUME NEW target \in Targets, PaintFails(target) PROVE WallpaperInv'
  BY <1>2 DEF PaintFails, WallpaperInv, Entry, Percent
<1>3. ASSUME NEW target \in Targets, NEW px \in PanPhase, NEW py \in PanPhase,
             NEW smooth \in BOOLEAN, Paint(target, px, py, smooth)
      PROVE  WallpaperInv'
  <2> DEFINE e == [target |-> target, scaled |-> Scaled(target, Percent)]
  <2>1. e \in Entry
    BY DEF Entry
  <2>2. copies' \in Seq(Entry) /\ copies'[Len(copies')] = e
    <3>1. CASE Cached(target) # {}
      <4> DEFINE i == CHOOSE j \in Cached(target) : TRUE
      <4>1. i \in Cached(target)
        BY <3>1
      <4>2. copies' = Used(i)
        BY <1>3, <3>1 DEF Paint
      <4> HIDE DEF i
      <4>3. QED
        BY <4>1, <4>2, UsedIsLast
    <3>2. CASE Cached(target) = {}
      <4>1. copies' = Added(e)
        BY <1>3, <3>2 DEF Paint
      <4> HIDE DEF e
      <4>2. QED
        BY <2>1, <4>1, AddedIsLast
    <3>3. QED
      BY <3>1, <3>2
  <2>3. kenBurns' = kenBurns /\ Percent' = Percent
    BY <1>3 DEF Paint, Percent
  <2>4. Entry' = Entry
    BY <2>3 DEF Entry
  <2>5. {px, py} \subseteq 0..Phases
    BY <1>3, WallpaperConstants DEF Paint, PanPhase
  <2>6. copy' = [target |-> target, scaled |-> Scaled(target, Percent),
                 phase |-> <<px, py>>, smooth |-> smooth]
    BY <1>3, <2>2 DEF Paint
  <2>7. Copied(copy)'
    BY <2>3, <2>5, <2>6 DEF Copied
  <2>8. QED
    BY <2>2, <2>3, <2>4, <2>7 DEF WallpaperInv
<1>4. QED
  BY <1>1, <1>2, <1>3 DEF WallpaperNext

(* Where the copy reads, on one axis: an offset of at most the room there  *)
(* is, and short of it when a fraction is left.                            *)
LEMMA OffsetBounds ==
    ASSUME NEW c, NEW i \in {1, 2},
           c.target[i] \in Nat \ {0}, c.scaled[i] \in Nat,
           c.scaled[i] >= c.target[i], c.phase[i] \in 0..Phases
    PROVE  /\ First(c, i) \in Nat
           /\ First(c, i) <= c.scaled[i] - c.target[i]
           /\ Fraction(c, i) # 0 => First(c, i) < c.scaled[i] - c.target[i]
<1> DEFINE gap == c.scaled[i] - c.target[i]
           phase == c.phase[i]
           room == IF c.scaled[i] > c.target[i] THEN gap ELSE 0
           asked == gap * phase
           off == Offset(c, i)
           fst == off \div Phases
<1>1. Phases \in Nat \ {0}
  BY WallpaperConstants
<1>2. gap \in Nat /\ phase \in Nat /\ phase <= Phases /\ room = gap
  BY <1>1
<1>3. off = IF asked < 0 THEN 0
            ELSE IF asked > room * Phases THEN room * Phases ELSE asked
  BY DEF Offset
<1> HIDE DEF gap, phase, room, off
<1>4. asked \in Nat /\ asked <= gap * Phases
  BY <1>1, <1>2
<1>5. off = asked
  BY <1>1, <1>2, <1>3, <1>4
<1> HIDE DEF asked
<1>6. off \in Nat /\ off <= gap * Phases
  BY <1>4, <1>5
<1>7. /\ fst \in Nat
      /\ fst * Phases <= off
      /\ off % Phases # 0 => fst * Phases < off
  BY <1>1, <1>6, DivBounds
<1> HIDE DEF fst
<1>8. fst <= gap
  <2>1. SUFFICES ASSUME fst > gap PROVE FALSE
    BY <1>2, <1>7
  <2>2. (gap + 1) * Phases <= fst * Phases
    BY <1>1, <1>2, <1>7, <2>1
  <2>3. QED
    BY <1>1, <1>2, <1>6, <1>7, <2>2
<1>9. off % Phases # 0 => fst < gap
  <2>1. SUFFICES ASSUME fst * Phases < gap * Phases PROVE fst < gap
    BY <1>1, <1>2, <1>6, <1>7
  <2>2. QED
    BY <1>1, <1>2, <1>7, <2>1
<1>10. First(c, i) = fst /\ Fraction(c, i) = off % Phases
  BY DEF First, Fraction, fst, off
<1>11. QED
  BY <1>7, <1>8, <1>9, <1>10 DEF gap

LEMMA InsideOnAxis ==
    ASSUME NEW c, NEW i \in {1, 2},
           c.target[i] \in Nat \ {0}, c.scaled[i] \in Nat,
           c.scaled[i] >= c.target[i], c.phase[i] \in 0..Phases
    PROVE  AxisInside(c, i)
<1> SUFFICES ASSUME NEW k \in 0..(c.target[i] - 1)
             PROVE  /\ Samples(c, i, k) \subseteq 0..(c.scaled[i] - 1)
                    /\ Filtered(c) /\ Fraction(c, i) # 0
                           => Second(c, i, k) = First(c, i) + k + 1
  BY DEF AxisInside
<1>1. /\ First(c, i) \in Nat
      /\ First(c, i) <= c.scaled[i] - c.target[i]
      /\ Fraction(c, i) # 0 => First(c, i) < c.scaled[i] - c.target[i]
  BY OffsetBounds
<1>2. First(c, i) + k \in 0..(c.scaled[i] - 1)
  BY <1>1
<1>3. Second(c, i, k) \in 0..(c.scaled[i] - 1)
  BY <1>1 DEF Second
<1>4. Fraction(c, i) # 0 => Second(c, i, k) = First(c, i) + k + 1
  BY <1>1 DEF Second
<1>5. QED
  BY <1>2, <1>3, <1>4 DEF Samples

(* What the invariant says of the last frame is what CopyInside asks.      *)
LEMMA InvariantGivesInside == WallpaperInv => CopyInside
<1> SUFFICES ASSUME WallpaperInv, copy # NoCopy, NEW i \in {1, 2}
             PROVE  AxisInside(copy, i) /\ PathsAgree(copy, i)
  BY DEF CopyInside
<1> DEFINE t == copy.target
           n == Side(t, i, Percent)[1]
           d == Side(t, i, Percent)[2]
<1>1. /\ t \in SizePairs
      /\ copy.scaled = Scaled(t, Percent)
      /\ copy.phase[i] \in 0..Phases
  BY WallpaperConstants DEF WallpaperInv, Copied
<1>2. /\ t[i] \in Nat \ {0}
      /\ copy.scaled[i] = Round(n, d)
      /\ copy.scaled[i] \in Nat
      /\ copy.scaled[i] >= t[i]
  BY <1>1, PercentIsNat, ScaledBounds
<1>3. AxisInside(copy, i)
  BY <1>1, <1>2, InsideOnAxis
<1>4. n \in Nat /\ d \in Nat \ {0} /\ n >= t[i] * d
  BY <1>1, PercentIsNat, SideBounds
<1> DEFINE exact == n - t[i] * d
           rounded == (copy.scaled[i] - t[i]) * d
<1>5. PathsAgree(copy, i) <=> /\ exact >= 0
                              /\ 2 * (rounded - exact) <= d
                              /\ 2 * (exact - rounded) <= d
  BY DEF PathsAgree, PanRegion
<1> HIDE DEF n, d, t
<1>6. /\ 2 * (Round(n, d) * d - n) <= d
      /\ 2 * (n - Round(n, d) * d) <= d
  BY <1>2, <1>4, RoundBounds
<1>7. rounded - exact = copy.scaled[i] * d - n
  BY <1>2, <1>4
<1>8. exact - rounded = n - copy.scaled[i] * d
  BY <1>2, <1>4
<1>9. exact >= 0
  BY <1>2, <1>4
<1>10. QED
  BY <1>2, <1>3, <1>5, <1>6, <1>7, <1>8, <1>9

(* blit_translate reads inside its source, and the GPU's pan is the same   *)
(* to a pixel: for an image, outputs and a zoom of any size, any number of *)
(* cached copies and any order of frames.                                  *)
THEOREM CopiesInside == WallpaperSpec => []CopyInside
<1>1. WallpaperSpec => []WallpaperInv
  BY WallpaperInitial, WallpaperStep, PTL DEF WallpaperSpec
<1>2. QED
  BY <1>1, InvariantGivesInside, PTL
-----------------------------------------------------------------------------
(* What a cached copy stands for: the order of the cache is the order in   *)
(* which the sizes were last painted.                                      *)
Kept == IF Len(recent) < Slots THEN Len(recent) ELSE Slots

Distinct(s) == \A i, j \in 1..Len(s) : s[i] = s[j] => i = j

RecentInv ==
    /\ recent \in Seq(Targets)
    /\ Distinct(recent)
    /\ Len(copies) = Kept
    /\ \A k \in 1..Len(copies) : copies[k].target = recent[Len(recent) - Kept + k]

(* The sequence without its i-th element.                                  *)
LEMMA WithoutProperties ==
    ASSUME NEW S, NEW s \in Seq(S), NEW i \in 1..Len(s)
    PROVE  /\ Without(s, i) \in Seq(S)
           /\ Len(Without(s, i)) = Len(s) - 1
           /\ \A k \in 1..(Len(s) - 1) :
                 Without(s, i)[k] = IF k < i THEN s[k] ELSE s[k + 1]
<1> DEFINE front == SubSeq(s, 1, i - 1)
           back == SubSeq(s, i + 1, Len(s))
<1>1. Len(s) \in Nat /\ \A k \in 1..Len(s) : s[k] \in S
  BY LenProperties
<1>2. /\ front \in Seq(S)
      /\ Len(front) = i - 1
      /\ \A k \in 1..(i - 1) : front[k] = s[k]
  BY <1>1, SubSeqProperties
<1>3. /\ back \in Seq(S)
      /\ Len(back) = Len(s) - i
      /\ \A k \in 1..(Len(s) - i) : back[k] = s[k + i]
  BY <1>1, SubSeqProperties
<1>4. Without(s, i) = front \o back
  BY DEF Without
<1> DEFINE whole == front \o back
<1> HIDE DEF front, back
<1>5. /\ whole \in Seq(S)
      /\ Len(whole) = Len(s) - 1
      /\ \A k \in 1..(Len(s) - 1) :
            whole[k] = IF k <= i - 1 THEN front[k] ELSE back[k - (i - 1)]
  <2>1. /\ whole \in Seq(S)
        /\ Len(whole) = Len(front) + Len(back)
        /\ \A k \in 1..(Len(front) + Len(back)) :
              whole[k] = IF k <= Len(front) THEN front[k] ELSE back[k - Len(front)]
    BY <1>2, <1>3, ConcatProperties
  <2>2. Len(front) + Len(back) = Len(s) - 1
    BY <1>1, <1>2, <1>3
  <2> HIDE DEF whole
  <2>3. QED
    BY <1>2, <2>1, <2>2
<1> HIDE DEF whole
<1>6. ASSUME NEW k \in 1..(Len(s) - 1)
      PROVE  whole[k] = IF k < i THEN s[k] ELSE s[k + 1]
  <2>1. CASE k < i
    BY <1>1, <1>2, <1>5, <2>1
  <2>2. CASE k >= i
    <3>1. k - (i - 1) \in 1..(Len(s) - i) /\ (k - (i - 1)) + i = k + 1
      BY <1>1, <2>2
    <3>2. back[k - (i - 1)] = s[k + 1]
      BY <1>3, <3>1
    <3>3. QED
      BY <1>1, <1>5, <2>2, <3>2
  <2>3. QED
    BY <1>1, <2>1, <2>2
<1>7. QED
  BY <1>4, <1>5, <1>6 DEF whole

(* Where the k-th element is from when the j-th of n is moved to the end.  *)
Origin(n, j, k) == IF k = n THEN j ELSE IF k < j THEN k ELSE k + 1

LEMMA OriginIsPermutation ==
    ASSUME NEW n \in Nat, NEW j \in 1..n
    PROVE  /\ \A k \in 1..n : Origin(n, j, k) \in 1..n
           /\ \A k, l \in 1..n : Origin(n, j, k) = Origin(n, j, l) => k = l
BY DEF Origin

(* Moving an element that occurs at j, or nowhere, to the end.             *)
LEMMA LatestOfSeen ==
    ASSUME NEW s \in Seq(Targets), Distinct(s), NEW j \in 1..Len(s)
    PROVE  /\ Latest(s, s[j]) \in Seq(Targets)
           /\ Distinct(Latest(s, s[j]))
           /\ Len(Latest(s, s[j])) = Len(s)
           /\ \A k \in 1..Len(s) : Latest(s, s[j])[k] = s[Origin(Len(s), j, k)]
<1> DEFINE t == s[j]
           places == {i \in DOMAIN s : s[i] = t}
           w == Without(s, j)
           moved == Append(w, t)
<1> DEFINE n == Len(s)
<1>1. n \in Nat /\ j \in 1..n
  BY LenProperties
<1>2. places = {j}
  BY LenProperties DEF Distinct
<1>3. Latest(s, t) = moved
  <2>1. places # {} /\ (CHOOSE i \in places : TRUE) = j
    BY <1>2
  <2>2. Latest(s, t) = Append(IF places = {} THEN s
                              ELSE Without(s, CHOOSE i \in places : TRUE), t)
    BY DEF Latest
  <2> HIDE DEF places
  <2>3. QED
    BY <2>1, <2>2
<1>4. /\ w \in Seq(Targets)
      /\ Len(w) = n - 1
      /\ \A k \in 1..(n - 1) : w[k] = IF k < j THEN s[k] ELSE s[k + 1]
  BY WithoutProperties
<1>5. t \in Targets
  BY ElementOfSeq
<1> HIDE DEF w, t, n, places
<1>6. /\ moved \in Seq(Targets)
      /\ Len(moved) = n
      /\ \A k \in 1..(n - 1) : moved[k] = w[k]
      /\ moved[n] = t
  <2>1. /\ moved \in Seq(Targets)
        /\ Len(moved) = Len(w) + 1
        /\ \A k \in 1..Len(w) : moved[k] = w[k]
        /\ moved[Len(w) + 1] = t
    BY <1>4, <1>5, AppendProperties
  <2>2. Len(w) + 1 = n
    BY <1>1, <1>4
  <2> HIDE DEF moved
  <2>3. QED
    BY <1>4, <2>1, <2>2
<1> HIDE DEF moved
<1>7. ASSUME NEW k \in 1..n PROVE moved[k] = s[Origin(n, j, k)]
  <2>1. CASE k = n
    BY <1>6, <2>1 DEF Origin, t
  <2>2. CASE k < n
    <3>1. k \in 1..(n - 1)
      BY <1>1, <2>2
    <3>2. moved[k] = IF k < j THEN s[k] ELSE s[k + 1]
      BY <1>4, <1>6, <3>1
    <3>3. QED
      BY <2>2, <3>2 DEF Origin
  <2>3. QED
    BY <1>1, <2>1, <2>2
<1>8. Distinct(moved)
  <2>1. SUFFICES ASSUME NEW k \in 1..n, NEW l \in 1..n, moved[k] = moved[l]
                 PROVE  k = l
    BY <1>6 DEF Distinct
  <2>2. Origin(n, j, k) \in 1..n /\ Origin(n, j, l) \in 1..n
    BY <1>1, OriginIsPermutation
  <2>3. Origin(n, j, k) = Origin(n, j, l)
    BY <1>7, <2>1, <2>2 DEF Distinct, n
  <2>4. QED
    BY <1>1, <2>3, OriginIsPermutation
<1>9. QED
  BY <1>3, <1>6, <1>7, <1>8 DEF t, n

LEMMA LatestOfUnseen ==
    ASSUME NEW s \in Seq(Targets), Distinct(s), NEW t \in Targets,
           \A i \in 1..Len(s) : s[i] # t
    PROVE  /\ Latest(s, t) \in Seq(Targets)
           /\ Distinct(Latest(s, t))
           /\ Len(Latest(s, t)) = Len(s) + 1
           /\ \A k \in 1..Len(s) : Latest(s, t)[k] = s[k]
           /\ Latest(s, t)[Len(s) + 1] = t
<1>1. Len(s) \in Nat /\ DOMAIN s = 1..Len(s)
  BY LenProperties
<1>2. Latest(s, t) = Append(s, t)
  BY <1>1 DEF Latest
<1>3. /\ Append(s, t) \in Seq(Targets)
      /\ Len(Append(s, t)) = Len(s) + 1
      /\ \A k \in 1..Len(s) : Append(s, t)[k] = s[k]
      /\ Append(s, t)[Len(s) + 1] = t
  BY AppendProperties
<1>4. Distinct(Append(s, t))
  BY <1>1, <1>3 DEF Distinct
<1>5. QED
  BY <1>2, <1>3, <1>4

(* A hit: size and copy move to the end of their sequences together.       *)
LEMMA HitKeepsRecent ==
    ASSUME WallpaperInv, RecentInv, NEW i \in 1..Len(copies),
           NEW target \in Targets, copies[i].target = target,
           copies' = Used(i), recent' = Latest(recent, target)
    PROVE  RecentInv'
<1> DEFINE j == Len(recent) - Kept + i
           N == Len(recent)
           w == Without(copies, i)
<1>1. /\ N \in Nat /\ Slots \in Nat \ {0}
      /\ Kept \in 0..N /\ Len(copies) = Kept
      /\ copies \in Seq(Entry) /\ copies[i] \in Entry
  BY LenProperties, ElementOfSeq, WallpaperAssumption
  DEF RecentInv, WallpaperInv, Kept, WallpaperAssumption
<1>2. j \in 1..N /\ recent[j] = target
  BY <1>1 DEF RecentInv
<1>3. /\ recent' \in Seq(Targets)
      /\ Distinct(recent')
      /\ Len(recent') = N
      /\ \A k \in 1..N : recent'[k] = recent[Origin(N, j, k)]
  <2> HIDE DEF j, N
  <2>1. /\ Latest(recent, recent[j]) \in Seq(Targets)
        /\ Distinct(Latest(recent, recent[j]))
        /\ Len(Latest(recent, recent[j])) = Len(recent)
        /\ \A k \in 1..Len(recent) :
              Latest(recent, recent[j])[k] = recent[Origin(Len(recent), j, k)]
    BY <1>2, LatestOfSeen DEF RecentInv, N
  <2>2. QED
    BY <1>2, <2>1 DEF N
<1>4. Kept' = Kept
  BY <1>3 DEF Kept
<1>5. /\ w \in Seq(Entry)
      /\ Len(w) = Kept - 1
      /\ \A k \in 1..(Kept - 1) : w[k] = IF k < i THEN copies[k] ELSE copies[k + 1]
  BY <1>1, WithoutProperties
<1> HIDE DEF w
<1>6. copies' = Append(w, copies[i])
  BY DEF Used, w
<1>7. /\ Len(copies') = Kept
      /\ \A k \in 1..(Kept - 1) : copies'[k] = w[k]
      /\ copies'[Kept] = copies[i]
  BY <1>1, <1>5, <1>6, AppendProperties
<1>8. ASSUME NEW k \in 1..Kept
      PROVE  copies'[k].target = recent'[N - Kept + k]
  <2>1. CASE k = Kept
    BY <1>1, <1>2, <1>3, <1>7, <2>1 DEF Origin
  <2>2. CASE k < i /\ k # Kept
    <3>1. copies'[k] = copies[k]
      BY <1>1, <1>5, <1>7, <2>2
    <3>2. recent'[N - Kept + k] = recent[N - Kept + k]
      BY <1>1, <1>3, <2>2 DEF Origin
    <3>3. QED
      BY <1>1, <3>1, <3>2 DEF RecentInv
  <2>3. CASE i <= k /\ k < Kept
    <3>1. copies'[k] = copies[k + 1]
      BY <1>1, <1>5, <1>7, <2>3
    <3>2. recent'[N - Kept + k] = recent[N - Kept + k + 1]
      BY <1>1, <1>3, <2>3 DEF Origin
    <3>3. copies[k + 1].target = recent[N - Kept + (k + 1)]
      BY <1>1, <2>3 DEF RecentInv
    <3>4. QED
      BY <1>1, <3>1, <3>2, <3>3
  <2>4. QED
    BY <1>1, <2>1, <2>2, <2>3
<1>9. QED
  BY <1>1, <1>3, <1>4, <1>7, <1>8 DEF RecentInv

(* A miss: a size that is in none of the slots comes to the end, and the   *)
(* copy for it; the copy that goes is the one for the first of the sizes   *)
(* kept so far.                                                            *)
LEMMA MissKeepsRecent ==
    ASSUME WallpaperInv, RecentInv, NEW target \in Targets, NEW e \in Entry,
           e.target = target, Cached(target) = {},
           copies' = Added(e), recent' = Latest(recent, target)
    PROVE  RecentInv'
<1> DEFINE N == Len(recent)
           w == IF Len(copies) >= Slots THEN Tail(copies) ELSE copies
           full == IF Len(copies) >= Slots THEN 1 ELSE 0
<1>1. /\ N \in Nat /\ Slots \in Nat \ {0}
      /\ Kept \in 0..N /\ Kept <= Slots /\ Len(copies) = Kept
      /\ copies \in Seq(Entry)
      /\ Kept < Slots => Kept = N
  BY LenProperties, WallpaperAssumption
  DEF RecentInv, WallpaperInv, Kept, WallpaperAssumption
<1>2. \A k \in 1..Kept : recent[N - Kept + k] # target
  <2>1. \A k \in 1..Kept : copies[k].target # target
    BY <1>1, LenProperties DEF Cached
  <2>2. QED
    BY <1>1, <2>1 DEF RecentInv
<1>3. /\ w \in Seq(Entry)
      /\ Len(w) = Kept - full
      /\ \A k \in 1..(Kept - full) : w[k] = copies[k + full]
  <2>1. CASE Len(copies) >= Slots
    <3>1. copies # <<>>
      BY <1>1, <2>1, EmptySeq
    <3>2. QED
      BY <1>1, <2>1, <3>1, HeadTailProperties
  <2>2. CASE ~(Len(copies) >= Slots)
    BY <1>1, <2>2
  <2>3. QED
    BY <2>1, <2>2
<1>4. copies' = Append(w, e)
  BY DEF Added
<1> HIDE DEF w
<1>5. /\ Len(copies') = Kept - full + 1
      /\ \A k \in 1..(Kept - full) : copies'[k] = copies[k + full]
      /\ copies'[Kept - full + 1] = e
  BY <1>1, <1>3, <1>4, AppendProperties
<1>6. CASE \E j \in 1..N : recent[j] = target
  <2>1. PICK j \in 1..N : recent[j] = target
    BY <1>6
  <2>2. j <= N - Kept
    <3>1. SUFFICES ASSUME j > N - Kept PROVE FALSE
      BY <1>1
    <3>2. j - (N - Kept) \in 1..Kept /\ N - Kept + (j - (N - Kept)) = j
      BY <1>1, <3>1
    <3>3. QED
      BY <1>2, <2>1, <3>2
  <2>3. Kept = Slots /\ full = 1
    BY <1>1, <2>2
  <2>4. /\ recent' \in Seq(Targets)
        /\ Distinct(recent')
        /\ Len(recent') = N
        /\ \A k \in 1..N : recent'[k] = recent[Origin(N, j, k)]
    <3>1. /\ Latest(recent, recent[j]) \in Seq(Targets)
          /\ Distinct(Latest(recent, recent[j]))
          /\ Len(Latest(recent, recent[j])) = Len(recent)
          /\ \A k \in 1..Len(recent) :
                Latest(recent, recent[j])[k] = recent[Origin(Len(recent), j, k)]
      BY LatestOfSeen DEF RecentInv
    <3>2. QED
      BY <2>1, <3>1
  <2>5. Kept' = Kept
    BY <2>4 DEF Kept
  <2>6. ASSUME NEW k \in 1..Kept
        PROVE  copies'[k].target = recent'[N - Kept + k]
    <3>1. CASE k = Kept
      BY <1>1, <1>5, <2>1, <2>3, <2>4, <3>1 DEF Origin
    <3>2. CASE k < Kept
      <4>1. copies'[k] = copies[k + 1]
        BY <1>1, <1>5, <2>3, <3>2
      <4>2. recent'[N - Kept + k] = recent[N - Kept + k + 1]
        <5> DEFINE i == N - Kept + k
        <5>1. i \in 1..N /\ i # N /\ ~(i < j)
          BY <1>1, <2>2, <3>2
        <5>2. Origin(N, j, i) = i + 1
          BY <5>1 DEF Origin
        <5>3. recent'[i] = recent[i + 1]
          BY <2>4, <5>1, <5>2
        <5>4. QED
          BY <5>3
      <4>3. copies[k + 1].target = recent[N - Kept + (k + 1)]
        BY <1>1, <3>2 DEF RecentInv
      <4>4. QED
        BY <1>1, <4>1, <4>2, <4>3
    <3>3. QED
      BY <1>1, <3>1, <3>2
  <2>7. QED
    BY <1>1, <1>5, <2>3, <2>4, <2>5, <2>6 DEF RecentInv
<1>7. CASE \A j \in 1..N : recent[j] # target
  <2>1. /\ recent' \in Seq(Targets)
        /\ Distinct(recent')
        /\ Len(recent') = N + 1
        /\ \A k \in 1..N : recent'[k] = recent[k]
        /\ recent'[N + 1] = target
    BY <1>7, LatestOfUnseen DEF RecentInv
  <2>2. Kept' = Kept - full + 1
    <3>1. Kept' = IF N + 1 < Slots THEN N + 1 ELSE Slots
      BY <2>1 DEF Kept
    <3> HIDE DEF N
    <3>2. QED
      BY <1>1, <3>1
  <2>3. ASSUME NEW k \in 1..(Kept - full + 1)
        PROVE  copies'[k].target = recent'[(N + 1) - (Kept - full + 1) + k]
    <3>1. CASE k = Kept - full + 1
      <4>1. (N + 1) - (Kept - full + 1) + k = N + 1
        BY <1>1, <3>1
      <4>2. QED
        BY <1>5, <2>1, <3>1, <4>1
    <3>2. CASE k <= Kept - full
      <4>1. copies'[k] = copies[k + full]
        BY <1>1, <1>5, <3>2
      <4>2. (N + 1) - (Kept - full + 1) + k = N - Kept + (k + full)
        BY <1>1
      <4>3. N - Kept + (k + full) \in 1..N /\ k + full \in 1..Kept
        BY <1>1, <3>2
      <4>4. recent'[N - Kept + (k + full)] = recent[N - Kept + (k + full)]
        BY <2>1, <4>3
      <4>5. copies[k + full].target = recent[N - Kept + (k + full)]
        <5> DEFINE i == k + full
        <5>1. i \in 1..Kept
          BY <4>3
        <5> HIDE DEF i
        <5>2. copies[i].target = recent[N - Kept + i]
          BY <5>1 DEF RecentInv
        <5>3. QED
          BY <5>2 DEF i
      <4>6. QED
        BY <4>1, <4>2, <4>4, <4>5
    <3>3. QED
      BY <1>1, <3>1, <3>2
  <2>4. QED
    BY <1>1, <1>5, <2>1, <2>2, <2>3 DEF RecentInv
<1>8. QED
  BY <1>6, <1>7

LEMMA RecentStep ==
    WallpaperInv /\ RecentInv /\ [WallpaperNext]_wallpaperVars => RecentInv'
<1> SUFFICES ASSUME WallpaperInv, RecentInv, [WallpaperNext]_wallpaperVars
             PROVE  RecentInv'
  OBVIOUS
<1>1. CASE UNCHANGED <<copies, recent>>
  BY <1>1 DEF RecentInv, Kept
<1>2. ASSUME NEW target \in Targets, NEW px \in PanPhase, NEW py \in PanPhase,
             NEW smooth \in BOOLEAN, Paint(target, px, py, smooth)
      PROVE  RecentInv'
  <2>1. recent' = Latest(recent, target)
    BY <1>2 DEF Paint
  <2>2. CASE Cached(target) # {}
    <3> DEFINE i == CHOOSE j \in Cached(target) : TRUE
    <3>1. i \in Cached(target)
      BY <2>2
    <3>2. copies' = Used(i)
      BY <1>2, <2>2 DEF Paint
    <3> HIDE DEF i
    <3>3. i \in 1..Len(copies) /\ copies[i].target = target
      BY <3>1, LenProperties DEF Cached, WallpaperInv
    <3>4. QED
      BY <2>1, <3>2, <3>3, HitKeepsRecent
  <2>3. CASE Cached(target) = {}
    <3> DEFINE e == [target |-> target, scaled |-> Scaled(target, Percent)]
    <3>1. e \in Entry /\ e.target = target
      BY DEF Entry
    <3>2. copies' = Added(e)
      BY <1>2, <2>3 DEF Paint
    <3> HIDE DEF e
    <3>3. QED
      BY <2>1, <2>3, <3>1, <3>2, MissKeepsRecent
  <2>4. QED
    BY <2>2, <2>3
<1>3. ASSUME NEW target \in Targets, PaintFails(target) PROVE RecentInv'
  BY <1>1, <1>3 DEF PaintFails
<1>4. QED
  BY <1>1, <1>2, <1>3 DEF WallpaperNext, wallpaperVars

LEMMA RecentGivesCache == WallpaperInv /\ RecentInv => CacheIsRecent
<1> SUFFICES ASSUME WallpaperInv, RecentInv PROVE CacheIsRecent
  OBVIOUS
<1> DEFINE N == Len(recent)
           kept == SubSeq(recent, N - Kept + 1, N)
           targets == [i \in DOMAIN copies |-> copies[i].target]
<1>1. /\ N \in Nat /\ Kept \in 0..N /\ DOMAIN copies = 1..Kept
      /\ recent \in Seq(Targets) /\ Len(copies) = Kept
  BY LenProperties, WallpaperAssumption
  DEF RecentInv, WallpaperInv, Kept, WallpaperAssumption
<1>2. \A k \in 1..N : recent[k] \in Targets
  BY <1>1, ElementOfSeq
<1>3. /\ kept \in Seq(Targets)
      /\ Len(kept) = Kept
      /\ \A k \in 1..Kept : kept[k] = recent[N - Kept + k]
  <2>1. \A k \in (N - Kept + 1)..N : recent[k] \in Targets
    BY <1>1, <1>2
  <2>2. /\ kept \in Seq(Targets)
        /\ Len(kept) = IF N - Kept + 1 <= N THEN N - (N - Kept + 1) + 1 ELSE 0
        /\ \A k \in 1..(N - (N - Kept + 1) + 1) : kept[k] = recent[(N - Kept + 1) + k - 1]
    <3>1. N - Kept + 1 \in Int /\ N \in Int
      BY <1>1
    <3> HIDE DEF N
    <3>2. QED
      BY <2>1, <3>1, SubSeqProperties
  <2> HIDE DEF kept
  <2>3. N - (N - Kept + 1) + 1 = Kept
    BY <1>1
  <2>4. \A k \in 1..Kept : (N - Kept + 1) + k - 1 = N - Kept + k
    BY <1>1
  <2>5. QED
    BY <1>1, <2>2, <2>3, <2>4
<1> HIDE DEF kept
<1>4. kept = [k \in 1..Kept |-> kept[k]]
  BY <1>3, LenProperties
<1>5. targets = [k \in 1..Kept |-> copies[k].target]
  BY <1>1
<1>6. targets = kept
  BY <1>1, <1>3, <1>4, <1>5 DEF RecentInv
<1>7. QED
  BY <1>6 DEF CacheIsRecent, Kept, kept

(* The cache holds the copies of the sizes painted last, whatever the      *)
(* outputs and the number of slots: a size is scaled again only after as   *)
(* many others were painted as there are slots.                            *)
THEOREM CacheKeepsRecent == WallpaperSpec => []CacheIsRecent
<1>1. WallpaperInit => RecentInv
  <2> SUFFICES ASSUME WallpaperInit PROVE RecentInv
    OBVIOUS
  <2>1. recent = <<>> /\ copies = <<>> /\ recent \in Seq(Targets)
    BY EmptySeq DEF WallpaperInit
  <2>2. Len(recent) = 0 /\ Len(copies) = 0
    BY <2>1
  <2>3. Kept = 0
    BY <2>2, WallpaperAssumption DEF Kept, WallpaperAssumption
  <2>4. QED
    BY <2>1, <2>2, <2>3 DEF RecentInv, Distinct
<1>2. WallpaperSpec => [](WallpaperInv /\ RecentInv)
  BY <1>1, WallpaperInitial, WallpaperStep, RecentStep, PTL DEF WallpaperSpec
<1>3. QED
  BY <1>2, RecentGivesCache, PTL
-----------------------------------------------------------------------------
(* The palettes.  The types, and a cache that follows the files.           *)
PaletteInv == PaletteTypeOK /\ CacheFollowsFile

LEMMA PaletteInitial == PaletteInit => PaletteInv
<1> SUFFICES ASSUME PaletteInit PROVE PaletteInv
  OBVIOUS
<1>1. 0 \in Palette
  BY PaletteAssumption DEF PaletteAssumption, Palette
<1>2. PaletteTypeOK
  BY <1>1 DEF PaletteInit, PaletteTypeOK
<1>3. CacheFollowsFile
  BY DEF PaletteInit, CacheFollowsFile
<1>4. QED
  BY <1>2, <1>3 DEF PaletteInv

(* Writers: what they write is noticed, if the palettes are watched.       *)
LEMMA WritersKeep ==
    ASSUME PaletteInv, Writer \/ WriteTheme
    PROVE  PaletteInv'
<1>1. CASE WriteTheme
  <2>1. notices' \in Nat /\ notices' >= notices
    BY <1>1 DEF WriteTheme, Notify, PaletteInv, PaletteTypeOK
  <2>2. PaletteTypeOK'
    BY <1>1, <2>1 DEF WriteTheme, PaletteInv, PaletteTypeOK
  <2>3. CacheFollowsFile'
    BY <1>1, <2>1 DEF WriteTheme, PaletteInv, PaletteTypeOK, CacheFollowsFile
  <2>4. QED
    BY <2>2, <2>3 DEF PaletteInv
<1>2. ASSUME NEW o \in Outputs, WritePalette(o) PROVE PaletteInv'
  <2>1. notices' \in Nat /\ ("palettes" \in watched => notices' > 0)
    BY <1>2 DEF WritePalette, Notify, PaletteInv, PaletteTypeOK
  <2>2. file' \in [Outputs -> Palette]
    <3>1. file[o] + 1 \in Palette
      BY <1>2, PaletteAssumption
      DEF PaletteAssumption, WritePalette, PaletteInv, PaletteTypeOK, Palette
    <3>2. QED
      BY <1>2, <3>1 DEF WritePalette, PaletteInv, PaletteTypeOK
  <2>3. PaletteTypeOK'
    BY <1>2, <2>1, <2>2 DEF WritePalette, PaletteInv, PaletteTypeOK
  <2>4. CacheFollowsFile'
    BY <1>2, <2>1 DEF WritePalette, CacheFollowsFile
  <2>5. QED
    BY <2>3, <2>4 DEF PaletteInv
<1>3. QED
  BY <1>1, <1>2 DEF Writer

(* Handlers of the event loop.                                             *)
LEMMA HandlersKeep ==
    ASSUME PaletteInv, ThemeChanged \/ LoopStep \/ StartRedraw
    PROVE  PaletteInv'
<1>1. CASE ThemeChanged
  <2>1. notices' \in Nat
    BY <1>1 DEF ThemeChanged, PaletteInv, PaletteTypeOK
  <2>2. PaletteTypeOK'
    BY <1>1, <2>1 DEF ThemeChanged, PaletteInv, PaletteTypeOK
  <2>3. CacheFollowsFile'
    BY <1>1 DEF ThemeChanged, Idle, CacheFollowsFile
  <2>4. QED
    BY <2>2, <2>3 DEF PaletteInv
<1>2. CASE StartRedraw
  BY <1>2 DEF StartRedraw, PaletteInv, PaletteTypeOK, CacheFollowsFile
<1>3. ASSUME NEW o \in Outputs, DrawFromMemory(o) PROVE PaletteInv'
  <2>1. drawn' \in [Outputs -> Palette]
    BY <1>3, PaletteAssumption
    DEF PaletteAssumption, DrawFromMemory, PaletteInv, PaletteTypeOK, Palette
  <2>2. PaletteTypeOK'
    BY <1>3, <2>1 DEF DrawFromMemory, PaletteInv, PaletteTypeOK
  <2>3. CacheFollowsFile'
    BY <1>3 DEF DrawFromMemory, PaletteInv, CacheFollowsFile
  <2>4. QED
    BY <2>2, <2>3 DEF PaletteInv
<1>4. ASSUME NEW o \in Outputs, ReadPalette(o) PROVE PaletteInv'
  <2>1. PaletteTypeOK'
    BY <1>4 DEF ReadPalette, PaletteInv, PaletteTypeOK
  <2>2. CacheFollowsFile'
    BY <1>4 DEF ReadPalette, PaletteInv, CacheFollowsFile
  <2>3. QED
    BY <2>1, <2>2 DEF PaletteInv
<1>5. CASE StorePalette
  <2>1. loading \in Outputs \X Palette
    BY <1>5 DEF StorePalette, PaletteInv, PaletteTypeOK
  <2>2. PICK o \in Outputs, p \in Palette : loading = <<o, p>>
    BY <2>1
  <2>3. cache' = IF Armed THEN [cache EXCEPT ![o] = p] ELSE cache
    BY <1>5, <2>2 DEF StorePalette
  <2>4. drawn' = [drawn EXCEPT ![o] = p] /\ todo' = todo \ {o} /\ loading' = Nothing
    BY <1>5, <2>2 DEF StorePalette
  <2>5. UNCHANGED <<named, watched, file, notices>>
    BY <1>5 DEF StorePalette
  <2>6. PaletteTypeOK'
    BY <2>3, <2>4, <2>5 DEF PaletteInv, PaletteTypeOK
  <2>7. "palettes" \in watched => p = file[o] \/ notices > 0
    BY <1>5, <2>2 DEF StorePalette, PaletteInv, CacheFollowsFile
  <2>8. CacheFollowsFile'
    BY <2>3, <2>4, <2>5, <2>7 DEF PaletteInv, PaletteTypeOK, CacheFollowsFile
  <2>9. QED
    BY <2>6, <2>8 DEF PaletteInv
<1>6. QED
  BY <1>1, <1>2, <1>3, <1>4, <1>5 DEF LoopStep

LEMMA PaletteStep == PaletteInv /\ [Next]_vars => PaletteInv'
<1> SUFFICES ASSUME PaletteInv, [Next]_vars PROVE PaletteInv'
  OBVIOUS
<1>1. CASE UNCHANGED paletteVars
  BY <1>1 DEF paletteVars, PaletteInv, PaletteTypeOK, CacheFollowsFile
<1>2. CASE Writer \/ WriteTheme
  BY <1>2, WritersKeep
<1>3. CASE ThemeChanged \/ LoopStep \/ StartRedraw
  BY <1>3, HandlersKeep
<1>4. QED
  BY <1>1, <1>2, <1>3
  DEF Next, vars, Palettes, StatusArrives, PollerRuns, Outside

(* A palette kept for an output is the one in its file, or the notice that *)
(* empties the cache is on its way: also when the file is rewritten while  *)
(* a redraw is reading it.                                                 *)
THEOREM CacheFollows == Spec => []CacheFollowsFile
<1>1. Spec => []PaletteInv
  BY PaletteInitial, PaletteStep, PTL DEF Spec, Init
<1>2. PaletteInv => CacheFollowsFile
  BY DEF PaletteInv
<1>3. QED
  BY <1>1, <1>2, PTL
-----------------------------------------------------------------------------
(* The status poller.                                                      *)

(* A queue, when an element joins and when the first is taken.             *)
LEMMA QueueTypes ==
    ASSUME NEW S, NEW q \in Seq(S)
    PROVE  /\ Len(q) \in Nat /\ DOMAIN q = 1..Len(q)
           /\ \A x \in S : /\ Append(q, x) \in Seq(S)
                           /\ Len(Append(q, x)) = Len(q) + 1
                           /\ DOMAIN Append(q, x) = 1..(Len(q) + 1)
                           /\ \A i \in DOMAIN q : Append(q, x)[i] = q[i]
                           /\ Append(q, x)[Len(q) + 1] = x
           /\ q # <<>> => /\ Head(q) \in S /\ Head(q) = q[1] /\ 1 \in DOMAIN q
                          /\ Tail(q) \in Seq(S)
                          /\ Len(Tail(q)) = Len(q) - 1
                          /\ DOMAIN Tail(q) = 1..(Len(q) - 1)
                          /\ \A i \in DOMAIN Tail(q) : Tail(q)[i] = q[i + 1]
  OBVIOUS

LEMMA StatusInitial == StatusInit => StatusInv
<1> SUFFICES ASSUME StatusInit PROVE StatusInv
  OBVIOUS
<1>1. 0 \in 0..MaxCharge /\ MaxSnapshots \in Nat
  BY StatusAssumption DEF StatusAssumption
<1>2. Blank \in Snapshot
  BY <1>1 DEF Blank, Snapshot
<1>3. /\ names \in Seq(Players)
      /\ snapshots \in Seq(Snapshot) /\ Len(snapshots) = 0
      /\ DOMAIN snapshots = {}
  BY DEF StatusInit
<1>4. conn \in [Buses -> {"none", "open", "dead"}]
  BY DEF StatusInit
<1>5. StatusTypeOK
  BY <1>1, <1>2, <1>3, <1>4 DEF StatusInit, StatusTypeOK
<1>6. QED
  BY <1>3, <1>5 DEF StatusInit, StatusInv, ShownIsAsked, Asked, Blank

(* A call opens the connection or drops it.                                *)
LEMMA CallTypes ==
    ASSUME StatusTypeOK, NEW bus \in Buses, Call(bus)
    PROVE  conn' \in [Buses -> {"none", "open", "dead"}]
  BY DEF StatusTypeOK, Call

(* A snapshot of what was asked for joins the channel.                     *)
LEMMA SendKeeps ==
    ASSUME StatusInv, NEW b \in 0..MaxCharge, Send(b),
           "system" \notin wanted => b = 0,
           conn' \in [Buses -> {"none", "open", "dead"}],
           UNCHANGED <<world, wanted, names, paused, line, status>>
    PROVE  StatusInv'
<1> DEFINE s == [nowPlaying |-> line, battery |-> b]
<1>1. s \in Snapshot
  BY DEF StatusInv, StatusTypeOK, Snapshot
<1>2. Asked(s)
  BY DEF StatusInv, Asked
<1>3. snapshots \in Seq(Snapshot) /\ snapshots' = Append(snapshots, s)
  BY DEF StatusInv, StatusTypeOK, Send
<1> HIDE DEF s
<1>4. /\ Len(snapshots) \in Nat
      /\ snapshots' \in Seq(Snapshot) /\ Len(snapshots') = Len(snapshots) + 1
      /\ DOMAIN snapshots = 1..Len(snapshots)
      /\ DOMAIN snapshots' = 1..(Len(snapshots) + 1)
      /\ \A i \in DOMAIN snapshots : snapshots'[i] = snapshots[i]
      /\ snapshots'[Len(snapshots) + 1] = s
  BY <1>1, <1>3, QueueTypes
<1>5. \A i \in DOMAIN snapshots' : Asked(snapshots'[i])
  <2>1. \A i \in DOMAIN snapshots : Asked(snapshots[i])
    BY DEF StatusInv
  <2>2. QED
    BY <1>2, <1>4, <2>1
<1>6. Len(snapshots') <= MaxSnapshots
  BY <1>4, StatusAssumption DEF StatusAssumption, Send
<1>7. at' = "asleep"
  BY DEF Send
<1>8. StatusTypeOK'
  BY <1>4, <1>6, <1>7 DEF StatusInv, StatusTypeOK, world
<1>9. (\A i \in DOMAIN snapshots : Asked(snapshots[i]))'
  BY <1>5 DEF Asked
<1>10. QED
  BY <1>7, <1>8, <1>9 DEF StatusInv, ShownIsAsked, Asked

LEMMA PollerKeeps == ASSUME StatusInv, Poller PROVE StatusInv'
<1> USE DEF StatusInv
<1>1. CASE PollNames
  <2>1. conn' \in [Buses -> {"none", "open", "dead"}]
    BY <1>1, CallTypes DEF PollNames, StatusTypeOK, Buses
  <2>2. names' \in Seq(Players)
    <3>1. PlayerCount \in Nat
      BY StatusAssumption DEF StatusAssumption
    <3>2. [i \in Players |-> i] \in Seq(Players)
      BY <3>1 DEF Players
    <3>3. QED
      BY <1>1, <3>2 DEF PollNames, StatusTypeOK
  <2>3. QED
    BY <1>1, <2>1, <2>2
    DEF PollNames, StatusTypeOK, ShownIsAsked, Asked, world
<1>2. CASE ReadPlayer
  <2>1. names \in Seq(Players) /\ names # <<>>
    BY <1>2 DEF ReadPlayer, StatusTypeOK
  <2>2. Head(names) \in Players /\ Tail(names) \in Seq(Players) /\ <<>> \in Seq(Players)
    BY <2>1, QueueTypes
  <2>3. QED
    BY <1>2, <2>2
    DEF ReadPlayer, StatusTypeOK, ShownIsAsked, Asked, world
<1>3. CASE NoneLeft
  BY <1>3 DEF NoneLeft, StatusTypeOK, ShownIsAsked, Asked, world
<1>4. CASE PollDevice
  <2>1. 0 \in 0..MaxCharge
    BY StatusAssumption DEF StatusAssumption
  <2>2. conn' \in [Buses -> {"none", "open", "dead"}]
    BY <1>4, CallTypes DEF PollDevice, StatusTypeOK, Buses
  <2>3. CASE Send(0)
    BY <1>4, <2>1, <2>2, <2>3, SendKeeps DEF PollDevice
  <2>4. CASE "system" \in wanted /\ at' = "device" /\ UNCHANGED snapshots
    BY <1>4, <2>2, <2>4
    DEF PollDevice, StatusTypeOK, ShownIsAsked, Asked, world
  <2>5. QED
    BY <1>4, <2>3, <2>4 DEF PollDevice
<1>5. CASE PollCharge
  <2>1. conn' \in [Buses -> {"none", "open", "dead"}]
    BY <1>5, CallTypes DEF PollCharge, Buses
  <2> DEFINE b == IF conn["system"] = "open" THEN charge ELSE 0
  <2>2. b \in 0..MaxCharge /\ "system" \in wanted
    BY <1>5, StatusAssumption DEF PollCharge, StatusTypeOK, StatusAssumption
  <2>3. Send(b)
    BY <1>5 DEF PollCharge
  <2> HIDE DEF b
  <2>4. QED
    BY <1>5, <2>1, <2>2, <2>3, SendKeeps DEF PollCharge
<1>6. CASE Wake
  BY <1>6 DEF Wake, StatusTypeOK, ShownIsAsked, Asked, world
<1>7. QED
  BY <1>1, <1>2, <1>3, <1>4, <1>5, <1>6 DEF Poller

LEMMA TakeKeeps == ASSUME StatusInv, TakeSnapshot PROVE StatusInv'
<1>1. snapshots \in Seq(Snapshot) /\ snapshots # <<>>
  BY DEF StatusInv, StatusTypeOK, TakeSnapshot
<1>2. /\ Len(snapshots) \in Nat /\ DOMAIN snapshots = 1..Len(snapshots)
      /\ Head(snapshots) \in Snapshot
      /\ Head(snapshots) = snapshots[1] /\ 1 \in DOMAIN snapshots
      /\ Tail(snapshots) \in Seq(Snapshot)
      /\ Len(Tail(snapshots)) = Len(snapshots) - 1
      /\ DOMAIN Tail(snapshots) = 1..(Len(snapshots) - 1)
      /\ \A i \in DOMAIN Tail(snapshots) : Tail(snapshots)[i] = snapshots[i + 1]
  BY <1>1, QueueTypes
<1>3. StatusTypeOK'
  <2>1. Len(snapshots') <= MaxSnapshots
    BY <1>2, StatusAssumption DEF StatusAssumption, TakeSnapshot, StatusInv, StatusTypeOK
  <2>2. QED
    BY <1>2, <2>1 DEF StatusInv, StatusTypeOK, TakeSnapshot, world
<1>4. \A i \in DOMAIN snapshots : Asked(snapshots[i])
  BY DEF StatusInv
<1>5. \A i \in DOMAIN Tail(snapshots) : Asked(Tail(snapshots)[i])
  <2>1. ASSUME NEW i \in DOMAIN Tail(snapshots) PROVE i + 1 \in DOMAIN snapshots
    BY <1>2
  <2>2. QED
    BY <1>2, <1>4, <2>1
<1>6. Asked(Head(snapshots))
  BY <1>2, <1>4
<1>7. (\A i \in DOMAIN snapshots : Asked(snapshots[i]))' /\ Asked(status)'
  BY <1>5, <1>6 DEF TakeSnapshot, Asked
<1>8. QED
  BY <1>3, <1>7 DEF StatusInv, ShownIsAsked, TakeSnapshot

LEMMA WorldKeeps == ASSUME StatusInv, WorldChanges PROVE StatusInv'
<1>1. /\ player' \in [Players -> Answers] /\ charge' \in 0..MaxCharge
      /\ up' \subseteq Buses
      /\ conn' \in [Buses -> {"none", "open", "dead"}]
  BY DEF StatusInv, StatusTypeOK, WorldChanges, PlayerChanges, ChargeChanges,
         BusStops, BusStarts
<1>2. QED
  BY <1>1 DEF StatusInv, StatusTypeOK, ShownIsAsked, Asked, WorldChanges

LEMMA StatusStep == StatusInv /\ [Next]_vars => StatusInv'
<1> SUFFICES ASSUME StatusInv, [Next]_vars PROVE StatusInv'
  OBVIOUS
<1>1. CASE UNCHANGED statusVars
  BY <1>1 DEF statusVars, StatusInv, StatusTypeOK, ShownIsAsked, Asked
<1>2. QED
  BY <1>1, PollerKeeps, TakeKeeps, WorldKeeps
  DEF Next, vars, Palettes, StatusArrives, PollerRuns, Outside

(* A line that the configuration switches off is never shown on the locked *)
(* screen, in whatever order players, buses, snapshots and redraws come.   *)
THEOREM OffIsNotShown == Spec => []ShownIsAsked
<1>1. Spec => []StatusInv
  BY StatusInitial, StatusStep, PTL DEF Spec, Init
<1>2. StatusInv => ShownIsAsked
  BY DEF StatusInv
<1>3. QED
  BY <1>1, <1>2, PTL

(* The cache, its notices and the snapshots keep their types, and the      *)
(* channel its bound, whatever happens outside.                            *)
THEOREM WatchersTyped == Spec => []TypeOK
<1>1. Spec => [](events \in 0..MaxEvents)
  <2>1. Init => events \in 0..MaxEvents
    BY WatchersAssumption DEF Init, WatchersAssumption
  <2>2. events \in 0..MaxEvents /\ [Next]_vars => (events \in 0..MaxEvents)'
    BY WatchersAssumption
    DEF Next, vars, Palettes, StatusArrives, PollerRuns, Outside, WatchersAssumption
  <2>3. QED
    BY <2>1, <2>2, PTL DEF Spec
<1>2. Spec => [](StatusInv /\ PaletteInv)
  BY StatusInitial, StatusStep, PaletteInitial, PaletteStep, PTL DEF Spec, Init
<1>3. events \in 0..MaxEvents /\ StatusInv /\ PaletteInv => TypeOK
  BY DEF StatusInv, PaletteInv, TypeOK
<1>4. QED
  BY <1>1, <1>2, <1>3, PTL

-----------------------------------------------------------------------------
(* The chrome.                                                             *)

(* The loop of ellipsize ends: its function exists.                        *)
Cut(left, k, n, room) ==
    IF k = 0 \/ Fits(k, n, room) THEN k ELSE left[Most(k - 2, 0)]

LEMMA EllipsizedTurns ==
    ASSUME NEW n \in Nat, NEW room
    PROVE  \E left : /\ left = [k \in 0..n |-> Cut(left, k, n, room)]
                     /\ Ellipsized(n, room) = left[n]
<1> DEFINE Turns(left, m) == left = [k \in 0..m |-> Cut(left, k, n, room)]
           S == {m \in Nat : \E left : Turns(left, m)}
<1>1. 0 \in S
  <2>1. Turns([k \in 0..0 |-> k], 0)
    BY DEF Cut
  <2>2. QED
    BY <2>1
<1>2. ASSUME NEW m \in Nat, m \in S PROVE m + 1 \in S
  <2>1. PICK left : Turns(left, m)
    BY <1>2
  <2> DEFINE more == [k \in 0..(m + 1) |->
                        IF k <= m THEN left[k] ELSE Cut(left, k, n, room)]
  <2>2. ASSUME NEW k \in 0..(m + 1) PROVE more[k] = Cut(more, k, n, room)
    <3>1. k # 0 => Most(k - 2, 0) \in 0..m
      BY DEF Most
    <3>2. k # 0 => more[Most(k - 2, 0)] = left[Most(k - 2, 0)]
      BY <3>1
    <3>3. Cut(more, k, n, room) = Cut(left, k, n, room)
      BY <3>2 DEF Cut
    <3>4. more[k] = IF k <= m THEN left[k] ELSE Cut(left, k, n, room)
      OBVIOUS
    <3>5. k <= m => left[k] = Cut(left, k, n, room)
      BY <2>1
    <3>6. QED
      BY <3>3, <3>4, <3>5
  <2>3. Turns(more, m + 1)
    BY <2>2
  <2> HIDE DEF more
  <2>4. QED
    BY <2>3
<1>3. n \in S
  <2> HIDE DEF S
  <2>1. QED
    BY <1>1, <1>2, StepInduction
<1>4. \E left : Turns(left, n)
  BY <1>3
<1> DEFINE chosen == CHOOSE left : Turns(left, n)
<1>5. Turns(chosen, n)
  BY <1>4
<1>6. Ellipsized(n, room) = chosen[n]
  BY DEF Ellipsized, Cut
<1> HIDE DEF chosen
<1>7. QED
  BY <1>5, <1>6

(* A text with one character less is narrower, cut or not.                 *)
LEMMA FitsShorter ==
    ASSUME glyph \in Nat, Ellipsis \in Nat, NEW n \in Nat, NEW room \in Int,
           NEW k \in Nat, k + 1 < n, Fits(k + 1, n, room)
    PROVE  Fits(k, n, room)
<1>1. (k + 1) * glyph = k * glyph + glyph /\ k * glyph \in Nat
  OBVIOUS
<1>2. QED
  BY <1>1 DEF Fits

(* What is left after the loop, for whatever length it started with.       *)
LEMMA EllipsizedClosely ==
    ASSUME glyph \in Nat, Ellipsis \in Nat, NEW n \in Nat, NEW room \in Int
    PROVE  Ellipsized(n, room) \in 0..n /\ CutClosely(n, room)
<1>1. PICK left : /\ left = [k \in 0..n |-> Cut(left, k, n, room)]
                  /\ Ellipsized(n, room) = left[n]
  BY EllipsizedTurns
<1> DEFINE Close(m) == /\ left[m] \in 0..m
                       /\ left[m] = 0 \/ Fits(left[m], n, room)
                       /\ left[m] # m => ~Fits(m, n, room)
                       /\ \A longer \in (left[m] + 2)..m : ~Fits(longer, n, room)
           S == {m \in Nat : m <= n => Close(m)}
<1>2. ASSUME NEW m \in Nat, \A l \in 0..(m - 1) : l \in S PROVE m \in S
  <2>1. SUFFICES ASSUME m <= n PROVE Close(m)
    OBVIOUS
  <2>2. left[m] = Cut(left, m, n, room)
    BY <1>1, <2>1
  <2>3. CASE m = 0 \/ Fits(m, n, room)
    BY <2>2, <2>3 DEF Cut
  <2>4. CASE m # 0 /\ ~Fits(m, n, room)
    <3> DEFINE l == Most(m - 2, 0)
    <3>1. l \in 0..(m - 1) /\ l <= n /\ (m >= 2 => l = m - 2) /\ (m = 1 => l = 0)
      BY <2>1, <2>4 DEF Most
    <3>2. left[m] = left[l]
      BY <2>2, <2>4 DEF Cut
    <3> HIDE DEF l
    <3>3. Close(l)
      BY <1>2, <3>1
    <3>4. left[l] \in Nat /\ left[l] <= l
      BY <3>1, <3>3
    <3>5. ASSUME NEW longer \in (left[l] + 2)..m PROVE ~Fits(longer, n, room)
      <4>1. CASE longer = m
        BY <2>4, <4>1
      <4>2. CASE longer <= l
        <5>1. longer \in (left[l] + 2)..l
          BY <3>1, <3>4, <4>2
        <5>2. QED
          BY <3>3, <5>1
      <4>3. CASE l < longer /\ longer < m
        <5>1. longer = l + 1 /\ m >= 2 /\ left[l] # l /\ l + 1 < n
          BY <2>1, <3>1, <3>4, <4>3
        <5>2. ~Fits(l, n, room)
          BY <3>3, <5>1
        <5>3. QED
          BY <3>1, <5>1, <5>2, FitsShorter
      <4>4. QED
        BY <3>1, <3>4, <4>1, <4>2, <4>3
    <3>6. QED
      BY <2>4, <3>1, <3>2, <3>3, <3>4, <3>5
  <2>5. QED
    BY <2>3, <2>4
<1>3. n \in S
  <2> HIDE DEF S
  <2>1. QED
    BY <1>2, StrongInduction
<1>4. Close(n)
  BY <1>3
<1>5. QED
  BY <1>1, <1>4 DEF CutClosely

-----------------------------------------------------------------------------
(* The frames there can be, those between the ones the runs look at too.   *)
(* (Nothing is asked of the flags.)                                        *)
FrameTypeOK ==
    /\ surface \in Surfaces /\ texts \in Texts /\ glyph \in Glyphs
    /\ appear \in 0..9 /\ unlock \in 0..UnlockEnd
    /\ shake \in Int /\ -900 <= shake /\ shake <= 900
    /\ rollover \in 0..11
    /\ slide \in {0, 1}
    /\ typed \in Nat
    /\ pop \in 0..7

ChromeSpec == ChromeInit /\ [][ChromeNext]_chromeVars

LEMMA FramesTyped == ChromeSpec => []FrameTypeOK
<1>1. ChromeInit => FrameTypeOK
  BY DEF ChromeInit, FrameTypeOK, UnlockEnd
<1>2. FrameTypeOK /\ [ChromeNext]_chromeVars => FrameTypeOK'
  <2> SUFFICES ASSUME FrameTypeOK, [ChromeNext]_chromeVars PROVE FrameTypeOK'
    OBVIOUS
  <2>1. CASE Appear
    BY <2>1 DEF Appear, FrameTypeOK
  <2>2. CASE Unlock
    BY <2>2, ChromeAssumption DEF Unlock, FrameTypeOK, ChromeAssumption
  <2>3. CASE Fail
    BY <2>3 DEF Fail, FrameTypeOK
  <2>4. CASE Type
    BY <2>4 DEF Type, FrameTypeOK
  <2>5. CASE Reveal
    BY <2>5 DEF Reveal, FrameTypeOK
  <2>6. CASE Breathe
    BY <2>6 DEF Breathe, FrameTypeOK
  <2>7. CASE TurnOfMinute
    BY <2>7 DEF TurnOfMinute, FrameTypeOK
  <2>8. CASE UNCHANGED chromeVars
    BY <2>8 DEF chromeVars, FrameTypeOK
  <2>9. QED
    BY <2>1, <2>2, <2>3, <2>4, <2>5, <2>6, <2>7, <2>8 DEF ChromeNext
<1>3. QED
  BY <1>1, <1>2, PTL DEF ChromeSpec

(* What follows of the constants and the frame.                            *)
LEMMA FrameNumbers ==
    ASSUME FrameTypeOK
    PROVE  /\ surface[1] \in Nat \ {0} /\ surface[2] \in Nat \ {0}
           /\ texts.clock \in Nat /\ texts.old \in Nat /\ texts.date \in Nat
           /\ texts.info \in Nat /\ texts.chip \in Nat /\ texts.status \in Nat
           /\ texts.hint \in Nat
           /\ glyph \in Nat /\ Ellipsis \in Nat
           /\ GlyphTop \in Nat /\ GlyphBottom \in Nat
           /\ FontBase \in Nat /\ FontSecondary \in Nat
           /\ SpaceXs \in Nat /\ SpaceSm \in Nat /\ SpaceMd \in Nat
           /\ SpaceLg \in Nat /\ SpaceXl \in Nat
<1>1. surface \in (Nat \ {0}) \X (Nat \ {0})
  BY ChromeAssumption DEF ChromeAssumption, FrameTypeOK
<1>2. texts \in [clock : Nat, old : Nat, date : Nat, info : Nat,
                 chip : Nat, status : Nat, hint : Nat]
  BY ChromeAssumption DEF ChromeAssumption, FrameTypeOK
<1>3. glyph \in Nat
  BY ChromeAssumption DEF ChromeAssumption, FrameTypeOK
<1>4. {Ellipsis, GlyphTop, GlyphBottom, FontBase, FontSecondary, MaxTyped,
       SpaceXs, SpaceSm, SpaceMd, SpaceLg, SpaceXl} \subseteq Nat
  BY ChromeAssumption DEF ChromeAssumption
<1>5. QED
  BY <1>1, <1>2, <1>3, <1>4

(* Products, for the leaves that only have linear arithmetic.              *)
LEMMA ProductBound ==
    ASSUME NEW a \in Nat, NEW b \in Nat, NEW c \in Nat, NEW d \in Nat,
           a <= c, b <= d
    PROVE  a * b \in Nat /\ a * b <= c * d
<1>1. a * b <= c * b /\ c * b <= c * d
  OBVIOUS
<1>2. QED
  BY <1>1

LEMMA Overshoot ==
    ASSUME NEW m \in 0..7
    PROVE  EaseOutBack(m) \in Nat /\ EaseOutBack(m) <= 110000
<1>1. CASE m = 0
  BY <1>1 DEF EaseOutBack, Cube
<1>2. CASE m = 1
  BY <1>2 DEF EaseOutBack, Cube
<1>3. CASE m = 2
  BY <1>3 DEF EaseOutBack, Cube
<1>4. CASE m = 3
  BY <1>4 DEF EaseOutBack, Cube
<1>5. CASE m = 4
  BY <1>5 DEF EaseOutBack, Cube
<1>6. CASE m = 5
  BY <1>6 DEF EaseOutBack, Cube
<1>7. CASE m = 6
  BY <1>7 DEF EaseOutBack, Cube
<1>8. CASE m = 7
  BY <1>8 DEF EaseOutBack, Cube
<1>9. QED
  BY <1>1, <1>2, <1>3, <1>4, <1>5, <1>6, <1>7, <1>8

LEMMA PillScaleBounds == ASSUME FrameTypeOK PROVE PillScale \in Nat /\ PillScale <= 110000
<1>1. Least(9 - appear, 7) \in 0..7
  BY DEF FrameTypeOK, Least
<1>2. /\ EaseOutBack(Least(9 - appear, 7)) \in Nat
      /\ EaseOutBack(Least(9 - appear, 7)) <= 110000
  BY <1>1, Overshoot
<1>3. QED
  BY <1>2 DEF PillScale

(* Neither the clock nor the lines under it ever stand lower than the pill *)
(* does, against their places at rest: they enter first and drift further. *)
LEMMA ShiftsApart ==
    ASSUME FrameTypeOK
    PROVE  /\ Shift(0, 125) \in Int /\ Shift(10, 100) \in Int
           /\ Shift(0, 125) <= Shift(10, 100)
           /\ Shift(8, 125) \in Int /\ Shift(8, 125) <= Shift(10, 100)
<1> DEFINE in0 == (2800 * Cube(Before(0)[1])) \div Cube(Before(0)[2])
           in8 == (2800 * Cube(Before(8)[1])) \div Cube(Before(8)[2])
           in10 == (2800 * Cube(Before(10)[1])) \div Cube(Before(10)[2])
           gone == 512 - Cube(FadeLeft)
<1>1. appear = 0 \/ appear = 1 \/ appear = 2 \/ appear = 3 \/ appear = 4
        \/ appear = 5 \/ appear = 6 \/ appear = 7 \/ appear = 8 \/ appear = 9
  BY DEF FrameTypeOK
<1>2. in0 \in Nat /\ in10 \in Nat /\ in0 <= in10
  BY <1>1 DEF Before, Least, Cube
<1>3. in8 \in Nat /\ in8 <= in10
  BY <1>1 DEF Before, Least, Cube
<1>4. FadeLeft = 0 \/ FadeLeft = 1 \/ FadeLeft = 2 \/ FadeLeft = 3 \/ FadeLeft = 4
        \/ FadeLeft = 5 \/ FadeLeft = 6 \/ FadeLeft = 7 \/ FadeLeft = 8
  BY DEF FadeLeft, Most, UnlockEnd, FlashEnd, FrameTypeOK
<1>5. gone \in 0..512
  BY <1>4 DEF Cube
<1>6. /\ Shift(0, 125) = in0 - (20 * 125 * gone) \div 512
      /\ Shift(8, 125) = in8 - (20 * 125 * gone) \div 512
      /\ Shift(10, 100) = in10 - (20 * 100 * gone) \div 512
  BY DEF Shift
<1> HIDE DEF in0, in8, in10, gone
<1>7. QED
  BY <1>2, <1>3, <1>5, <1>6

-----------------------------------------------------------------------------
(* Boxes.                                                                  *)
Whole(b) == b.x0 \in Int /\ b.y0 \in Int /\ b.x1 \in Int /\ b.y1 \in Int

Inside(b, r) == r.x0 <= b.x0 /\ r.y0 <= b.y0 /\ b.x1 <= r.x1 /\ b.y1 <= r.y1

LEMMA CenteredBox ==
    ASSUME FrameTypeOK, NEW w \in Int, NEW y \in Int, NEW h \in Int
    PROVE  /\ Centered(w, y, h) = [x0 |-> (Width - w) \div 2, y0 |-> y,
                                   x1 |-> (Width - w) \div 2 + w, y1 |-> y + h]
           /\ Width \in Int
           /\ Whole(Centered(w, y, h))
<1>1. Width \in Int
  BY FrameNumbers DEF Width
<1>2. Centered(w, y, h) = [x0 |-> (Width - w) \div 2, y0 |-> y,
                           x1 |-> (Width - w) \div 2 + w, y1 |-> y + h]
  BY DEF Centered, Box
<1>3. (Width - w) \div 2 \in Int
  BY <1>1
<1>4. QED
  BY <1>1, <1>2, <1>3 DEF Whole

(* The pill, which is never empty, and what it is large enough for.        *)
LEMMA PillBox ==
    ASSUME FrameTypeOK, LayoutFits
    PROVE  /\ PillWidth \in Int /\ 2500 <= PillWidth /\ PillWidth <= 28000
           /\ Ellipsis <= PillWidth /\ texts.hint <= PillWidth
           /\ texts.chip = 0 \/ texts.chip + 2 * SpaceMd <= PillWidth + 3300
           /\ (19 * FontSecondary) \div 10 + SpaceLg + 50 <= 22 * surface[2]
           /\ SpaceSm + SpaceXs + 1400 + 75 * GlyphBottom <= 22 * surface[2] + 7400
           /\ Width \in Int
           /\ Pill.x0 = (Width - PillWidth) \div 2
           /\ Pill.x1 = Pill.x0 + PillWidth
           /\ Pill.y0 = 50 * surface[2] + Shift(10, 100)
           /\ Pill.y1 = Pill.y0 + 4800
           /\ Whole(Pill)
<1>1. surface \in Surfaces /\ texts \in Texts
  BY DEF FrameTypeOK
<1>2. PillWidth = Least(28000, 100 * surface[1] - 2 * SpaceXl)
  BY DEF PillWidth, Width
<1>3. /\ 2500 <= PillWidth /\ Ellipsis <= PillWidth /\ texts.hint <= PillWidth
      /\ texts.chip = 0 \/ texts.chip + 2 * SpaceMd <= PillWidth + 3300
      /\ (19 * FontSecondary) \div 10 + SpaceLg + 50 <= 22 * surface[2]
      /\ SpaceSm + SpaceXs + 1400 + 75 * GlyphBottom <= 22 * surface[2] + 7400
  BY <1>1, <1>2 DEF LayoutFits
<1>4. PillWidth \in Int /\ PillWidth <= 28000
  BY <1>2, FrameNumbers DEF Least
<1> DEFINE y == 50 * surface[2] + Shift(10, 100)
<1>5. y \in Int
  BY FrameNumbers, ShiftsApart
<1>6. Pill = Centered(PillWidth, y, 4800)
  BY DEF Pill
<1> HIDE DEF y
<1>7. /\ Pill = [x0 |-> (Width - PillWidth) \div 2, y0 |-> y,
                 x1 |-> (Width - PillWidth) \div 2 + PillWidth, y1 |-> y + 4800]
      /\ Width \in Int
      /\ Whole(Pill)
  <2>1. 4800 \in Int
    OBVIOUS
  <2>2. QED
    BY <1>4, <1>5, <1>6, <2>1, CenteredBox
<1>8. QED
  BY <1>3, <1>4, <1>7 DEF y

(* Whatever scale the pill has, it carries a length by a tenth of it at    *)
(* most.                                                                   *)
Far(c, x) == IF x >= c THEN c + ((x - c) * PillScale + 99999) \div 100000
             ELSE c - ((c - x) * PillScale + 99999) \div 100000

Reach(d) == (d * 110000 + 99999) \div 100000

FarSound(c, x, d) ==
    /\ Far(c, x) \in Int
    /\ x - c <= d => Far(c, x) <= c + Reach(d)
    /\ c - x <= d => Far(c, x) >= c - Reach(d)

LEMMA FarBounds ==
    ASSUME FrameTypeOK, NEW c \in Int, NEW x \in Int, NEW d \in Nat
    PROVE  FarSound(c, x, d)
<1>1. PillScale \in Nat /\ PillScale <= 110000
  BY PillScaleBounds
<1> DEFINE length == IF x >= c THEN x - c ELSE c - x
           far == length * PillScale
<1>2. length \in Nat
  OBVIOUS
<1>3. far \in Nat /\ (length <= d => far <= d * 110000)
  <2> HIDE DEF length
  <2>1. length * PillScale \in Nat
    BY <1>1, <1>2
  <2>2. ASSUME length <= d PROVE far <= d * 110000
    BY <1>1, <1>2, <2>2, ProductBound
  <2>3. QED
    BY <2>1, <2>2
<1>4. Far(c, x) = IF x >= c THEN c + (far + 99999) \div 100000
                  ELSE c - (far + 99999) \div 100000
  BY DEF Far
<1> HIDE DEF far
<1>5. /\ (far + 99999) \div 100000 \in Nat
      /\ far <= d * 110000 =>
            (far + 99999) \div 100000 <= Reach(d)
  BY <1>3 DEF Reach
<1>6. Reach(d) \in Nat
  BY DEF Reach
<1>7. CASE x >= c
  BY <1>3, <1>4, <1>5, <1>6, <1>7 DEF FarSound
<1>8. CASE x < c
  BY <1>3, <1>4, <1>5, <1>6, <1>8 DEF FarSound
<1>9. QED
  BY <1>7, <1>8

(* What is drawn up to 9 px beside the pill, and 10.5 above and below it,  *)
(* is recorded with the pill in every pose it takes.                       *)
LEMMA PosedInRecord ==
    ASSUME FrameTypeOK, LayoutFits, NEW b, Whole(b),
           Pill.x0 - 900 <= b.x0, b.x1 <= Pill.x1 + 900,
           Pill.y0 - 1050 <= b.y0, b.y1 <= Pill.y1 + 1050
    PROVE  /\ Whole(Posed(b))
           /\ Inside(Posed(b), Shaken(Grown(Pill, 2600)))
<1> DEFINE cx == (Pill.x0 + Pill.x1) \div 2
           cy == (Pill.y0 + Pill.y1) \div 2
           dx == (PillWidth + 1) \div 2 + 900
           dy == 3450
<1>1. /\ Pill.x0 \in Int /\ Pill.x1 = Pill.x0 + PillWidth
      /\ Pill.y0 \in Int /\ Pill.y1 = Pill.y0 + 4800
      /\ PillWidth \in Int /\ 2500 <= PillWidth /\ PillWidth <= 28000
      /\ shake \in Int
  BY PillBox DEF Whole, FrameTypeOK
<1>2. Shaken(Grown(Pill, 2600)) =
        [x0 |-> Pill.x0 - 2600 + shake, y0 |-> Pill.y0 - 2600,
         x1 |-> Pill.x1 + 2600 + shake, y1 |-> Pill.y1 + 2600]
  BY <1>1 DEF Shaken, Moved, Grown
<1>3. b.x0 \in Int /\ b.x1 \in Int /\ b.y0 \in Int /\ b.y1 \in Int
  BY DEF Whole
<1>4. /\ cx \in Int /\ cy \in Int /\ dx \in Nat /\ dy \in Nat
      /\ cx - b.x0 <= dx /\ b.x1 - cx <= dx
      /\ cy - b.y0 <= dy /\ b.y1 - cy <= dy
  BY <1>1, <1>3
<1>5. /\ cx - Reach(dx) >= Pill.x0 - 2600
      /\ cx + Reach(dx) <= Pill.x1 + 2600
      /\ cy - Reach(dy) >= Pill.y0 - 2600
      /\ cy + Reach(dy) <= Pill.y1 + 2600
      /\ Reach(dx) \in Int /\ Reach(dy) \in Int
  BY <1>1 DEF Reach
<1> HIDE DEF cx, cy, dx, dy
<1>6. /\ Far(cx, b.x0) \in Int /\ Far(cx, b.x1) \in Int
      /\ Far(cx, b.x0) >= cx - Reach(dx)
      /\ Far(cx, b.x1) <= cx + Reach(dx)
  <2>1. FarSound(cx, b.x0, dx) /\ FarSound(cx, b.x1, dx)
    BY <1>3, <1>4, FarBounds
  <2>2. QED
    BY <1>4, <2>1 DEF FarSound
<1>7. /\ Far(cy, b.y0) \in Int /\ Far(cy, b.y1) \in Int
      /\ Far(cy, b.y0) >= cy - Reach(dy)
      /\ Far(cy, b.y1) <= cy + Reach(dy)
  <2>1. FarSound(cy, b.y0, dy) /\ FarSound(cy, b.y1, dy)
    BY <1>3, <1>4, FarBounds
  <2>2. QED
    BY <1>4, <2>1 DEF FarSound
<1>8. Posed(b) = [x0 |-> Far(cx, b.x0) + shake, y0 |-> Far(cy, b.y0),
                  x1 |-> Far(cx, b.x1) + shake, y1 |-> Far(cy, b.y1)]
  <2>1. Posed(b) = Shaken([x0 |-> Far(cx, b.x0), y0 |-> Far(cy, b.y0),
                           x1 |-> Far(cx, b.x1), y1 |-> Far(cy, b.y1)])
    BY DEF Posed, Far, cx, cy
  <2>2. QED
    BY <1>1, <1>6, <1>7, <2>1 DEF Shaken, Moved
<1>9. Whole(Posed(b))
  BY <1>1, <1>6, <1>7, <1>8 DEF Whole
<1>10. /\ Far(cx, b.x0) >= Pill.x0 - 2600 /\ Far(cx, b.x1) <= Pill.x1 + 2600
       /\ Far(cy, b.y0) >= Pill.y0 - 2600 /\ Far(cy, b.y1) <= Pill.y1 + 2600
  BY <1>1, <1>4, <1>5, <1>6, <1>7
<1>11. QED
  BY <1>1, <1>2, <1>6, <1>7, <1>8, <1>9, <1>10 DEF Inside

-----------------------------------------------------------------------------
(* What stands in the pill stays in it.                                    *)
InThePill(b) == Whole(b) /\ Inside(b, Pill)

LEMMA EllipsizedWidthFits ==
    ASSUME glyph \in Nat, Ellipsis \in Nat, NEW n \in Nat, NEW room \in Int
    PROVE  /\ EllipsizedWidth(n, room) \in Nat
           /\ EllipsizedWidth(n, room) <= room \/ EllipsizedWidth(n, room) <= Ellipsis
<1> DEFINE k == Ellipsized(n, room)
           w == k * glyph + (IF k < n THEN Ellipsis ELSE 0)
<1>1. k \in 0..n /\ (k = 0 \/ Fits(k, n, room))
  BY EllipsizedClosely DEF CutClosely
<1>2. EllipsizedWidth(n, room) = w
  BY DEF EllipsizedWidth
<1> HIDE DEF k
<1>3. w \in Nat
  BY <1>1
<1>4. CASE k = 0
  BY <1>2, <1>3, <1>4
<1>5. CASE Fits(k, n, room)
  BY <1>2, <1>3, <1>5 DEF Fits
<1>6. QED
  BY <1>1, <1>4, <1>5

(* A text in the middle of the pill, whose glyphs are no taller than it.   *)
LEMMA TextInPill ==
    ASSUME FrameTypeOK, LayoutFits, NEW w \in Int, w <= PillWidth
    PROVE  InThePill(PillText(w))
<1> DEFINE tall == FontBase * (GlyphBottom - GlyphTop)
           h == tall \div 100
           y == Pill.y0 + (4800 - h) \div 2
<1>1. /\ PillWidth \in Int /\ Width \in Int /\ Pill.x0 \in Int /\ Pill.y0 \in Int
      /\ Pill.x0 = (Width - PillWidth) \div 2 /\ Pill.x1 = Pill.x0 + PillWidth
      /\ Pill.y1 = Pill.y0 + 4800
  BY PillBox DEF Whole
<1>2. tall \in Nat /\ tall <= 480000
  <2>1. FontBase \in Nat /\ GlyphBottom - GlyphTop \in Nat /\ tall <= 480000
    BY FrameNumbers DEF LayoutFits
  <2>2. QED
    BY <2>1, ProductBound
<1>3. PillText(w) = Centered(w, y, h)
  BY DEF PillText
<1> HIDE DEF tall
<1>4. h \in Int /\ 0 <= h /\ h <= 4800
  BY <1>2
<1> HIDE DEF h
<1>5. y \in Int /\ Pill.y0 <= y /\ y + h <= Pill.y1
  BY <1>1, <1>4
<1> HIDE DEF y
<1>6. /\ Centered(w, y, h) = [x0 |-> (Width - w) \div 2, y0 |-> y,
                              x1 |-> (Width - w) \div 2 + w, y1 |-> y + h]
      /\ Whole(Centered(w, y, h))
  <2>1. y \in Int /\ h \in Int
    BY <1>4, <1>5
  <2>2. QED
    BY <2>1, CenteredBox
<1>7. /\ (Width - PillWidth) \div 2 <= (Width - w) \div 2
      /\ (Width - w) \div 2 + w <= (Width - PillWidth) \div 2 + PillWidth
  BY <1>1
<1>8. Inside(Centered(w, y, h), Pill)
  BY <1>1, <1>5, <1>6, <1>7 DEF Inside
<1>9. QED
  BY <1>3, <1>6, <1>8 DEF InThePill

(* The dots are as many as there is room for with the caret after them.    *)
LEMMA DotsFit ==
    ASSUME FrameTypeOK, LayoutFits, ShownDots > 0
    PROVE  /\ ShownDots \in Nat \ {0}
           /\ StartX \in Int
           /\ Pill.x0 + 1250 <= StartX
           /\ StartX + (ShownDots - 1) * 1800 + 1250 <= Pill.x1
<1>1. /\ PillWidth \in Int /\ 2500 <= PillWidth /\ Pill.x0 \in Int
      /\ Pill.x1 = Pill.x0 + PillWidth
  BY PillBox DEF Whole
<1>2. SpaceLg \in Nat /\ 350 <= SpaceLg /\ typed \in Nat
  BY FrameNumbers DEF LayoutFits, FrameTypeOK
<1> DEFINE all == (PillWidth - 2 * SpaceLg) \div 1800
<1>3. all \in Int /\ all * 1800 <= PillWidth - 2 * SpaceLg
  BY <1>1, <1>2
<1>4. MaxDots = IF all > 1 THEN all ELSE 1
  BY DEF MaxDots, Most
<1> HIDE DEF all
<1>5. MaxDots \in Nat \ {0} /\ (MaxDots - 1) * 1800 <= PillWidth - 2500
  BY <1>1, <1>2, <1>3, <1>4
<1>6. ShownDots = IF typed < MaxDots THEN typed ELSE MaxDots
  BY DEF ShownDots, Least
<1>7. /\ ShownDots \in Nat \ {0}
      /\ (ShownDots - 1) * 1800 <= PillWidth - 2500
  BY <1>1, <1>2, <1>5, <1>6
<1>8. StartX = Pill.x0 + (PillWidth - (ShownDots - 1) * 1800) \div 2
  BY <1>7 DEF StartX, Most
<1>9. QED
  BY <1>1, <1>7, <1>8

LEMMA DotInPill ==
    ASSUME FrameTypeOK, LayoutFits, ShownDots > 0, NEW i \in 1..ShownDots
    PROVE  InThePill(Dot(i))
<1> DEFINE r == IF i = ShownDots
                THEN Most(40, (450 * EaseOutBack(pop)) \div 100000 + 1) ELSE 450
<1>1. r \in Nat /\ r <= 500
  <2>1. EaseOutBack(pop) \in Nat /\ EaseOutBack(pop) <= 110000
    BY Overshoot DEF FrameTypeOK
  <2>2. (450 * EaseOutBack(pop)) \div 100000 + 1 \in Nat
    BY <2>1
  <2>3. (450 * EaseOutBack(pop)) \div 100000 + 1 <= 500
    BY <2>1
  <2>4. QED
    BY <2>2, <2>3 DEF Most
<1>2. Dot(i) = Box(StartX + (i - 1) * 1800 - r, Pill.y0 + 2400 - r, 2 * r, 2 * r)
  BY DEF Dot
<1> HIDE DEF r
<1>3. /\ ShownDots \in Nat \ {0} /\ StartX \in Int
      /\ Pill.x0 + 1250 <= StartX
      /\ StartX + (ShownDots - 1) * 1800 + 1250 <= Pill.x1
  BY DotsFit
<1>4. /\ Pill.x0 \in Int /\ Pill.x1 \in Int /\ Pill.y0 \in Int
      /\ Pill.y1 = Pill.y0 + 4800
  BY PillBox DEF Whole
<1>5. Dot(i) = [x0 |-> StartX + (i - 1) * 1800 - r, y0 |-> Pill.y0 + 2400 - r,
                x1 |-> StartX + (i - 1) * 1800 + r, y1 |-> Pill.y0 + 2400 + r]
  BY <1>1, <1>2, <1>3, <1>4 DEF Box
<1>6. QED
  BY <1>1, <1>3, <1>4, <1>5 DEF InThePill, Whole, Inside

LEMMA CaretInPill ==
    ASSUME FrameTypeOK, LayoutFits, ShownDots > 0
    PROVE  InThePill(Caret)
<1>1. /\ ShownDots \in Nat \ {0} /\ StartX \in Int
      /\ Pill.x0 + 1250 <= StartX
      /\ StartX + (ShownDots - 1) * 1800 + 1250 <= Pill.x1
  BY DotsFit
<1>2. /\ Pill.x0 \in Int /\ Pill.x1 \in Int /\ Pill.y0 \in Int
      /\ Pill.y1 = Pill.y0 + 4800
  BY PillBox DEF Whole
<1>3. Caret = [x0 |-> StartX + (ShownDots - 1) * 1800 + 1050, y0 |-> Pill.y0 + 1200,
               x1 |-> StartX + (ShownDots - 1) * 1800 + 1250, y1 |-> Pill.y0 + 3600]
  BY <1>1, <1>2 DEF Caret, Box
<1>4. QED
  BY <1>1, <1>2, <1>3 DEF InThePill, Whole, Inside

LEMMA ContentsInPill ==
    ASSUME FrameTypeOK, LayoutFits, NEW b \in InPill
    PROVE  InThePill(b)
<1>1. CASE Revealed
  <2> DEFINE w == EllipsizedWidth(typed, RevealRoom)
  <2>1. b = PillText(w)
    BY <1>1 DEF InPill
  <2>2. RevealRoom \in Int /\ RevealRoom <= PillWidth /\ Ellipsis <= PillWidth
    BY PillBox, FrameNumbers DEF RevealRoom
  <2>3. w \in Nat /\ (w <= RevealRoom \/ w <= Ellipsis)
    BY <2>2, FrameNumbers, EllipsizedWidthFits DEF FrameTypeOK
  <2> HIDE DEF w
  <2>4. w \in Int /\ w <= PillWidth
    BY <2>2, <2>3, PillBox, FrameNumbers
  <2>5. QED
    BY <2>1, <2>4, TextInPill
<1>2. CASE ~Revealed /\ ShownDots > 0
  <2>1. (\E i \in 1..ShownDots : b = Dot(i)) \/ b = Caret
    BY <1>2 DEF InPill
  <2>2. QED
    BY <1>2, <2>1, DotInPill, CaretInPill
<1>3. CASE ~Revealed /\ ~(ShownDots > 0)
  <2>1. b = PillText(texts.hint)
    BY <1>3 DEF InPill
  <2>2. texts.hint \in Int /\ texts.hint <= PillWidth
    BY PillBox, FrameNumbers
  <2>3. QED
    BY <2>1, <2>2, TextInPill
<1>4. QED
  BY <1>1, <1>2, <1>3

-----------------------------------------------------------------------------
(* What is inside a recorded box is in the bounding box of all of them.    *)
LEMMA SidesCovered ==
    ASSUME FrameTypeOK, NEW d, Whole(d),
           NEW left \in Recorded, NEW top \in Recorded,
           NEW right \in Recorded, NEW bottom \in Recorded,
           Whole(left), Whole(top), Whole(right), Whole(bottom),
           left.x0 <= d.x0, top.y0 <= d.y0, d.x1 <= right.x1, d.y1 <= bottom.y1
    PROVE  Covered(d)
<1>1. Width \in Int /\ Height \in Int
  BY FrameNumbers DEF Width, Height
<1>2. /\ left.x0 <= Most(d.x0, 0) /\ top.y0 <= Most(d.y0, 0)
      /\ right.x1 >= Least(d.x1, Width) /\ bottom.y1 >= Least(d.y1, Height)
  BY <1>1 DEF Whole, Most, Least
<1>3. QED
  BY <1>2 DEF Covered

LEMMA InsideIsCovered ==
    ASSUME FrameTypeOK, NEW d, Whole(d), NEW r \in Recorded, Whole(r), Inside(d, r)
    PROVE  Covered(d)
BY SidesCovered DEF Inside

(* Where the glyphs of a line stand.  They may end below it.               *)
LEMMA InkedBox ==
    ASSUME FrameTypeOK, NEW b, Whole(b), b.y0 <= b.y1
    PROVE  /\ Whole(Inked(b))
           /\ Inked(b).x0 = b.x0 /\ Inked(b).x1 = b.x1
           /\ Inked(b).y0 = b.y0 + ((b.y1 - b.y0) * GlyphTop) \div 100
           /\ Inked(b).y1 = b.y0 + ((b.y1 - b.y0) * GlyphBottom) \div 100
           /\ b.y0 <= Inked(b).y0
<1> DEFINE size == b.y1 - b.y0
           top == size * GlyphTop
           bottom == size * GlyphBottom
<1>1. size \in Nat /\ GlyphTop \in Nat /\ GlyphBottom \in Nat
  BY FrameNumbers DEF Whole
<1>2. Inked(b) = [x0 |-> b.x0, y0 |-> b.y0 + top \div 100,
                  x1 |-> b.x1, y1 |-> b.y0 + bottom \div 100]
  BY DEF Inked
<1>3. b.x0 \in Int /\ b.y0 \in Int /\ b.x1 \in Int
  BY DEF Whole
<1> HIDE DEF size
<1>4. top \in Nat /\ bottom \in Nat
  BY <1>1
<1> HIDE DEF top, bottom
<1>5. top \div 100 \in Nat /\ bottom \div 100 \in Nat
  BY <1>4
<1>6. Whole(Inked(b)) /\ b.y0 <= Inked(b).y0
  BY <1>2, <1>3, <1>5 DEF Whole
<1>7. QED
  BY <1>2, <1>6 DEF size, top, bottom

(* The pill's record.                                                      *)
LEMMA PillRecord ==
    ASSUME FrameTypeOK, LayoutFits, unlock # UnlockEnd
    PROVE  /\ Shaken(Grown(Pill, 2600)) \in Recorded
           /\ Whole(Shaken(Grown(Pill, 2600)))
           /\ Shaken(Grown(Pill, 2600)) =
                 [x0 |-> Pill.x0 - 2600 + shake, y0 |-> Pill.y0 - 2600,
                  x1 |-> Pill.x1 + 2600 + shake, y1 |-> Pill.y1 + 2600]
<1>1. Whole(Pill) /\ shake \in Int
  BY PillBox DEF FrameTypeOK
<1>2. Shaken(Grown(Pill, 2600)) =
        [x0 |-> Pill.x0 - 2600 + shake, y0 |-> Pill.y0 - 2600,
         x1 |-> Pill.x1 + 2600 + shake, y1 |-> Pill.y1 + 2600]
  BY <1>1 DEF Whole, Shaken, Moved, Grown
<1>3. Whole(Shaken(Grown(Pill, 2600)))
  BY <1>1, <1>2 DEF Whole
<1>4. Shaken(Grown(Pill, 2600)) \in Recorded
  BY DEF Recorded, PillRecorded
<1>5. QED
  BY <1>2, <1>3, <1>4

LEMMA PosedIsCovered ==
    ASSUME FrameTypeOK, LayoutFits, unlock # UnlockEnd, NEW b, Whole(b),
           Pill.x0 - 900 <= b.x0, b.x1 <= Pill.x1 + 900,
           Pill.y0 - 1050 <= b.y0, b.y1 <= Pill.y1 + 1050
    PROVE  Covered(Posed(b))
<1>1. Whole(Posed(b)) /\ Inside(Posed(b), Shaken(Grown(Pill, 2600)))
  BY PosedInRecord
<1>2. QED
  BY <1>1, PillRecord, InsideIsCovered

(* Its shadows, its fill and its rings.                                    *)
LEMMA PillIsCovered ==
    ASSUME FrameTypeOK, LayoutFits, unlock # UnlockEnd, NEW d \in PillDrawn
    PROVE  Covered(d)
<1>1. /\ Pill.x0 \in Int /\ Pill.y0 \in Int /\ Pill.x1 \in Int /\ Pill.y1 \in Int
      /\ unlock \in Int /\ 0 <= unlock
  BY PillBox DEF Whole, FrameTypeOK
<1> DEFINE Near(b) ==
        /\ Whole(b)
        /\ Pill.x0 - 900 <= b.x0 /\ b.x1 <= Pill.x1 + 900
        /\ Pill.y0 - 1050 <= b.y0 /\ b.y1 <= Pill.y1 + 1050
<1>2. ASSUME NEW by \in Nat, by <= 900 PROVE Near(Grown(Pill, by))
  BY <1>1, <1>2 DEF Grown, Whole
<1>3. ASSUME NEW by \in Nat, by <= 750 PROVE Near(Shadow(by))
  BY <1>1, <1>3 DEF Grown, Shadow, Moved, Whole
<1>4. Near(Pill)
  BY <1>1 DEF Whole
<1>5. PICK b : /\ d = Posed(b)
               /\ \/ b = Pill
                  \/ b = Shadow(250) \/ b = Shadow(500) \/ b = Shadow(750)
                  \/ b = Grown(Pill, 75) \/ b = Grown(Pill, 50)
                  \/ /\ unlock < FlashEnd
                     /\ b = Grown(Pill, 100 + (800 * unlock) \div FlashEnd)
  BY DEF PillDrawn
<1>6. Near(b)
  <2>1. CASE b = Pill
    BY <1>4, <2>1
  <2>2. CASE b = Shadow(250) \/ b = Shadow(500) \/ b = Shadow(750)
    <3>1. Near(Shadow(250)) /\ Near(Shadow(500)) /\ Near(Shadow(750))
      <4> HIDE DEF Near
      <4>1. QED
        BY <1>3
    <3> HIDE DEF Near
    <3>2. QED
      BY <2>2, <3>1
  <2>3. CASE b = Grown(Pill, 75) \/ b = Grown(Pill, 50)
    <3> HIDE DEF Near
    <3>1. Near(Grown(Pill, 75)) /\ Near(Grown(Pill, 50))
      BY <1>2
    <3>2. QED
      BY <2>3, <3>1
  <2>4. CASE /\ unlock < FlashEnd
             /\ b = Grown(Pill, 100 + (800 * unlock) \div FlashEnd)
    <3> DEFINE by == 100 + (800 * unlock) \div FlashEnd
    <3>1. by \in Nat /\ by <= 900
      BY <1>1, <2>4 DEF FlashEnd
    <3> HIDE DEF Near, by
    <3>2. Near(Grown(Pill, by))
      BY <1>2, <3>1
    <3>3. QED
      BY <2>4, <3>2 DEF by
  <2>5. QED
    BY <1>5, <2>1, <2>2, <2>3, <2>4
<1>7. QED
  BY <1>5, <1>6, PosedIsCovered

(* Glyphs of a size in hundredths of a pixel, for the leaves without       *)
(* products.                                                               *)
LEMMA GlyphsEnd ==
    ASSUME FrameTypeOK, NEW size \in Nat, NEW most \in Nat, size <= 100 * most
    PROVE  /\ (size * GlyphBottom) \div 100 \in Nat
           /\ (size * GlyphBottom) \div 100 <= most * GlyphBottom
<1> DEFINE deep == size * GlyphBottom
           deepest == most * GlyphBottom
<1>1. GlyphBottom \in Nat
  BY FrameNumbers
<1>2. deep \in Nat /\ deep <= (100 * most) * GlyphBottom /\ deepest \in Nat
  BY <1>1, ProductBound
<1>3. (100 * most) * GlyphBottom = 100 * deepest
  BY <1>1
<1> HIDE DEF deep, deepest
<1>4. deep \div 100 \in Nat /\ deep \div 100 <= deepest
  BY <1>2, <1>3
<1>5. QED
  BY <1>4 DEF deep, deepest

(* The date and the line under it.                                         *)
LEMMA LineSizes ==
    ASSUME FrameTypeOK
    PROVE  /\ ClockSize \in Nat /\ 3400 <= ClockSize /\ ClockSize <= 6000
           /\ DateSize \in Nat /\ DateSize <= 1400
           /\ InfoSize \in Nat /\ InfoSize <= 1200
           /\ BelowClock \in Int
           /\ BelowClock <= 28 * surface[2] + Shift(8, 125) + 60 * GlyphBottom + SpaceSm
<1>1. surface[1] \in Nat /\ surface[2] \in Nat /\ GlyphBottom \in Nat /\ SpaceSm \in Nat
  BY FrameNumbers
<1>2. ClockSize \in Nat /\ 3400 <= ClockSize /\ ClockSize <= 6000
  BY <1>1 DEF ClockSize, Clamp, Least, Most
<1>3. DateSize \in Nat /\ DateSize <= 1400
  BY <1>1 DEF DateSize, Clamp, Least, Most
<1>4. InfoSize \in Nat /\ InfoSize <= 1200
  BY <1>3 DEF InfoSize
<1> DEFINE deep == (ClockSize * GlyphBottom) \div 100
<1>5. deep \in Nat /\ deep <= 60 * GlyphBottom
  BY <1>2, GlyphsEnd
<1>6. BelowClock = 28 * surface[2] + Shift(8, 125) + deep + SpaceSm
  BY DEF BelowClock
<1> HIDE DEF deep
<1>7. /\ BelowClock \in Int
      /\ BelowClock <= 28 * surface[2] + Shift(8, 125) + 60 * GlyphBottom + SpaceSm
  BY <1>1, <1>5, <1>6, ShiftsApart
<1>8. QED
  BY <1>2, <1>3, <1>4, <1>7

(* Its own record holds a text on three sides; below, the pill's does.     *)
LEMMA InkedIsCovered ==
    ASSUME FrameTypeOK, LayoutFits, unlock # UnlockEnd,
           NEW w \in Int, NEW y \in Int, NEW h \in Nat,
           Centered(w, y, h) \in Recorded,
           y + (h * GlyphBottom) \div 100 <= Pill.y1 + 2600
    PROVE  Covered(Inked(Centered(w, y, h)))
<1> DEFINE b == Centered(w, y, h)
           pill == Shaken(Grown(Pill, 2600))
<1>1. /\ b = [x0 |-> (Width - w) \div 2, y0 |-> y,
              x1 |-> (Width - w) \div 2 + w, y1 |-> y + h]
      /\ Whole(b)
  <2>1. h \in Int
    OBVIOUS
  <2>2. QED
    BY <2>1, CenteredBox
<1>2. b \in Recorded
  OBVIOUS
<1>3. pill \in Recorded /\ Whole(pill) /\ pill.y1 = Pill.y1 + 2600
  BY PillRecord
<1> HIDE DEF b, pill
<1>4. b.y0 <= b.y1 /\ b.y0 = y /\ b.y1 - b.y0 = h
  BY <1>1
<1>5. /\ Whole(Inked(b)) /\ Inked(b).x0 = b.x0 /\ Inked(b).x1 = b.x1
      /\ b.y0 <= Inked(b).y0
      /\ Inked(b).y1 = y + (h * GlyphBottom) \div 100
  BY <1>1, <1>4, InkedBox
<1>6. b.x0 <= Inked(b).x0 /\ Inked(b).x1 <= b.x1
  BY <1>1, <1>5 DEF Whole
<1>7. Inked(b).y1 <= pill.y1
  BY <1>3, <1>5
<1>8. Covered(Inked(b))
  BY <1>1, <1>2, <1>3, <1>5, <1>6, <1>7, SidesCovered
<1>9. QED
  BY <1>8 DEF b

LEMMA LineIsCovered ==
    ASSUME FrameTypeOK, LayoutFits, unlock # UnlockEnd, NEW b \in Lines
    PROVE  Covered(Inked(b))
<1> DEFINE pillEnd == Pill.y1 + 2600
<1>1. b \in Recorded
  BY DEF Recorded
<1>2. /\ surface[2] \in Nat /\ GlyphBottom \in Nat /\ SpaceSm \in Nat /\ SpaceXs \in Nat
      /\ texts.date \in Int
  BY FrameNumbers
<1>3. /\ pillEnd = 50 * surface[2] + Shift(10, 100) + 7400
      /\ SpaceSm + SpaceXs + 1400 + 75 * GlyphBottom <= 22 * surface[2] + 7400
      /\ Shift(8, 125) \in Int /\ Shift(10, 100) \in Int
      /\ Shift(8, 125) <= Shift(10, 100)
  <2>1. /\ Pill.y0 = 50 * surface[2] + Shift(10, 100) /\ Pill.y1 = Pill.y0 + 4800
        /\ SpaceSm + SpaceXs + 1400 + 75 * GlyphBottom <= 22 * surface[2] + 7400
    BY PillBox
  <2>2. QED
    BY <1>2, <2>1, ShiftsApart
<1>4. /\ BelowClock \in Int
      /\ BelowClock <= 28 * surface[2] + Shift(8, 125) + 60 * GlyphBottom + SpaceSm
      /\ DateSize \in Nat /\ DateSize <= 1400 /\ InfoSize \in Nat /\ InfoSize <= 1200
  BY LineSizes
<1>5. CASE b = Centered(texts.date, BelowClock, DateSize)
  <2> DEFINE deep == (DateSize * GlyphBottom) \div 100
  <2>1. deep \in Nat /\ deep <= 14 * GlyphBottom
    BY <1>4, GlyphsEnd
  <2> HIDE DEF deep, pillEnd
  <2>2. BelowClock + deep <= pillEnd
    BY <1>2, <1>3, <1>4, <2>1
  <2>3. QED
    BY <1>1, <1>2, <1>4, <1>5, <2>2, InkedIsCovered DEF deep, pillEnd
<1>6. CASE b # Centered(texts.date, BelowClock, DateSize)
  <2> DEFINE w == EllipsizedWidth(texts.info, InfoRoom)
             y == IF texts.date = 0 THEN BelowClock ELSE BelowClock + DateSize + SpaceXs
             deep == (InfoSize * GlyphBottom) \div 100
  <2>1. b = Centered(w, y, InfoSize)
    BY <1>6 DEF Lines
  <2>2. y \in Int /\ y <= BelowClock + 1400 + SpaceXs
    BY <1>2, <1>4
  <2>3. w \in Int
    <3>1. InfoRoom \in Int
      BY FrameNumbers DEF InfoRoom
    <3>2. w \in Nat
      BY <3>1, FrameNumbers, EllipsizedWidthFits
    <3>3. QED
      BY <3>2
  <2>4. deep \in Nat /\ deep <= 12 * GlyphBottom
    BY <1>4, GlyphsEnd
  <2> HIDE DEF w, y, deep, pillEnd
  <2>5. y + deep <= pillEnd
    BY <1>2, <1>3, <1>4, <2>2, <2>4
  <2>6. QED
    BY <1>1, <1>4, <2>1, <2>2, <2>3, <2>5, InkedIsCovered DEF deep, pillEnd
<1>7. QED
  BY <1>5, <1>6

(* The status line, down to the end of the line that is recorded for it.   *)
LEMMA StatusIsCovered ==
    ASSUME FrameTypeOK, unlock # UnlockEnd, NEW b \in Status
    PROVE  Covered(OnLine(b))
<1> DEFINE y == 50 * surface[2] + 4800 + SpaceMd + Shift(16, 80)
                   + (IF slide = 0 THEN 800 ELSE 0)
<1>1. b \in Recorded
  BY DEF Recorded
<1>2. b = Centered(texts.status, y, FontSecondary)
  BY DEF Status
<1>3. y \in Int
  <2> DEFINE gone == 512 - Cube(FadeLeft)
  <2>1. Before(16)[1] \in Int
    BY DEF Before, Least, FrameTypeOK
  <2>2. Cube(Before(16)[1]) \in Int /\ Cube(Before(16)[2]) = 24389
    BY <2>1 DEF Cube, Before
  <2>3. FadeLeft \in Int
    BY DEF FadeLeft, Most, UnlockEnd, FlashEnd, FrameTypeOK
  <2>4. gone \in Int
    BY <2>3 DEF Cube
  <2>5. Shift(16, 80) = (2800 * Cube(Before(16)[1])) \div Cube(Before(16)[2])
                           - (20 * 80 * gone) \div 512
    BY DEF Shift
  <2> HIDE DEF gone
  <2>6. Shift(16, 80) \in Int
    BY <2>2, <2>4, <2>5
  <2>7. QED
    BY <2>6, FrameNumbers
<1> HIDE DEF y
<1>4. texts.status \in Int /\ FontSecondary \in Int /\ FontSecondary >= 0
  BY FrameNumbers
<1>5. Whole(b) /\ b.y0 <= b.y1
  <2>1. /\ Centered(texts.status, y, FontSecondary) =
              [x0 |-> (Width - texts.status) \div 2, y0 |-> y,
               x1 |-> (Width - texts.status) \div 2 + texts.status,
               y1 |-> y + FontSecondary]
        /\ Whole(Centered(texts.status, y, FontSecondary))
    BY <1>3, <1>4, CenteredBox
  <2>2. QED
    BY <1>2, <1>3, <1>4, <2>1
<1>6. /\ Whole(Inked(b)) /\ Inked(b).x0 = b.x0 /\ Inked(b).x1 = b.x1
      /\ b.y0 <= Inked(b).y0
  BY <1>5, InkedBox
<1>7. OnLine(b) = [x0 |-> Inked(b).x0, y0 |-> Inked(b).y0, x1 |-> Inked(b).x1,
                   y1 |-> IF Inked(b).y1 < b.y1 THEN Inked(b).y1 ELSE b.y1]
  BY DEF OnLine, Least, Inked
<1>8. Whole(OnLine(b)) /\ Inside(OnLine(b), b)
  BY <1>5, <1>6, <1>7 DEF Whole, Inside
<1>9. QED
  BY <1>1, <1>5, <1>8, InsideIsCovered

(* The clock.  A text that moves 6 px up or down at the turn of the minute *)
(* keeps its glyphs below the top of the line that is recorded, and what   *)
(* stands out of that line is above the end of the pill's record.          *)
ClockAt(w) == Centered(w, ClockY, ClockSize)

LEMMA ClockBox ==
    ASSUME FrameTypeOK, NEW w \in Int
    PROVE  /\ ClockY \in Int /\ ClockY = 28 * surface[2] + Shift(0, 125)
           /\ ClockAt(w) = [x0 |-> (Width - w) \div 2, y0 |-> ClockY,
                            x1 |-> (Width - w) \div 2 + w, y1 |-> ClockY + ClockSize]
           /\ Whole(ClockAt(w))
<1>1. ClockY \in Int /\ ClockY = 28 * surface[2] + Shift(0, 125)
  BY FrameNumbers, ShiftsApart DEF ClockY
<1>2. ClockSize \in Int
  BY LineSizes
<1> DEFINE y == ClockY
           h == ClockSize
<1>3. y \in Int /\ h \in Int
  BY <1>1, <1>2
<1>4. ClockAt(w) = Centered(w, y, h)
  BY DEF ClockAt
<1> HIDE DEF y, h
<1>5. /\ Centered(w, y, h) = [x0 |-> (Width - w) \div 2, y0 |-> y,
                              x1 |-> (Width - w) \div 2 + w, y1 |-> y + h]
      /\ Whole(Centered(w, y, h))
  BY <1>3, CenteredBox
<1>6. QED
  BY <1>1, <1>4, <1>5 DEF y, h

LEMMA CrossingIsCovered ==
    ASSUME FrameTypeOK, LayoutFits, unlock # UnlockEnd,
           NEW w \in Nat, NEW wide \in Nat, w <= wide, ClockAt(wide) \in Recorded,
           NEW dy \in Int, -600 <= dy, dy <= 600
    PROVE  Covered(Inked(Centered(w, ClockY + dy, ClockSize)))
<1> DEFINE y == ClockY + dy
           b == Centered(w, y, ClockSize)
           record == ClockAt(wide)
           pill == Shaken(Grown(Pill, 2600))
           top == ClockSize * GlyphTop
           bottom == ClockSize * GlyphBottom
<1>1. ClockY \in Int /\ ClockY = 28 * surface[2] + Shift(0, 125) /\ y \in Int
  BY ClockBox
<1>2. ClockSize \in Nat /\ 3400 <= ClockSize /\ ClockSize <= 6000
  BY LineSizes
<1>3. /\ b = [x0 |-> (Width - w) \div 2, y0 |-> y,
              x1 |-> (Width - w) \div 2 + w, y1 |-> y + ClockSize]
      /\ Width \in Int /\ Whole(b)
  <2> HIDE DEF y
  <2>1. w \in Int /\ ClockSize \in Int
    BY <1>2
  <2>2. QED
    BY <1>1, <2>1, CenteredBox
<1>4. /\ record = [x0 |-> (Width - wide) \div 2, y0 |-> ClockY,
                   x1 |-> (Width - wide) \div 2 + wide, y1 |-> ClockY + ClockSize]
      /\ Whole(record)
  <2>1. wide \in Int
    OBVIOUS
  <2>2. QED
    BY <2>1, ClockBox
<1>5. /\ pill \in Recorded /\ Whole(pill) /\ pill.y1 = Pill.y1 + 2600
  BY PillRecord
<1>6. top \in Nat /\ top >= 61200
  <2>1. GlyphTop \in Nat /\ 18 <= GlyphTop
    BY FrameNumbers DEF LayoutFits
  <2>2. 3400 * 18 <= ClockSize * GlyphTop /\ ClockSize * GlyphTop \in Nat
    BY <1>2, <2>1, ProductBound
  <2>3. QED
    BY <2>2
<1> HIDE DEF b, record, pill, top, bottom
<1>7. /\ Whole(Inked(b)) /\ Inked(b).x0 = b.x0 /\ Inked(b).x1 = b.x1
      /\ Inked(b).y0 = b.y0 + top \div 100 /\ Inked(b).y1 = b.y0 + bottom \div 100
  <2>1. b.y0 <= b.y1 /\ b.y1 - b.y0 = ClockSize
    BY <1>1, <1>2, <1>3
  <2>2. QED
    BY <1>3, <2>1, InkedBox DEF top, bottom
<1>8. record.x0 <= Inked(b).x0 /\ Inked(b).x1 <= record.x1
  BY <1>3, <1>4, <1>7
<1>9. record.y0 <= Inked(b).y0
  BY <1>1, <1>3, <1>4, <1>6, <1>7
<1>10. Inked(b).y1 <= pill.y1
  <2>1. /\ Pill.y1 = 50 * surface[2] + Shift(10, 100) + 4800
        /\ surface[2] \in Nat
        /\ Shift(0, 125) \in Int /\ Shift(10, 100) \in Int
        /\ Shift(0, 125) <= Shift(10, 100)
    BY PillBox, FrameNumbers, ShiftsApart
  <2>2. bottom \div 100 \in Nat /\ bottom \div 100 <= 60 * GlyphBottom
    BY <1>2, GlyphsEnd DEF bottom
  <2>3. 1400 + 75 * GlyphBottom <= 22 * surface[2] + 7400 /\ GlyphBottom \in Nat
    BY PillBox, FrameNumbers
  <2>4. Inked(b).y1 = ClockY + dy + bottom \div 100
    BY <1>3, <1>7
  <2>5. QED
    BY <1>1, <1>5, <2>1, <2>2, <2>3, <2>4
<1>11. record \in Recorded
  BY DEF record
<1>12. Covered(Inked(b))
  BY <1>4, <1>5, <1>7, <1>8, <1>9, <1>10, <1>11, SidesCovered
<1>13. QED
  BY <1>12 DEF b

LEMMA ClockIsCovered ==
    ASSUME FrameTypeOK, LayoutFits, unlock # UnlockEnd, NEW d \in ClockDrawn
    PROVE  Covered(d)
<1>1. texts.clock \in Nat /\ texts.old \in Nat /\ rollover \in Int /\ ClockY \in Int
  BY FrameNumbers, ClockBox DEF FrameTypeOK
<1>2. CASE rollover = 11
  <2>1. d = Inked(Centered(texts.clock, ClockY, ClockSize))
    BY <1>2 DEF ClockDrawn
  <2>2. Centered(texts.clock, ClockY, ClockSize) \in Recorded
    BY <1>2 DEF Recorded, ClockRecorded
  <2>3. Covered(Inked(Centered(texts.clock, ClockY + 0, ClockSize)))
    BY <1>1, <2>2, CrossingIsCovered DEF ClockAt
  <2>4. ClockY + 0 = ClockY
    BY <1>1
  <2>5. QED
    BY <2>1, <2>3, <2>4
<1>3. CASE rollover # 11
  <2> DEFINE wide == Most(texts.clock, texts.old)
             rise == -60 * rollover
             fall == 60 * (10 - rollover)
  <2>1. wide \in Nat /\ texts.clock <= wide /\ texts.old <= wide
    BY <1>1 DEF Most
  <2>2. ClockAt(wide) \in Recorded
    BY <1>3 DEF ClockAt, Recorded, ClockRecorded
  <2>3. /\ rise \in Int /\ -600 <= rise /\ rise <= 600
        /\ fall \in Int /\ -600 <= fall /\ fall <= 600
    BY <1>3 DEF FrameTypeOK
  <2>4. \/ d = Inked(Centered(texts.old, ClockY + rise, ClockSize))
        \/ d = Inked(Centered(texts.clock, ClockY + fall, ClockSize))
    <3>1. ClockY - 60 * rollover = ClockY + rise
      BY <1>1
    <3>2. QED
      BY <1>3, <3>1 DEF ClockDrawn
  <2> HIDE DEF wide, rise, fall
  <2>5. /\ Covered(Inked(Centered(texts.old, ClockY + rise, ClockSize)))
        /\ Covered(Inked(Centered(texts.clock, ClockY + fall, ClockSize)))
    BY <1>1, <2>1, <2>2, <2>3, CrossingIsCovered
  <2>6. QED
    BY <2>4, <2>5
<1>4. QED
  BY <1>2, <1>3

(* The chip, with its hairline: it stands between the tops of what is      *)
(* recorded of the clock and of the pill, and between the pill's ends.     *)
LEMMA ChipIsCovered ==
    ASSUME FrameTypeOK, LayoutFits, unlock # UnlockEnd, NEW b \in Chip
    PROVE  Covered(Grown(b, 50))
<1> DEFINE h == (19 * FontSecondary) \div 10
           w == texts.chip + 2 * SpaceMd
           y == Pill.y0 - h - SpaceLg
           pill == Shaken(Grown(Pill, 2600))
           d == Grown(b, 50)
<1>1. texts.chip # 0 /\ b = Centered(w, y, h)
  BY DEF Chip
<1>2. /\ h \in Int /\ h >= 0 /\ w \in Int /\ SpaceLg \in Int /\ SpaceLg >= 0
      /\ surface[2] \in Int
  BY FrameNumbers
<1>3. /\ Pill.x0 \in Int /\ Pill.y0 \in Int /\ Pill.x1 \in Int /\ Pill.y1 \in Int
      /\ PillWidth \in Int /\ Width \in Int
      /\ Pill.x0 = (Width - PillWidth) \div 2 /\ Pill.x1 = Pill.x0 + PillWidth
      /\ Pill.y0 = 50 * surface[2] + Shift(10, 100) /\ Pill.y1 = Pill.y0 + 4800
      /\ w <= PillWidth + 3300
      /\ h + SpaceLg + 50 <= 22 * surface[2]
  BY <1>1, PillBox DEF Whole
<1>4. shake \in Int /\ -900 <= shake /\ shake <= 900
  BY DEF FrameTypeOK
<1>5. y \in Int
  BY <1>2, <1>3
<1> HIDE DEF h, w
<1>6. /\ b = [x0 |-> (Width - w) \div 2, y0 |-> y,
              x1 |-> (Width - w) \div 2 + w, y1 |-> y + h]
  <2> HIDE DEF y
  <2>1. QED
    BY <1>1, <1>2, <1>5, CenteredBox
<1>7. d = [x0 |-> (Width - w) \div 2 - 50, y0 |-> y - 50,
           x1 |-> (Width - w) \div 2 + w + 50, y1 |-> y + h + 50]
  BY <1>2, <1>3, <1>5, <1>6 DEF Grown
<1>8. Whole(d)
  BY <1>2, <1>3, <1>5, <1>7 DEF Whole
<1>9. /\ pill \in Recorded /\ Whole(pill)
      /\ pill.x0 = Pill.x0 - 2600 + shake /\ pill.x1 = Pill.x1 + 2600 + shake
      /\ pill.y1 = Pill.y1 + 2600
  BY PillRecord
<1>10. PICK wide \in Int : ClockAt(wide) \in Recorded
  BY FrameNumbers DEF ClockAt, Recorded, ClockRecorded, Most
<1> DEFINE clock == ClockAt(wide)
<1>11. Whole(clock) /\ clock.y0 = 28 * surface[2] + Shift(0, 125)
  BY <1>10, ClockBox
<1>12. /\ Shift(0, 125) \in Int /\ Shift(10, 100) \in Int
       /\ Shift(0, 125) <= Shift(10, 100)
  BY ShiftsApart
<1> HIDE DEF pill, d, clock
<1>13. pill.x0 <= d.x0 /\ d.x1 <= pill.x1
  <2>1. (Width - w) \div 2 >= (Width - PillWidth) \div 2 - 1650
    BY <1>2, <1>3
  <2>2. (Width - w) \div 2 + w <= (Width - PillWidth) \div 2 + PillWidth + 1650
    BY <1>2, <1>3
  <2>3. QED
    BY <1>2, <1>3, <1>4, <1>7, <1>9, <2>1, <2>2
<1>14. d.y1 <= pill.y1
  BY <1>2, <1>3, <1>7, <1>9
<1>15. clock.y0 <= d.y0
  BY <1>2, <1>3, <1>7, <1>11, <1>12
<1>16. clock \in Recorded
  BY <1>10 DEF clock
<1>17. Covered(d)
  BY <1>8, <1>9, <1>11, <1>13, <1>14, <1>15, <1>16, SidesCovered
<1>18. QED
  BY <1>17 DEF d

(* What the pill contains.                                                 *)
LEMMA ContentIsCovered ==
    ASSUME FrameTypeOK, LayoutFits, unlock # UnlockEnd, NEW b \in InPill
    PROVE  Covered(Posed(b))
<1>1. InThePill(b)
  BY ContentsInPill
<1>2. Pill.x0 \in Int /\ Pill.x1 \in Int /\ Pill.y0 \in Int /\ Pill.y1 \in Int
  BY PillBox DEF Whole
<1>3. /\ Whole(b)
      /\ Pill.x0 - 900 <= b.x0 /\ b.x1 <= Pill.x1 + 900
      /\ Pill.y0 - 1050 <= b.y0 /\ b.y1 <= Pill.y1 + 1050
  BY <1>1, <1>2 DEF InThePill, Inside, Whole
<1>4. QED
  BY <1>3, PosedIsCovered

(* compose_chrome: in every frame of every animation, with whatever texts, *)
(* fonts and outputs satisfy LayoutFits, what is drawn is in the rectangle *)
(* that is uploaded and drawn, except for what the status line has below   *)
(* its own recorded line (the descenders, render.rs:922-927), the password *)
(* field keeps to the pill, and ellipsize cuts no more than it has to.     *)
THEOREM ChromeFits == LayoutFits => (ChromeSpec => []ChromeHolds)
<1> SUFFICES ASSUME LayoutFits PROVE ChromeSpec => []ChromeHolds
  OBVIOUS
<1>1. FrameTypeOK => ChromeHolds
  <2> SUFFICES ASSUME FrameTypeOK PROVE ChromeHolds
    OBVIOUS
  <2>1. ASSUME unlock # UnlockEnd, NEW d \in BesideStatus PROVE Covered(d)
    <3>1. \/ d \in ClockDrawn \/ d \in PillDrawn
          \/ \E b \in Lines : d = Inked(b)
          \/ \E b \in Chip : d = Grown(b, 50)
          \/ \E b \in InPill : d = Posed(b)
      BY DEF BesideStatus
    <3>2. QED
      BY <2>1, <3>1, ClockIsCovered, PillIsCovered, LineIsCovered, ChipIsCovered,
         ContentIsCovered
  <2>2. OnlyDescendersCut
    BY <2>1, StatusIsCovered DEF OnlyDescendersCut
  <2>3. TypedInPill
    BY ContentsInPill DEF TypedInPill, InThePill, Inside
  <2>4. CutClosely(typed, RevealRoom)
    <3>1. RevealRoom \in Int
      BY PillBox, FrameNumbers DEF RevealRoom
    <3>2. QED
      BY <3>1, FrameNumbers, EllipsizedClosely DEF FrameTypeOK
  <2>5. CutClosely(texts.info, InfoRoom)
    <3>1. InfoRoom \in Int
      BY FrameNumbers DEF InfoRoom
    <3>2. QED
      BY <3>1, FrameNumbers, EllipsizedClosely
  <2>6. QED
    BY <2>2, <2>3, <2>4, <2>5 DEF ChromeHolds
<1>2. QED
  BY <1>1, FramesTyped, PTL
=============================================================================
