------------------------------ MODULE Wallpaper ------------------------------
(***************************************************************************)
(* The wallpaper under the lock screen: scaled once per output size into a *)
(* cache, then copied to every frame with a pan (Background in             *)
(* breadlock/src/background.rs; pan_region in gpu.rs).                     *)
(*                                                                         *)
(* Sizes are pairs <<width, height>>.  The scale is an exact fraction; in  *)
(* f32 it is off by less than the rounding to pixels for any size up to    *)
(* 2^22.  The copy reads its source through get_unchecked: what keeps it   *)
(* inside is that a scaled copy is at least as large as its output.        *)
(***************************************************************************)
EXTENDS Integers, Sequences

CONSTANTS
    Source,     \* size of the image
    Targets,    \* sizes of outputs
    Zoom,       \* KENBURNS_ZOOM in percent
    Slots,      \* SCALED_CACHE_SLOTS
    Phases      \* steps of the pan from one edge to the other

SizePairs == (Nat \ {0}) \X (Nat \ {0})

ASSUME WallpaperAssumption ==
    /\ Source \in SizePairs
    /\ Targets \subseteq SizePairs
    /\ Zoom \in Nat /\ Zoom >= 100
    /\ Slots \in Nat \ {0}
    /\ Phases \in Nat \ {0} /\ Phases % 2 = 0

VARIABLES
    kenBurns,   \* ken_burns of the configuration
    copies,     \* ImageBg::cache, most recently used last
    recent,     \* history: all sizes a copy was made for, last used last
    copy        \* the last blit_translate, or Nothing

wallpaperVars == <<kenBurns, copies, recent, copy>>

NoCopy == [target |-> <<0, 0>>]

Percent == IF kenBurns THEN Zoom ELSE 100

\* The nearest integer to n / d, halves up.
Round(n, d) == (2 * n + d) \div (2 * d)

\* cover-fit: the larger of the two ratios, so that nothing is left bare.
WidthRules(target) == target[1] * Source[2] >= target[2] * Source[1]

\* Numerator and denominator of a side of the image times the scale.
Side(target, i, percent) ==
    LET k == IF WidthRules(target) THEN 1 ELSE 2
    IN  <<Source[i] * target[k] * percent, Source[k] * 100>>

\* scaled_w, scaled_h; max(1.0) changes nothing here.
Scaled(target, percent) ==
    LET side(i) == LET q == Side(target, i, percent) IN Round(q[1], q[2])
    IN  <<side(1), side(2)>>

Pan(entry, i) == entry.scaled[i] - entry.target[i]

WallpaperInit ==
    /\ kenBurns \in BOOLEAN
    /\ copies = <<>>
    /\ recent = <<>>
    /\ copy = NoCopy
-----------------------------------------------------------------------------
Without(s, i) == SubSeq(s, 1, i - 1) \o SubSeq(s, i + 1, Len(s))

\* For the history: t is now the last of s, and as before it is in s once.
Latest(s, t) ==
    LET at == {i \in DOMAIN s : s[i] = t}
    IN  Append(IF at = {} THEN s ELSE Without(s, CHOOSE i \in at : TRUE), t)

\* Mutant: a copy that is used stays where it is.
UsedInPlace(i) == copies

\* A hit: the copy moves to the end.
Used(i) == Append(Without(copies, i), copies[i])

\* A miss: a new copy, in the place of the one unused for longest.
Added(entry) == Append(IF Len(copies) >= Slots THEN Tail(copies) ELSE copies, entry)

Cached(target) == {i \in DOMAIN copies : copies[i].target = target}

\* The pan goes to and fro under Ken Burns and is half way otherwise.
PanPhase == IF kenBurns THEN 0..Phases ELSE {Phases \div 2}

\* paint: smooth on slow frames (or not on the frames of an animation).
Paint(target, px, py, smooth) ==
    /\ {px, py} \subseteq PanPhase
    /\ IF Cached(target) # {}
       THEN copies' = Used(CHOOSE i \in Cached(target) : TRUE)
       ELSE copies' = Added([target |-> target, scaled |-> Scaled(target, Percent)])
    /\ recent' = Latest(recent, target)
    /\ copy' = [target |-> target, scaled |-> copies'[Len(copies')].scaled,
                phase |-> <<px, py>>, smooth |-> smooth]
    /\ UNCHANGED kenBurns

\* No pixmap of that size can be had: the frame is filled with a colour.
PaintFails(target) ==
    /\ Cached(target) = {}
    /\ copy' = NoCopy
    /\ UNCHANGED <<kenBurns, copies, recent>>

WallpaperNext ==
    \E target \in Targets :
        \/ \E px, py \in PanPhase, smooth \in BOOLEAN : Paint(target, px, py, smooth)
        \/ PaintFails(target)

WallpaperSpec == WallpaperInit /\ [][WallpaperNext]_wallpaperVars
-----------------------------------------------------------------------------
\* blit_translate, one axis.  The offset is in 1/Phases of a pixel; clamp
\* leaves it alone when the copy covers the output.
Offset(c, i) ==
    LET room == IF c.scaled[i] > c.target[i] THEN c.scaled[i] - c.target[i] ELSE 0
        asked == (c.scaled[i] - c.target[i]) * c.phase[i]
    IN  IF asked < 0 THEN 0
        ELSE IF asked > room * Phases THEN room * Phases ELSE asked

First(c, i) == Offset(c, i) \div Phases

Fraction(c, i) == Offset(c, i) % Phases

\* Bilinear unless both fractions are 0.
Filtered(c) == c.smooth /\ (Fraction(c, 1) # 0 \/ Fraction(c, 2) # 0)

\* Mutant: the last pixel is like the others.
SecondUnclamped(c, i, k) == First(c, i) + k + 1

\* The second sample of pixel k: the next one, clamped for the last pixel.
Second(c, i, k) ==
    LET next == First(c, i) + k + 1
    IN  IF k = c.target[i] - 1 /\ next > c.scaled[i] - 1 THEN c.scaled[i] - 1 ELSE next

Samples(c, i, k) ==
    IF Filtered(c) THEN {First(c, i) + k, Second(c, i, k)} ELSE {First(c, i) + k}

\* pan_region, for the GPU: the room to pan on one axis is not rounded to
\* pixels; numerator and denominator.
PanRegion(target, i) ==
    LET q == Side(target, i, Percent) IN <<q[1] - target[i] * q[2], q[2]>>

(* blit_translate reads no pixel outside its source, whatever the sizes and *)
(* the pan; and clamping distorts nothing: a second sample that counts is   *)
(* the neighbour of the first.                                              *)
AxisInside(c, i) == \A k \in 0..(c.target[i] - 1) :
    /\ Samples(c, i, k) \subseteq 0..(c.scaled[i] - 1)
    /\ Filtered(c) /\ Fraction(c, i) # 0 => Second(c, i, k) = First(c, i) + k + 1

(* The region of the GPU stays on the image, so that max(0.0) changes       *)
(* nothing, and within a pixel of the one the software copies, to which a   *)
(* surface may fall back at any frame.                                      *)
PathsAgree(c, i) ==
    LET region == PanRegion(c.target, i)
        rounded == (c.scaled[i] - c.target[i]) * region[2]
    IN  /\ region[1] >= 0
        /\ 2 * (rounded - region[1]) <= region[2]
        /\ 2 * (region[1] - rounded) <= region[2]

CopyInside == copy # NoCopy => \A i \in {1, 2} : AxisInside(copy, i) /\ PathsAgree(copy, i)

(* The cache holds the copies for the Slots sizes painted last, so that a   *)
(* size is scaled again only after as many others were painted: with more   *)
(* monitors of different sizes than slots, that is at every frame.          *)
CacheIsRecent ==
    LET n == IF Len(recent) < Slots THEN Len(recent) ELSE Slots
    IN  [i \in DOMAIN copies |-> copies[i].target]
            = SubSeq(recent, Len(recent) - n + 1, Len(recent))
=============================================================================
