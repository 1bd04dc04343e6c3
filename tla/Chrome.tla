------------------------------- MODULE Chrome -------------------------------
(***************************************************************************)
(* Where the clock, the lines under it, the password pill, its chip and    *)
(* the status line are drawn, and the rectangle compose_chrome says they   *)
(* are in (breadlock/src/render.rs).  The GPU path uploads and draws that  *)
(* rectangle alone: what sticks out of it is cut off.                      *)
(*                                                                         *)
(* Lengths are in hundredths of a pixel, rounded away from the rectangle.  *)
(* Colours and opacity are left out.  A text is as wide as the font says   *)
(* and its glyphs stand between GlyphTop and GlyphBottom, in percent of    *)
(* its size, under its origin; all characters of one text are as wide.     *)
(* With lines of 1.25 sizes, letters with a descender end below 100 %.     *)
(***************************************************************************)
EXTENDS Integers

CONSTANTS
    Surfaces,       \* sizes in pixels
    Texts,          \* records of the widths of the texts, 0 for none; info
                    \* is a number of characters
    Glyphs,         \* widths of a character
    Ellipsis,       \* width of the ellipsis
    GlyphTop, GlyphBottom,
    SpaceXs, SpaceSm, SpaceMd, SpaceLg, SpaceXl,    \* tokens of bread_theme
    FontBase, FontSecondary,
    UnlockFrames,   \* frames of the unlock that are looked at
    MaxTyped        \* bound on the characters typed

AppearFrames == 0..9    \* of 50 ms: APPEAR_MS is 450

UnlockEnd == 13         \* of 50 ms: UNLOCK_MS is 650

FlashEnd == 5           \* FLASH_MS is 250

ASSUME ChromeAssumption ==
    /\ Surfaces \subseteq (Nat \ {0}) \X (Nat \ {0})
    /\ Texts \subseteq [clock : Nat, old : Nat, date : Nat, info : Nat,
                        chip : Nat, status : Nat, hint : Nat]
    /\ Glyphs \subseteq Nat
    /\ {Ellipsis, GlyphTop, GlyphBottom, FontBase, FontSecondary, MaxTyped,
        SpaceXs, SpaceSm, SpaceMd, SpaceLg, SpaceXl} \subseteq Nat
    /\ UnlockFrames \subseteq 0..UnlockEnd

VARIABLES
    surface,    \* width, height
    texts,
    glyph,      \* width of the characters typed, and of those of the info line
    appear,     \* appear_t, in frames
    unlock,     \* unlock_t, in frames
    failed,     \* a failed attempt is shown
    shake,      \* damped_shake_x
    breathing,  \* breathe_t > 0
    rollover,   \* clock_old: tenths of the crossfade, or 11 for None
    slide,      \* status_t, 0 or 1
    typed,      \* password_len
    reveal,     \* the reveal key is held
    pop         \* sevenths that are left of dot_pop_t

chromeVars == <<surface, texts, glyph, appear, unlock, failed, shake, breathing,
                rollover, slide, typed, reveal, pop>>

ChromeInit ==
    /\ surface \in Surfaces
    /\ texts \in Texts
    /\ glyph \in Glyphs
    /\ appear = 0
    /\ unlock = 0
    /\ failed = FALSE
    /\ shake = 0
    /\ breathing = FALSE
    /\ rollover = 11
    /\ slide = 0
    /\ typed = 0
    /\ reveal = FALSE
    /\ pop = 0

-----------------------------------------------------------------------------
\* The inputs of the next frame: what state.rs derives from the clock and
\* from the keys, results and timers.
Appear ==
    /\ appear < 9
    /\ appear' = appear + 1
    /\ UNCHANGED <<surface, texts, glyph, unlock, failed, shake, breathing,
                   rollover, slide, typed, reveal, pop>>

\* The success flash, then the fade; no failure is shown any more.
Unlock ==
    /\ unlock' \in {u \in UnlockFrames : u > unlock}
    /\ failed' = FALSE
    /\ shake' = 0
    /\ UNCHANGED <<surface, texts, glyph, appear, breathing, rollover, slide,
                   typed, reveal, pop>>

\* A wrong password: its pill shakes by up to 9 px either way.
Fail ==
    /\ unlock = 0
    /\ failed' = TRUE
    /\ shake' \in {-900, 0, 900} \ {shake}
    /\ slide' \in {0, 1}
    /\ typed' = 0
    /\ UNCHANGED <<surface, texts, glyph, appear, unlock, breathing, rollover,
                   reveal, pop>>

Type ==
    /\ unlock = 0
    /\ typed < MaxTyped
    /\ typed' = typed + 1
    /\ pop' \in {3, 0}
    /\ failed' = FALSE
    /\ shake' = 0
    /\ UNCHANGED <<surface, texts, glyph, appear, unlock, breathing, rollover,
                   slide, reveal>>

\* Tab, the breath and the turn of the minute.
Reveal ==
    /\ reveal' = ~reveal
    /\ UNCHANGED <<surface, texts, glyph, appear, unlock, failed, shake, breathing,
                   rollover, slide, typed, pop>>

Breathe ==
    /\ breathing' = ~breathing
    /\ UNCHANGED <<surface, texts, glyph, appear, unlock, failed, shake, rollover,
                   slide, typed, reveal, pop>>

TurnOfMinute ==
    /\ rollover' \in {0, 10, 11} \ {rollover}
    /\ UNCHANGED <<surface, texts, glyph, appear, unlock, failed, shake, breathing,
                   slide, typed, reveal, pop>>

ChromeNext == Appear \/ Unlock \/ Fail \/ Type \/ Reveal \/ Breathe \/ TurnOfMinute

-----------------------------------------------------------------------------
Least(a, b) == IF a < b THEN a ELSE b

Most(a, b) == IF a > b THEN a ELSE b

Clamp(x, lo, hi) == Most(lo, Least(x, hi))

Cube(x) == x * x * x

\* staggered_t: the part of its entrance an element has before it, as
\* numerator and denominator; delay is in units of 10 ms.
Before(delay) == <<Least(5 * (9 - appear), 45 - delay), 45 - delay>>

\* The eased fade-out: it starts after the flash (unlock_fade_t).
FadeLeft == UnlockEnd - Most(unlock, FlashEnd)

\* elem_y: the slide of the entrance, and the drift of the unlock.
Shift(delay, drift) ==
    LET b == Before(delay)
    IN  (2800 * Cube(b[1])) \div Cube(b[2]) - (20 * drift * (512 - Cube(FadeLeft))) \div 512

\* ease_out_back with a fraction of m / 7 left, times 100 000.  It overshoots
\* by 10 %.
EaseOutBack(m) == 100000 - (270158 * Cube(m)) \div 343 + (170158 * m * m) \div 49 + 1

Width == 100 * surface[1]

Height == 100 * surface[2]

Box(x, y, w, h) == [x0 |-> x, y0 |-> y, x1 |-> x + w, y1 |-> y + h]

Grown(b, by) == [x0 |-> b.x0 - by, y0 |-> b.y0 - by, x1 |-> b.x1 + by, y1 |-> b.y1 + by]

Moved(b, dx, dy) ==
    [x0 |-> b.x0 + dx, y0 |-> b.y0 + dy, x1 |-> b.x1 + dx, y1 |-> b.y1 + dy]

Centered(w, y, h) == Box((Width - w) \div 2, y, w, h)

\* The pixels of a text, given the box of its origin, width and size.
Inked(b) ==
    LET size == b.y1 - b.y0
    IN  [x0 |-> b.x0, y0 |-> b.y0 + (size * GlyphTop) \div 100,
         x1 |-> b.x1, y1 |-> b.y0 + (size * GlyphBottom) \div 100]

-----------------------------------------------------------------------------
\* ellipsize: the characters that are left of n.  Each turn of its loop drops
\* the last two (nth_back(1)).
Fits(k, n, room) == k * glyph + (IF k < n THEN Ellipsis ELSE 0) <= room

Ellipsized(n, room) ==
    LET left[k \in 0..n] == IF k = 0 \/ Fits(k, n, room) THEN k ELSE left[Most(k - 2, 0)]
    IN  left[n]

EllipsizedWidth(n, room) ==
    LET k == Ellipsized(n, room) IN k * glyph + (IF k < n THEN Ellipsis ELSE 0)

\* The clock: recorded once, for the wider of the outgoing text and the new
\* one; the two cross each other 6 px up and down.
ClockSize == Clamp((15 * surface[1]) \div 2, 3400, 6000)

ClockY == 28 * surface[2] + Shift(0, 125)

ClockRecorded ==
    {Centered(IF rollover = 11 THEN texts.clock ELSE Most(texts.clock, texts.old),
              ClockY, ClockSize)}

ClockDrawn ==
    IF rollover = 11 THEN {Inked(Centered(texts.clock, ClockY, ClockSize))}
    ELSE {Inked(Centered(texts.old, ClockY - 60 * rollover, ClockSize)),
          Inked(Centered(texts.clock, ClockY + 60 * (10 - rollover), ClockSize))}

\* The date, and the line of the status poller under it.
DateSize == Clamp((8 * surface[1]) \div 5, 1100, 1400)

BelowClock == 28 * surface[2] + Shift(8, 125) + (ClockSize * GlyphBottom) \div 100 + SpaceSm

InfoSize == (85 * DateSize) \div 100

InfoRoom == 70 * surface[1]

Lines ==
    LET infoY == IF texts.date = 0 THEN BelowClock ELSE BelowClock + DateSize + SpaceXs
    IN  (IF texts.date = 0 THEN {} ELSE {Centered(texts.date, BelowClock, DateSize)})
          \union (IF texts.info = 0 THEN {}
                  ELSE {Centered(EllipsizedWidth(texts.info, InfoRoom), infoY, InfoSize)})

\* The status line under the pill.
Status ==
    IF texts.status = 0 THEN {}
    ELSE {Centered(texts.status,
                   50 * surface[2] + 4800 + SpaceMd + Shift(16, 80)
                       + (IF slide = 0 THEN 800 ELSE 0),
                   FontSecondary)}

\* The pill, which stands still or enters with an overshoot, and shakes.
PillWidth == Least(28000, Width - 2 * SpaceXl)

Pill == Centered(PillWidth, 50 * surface[2] + Shift(10, 100), 4800)

PillScale ==
    IF unlock > 0 THEN 100000
    ELSE EaseOutBack(Least(9 - appear, 7))

Shaken(b) == Moved(b, shake, 0)

\* pill_xf, on a box around the centre of the pill.
Posed(b) ==
    LET cx == (Pill.x0 + Pill.x1) \div 2
        cy == (Pill.y0 + Pill.y1) \div 2
        far(c, x) == IF x >= c THEN c + ((x - c) * PillScale + 99999) \div 100000
                     ELSE c - ((c - x) * PillScale + 99999) \div 100000
    IN  Shaken([x0 |-> far(cx, b.x0), y0 |-> far(cy, b.y0),
                x1 |-> far(cx, b.x1), y1 |-> far(cy, b.y1)])

Shadow(grow) == Moved(Grown(Pill, grow), 0, 300)

\* Mutant: a pad for an overshoot of 5 %, as at ease_out_back.
PillRecordedTight == {Shaken(Grown(Pill, 1600))}

PillRecorded == {Shaken(Grown(Pill, 2600))}

\* Shadows, fill, the hairline or the ring of the breath, and the ring of
\* the flash, whose stroke is 2 to 18 px wide.
PillDrawn ==
    {Posed(b) : b \in
        {Pill} \union {Shadow(grow) : grow \in {250, 500, 750}}
            \union (IF ~failed /\ unlock = 0
                    THEN {Grown(Pill, IF breathing THEN 75 ELSE 50)} ELSE {})
            \union (IF 0 < unlock /\ unlock < FlashEnd
                    THEN {Grown(Pill, 100 + (800 * unlock) \div FlashEnd)} ELSE {})}

\* Caps Lock and layout: a chip above the pill with a hairline.
Chip ==
    LET h == (19 * FontSecondary) \div 10
    IN  IF texts.chip = 0 THEN {}
        ELSE {Centered(texts.chip + 2 * SpaceMd, Pill.y0 - h - SpaceLg, h)}

-----------------------------------------------------------------------------
\* What stands in the pill, before the pill is scaled and shaken.
MaxDots == Most((PillWidth - 2 * SpaceLg) \div 1800, 1)

ShownDots == Least(typed, MaxDots)

ContentsLive == PillScale >= 5000

Revealed == reveal /\ ShownDots > 0 /\ ContentsLive

\* start_x_for: the centre of the first dot.
StartX == Pill.x0 + (PillWidth - Most(ShownDots - 1, 0) * 1800) \div 2

\* The newest dot pops; the others have a radius of 4.5 px.
Dot(i) ==
    LET r == IF i = ShownDots THEN Most(40, (450 * EaseOutBack(pop)) \div 100000 + 1) ELSE 450
    IN  Box(StartX + (i - 1) * 1800 - r, Pill.y0 + 2400 - r, 2 * r, 2 * r)

Caret == Box(StartX + (ShownDots - 1) * 1800 + 450 + 600, Pill.y0 + 1200, 200, 2400)

RevealRoom == PillWidth - 2 * SpaceLg

\* A text in the middle of the pill, by the glyphs that measure_box finds.
PillText(w) ==
    LET h == (FontBase * (GlyphBottom - GlyphTop)) \div 100
    IN  Centered(w, Pill.y0 + (4800 - h) \div 2, h)

InPill ==
    IF Revealed
    THEN {PillText(EllipsizedWidth(typed, RevealRoom))}
    ELSE IF ShownDots > 0
    THEN {Dot(i) : i \in 1..ShownDots} \union (IF reveal THEN {} ELSE {Caret})
    ELSE IF ~failed /\ ContentsLive
    THEN {PillText(texts.hint)}
    ELSE {}

\* compose_impl: nothing once the unlock has finished.
Recorded ==
    IF unlock = UnlockEnd THEN {}
    ELSE ClockRecorded \union Lines \union PillRecorded \union Chip \union Status
           \union (IF Revealed
                   THEN {Shaken([Pill EXCEPT !.x0 = @ + SpaceLg, !.x1 = @ - SpaceLg])}
                   ELSE {})

BesideStatus ==
    ClockDrawn \union {Inked(b) : b \in Lines} \union PillDrawn
      \union {Grown(b, 50) : b \in Chip} \union {Posed(b) : b \in InPill}

Drawn ==
    IF unlock = UnlockEnd THEN {}
    ELSE BesideStatus \union {Inked(b) : b \in Status}

\* What the drawing takes for granted of the font and of the outputs: glyphs
\* stand clear of the top of their line by the way a crossfading clock moves,
\* and end where measure_box still looks; the pill is large enough for a dot
\* with the caret after it, for its texts and about for the chip; and between
\* the clock and the pill there is room for the chip, and for the lines under
\* the clock above the end of the pill's shadow.
LayoutFits ==
    /\ 18 <= GlyphTop /\ GlyphTop <= GlyphBottom /\ GlyphBottom <= 150
    /\ FontBase * (GlyphBottom - GlyphTop) <= 480000
    /\ 350 <= SpaceLg
    /\ \A s \in Surfaces :
          LET pill == Least(28000, 100 * s[1] - 2 * SpaceXl)
          IN  /\ 2500 <= pill /\ Ellipsis <= pill
              /\ (19 * FontSecondary) \div 10 + SpaceLg + 50 <= 22 * s[2]
              /\ SpaceSm + SpaceXs + 1400 + 75 * GlyphBottom <= 22 * s[2] + 7400
              /\ \A t \in Texts :
                    /\ t.hint <= pill
                    /\ t.chip = 0 \/ t.chip + 2 * SpaceMd <= pill + 3300

\* Whatever of a box is on the surface is in the bounding box of what was
\* recorded.
Covered(d) ==
    /\ \E r \in Recorded : r.x0 <= Most(d.x0, 0)
    /\ \E r \in Recorded : r.y0 <= Most(d.y0, 0)
    /\ \E r \in Recorded : r.x1 >= Least(d.x1, Width)
    /\ \E r \in Recorded : r.y1 >= Least(d.y1, Height)

(* render.rs: compose_chrome returns "the bounding rect of everything       *)
(* drawn".  It does NOT: the status line is the lowest text, and is         *)
(* recorded down to its origin plus its size, so that the descenders of     *)
(* "Wrong password" and "Checking..." are below the rectangle.                *)
DrawnIsRecorded == \A d \in Drawn : Covered(d)

\* The glyphs of a text down to the end of the line recorded for it.
OnLine(b) == [Inked(b) EXCEPT !.y1 = Least(@, b.y1)]

(* What is true of it: in every frame of every animation, all that may be   *)
(* drawn outside of the rectangle are the descenders of the status line.    *)
OnlyDescendersCut ==
    unlock # UnlockEnd =>
        /\ \A d \in BesideStatus : Covered(d)
        /\ \A b \in Status : Covered(OnLine(b))

(* "capped so a very long password can't overflow the pill": the dots with  *)
(* the caret after them, and the text that is shown in their place, stay    *)
(* between the ends of the pill.                                            *)
TypedInPill == \A b \in InPill : Pill.x0 <= b.x0 /\ b.x1 <= Pill.x1

(* A text that is cut fits, unless nothing of it is left, and has lost at   *)
(* most one character more than it had to.                                  *)
CutClosely(n, room) ==
    LET k == Ellipsized(n, room)
    IN  /\ k = 0 \/ Fits(k, n, room)
        /\ \A longer \in (k + 2)..n : ~Fits(longer, n, room)

(* compose_chrome: the rectangle that is uploaded and drawn holds the       *)
(* chrome but for the descenders of the status line, what is typed stays in *)
(* the pill, and ellipsize cuts no more than it has to.                     *)
ChromeHolds ==
    /\ OnlyDescendersCut
    /\ TypedInPill
    /\ CutClosely(typed, RevealRoom) /\ CutClosely(texts.info, InfoRoom)
=============================================================================
