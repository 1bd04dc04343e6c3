---------------------------- MODULE SurfacesProofs ----------------------------
(***************************************************************************)
(* The invariants of Surfaces hold for any number of outputs, any sizes    *)
(* and scales, and any mishaps.                                            *)
(***************************************************************************)
EXTENDS Surfaces, TLAPS

(* What every entry keeps: its fields have their types and its last frame  *)
(* was the right one.  That an unsized surface has no window follows.      *)
Sound(r) == r \in LockSurface /\ FrameFits(r)

Scaling == (Scales \union {1}) \ {0}

LEMMA ScalesAndSizes ==
    /\ \A k \in Scaling : k \in Nat /\ k # 0
    /\ \A z \in Sizes : z[1] \in Nat /\ z[1] # 0
<1>1. Scales \subseteq Nat
  BY SurfacesAssumption, Zenon DEF SurfacesAssumption
<1>2. Sizes \subseteq (Nat \ {0}) \X (Nat \ {0})
  BY SurfacesAssumption, Zenon DEF SurfacesAssumption
<1>3. ASSUME NEW z \in Sizes PROVE z[1] \in Nat /\ z[1] # 0
  <2>1. z \in (Nat \ {0}) \X (Nat \ {0})
    BY <1>2
  <2>2. QED
    BY <2>1
<1>4. QED
  BY <1>1, <1>3 DEF Scaling

LEMMA ScaledIsPixels ==
    ASSUME NEW r, r.size \in Sizes, r.scale \in Scaling
    PROVE  Scaled(r) \in Pixels /\ Scaled(r) # None
<1>1. Scaled(r) \in Pixels
  BY DEF Scaled, Pixels, Scaling
<1>2. r.scale \in Nat /\ r.scale # 0 /\ r.size[1] \in Nat /\ r.size[1] # 0
  BY ScalesAndSizes
<1>3. r.scale * r.size[1] # 0
  BY <1>2
<1>4. QED
  BY <1>1, <1>3 DEF Scaled, None

LEMMA NoWindowBeforeSize ==
    ASSUME NEW r \in LockSurface, FrameFits(r), r.size = None
    PROVE  r.window = None
<1>1. r.scale \in Nat
  BY ScalesAndSizes DEF LockSurface, Scaling
<1>2. Scaled(r) = None
  BY <1>1 DEF Scaled, None
<1>3. QED
  BY <1>2 DEF FrameFits

(* GpuFrame and PresentShm, on an entry whose size is known.               *)
LEMMA GpuFrameSound ==
    ASSUME NEW r \in LockSurface, NEW fate, r.size \in Sizes,
           r.window = Scaled(r)
    PROVE  /\ Sound(GpuFrame(r, fate))
           /\ GpuFrame(r, fate).output = r.output
<1> DEFINE w == Scaled(r)
           pix == DrawChrome(r, fate).pixmap
           tex == DrawChrome(r, fate).texture
           ch == IF pix = None THEN None ELSE tex
           q == GpuFrame(r, fate)
<1>1. w \in Pixels /\ w # None
  BY ScaledIsPixels DEF LockSurface, Scaling
<1>2. pix = IF r.pixmap # r.window /\ "pixmap" \in fate THEN None ELSE w
  BY DEF DrawChrome, LockSurface
<1>3. tex = IF pix = None \/ ("texture" \in fate /\ r.texture = None)
            THEN r.texture ELSE w
  BY <1>2 DEF DrawChrome, LockSurface
<1>4. pix \in MaybePixels /\ tex \in MaybePixels
  BY <1>1, <1>2, <1>3 DEF MaybePixels, LockSurface
<1>5. ch \in {None, w}
  BY <1>2, <1>3
<1>6. q = [r EXCEPT !.pixmap = pix, !.texture = tex,
                    !.shown = Shown("egl", r, w, ch)]
  <2>1. DrawChrome(r, fate) = [r EXCEPT !.pixmap = pix, !.texture = tex]
    BY DEF DrawChrome, LockSurface
  <2>2. QED
    BY <2>1 DEF GpuFrame, LockSurface
<1>7. Shown("egl", r, w, ch) = [by |-> "egl", size |-> w, asked |-> w, chrome |-> ch]
  BY DEF Shown
<1>8. Shown("egl", r, w, ch) \in Frames
  BY <1>1, <1>5, <1>7 DEF Frames, MaybePixels
<1> HIDE DEF pix, tex, ch
<1>9. q \in LockSurface
  BY <1>4, <1>6, <1>8 DEF LockSurface
<1>10. /\ q.shown = [by |-> "egl", size |-> w, asked |-> w, chrome |-> ch]
       /\ q.window = w /\ q.size = r.size /\ q.scale = r.scale
       /\ q.output = r.output
  BY <1>6, <1>7 DEF LockSurface
<1>11. FrameFits(q)
  BY <1>1, <1>5, <1>10 DEF FrameFits, Scaled
<1>12. QED
  BY <1>9, <1>10, <1>11 DEF Sound

LEMMA PresentShmSound ==
    ASSUME NEW r \in LockSurface, NEW fate, r.size \in Sizes,
           r.window = None, FrameFits(r)
    PROVE  /\ Sound(PresentShm(r, fate))
           /\ PresentShm(r, fate).output = r.output
<1> DEFINE w == Scaled(r)
           kept == FittingBuffer(r)
           reused == kept # None /\ "busy" \notin fate
           buffer == IF reused \/ "buffer" \in fate THEN kept ELSE w
           attached == "attach" \notin fate /\ (reused \/ "buffer" \notin fate)
           sh == IF attached THEN Shown("shm", r, buffer, None) ELSE r.shown
           q == [r EXCEPT !.pool = TRUE, !.buffer = buffer, !.shown = sh]
<1>1. w \in Pixels /\ w # None
  BY ScaledIsPixels DEF LockSurface, Scaling
<1>2. kept \in {None, w}
  BY DEF FittingBuffer
<1>3. buffer \in MaybePixels
  BY <1>1, <1>2 DEF MaybePixels
<1>4. attached => buffer = w
  BY <1>2
<1>5. attached => sh = [by |-> "shm", size |-> w, asked |-> w, chrome |-> None]
  BY <1>4 DEF Shown
<1>6. sh \in Frames
  <2>1. CASE attached
    BY <1>1, <1>5, <2>1 DEF Frames, MaybePixels
  <2>2. CASE ~attached
    BY <2>2 DEF LockSurface
  <2>3. QED
    BY <2>1, <2>2
<1>7. sh = r.shown \/ sh = [by |-> "shm", size |-> w, asked |-> w, chrome |-> None]
  BY <1>5
<1>8. PresentShm(r, fate) \in {r, q}
  BY DEF PresentShm
<1> HIDE DEF sh, buffer, attached
<1>9. q \in LockSurface
  BY <1>3, <1>6 DEF LockSurface
<1>10. /\ q.shown = sh /\ q.window = None /\ q.size = r.size
       /\ q.scale = r.scale /\ q.output = r.output
  BY DEF LockSurface
<1>11. FrameFits(q)
  BY <1>1, <1>7, <1>10 DEF FrameFits, Scaled
<1>12. QED
  BY <1>8, <1>9, <1>10, <1>11 DEF Sound

(* A redraw, whatever befalls it, leaves a sound entry of the same output. *)
(* The window is the size that is asked for now, which a configure or a    *)
(* change of scale saw to; the last frame need not be.                     *)
LEMMA RedrawSound ==
    ASSUME NEW r \in LockSurface, NEW fate,
           r.window \in {None, Scaled(r)},
           FrameFits([r EXCEPT !.window = None]),
           r.size = None => r.window = None
    PROVE  /\ Sound(RedrawSurface(r, fate))
           /\ RedrawSurface(r, fate).output = r.output
<1>1. CASE r.size = None
  <2>1. [r EXCEPT !.window = None] = r
    BY <1>1 DEF LockSurface
  <2>2. QED
    BY <1>1, <2>1 DEF RedrawSurface, Sound
<1>2. CASE r.size # None /\ r.window # None /\ "egl" \notin fate
  <2>1. r.size \in Sizes
    BY <1>2 DEF LockSurface
  <2>2. r.window = Scaled(r)
    BY <1>2
  <2>3. RedrawSurface(r, fate) = GpuFrame(r, fate)
    BY <1>2 DEF RedrawSurface
  <2>4. QED
    BY <2>1, <2>2, <2>3, GpuFrameSound
<1>3. CASE r.size # None /\ ~(r.window # None /\ "egl" \notin fate)
  <2> DEFINE bare == [r EXCEPT !.window = None, !.pixmap = None, !.texture = None]
  <2>1. bare \in LockSurface
    BY DEF LockSurface, MaybePixels
  <2>2. /\ bare.size = r.size /\ bare.size \in Sizes /\ bare.window = None
        /\ bare.output = r.output /\ bare.shown = r.shown
    BY <1>3 DEF LockSurface
  <2>3. [r EXCEPT !.window = None].shown = r.shown
    BY DEF LockSurface
  <2>4. FrameFits(bare)
    BY <2>2, <2>3 DEF FrameFits
  <2>5. RedrawSurface(r, fate) = PresentShm(bare, fate)
    BY <1>3 DEF RedrawSurface
  <2> HIDE DEF bare
  <2>6. QED
    BY <2>1, <2>2, <2>4, <2>5, PresentShmSound
<1>4. QED
  BY <1>1, <1>2, <1>3
-----------------------------------------------------------------------------
(* The inductive invariant is the conjunction of what the run checks.      *)
IInv == TypeOK /\ SurfacePerOutput /\ CommitsAllowed

LEMMA Entries ==
    ASSUME IInv, NEW s \in DOMAIN surfaces
    PROVE  /\ surfaces[s] \in LockSurface
           /\ FrameFits(surfaces[s])
           /\ Sound(surfaces[s])
BY DEF IInv, TypeOK, CommitsAllowed, Sound

LEMMA Bounds == MaxChanges \in Nat /\ MaxFlaws \in Nat
BY SurfacesAssumption, Zenon DEF SurfacesAssumption

(* A step that only redraws: the same entries, of the same outputs.        *)
LEMMA RedrawingKeeps ==
    ASSUME IInv, Keep, changes' \in 0..MaxChanges, flaws' \in 0..MaxFlaws,
           DOMAIN surfaces' = DOMAIN surfaces,
           \A s \in DOMAIN surfaces :
              Sound(surfaces'[s]) /\ surfaces'[s].output = surfaces[s].output
    PROVE  IInv'
<1>1. TypeOK'
  BY DEF IInv, TypeOK, Keep, Sound
<1>2. Covered' = Covered
  BY DEF Covered
<1>3. SurfacePerOutput'
  BY <1>2 DEF IInv, SurfacePerOutput, Keep
<1>4. CommitsAllowed'
  BY DEF CommitsAllowed, Sound, FrameFits, Scaled
<1>5. QED
  BY <1>1, <1>3, <1>4 DEF IInv

(* Flaws(fate) is 0 or 1, and is only spent within the bound.              *)
LEMMA SpendInBound ==
    ASSUME IInv, NEW fate, Spend(Flaws(fate))
    PROVE  flaws' \in 0..MaxFlaws
BY Bounds DEF IInv, TypeOK, Spend, Flaws

LEMMA ConfigureKeeps ==
    ASSUME IInv, NEW s \in DOMAIN surfaces, NEW size \in Sizes, NEW fate \in Fates,
           Configure(s, size, fate)
    PROVE  IInv'
<1> DEFINE r == surfaces[s]
           sized == [r EXCEPT !.size = size]
           armed == [sized EXCEPT !.window = WindowFor(sized, fate)]
<1>1. r \in LockSurface /\ FrameFits(r)
  BY Entries
<1>2. sized \in LockSurface /\ sized.size = size /\ sized.scale \in Scaling
  BY <1>1 DEF LockSurface, Scaling
<1>3. Scaled(sized) \in Pixels
  BY <1>2, ScaledIsPixels
<1>4. WindowFor(sized, fate) \in {None, Scaled(sized)}
  BY DEF WindowFor
<1>5. WindowFor(sized, fate) \in MaybePixels
  BY <1>3, <1>4 DEF MaybePixels
<1>6. armed \in LockSurface
  BY <1>2, <1>5 DEF LockSurface
<1>7. /\ armed.size = size /\ armed.scale = r.scale /\ armed.shown = r.shown
      /\ armed.output = r.output /\ armed.window = WindowFor(sized, fate)
      /\ sized.scale = r.scale
  BY <1>1 DEF LockSurface
<1>8. armed.window \in {None, Scaled(armed)}
  BY <1>2, <1>4, <1>7 DEF Scaled
<1>9. /\ [armed EXCEPT !.window = None].window = None
      /\ [armed EXCEPT !.window = None].shown = r.shown
  BY <1>6, <1>7 DEF LockSurface
<1>10. FrameFits([armed EXCEPT !.window = None])
  BY <1>1, <1>9 DEF FrameFits
<1>11. size # None
  BY ScalesAndSizes DEF None
<1> HIDE DEF armed
<1>12. /\ Sound(RedrawSurface(armed, fate))
       /\ RedrawSurface(armed, fate).output = r.output
  BY <1>6, <1>7, <1>8, <1>10, <1>11, RedrawSound
<1>13. surfaces' = [surfaces EXCEPT ![s] = RedrawSurface(armed, fate)]
  BY DEF Configure, armed
<1>14. changes' \in 0..MaxChanges
  BY Bounds DEF Configure, IInv, TypeOK
<1>15. Keep /\ flaws' \in 0..MaxFlaws
  BY SpendInBound DEF Configure
<1>16. QED
  BY <1>12, <1>13, <1>14, <1>15, Entries, RedrawingKeeps

LEMMA ScaleFactorChangedKeeps ==
    ASSUME IInv, NEW s \in DOMAIN surfaces, NEW factor \in Scales, NEW fate \in Fates,
           ScaleFactorChanged(s, factor, fate)
    PROVE  IInv'
<1> DEFINE r == surfaces[s]
           k == IF factor = 0 THEN 1 ELSE factor
           scaled == [r EXCEPT !.scale = k]
           window == IF r.window = None THEN None ELSE Scaled(scaled)
           armed == [scaled EXCEPT !.window = window]
<1>1. r \in LockSurface /\ FrameFits(r)
  BY Entries
<1>2. k \in Scaling
  BY DEF Scaling
<1>3. scaled \in LockSurface /\ scaled.scale = k /\ scaled.size = r.size
      /\ scaled.window = r.window
  BY <1>1, <1>2 DEF LockSurface, Scaling
<1>4. r.size = None => r.window = None
  BY <1>1, NoWindowBeforeSize
<1>5. window \in MaybePixels
  <2>1. CASE r.size = None
    BY <2>1, <1>4 DEF MaybePixels
  <2>2. CASE r.size # None
    <3>1. r.size \in Sizes
      BY <1>1, <2>2 DEF LockSurface
    <3>2. QED
      BY <1>2, <1>3, <3>1, ScaledIsPixels DEF MaybePixels
  <2>3. QED
    BY <2>1, <2>2
<1>6. armed \in LockSurface
  BY <1>3, <1>5 DEF LockSurface
<1>7. /\ armed.size = r.size /\ armed.scale = k /\ armed.shown = r.shown
      /\ armed.output = r.output /\ armed.window = window
  BY <1>1 DEF LockSurface
<1>8. armed.window \in {None, Scaled(armed)}
  BY <1>3, <1>7 DEF Scaled
<1>9. /\ [armed EXCEPT !.window = None].window = None
      /\ [armed EXCEPT !.window = None].shown = r.shown
  BY <1>6, <1>7 DEF LockSurface
<1>10. FrameFits([armed EXCEPT !.window = None])
  BY <1>1, <1>9 DEF FrameFits
<1>11. armed.size = None => armed.window = None
  BY <1>4, <1>7
<1>12. surfaces' = [surfaces EXCEPT ![s] = RedrawSurface(armed, fate)]
  BY <1>3 DEF ScaleFactorChanged
<1> HIDE DEF armed
<1>13. /\ Sound(RedrawSurface(armed, fate))
       /\ RedrawSurface(armed, fate).output = r.output
  BY <1>6, <1>7, <1>8, <1>10, <1>11, RedrawSound
<1>14. changes' \in 0..MaxChanges
  BY Bounds DEF ScaleFactorChanged, IInv, TypeOK
<1>15. Keep /\ flaws' \in 0..MaxFlaws
  BY SpendInBound DEF ScaleFactorChanged
<1>16. QED
  BY <1>12, <1>13, <1>14, <1>15, Entries, RedrawingKeeps

LEMMA RedrawAllKeeps ==
    ASSUME IInv, NEW t \in DOMAIN surfaces, NEW fate \in Fates, RedrawAll(t, fate)
    PROVE  IInv'
<1>1. ASSUME NEW s \in DOMAIN surfaces, NEW f
      PROVE  /\ Sound(RedrawSurface(surfaces[s], f))
             /\ RedrawSurface(surfaces[s], f).output = surfaces[s].output
  <2> DEFINE r == surfaces[s]
  <2>1. r \in LockSurface /\ FrameFits(r)
    BY Entries
  <2>2. r.window \in {None, Scaled(r)}
    BY <2>1 DEF FrameFits
  <2>3. r.size = None => r.window = None
    BY <2>1, NoWindowBeforeSize
  <2>4. /\ [r EXCEPT !.window = None].window = None
        /\ [r EXCEPT !.window = None].shown = r.shown
    BY <2>1 DEF LockSurface
  <2>5. FrameFits([r EXCEPT !.window = None])
    BY <2>1, <2>4 DEF FrameFits
  <2> HIDE DEF r
  <2>6. /\ Sound(RedrawSurface(r, f))
        /\ RedrawSurface(r, f).output = r.output
    BY <2>1, <2>2, <2>3, <2>5, RedrawSound
  <2>7. QED
    BY <2>6 DEF r
<1>2. /\ DOMAIN surfaces' = DOMAIN surfaces
      /\ \A s \in DOMAIN surfaces :
            surfaces'[s] = RedrawSurface(surfaces[s], IF s = t THEN fate ELSE Fine)
  BY DEF RedrawAll
<1>3. Keep /\ changes' \in 0..MaxChanges /\ flaws' \in 0..MaxFlaws
  BY SpendInBound DEF RedrawAll, IInv, TypeOK
<1>4. QED
  BY <1>1, <1>2, <1>3, RedrawingKeeps
-----------------------------------------------------------------------------
LEMMA NewSurfaceSound ==
    ASSUME NEW o \in Outputs
    PROVE  Sound(NewSurface(o)) /\ NewSurface(o).output = o
<1>1. NoFrame \in Frames
  BY DEF NoFrame, Frames, MaybePixels
<1>2. 1 \in (Scales \union {1}) \ {0}
  OBVIOUS
<1>3. NewSurface(o) \in LockSurface
  BY <1>1, <1>2 DEF NewSurface, LockSurface, MaybePixels
<1>4. FrameFits(NewSurface(o))
  BY DEF NewSurface, FrameFits, NoFrame
<1>5. QED
  BY <1>3, <1>4 DEF Sound, NewSurface

(* An announced output is either covered already (main), or gets an entry  *)
(* under an identity that no entry has.                                    *)
LEMMA AnnounceKeeps ==
    ASSUME IInv, NEW o \in Outputs, Announce(o)
    PROVE  IInv'
<1>1. /\ standing[o] \in {"new", "brief"}
      /\ standing' = [standing EXCEPT ![o] = IF @ = "new" THEN "here" ELSE "left"]
      /\ UNCHANGED <<renderer, exit, changes, flaws>>
  BY DEF Announce, NewOutput
<1>2. standing' \in [Outputs -> Standings]
  BY <1>1 DEF IInv, TypeOK, Standings
<1>3. \A p \in Outputs : standing'[p] = "away" => standing[p] = "away"
  BY <1>1 DEF IInv, TypeOK
<1>4. \A p \in Outputs : p # o => standing'[p] = standing[p]
  BY <1>1 DEF IInv, TypeOK
<1>5. standing'[o] # "away"
  BY <1>1 DEF IInv, TypeOK
<1>6. CASE UNCHANGED surfaces /\ (o \in Covered \/ exit)
  <2>1. TypeOK'
    BY <1>1, <1>2, <1>6 DEF IInv, TypeOK
  <2>2. Covered' = Covered
    BY <1>6 DEF Covered
  <2>3. \A s \in DOMAIN surfaces : surfaces[s].output \in Outputs
    BY Entries DEF LockSurface
  <2>4. SurfacePerOutput'
    BY <1>1, <1>3, <1>4, <1>6, <2>2, <2>3 DEF IInv, SurfacePerOutput
  <2>5. CommitsAllowed'
    BY <1>6 DEF IInv, CommitsAllowed, FrameFits, Scaled
  <2>6. QED
    BY <2>1, <2>4, <2>5 DEF IInv
<1>7. CASE /\ o \notin Covered /\ ~exit
           /\ \E s \in SurfaceIds \ DOMAIN surfaces :
                 surfaces' = [t \in DOMAIN surfaces \union {s} |->
                                IF t = s THEN NewSurface(o) ELSE surfaces[t]]
  <2>1. PICK s \in SurfaceIds \ DOMAIN surfaces :
            surfaces' = [t \in DOMAIN surfaces \union {s} |->
                           IF t = s THEN NewSurface(o) ELSE surfaces[t]]
    BY <1>7
  <2>2. DOMAIN surfaces' = DOMAIN surfaces \union {s}
    BY <2>1
  <2>3. surfaces'[s] = NewSurface(o) /\ surfaces'[s].output = o
    BY <2>1, NewSurfaceSound
  <2>4. \A t \in DOMAIN surfaces : surfaces'[t] = surfaces[t]
    BY <2>1
  <2>5. \A t \in DOMAIN surfaces' : Sound(surfaces'[t])
    BY <2>2, <2>3, <2>4, NewSurfaceSound, Entries
  <2>6. DOMAIN surfaces \subseteq SurfaceIds
    BY DEF IInv, TypeOK
  <2>7. TypeOK'
    BY <1>1, <1>2, <2>2, <2>5, <2>6 DEF IInv, TypeOK, Sound
  <2>8. CommitsAllowed'
    BY <2>5 DEF CommitsAllowed, Sound, FrameFits, Scaled
  <2>9. \A t \in DOMAIN surfaces : surfaces[t].output \in Outputs \ {o}
    BY <1>7, Entries DEF LockSurface, Covered
  <2>10. \A t, u \in DOMAIN surfaces' :
            surfaces'[t].output = surfaces'[u].output => t = u
    BY <2>2, <2>3, <2>4, <2>9 DEF IInv, SurfacePerOutput
  <2>11. \A t \in DOMAIN surfaces' : standing'[surfaces'[t].output] # "away"
    BY <1>4, <1>5, <2>2, <2>3, <2>4, <2>9 DEF IInv, SurfacePerOutput
  <2>12. \A p \in Covered \union {o} : p \in Covered'
    BY <2>2, <2>3, <2>4 DEF Covered
  <2>13. \A p \in Outputs : standing'[p] = "here" => p \in Covered'
    BY <1>4, <1>7, <2>12 DEF IInv, SurfacePerOutput
  <2>14. QED
    BY <2>7, <2>8, <2>10, <2>11, <2>13 DEF IInv, SurfacePerOutput
<1>8. QED
  BY <1>6, <1>7 DEF Announce, NewOutput

LEMMA OutputDestroyedKeeps ==
    ASSUME IInv, NEW o \in Outputs, OutputDestroyed(o)
    PROVE  IInv'
<1> DEFINE kept == {t \in DOMAIN surfaces : surfaces[t].output # o}
<1>1. /\ DOMAIN surfaces' = kept
      /\ \A t \in kept : surfaces'[t] = surfaces[t]
  BY DEF OutputDestroyed
<1>2. /\ standing[o] = "left"
      /\ standing' = [standing EXCEPT ![o] = "away"]
      /\ UNCHANGED <<renderer, exit, changes, flaws>>
  BY DEF OutputDestroyed
<1>3. standing' \in [Outputs -> Standings]
  BY <1>2 DEF IInv, TypeOK, Standings
<1>4. \A t \in DOMAIN surfaces' : Sound(surfaces'[t])
  BY <1>1, Entries
<1>5. DOMAIN surfaces' \subseteq SurfaceIds
  BY <1>1 DEF IInv, TypeOK
<1>6. TypeOK'
  BY <1>2, <1>3, <1>4, <1>5 DEF IInv, TypeOK, Sound
<1>7. CommitsAllowed'
  BY <1>4 DEF CommitsAllowed, Sound, FrameFits, Scaled
<1>8. standing'[o] = "away" /\ \A p \in Outputs \ {o} : standing'[p] = standing[p]
  BY <1>2 DEF IInv, TypeOK
<1>9. \A p \in Covered \ {o} : p \in Covered'
  BY <1>1 DEF Covered
<1>10. \A t \in kept : surfaces[t].output \in Outputs \ {o}
  BY Entries DEF LockSurface
<1>11. SurfacePerOutput'
  BY <1>1, <1>2, <1>8, <1>9, <1>10 DEF IInv, SurfacePerOutput
<1>12. QED
  BY <1>6, <1>7, <1>11 DEF IInv

(* Plugging and unplugging change what the compositor will say, and no     *)
(* entry; an output that was covered is not away after them.               *)
LEMMA PlugsKeep ==
    ASSUME IInv, NEW o \in Outputs, Plug(o) \/ Unplug(o)
    PROVE  IInv'
<1>1. /\ standing'[o] \in {"new", "brief", "left"}
      /\ \A p \in Outputs \ {o} : standing'[p] = standing[p]
      /\ standing' \in [Outputs -> Standings]
  BY DEF IInv, TypeOK, Plug, Unplug, Standings
<1>2. UNCHANGED <<surfaces, renderer, exit, flaws>>
  BY DEF Plug, Unplug
<1>3. changes' \in 0..MaxChanges
  BY Bounds DEF IInv, TypeOK, Plug, Unplug
<1>4. TypeOK'
  BY <1>1, <1>2, <1>3 DEF IInv, TypeOK
<1>5. Covered' = Covered
  BY <1>2 DEF Covered
<1>6. \A s \in DOMAIN surfaces : surfaces[s].output \in Outputs
  BY Entries DEF LockSurface
<1>7. SurfacePerOutput'
  BY <1>1, <1>2, <1>5, <1>6 DEF IInv, SurfacePerOutput
<1>8. CommitsAllowed'
  BY <1>2 DEF IInv, CommitsAllowed, FrameFits, Scaled
<1>9. QED
  BY <1>4, <1>7, <1>8 DEF IInv

LEMMA StutterKeeps ==
    ASSUME IInv, UNCHANGED <<standing, surfaces, renderer, changes, flaws>>,
           exit' \in {exit, TRUE}
    PROVE  IInv'
<1>1. TypeOK'
  BY DEF IInv, TypeOK
<1>2. SurfacePerOutput'
  BY DEF IInv, SurfacePerOutput, Covered, TypeOK
<1>3. CommitsAllowed'
  BY DEF IInv, CommitsAllowed, FrameFits, Scaled
<1>4. QED
  BY <1>1, <1>2, <1>3 DEF IInv
-----------------------------------------------------------------------------
LEMMA InitEstablishes == Init => IInv
<1> SUFFICES ASSUME Init PROVE IInv
  OBVIOUS
<1>1. PICK bound \in SUBSET Outputs, name \in [Outputs -> SurfaceIds] :
        /\ \A o, p \in Outputs : name[o] = name[p] => o = p
        /\ standing = [o \in Outputs |-> IF o \in bound THEN "new" ELSE "away"]
        /\ surfaces = [s \in {name[o] : o \in bound} |->
                          NewSurface(CHOOSE o \in bound : name[o] = s)]
  BY DEF Init
<1> DEFINE owner(s) == CHOOSE o \in bound : name[o] = s
<1>2. \A s \in DOMAIN surfaces : owner(s) \in bound /\ name[owner(s)] = s
  BY <1>1
<1>3. \A s \in DOMAIN surfaces :
        /\ surfaces[s] = NewSurface(owner(s))
        /\ surfaces[s].output = owner(s)
        /\ Sound(surfaces[s])
  BY <1>1, <1>2, NewSurfaceSound
<1> HIDE DEF owner
<1>4. DOMAIN surfaces \subseteq SurfaceIds
  BY <1>1
<1>5. standing \in [Outputs -> Standings]
  BY <1>1 DEF Standings
<1>6. TypeOK
  <2>1. changes \in 0..MaxChanges /\ flaws \in 0..MaxFlaws
    BY Bounds, SMT DEF Init
  <2>2. renderer \in BOOLEAN /\ exit \in BOOLEAN
    BY Zenon DEF Init
  <2>3. QED
    BY <1>3, <1>4, <1>5, <2>1, <2>2, Zenon DEF TypeOK, Sound
<1>7. CommitsAllowed
  BY <1>3 DEF CommitsAllowed, Sound
<1>8. \A s \in DOMAIN surfaces : standing[surfaces[s].output] = "new"
  <2>1. \A o \in bound : o \in Outputs
    OBVIOUS
  <2>2. \A o \in bound : standing[o] = "new"
    BY <1>1, <2>1
  <2>3. QED
    BY <1>2, <1>3, <2>2, Zenon
<1>9. \A o \in Outputs : standing[o] # "here"
  BY <1>1
<1>10. SurfacePerOutput
  BY <1>2, <1>3, <1>8, <1>9 DEF SurfacePerOutput
<1>11. QED
  BY <1>6, <1>7, <1>10 DEF IInv

LEMMA StepKeeps == IInv /\ [Next]_vars => IInv'
<1> SUFFICES ASSUME IInv, [Next]_vars PROVE IInv'
  OBVIOUS
<1>1. ASSUME NEW o \in Outputs, Plug(o) \/ Unplug(o) PROVE IInv'
  BY <1>1, PlugsKeep
<1>2. ASSUME NEW o \in Outputs, Announce(o) PROVE IInv'
  BY <1>2, AnnounceKeeps
<1>3. ASSUME NEW o \in Outputs, OutputDestroyed(o) PROVE IInv'
  BY <1>3, OutputDestroyedKeeps
<1>4. ASSUME NEW s \in DOMAIN surfaces, NEW fate \in Fates, NEW size \in Sizes,
             Configure(s, size, fate)
      PROVE  IInv'
  BY <1>4, ConfigureKeeps
<1>5. ASSUME NEW s \in DOMAIN surfaces, NEW fate \in Fates, NEW factor \in Scales,
             ScaleFactorChanged(s, factor, fate)
      PROVE  IInv'
  BY <1>5, ScaleFactorChangedKeeps
<1>6. ASSUME NEW s \in DOMAIN surfaces, NEW fate \in Fates, RedrawAll(s, fate)
      PROVE  IInv'
  BY <1>6, RedrawAllKeeps
<1>7. CASE LockEnds \/ UNCHANGED vars
  BY <1>7, StutterKeeps DEF LockEnds, vars
<1>8. QED
  BY <1>1, <1>2, <1>3, <1>4, <1>5, <1>6, <1>7 DEF Next

LEMMA Invariance == Spec => []IInv
BY InitEstablishes, StepKeeps, PTL DEF Spec

(* Every entry of AppState::surfaces and every size it caches is of its    *)
(* type, in particular no size outside those that were configured and      *)
(* scaled ever reaches a buffer.                                           *)
THEOREM TypeCorrect == Spec => []TypeOK
<1>1. IInv => TypeOK
  BY DEF IInv
<1>2. QED
  BY <1>1, Invariance, PTL

(* However outputs come and go, while the handlers run behind the          *)
(* compositor, and whichever outputs main had bound: one lock surface for  *)
(* each, and none for an output that is gone.                              *)
THEOREM OneSurfacePerOutput == Spec => []SurfacePerOutput
<1>1. IInv => SurfacePerOutput
  BY DEF IInv
<1>2. QED
  BY <1>1, Invariance, PTL

(* No step of a frame that fails, and no order of configures, scales and   *)
(* failures, commits a buffer of a size that was not asked for.            *)
THEOREM FramesFit == Spec => []CommitsAllowed
<1>1. IInv => CommitsAllowed
  BY DEF IInv
<1>2. QED
  BY <1>1, Invariance, PTL
=============================================================================
