------------------------------- MODULE Surfaces -------------------------------
(***************************************************************************)
(* Monitors that come and go, the lock surface breadlock keeps for each,   *)
(* and the frames it commits to them (breadlock/src/lock/surface.rs,       *)
(* lock/session.rs, the presenting half of state.rs, the per-surface half  *)
(* of gpu.rs).                                                             *)
(*                                                                         *)
(* ext-session-lock-v1 ends the client that gives one output two lock      *)
(* surfaces, or commits a buffer before the first configure or of another  *)
(* size than the last one acknowledged; the session then stays locked over *)
(* a dead locker.  A size here is a pair in surface coordinates; what is   *)
(* drawn on a frame is left out, but for the chrome of the GPU path, whose *)
(* pixmap and texture have sizes of their own.                             *)
(***************************************************************************)
EXTENDS Naturals, FiniteSets

CONSTANTS
    Outputs,        \* wl_output objects
    SurfaceIds,     \* identities of LockSurface entries
    Sizes,          \* sizes the compositor configures
    Scales,         \* factors of scale_factor_changed, 0 among them
    MaxChanges,     \* bound on plugs, on configures after the first of a
                    \* surface and on changes of scale, together
    Fates,          \* combinations of mishaps one frame may meet
    MaxFlaws        \* bound on the frames that meet with a failure

ASSUME SurfacesAssumption ==
    /\ IsFiniteSet(Outputs)
    /\ IsFiniteSet(SurfaceIds)
    /\ Cardinality(Outputs) <= Cardinality(SurfaceIds)
    /\ Sizes \subseteq (Nat \ {0}) \X (Nat \ {0})
    /\ Scales \subseteq Nat
    /\ {MaxChanges, MaxFlaws} \subseteq Nat
    /\ Fates \subseteq SUBSET {"window", "pixmap", "texture", "egl", "compose",
                                "pool", "buffer", "attach", "busy"}
    /\ {} \in Fates

VARIABLES
    standing,   \* per output, what became of it and what the program was told
    surfaces,   \* the entries of AppState::surfaces, by identity
    renderer,   \* gpu.is_some(): there is a GpuRenderer
    exit,       \* exit; session_lock has been taken exactly when it is set
    changes,    \* changes so far
    flaws       \* frames that met with a failure

vars == <<standing, surfaces, renderer, exit, changes, flaws>>

\* Events of an output are delivered in order: "new" is plugged and not
\* announced yet, "left" is unplugged and known, "brief" is both unplugged
\* and not even announced yet.
Standings == {"away", "new", "here", "left", "brief"}

None == <<0, 0>>

Pixels == {<<k * z[1], k * z[2]>> : z \in Sizes, k \in (Scales \union {1}) \ {0}}

MaybePixels == Pixels \union {None}

\* What a committed frame was made of: its buffer, the size that was asked
\* for at that time, and the texture its chrome came from.
Frames == [by: {"none", "egl", "shm"}, size: MaybePixels, asked: MaybePixels,
           chrome: MaybePixels]

NoFrame == [by |-> "none", size |-> None, asked |-> None, chrome |-> None]

LockSurface == [output: Outputs,
                size: Sizes \union {None},           \* width, height
                scale: (Scales \union {1}) \ {0},
                window: MaybePixels,    \* gpu: its wl_egl_window, or None
                pixmap: MaybePixels,    \* chrome_pixmap
                texture: MaybePixels,   \* chrome_tex_size
                pool: BOOLEAN,          \* shm_pool.is_some()
                buffer: MaybePixels,    \* shm_buffer, or None
                shown: Frames]          \* the last commit

TypeOK ==
    /\ standing \in [Outputs -> Standings]
    /\ DOMAIN surfaces \subseteq SurfaceIds
    /\ \A s \in DOMAIN surfaces : surfaces[s] \in LockSurface
    /\ renderer \in BOOLEAN
    /\ exit \in BOOLEAN
    /\ changes \in 0..MaxChanges
    /\ flaws \in 0..MaxFlaws

NewSurface(o) == [output |-> o, size |-> None, scale |-> 1, window |-> None,
                  pixmap |-> None, texture |-> None, pool |-> FALSE,
                  buffer |-> None, shown |-> NoFrame]

Covered == {surfaces[s].output : s \in DOMAIN surfaces}

\* run_lock up to the dispatch loop: the outputs bound from the registry get
\* a surface each at once; their new_output is still to come.
Init ==
    /\ \E bound \in SUBSET Outputs, name \in [Outputs -> SurfaceIds] :
        /\ \A o, p \in Outputs : name[o] = name[p] => o = p
        /\ standing = [o \in Outputs |-> IF o \in bound THEN "new" ELSE "away"]
        /\ surfaces = [s \in {name[o] : o \in bound} |->
                          NewSurface(CHOOSE o \in bound : name[o] = s)]
    /\ renderer \in BOOLEAN
    /\ exit = FALSE
    /\ changes = 0
    /\ flaws = 0

-----------------------------------------------------------------------------
\* A fate is the set of mishaps of one frame.  "window": no EGL window or
\* surface can be made; "pixmap", "texture": there is none for the chrome;
\* "egl": make_current or swap_buffers fails; "compose", "pool", "buffer",
\* "attach": that step of the software path fails; "busy", which is no flaw:
\* the compositor still reads the shm buffer.
Fine == {}

Flaws(fate) == IF fate \subseteq {"busy"} THEN 0 ELSE 1

Spend(n) == flaws + n <= MaxFlaws /\ flaws' = flaws + n

Scaled(r) == <<r.scale * r.size[1], r.scale * r.size[2]>>

Shown(by, r, size, chrome) ==
    [by |-> by, size |-> size, asked |-> Scaled(r), chrome |-> chrome]

\* Mutant: a pixmap that could not be had is not asked for again.
DrawChromeGivesUp(r, fate) ==
    LET stale == r.pixmap # None /\ r.pixmap # r.window
        first == r.shown.by = "none"
        pixmap == IF ~stale /\ ~first THEN r.pixmap
                  ELSE IF "pixmap" \in fate THEN None ELSE r.window
    IN  [r EXCEPT !.pixmap = pixmap,
                  !.texture = IF pixmap = None THEN @ ELSE r.window]

\* draw_chrome.  The pixmap is remade when its size is not the window's, the
\* texture is created by the first frame that has a pixmap and resized with
\* the window; what could not be had leaves this frame without chrome.
DrawChrome(r, fate) ==
    LET pixmap == IF r.pixmap # r.window /\ "pixmap" \in fate THEN None
                  ELSE r.window
        untextured == pixmap = None \/ ("texture" \in fate /\ r.texture = None)
    IN  [r EXCEPT !.pixmap = pixmap,
                  !.texture = IF untextured THEN @ ELSE r.window]

GpuFrame(r, fate) ==
    LET q == DrawChrome(r, fate)
    IN  [q EXCEPT !.shown = Shown("egl", r, r.window,
                                  IF q.pixmap = None THEN None ELSE q.texture)]

\* Mutant: a buffer is kept if it has the right number of bytes.
FittingBufferBytes(r) ==
    IF r.buffer[1] * r.buffer[2] = Scaled(r)[1] * Scaled(r)[2]
    THEN r.buffer ELSE None

\* The shm buffer, unless its height or its stride is not the frame's.
FittingBuffer(r) == IF r.buffer = Scaled(r) THEN r.buffer ELSE None

\* present_shm, after compose.
PresentShm(r, fate) ==
    LET kept == FittingBuffer(r)
        reused == kept # None /\ "busy" \notin fate
        buffer == IF reused \/ "buffer" \in fate THEN kept ELSE Scaled(r)
        attached == "attach" \notin fate /\ (reused \/ "buffer" \notin fate)
    IN  IF "compose" \in fate \/ ("pool" \in fate /\ ~r.pool)
        THEN r
        ELSE [r EXCEPT !.pool = TRUE,
                       !.buffer = buffer,
                       !.shown = IF attached THEN Shown("shm", r, buffer, None)
                                 ELSE r.shown]

\* redraw_surface: the GPU frame if there is an EGL window, else, or if it
\* fails, the software frame; the window is dropped before the buffer is
\* attached.  Nothing is drawn before the first configure.
RedrawSurface(r, fate) ==
    IF r.size = None THEN r
    ELSE IF r.window # None /\ "egl" \notin fate
         THEN GpuFrame(r, fate)
         ELSE PresentShm([r EXCEPT !.window = None, !.pixmap = None,
                                   !.texture = None], fate)

\* The EGL window after a configure: it is made if there is none (also when
\* an earlier one was dropped), and follows the size otherwise.
WindowFor(r, fate) ==
    IF ~renderer THEN None
    ELSE IF r.window = None /\ "window" \in fate THEN None
    ELSE Scaled(r)

Keep == UNCHANGED <<standing, renderer, exit>>
-----------------------------------------------------------------------------
\* Monitors and what the compositor says of them.
Plug(o) ==
    /\ standing[o] = "away"
    /\ changes < MaxChanges
    /\ changes' = changes + 1
    /\ standing' = [standing EXCEPT ![o] = "new"]
    /\ UNCHANGED <<surfaces, renderer, exit, flaws>>

Unplug(o) ==
    /\ standing[o] \in {"new", "here"}
    /\ standing' = [standing EXCEPT
                       ![o] = IF @ = "new" THEN "brief" ELSE "left"]
    /\ UNCHANGED <<surfaces, renderer, exit, changes, flaws>>

\* Mutant: the outputs main already covered are not recognised.
NewOutputAgain(o) ==
    /\ standing[o] \in {"new", "brief"}
    /\ standing' = [standing EXCEPT
                       ![o] = IF @ = "new" THEN "here" ELSE "left"]
    /\ IF exit
       THEN UNCHANGED surfaces
       ELSE \E s \in SurfaceIds \ DOMAIN surfaces :
              surfaces' = [t \in DOMAIN surfaces \union {s} |->
                             IF t = s THEN NewSurface(o) ELSE surfaces[t]]

\* new_output: a surface, unless main made one already or there is no lock.
NewOutput(o) ==
    /\ standing[o] \in {"new", "brief"}
    /\ standing' = [standing EXCEPT
                       ![o] = IF @ = "new" THEN "here" ELSE "left"]
    /\ IF o \in Covered \/ exit
       THEN UNCHANGED surfaces
       ELSE \E s \in SurfaceIds \ DOMAIN surfaces :
              surfaces' = [t \in DOMAIN surfaces \union {s} |->
                             IF t = s THEN NewSurface(o) ELSE surfaces[t]]

Announce(o) ==
    /\ NewOutput(o)
    /\ UNCHANGED <<renderer, exit, changes, flaws>>

\* output_destroyed
OutputDestroyed(o) ==
    /\ standing[o] = "left"
    /\ standing' = [standing EXCEPT ![o] = "away"]
    /\ surfaces' = [s \in {t \in DOMAIN surfaces : surfaces[t].output # o} |->
                       surfaces[s]]
    /\ UNCHANGED <<renderer, exit, changes, flaws>>

\* configure.  The compositor sends one for every new surface, later ones
\* when the mode of the output changes.
Configure(s, size, fate) ==
    LET sized == [surfaces[s] EXCEPT !.size = size]
    IN  /\ IF surfaces[s].size = None
           THEN UNCHANGED changes
           ELSE /\ size # surfaces[s].size
                /\ changes < MaxChanges
                /\ changes' = changes + 1
        /\ surfaces' = [surfaces EXCEPT
              ![s] = RedrawSurface([sized EXCEPT !.window = WindowFor(sized, fate)],
                                   fate)]
        /\ Spend(Flaws(fate))
        /\ Keep

\* scale_factor_changed; a factor of 0 counts as 1.
ScaleFactorChanged(s, factor, fate) ==
    LET scaled == [surfaces[s] EXCEPT !.scale = IF factor = 0 THEN 1 ELSE factor]
    IN  /\ scaled.scale # surfaces[s].scale
        /\ changes < MaxChanges
        /\ changes' = changes + 1
        /\ surfaces' = [surfaces EXCEPT
              ![s] = RedrawSurface(
                       [scaled EXCEPT !.window = IF @ = None THEN None
                                                 ELSE Scaled(scaled)], fate)]
        /\ Spend(Flaws(fate))
        /\ Keep

\* redraw_all: the clock tick, a key, a result, a status line, a palette.
\* In one pass the frame of at most one surface has a fate of its own.
RedrawAll(t, fate) ==
    /\ surfaces' = [s \in DOMAIN surfaces |->
                      RedrawSurface(surfaces[s], IF s = t THEN fate ELSE Fine)]
    /\ Spend(Flaws(fate))
    /\ UNCHANGED changes
    /\ Keep

\* complete_unlock_if_ready, or finished: the lock is taken and the loop ends
\* when the handlers of this dispatch have run.
LockEnds ==
    /\ exit' = TRUE
    /\ UNCHANGED <<standing, surfaces, renderer, changes, flaws>>

Next ==
    \/ \E o \in Outputs : Plug(o) \/ Unplug(o) \/ Announce(o) \/ OutputDestroyed(o)
    \/ \E s \in DOMAIN surfaces, fate \in Fates :
          \/ \E size \in Sizes : Configure(s, size, fate)
          \/ \E factor \in Scales : ScaleFactorChanged(s, factor, fate)
          \/ RedrawAll(s, fate)
    \/ LockEnds

Spec == Init /\ [][Next]_vars

(***************************************************************************)
(* The loop delivers what the compositor sent, the compositor configures   *)
(* the surfaces it was given, and the 1 s timer redraws.                   *)
(***************************************************************************)
Tick == \E s \in DOMAIN surfaces : RedrawAll(s, Fine)

FirstConfigure(s) ==
    /\ s \in DOMAIN surfaces
    /\ surfaces[s].size = None
    /\ \E size \in Sizes, fate \in Fates : Configure(s, size, fate)

Fairness ==
    /\ WF_vars(Tick)
    /\ \A o \in Outputs :
        /\ WF_vars(Announce(o))
        /\ WF_vars(OutputDestroyed(o))
    /\ \A s \in SurfaceIds : WF_vars(FirstConfigure(s))

FairSpec == Spec /\ Fairness
-----------------------------------------------------------------------------
(* surface.rs: "One lock surface per output is a protocol requirement", and *)
(* an entry goes with its output: no output has two, none is left over, and *)
(* as long as the locker stays every output it was told of has one.         *)
SurfacePerOutput ==
    /\ \A s, t \in DOMAIN surfaces : surfaces[s].output = surfaces[t].output => s = t
    /\ \A s \in DOMAIN surfaces : standing[surfaces[s].output] # "away"
    /\ ~exit => \A o \in Outputs : standing[o] = "here" => o \in Covered

(* Every frame has the size that was asked for when it was committed, with *)
(* chrome from a texture of that size, and an EGL window never has a shm   *)
(* frame attached under it.                                                *)
FrameFits(r) ==
    /\ r.shown.size = r.shown.asked
    /\ r.shown.chrome \in {None, r.shown.size}
    /\ r.shown.by # "none" => r.shown.asked # None
    /\ r.window # None => r.shown.by = "egl" /\ r.window = Scaled(r)

CommitsAllowed == \A s \in DOMAIN surfaces : FrameFits(surfaces[s])

(* An output that stays gets a whole frame of the size it has then, again   *)
(* and again, however many frames failed before.                            *)
Shows(o) == \E s \in DOMAIN surfaces :
    /\ surfaces[s].output = o
    /\ surfaces[s].shown.by # "none"
    /\ surfaces[s].shown.size = Scaled(surfaces[s])
    /\ surfaces[s].shown.by = "egl" => surfaces[s].shown.chrome # None

EveryOutputShows ==
    \A o \in Outputs : []<>(standing[o] \in {"new", "here"} => Shows(o) \/ exit)
=============================================================================
