# Formal models of breadlock and breadgreet

TLA+ models of this repository, the TLC runs that check them on small
instances and the theorems that the TLA+ proof system (TLAPS) proves about
them for every value of their constants. `PROJECT.json` says which lines of
the source each definition stands for, which properties each run checks, and
which hazard of the code each property is for.

Contents: [the system](#the-system) - [the modules](#the-modules) -
[the runs](#the-runs) - [fairness](#fairness) - [the proofs](#the-proofs) -
[disagreements found](#disagreements-between-the-code-and-its-documents) -
[what is not modelled](#what-is-not-modelled) - [plan](#plan).

## The system

Two programs and a library. `breadlock` locks a Wayland session
(`ext-session-lock-v1`) and asks PAM for the password. `breadgreet` is a GTK
login screen that talks to greetd. `breadlock-ui` holds what they share.

| Component | Source | State it keeps | Operations | Talks to |
|---|---|---|---|---|
| Lock, authentication, event loop | `breadlock/src/main.rs`, `state.rs`, `lock/session.rs`, `input/keyboard.rs` | `AuthState`, two generations, the password and its dots, the unlock fade, the session lock, `exit` | key press, PAM result, fail-clear timer, `locked`, `finished`, redraw, dispatch, final roundtrip | PAM threads (channel), compositor (Wayland), bus (events) |
| PAM attempts | `breadlock/src/auth/mod.rs` | `IN_FLIGHT`, two threads per attempt, result channel | reserve, spawn, relay, time out, drop the slot | event loop (channel), PAM |
| PAM call | `breadlock/src/auth/pam.rs` | none | check, resolve the user name | PAM |
| Seats, keyboard binding | `breadlock/src/input/keyboard.rs` | bound keyboard, modifiers, `reveal_held` | capability added or removed, enter, leave, repeat | event loop |
| Surfaces, outputs, redraw, animation | `breadlock/src/lock/*.rs`, `state.rs`, `gpu.rs` | one lock surface per output with its window, pixmap, texture and buffer; animation timer | new output, configure, scale, output removed, redraw, tick | compositor |
| Palette cache, theme watch | `theme_watch.rs`, `state.rs` | palettes per output, watcher | file event, reload, lookup | filesystem, event loop |
| Status poller | `status.rs` | last status line | poll, send, give up | D-Bus, event loop |
| Bus commands, singletons | `bread_events.rs`, `main.rs` | two lock files, the listener's connection | listen, lock command, probe, spawn, acknowledge | bus, `breadlock` processes |
| Rendering | `render.rs`, `gpu.rs`, `background.rs` | GL context, cache of scaled wallpapers | compose, blit, draw | compositor, GPU |
| Greeter interface | `breadgreet/src/main.rs` | `Stage`, user, session, entry | submit, cancel, switch user, pick session, seven kinds of event | actor (two channels) |
| greetd actor and client | `breadgreet/src/greetd/*.rs` | the connection, the request in flight | create, respond, start, cancel, time out, reconnect | greetd (socket) |
| Sessions, accounts | `breadgreet/src/sessions.rs`, `users.rs` | none after start | list, filter, order, default | filesystem |
| Configuration, themes, CSS | `config.rs`, `theme.rs` | none after start | read with defaults | filesystem |
| Desktop entries, painter | `breadlock-ui/src` | none | tokenize `Exec`, expand field codes, draw | - |

What is hard in it, component by component, and what makes the component
correct:

* **Lock and authentication.** Nothing blocks the event loop, so every answer
  may be late: an acceptance after the user pressed Escape, a timer of an
  older failure, `finished` in the middle of the fade, a dispatch error after
  handlers have run, a crash anywhere. Correct means: the session is shown
  again only because PAM accepted the attempt the user was waiting for; a
  check always ends; an accepted password does unlock; the bus is told once.
* **PAM attempts.** A PAM call cannot be aborted. Correct means: the cap
  counts calls and not waiters; each attempt is reported once; a timeout or
  a rejection is never an acceptance.
* **Greeter.** The interface has moved on by the time an event is handled, and
  events do not say which conversation they belong to. Correct means: the
  spinner never waits for nothing; the entry is on exactly when something is
  asked; conversations do not stack; neither a wedged nor a vanished greetd
  leaves the user without a way on.
* **Bus commands and singletons.** Three kinds of process start lockers, look
  for them and exit without waiting for each other, and the only way to see
  whether a locker runs is to take its singleton for an instant. Correct
  means: two lockers never run at once; a locker that is gone leaves nothing
  behind; a lock command leads to a locked session; no command unlocks.
* **Keyboard and animation.** Keyboards come and go while keys are held, and
  a dozen effects with clocks of their own share one timer that the redraw
  arms and the timer's own callback drops. Correct means: while there is a
  keyboard, one is bound, or the session can only be left over a VT; what
  moves has its timer; there are never two timers, and never a flag without
  a timer; an idle screen sleeps.
* **Surfaces.** Outputs come and go before and after the lock is granted, some
  of them known before they are announced; each surface has caches of four
  kinds that follow its size, and any step of a frame may fail. Correct means:
  one surface per output; no commit of another size than the one configured,
  for which the compositor ends the client; an output never stays dark because
  an earlier frame failed.
* **Palette cache and status poller.** A thread each, a channel each, and
  sources that change while they are read. Correct means: what is cached is
  what is on disk, or a notice says otherwise; what is shown catches up.
* **Rendering.** The wallpaper is copied with unchecked reads, and the GPU path
  draws no more of the chrome than the rectangle it was told. Correct means:
  the reads stay inside, and nothing is drawn outside of the rectangle (which
  is not quite so, see the disagreements).
* **Sessions and accounts.** Order decides: filters, sorts and removals of
  duplicates give another result in another order. Correct means: the
  arguments meant are the ones started; the accounts that may log in are
  offered; the session selected is the one configured, if it is offered.

## The modules

```
PamAttempts --+                        GreetdPeer
              +-- Locker -- MCLocker       |
SessionCompositor +    \               GreetdActor
                        \ implements       |
                    FailSecureLock     Greeter -- MCGreeter

Seats ------+
            +-- LockScreen -- MCLockScreen
Animation --+

Commands -- MCCommands                 Surfaces -- MCSurfaces

PaletteCache --+                       Wallpaper --+
               +-- Watchers                        +-- Frames -- MCFrames
StatusPoller --+      |                Chrome -----+
                  MCWatchers
                                   Lists -- ExecLine, Accounts, Sessions
                                           -- Catalog -- MCCatalog
```

`EXTENDS` composes modules: a composed `Next` has one disjunct for each action
of each participant and interleaves them freely. Definitions whose comment
says "Mutant" are not part of any specification: each is a plausible mistake
in the operation defined next to it, and the check makes sure that the mistake
violates a property (`mutants` in `PROJECT.json`).

**PamAttempts** (`auth/mod.rs`). `worker[g]` and `waiter[g]` are the two
threads of the attempt with generation `g`, `answer[g]` what PAM returned,
`inFlight` is `IN_FLIGHT`, `results` the calloop channel. `SpawnCheck` is
`spawn_check` with `reserve_attempt`; `PamReturns`, `DropSlot` the worker;
`WaiterRelays`, `WaiterTimesOut` the waiter. PAM may never return.

**SessionCompositor** (external). The compositor's half of
`ext-session-lock-v1`: it grants or refuses, may dismiss a lock it granted,
and serves `unlock_and_destroy`. The client's request sits in a buffer
(`unlockReq = "queued"`) until a flush. *Assumption*: `SessionLock::unlock` of
smithay-client-toolkit, whose source is not here, writes `unlock_and_destroy`
whatever the object's state; the code in `lock/session.rs:34-46` relies on
asking `is_locked` first where it matters.

**Locker** (`main.rs`, `state.rs`, `lock/session.rs`, `input/keyboard.rs`).
`handle_key` is `Typing` and the `Key...` actions, one for each way through
it; the `on_result` callback is `ResultArrives` with `StaleResult`,
`Authenticated`, `Rejected`; `schedule_clear_failed` and
`fail_timer_applies` are `clearTimers` and `ClearTimerFires`;
`SessionLockHandler` is `Locked` and `Finished`. `complete_unlock_if_ready` is
an operator that each handler ending in `redraw_all` applies as part of its
own step, as the code does; `Redraw` stands for the handlers that do nothing
else to this state. The fade is a clock with two readings, `fading` and
`faded`. One call of `dispatch` runs any number of handlers, so that `exit` is
only looked at by `DispatchOk` and `DispatchErr`. `Crash` takes the process
away at any point, with its buffer. Passwords are lengths.

**FailSecureLock** is what the locker promises with no threads, queues, timers
or loop: the session goes from locked to opened only after the live attempt
was accepted; withdrawn attempts never count. `Locker!ImplementsFailSecure`
gives the refinement mapping: the live attempt is `authGen` while Checking,
`passed` is the fade.

**GreetdPeer** (external). What greetd may answer: a question, a notice,
success or a refusal; it may also answer nothing. A conversation belongs to
one connection and ends with it.

**GreetdActor** (`greetd/mod.rs`, `greetd/client.rs`). One action for each
await point of `run_actor`: the first connect, taking a command, the answer, a
lost roundtrip (timeout or dead socket), the answer to `CancelSession`. The
actor is sequential, so its local state is `actor` and `req`. Connecting is
taken to be immediate, the channels to be unbounded, as they are.

**Greeter** (`breadgreet/src/main.rs`). One action for each arm of `update`;
`Submit` covers `handle_submit`, a question `handle_prompt` and
`show_auth_entry`, and so on. `reset_auth` is the operator `ResetAuth`, which
takes the commands sent before it. `typed` and `sessions` are what was found
at start: accounts to list or a name to type, sessions or none. The texts of
labels, the clock and `pam_status_held` are left out; `username` is a number
and in auto mode the account `user_idx` selects. `MaxInbox` and `MaxCmds`
bound the user, not the program: the user waits while the queues are full, and
the actor and the interface may exceed them.

**Commands** (`bread_events.rs`, the entry points in `main.rs`). The
processes around one session. `phase[p]` is how far the locker with process id
`p` is: started (`new`), past the singleton (`up`), lock requested (`asking`),
granted (`showing`), password accepted (`fading`), on the way out (`leaving`),
or turned away by the singleton (`duplicate`); an id is free again after the
exit. `singleton` is the holder of the `lock` flock, `holder` the client of
the compositor's lock, `queue` and `job` the commands of each subscriber.
`try_acquire` is three outcomes: acquired, held, or an error of its own.
`Probe` is `singleton_held` up to the moment it holds the lock, `ProbeEnds`
the drop of the guard; between the two any locker may start. `Reply` is
`honor_lock_command` and `honor_unlock_command`, with `start_locker`, which
starts a process or reports why not (no `WAYLAND_DISPLAY`, no binary).
A locker's inside is left to Locker, and so is a password accepted before the
grant. The listener is taken to run for ever; that a locker drops its
subscription, its flag and its singleton one after the other on the way out is
one step. A process that holds none of the model's ids does not exist: one id
is kept for the listener, so that a start by the bus never fails for lack
of one.

**Seats** (`SeatHandler` and the binding in `input/keyboard.rs`). `keyboards`
are the seats that have one, `bound` is `keyboard` with `keyboard_seat`, which
the code sets and takes together; `reveal` is `reveal_held`, and `tab` is where
the user's finger is. Binding may fail, and then the next candidate is tried.
*Assumption*: when `remove_seat` is called, smithay-client-toolkit no longer
lists the seat in `seats()`, so that it is not bound again. A compositor may
send `leave` before it takes a keyboard away, and need not.

**Animation** (`redraw_surface`, `redraw_all`, `arm_anim_if_needed`,
`tick_animation` in `state.rs`). `fx` is the state that `anim_in_progress`
looks at, each clock by the stage it has reached: a frame (`Drawn`) starts the
entrance and the slide of a new status and ends a breath that is over, time
(`Elapses`) does the rest. The effects with no follow-up - shake, dot pop,
clock crossfade, status slide - are one, `fast`. `Tick` is the callback of
the timer: it redraws with its flag set, so that nothing is armed, and then
goes on or drops. `Effects.visible` says whether some lock surface has a size.

**LockScreen** composes the two: keys come through the bound keyboard alone,
and pressing Tab and letting go redraw. It is taken with `input.reveal_hold`
switched on. It is a module beside Locker and not on top of it, because the
animations neither read generations nor decide anything about the lock:
results of PAM and failure timers are actions of their own here, free to come
at any time the authentication state allows.

**Surfaces** (`lock/surface.rs`, the presenting half of `state.rs`, `gpu.rs`).
`surfaces` is `AppState::surfaces`; `standing[o]` is where output `o` is and
what the program has been told of it, so that `new_output` may come for an
output that `main` bound at start (`Init`), or for one that has gone again.
Each handler is an action that includes its redraw: `Configure`,
`ScaleFactorChanged`, `RedrawAll`. A frame has a *fate*, the set of steps of it
that fail: `RedrawSurface` takes the GPU frame, falls back to `PresentShm`, and
drops what the code drops. `shown` records what the last commit was made of.
A buffer fits (`FittingBuffer`) when height and stride are the frame's.
*Assumption*: wl_shm and EGL take the sizes they are given; the loop end
(`LockEnds`) comes at any time.

**PaletteCache** (`theme_watch.rs`, `palette_for_surface`). A palette is known
by the number of times its file was written. A miss is two steps, `ReadPalette`
and `StorePalette`, because the writer and the watcher's thread do not wait for
the event loop; the loop itself handles nothing between them (`Idle`).
`watched` are the directories the watch could be armed for.

**StatusPoller** (`status.rs`). The thread as a machine of its D-Bus calls:
`PollNames`, `ReadPlayer` for each name, `PollDevice`, `PollCharge`, `Wake`.
`conn` is the cached connection to each bus; a bus that stops leaves it dead,
and the next call finds out. A player may play, pause, answer nothing useful,
or hang. The battery's reading stands for all that the code looks at.

**Watchers** composes the two around the event loop: a snapshot that differs
from the last one redraws everything, which is when palettes are read.

**Wallpaper** (`background.rs`, `pan_region` of `gpu.rs`). `Scaled` is the
cover fit with its rounding, `copies` the cache with its eviction, `copy` the
last blit: `First`, `Fraction` and `Second` are the pixels one axis of
`blit_translate` reads. `recent` is a history variable. The scale is an exact
fraction here.

**Chrome** (`render.rs`). The geometry of a frame: every element's box, with the
entrance, the drift of the unlock, shake, breath, pop of the newest dot, the
crossfade of the clock and the ring of the flash. `Recorded` is what
`compose_chrome` passes to its bounding box, `Drawn` what it draws. Text widths
are constants, since the font decides them, and so is where the glyphs of a line
stand: between `GlyphTop` and `GlyphBottom` percent of its size (`Inked`). With
descenders they end below the line, since `painter.rs:98` sets lines of 1.25
sizes. Every text is recorded by its line and drawn by its glyphs. Lengths are
hundredths of a pixel, rounded away from the rectangle.

**Frames** puts the two side by side; they share no state.

**ExecLine** (`split_exec`). The state is the list of arguments meant, each with
the form it is written in (`Forms`): plain, escaped, in double quotes or in
single quotes, a field code with or without double quotes; an argument that is
quoted in part only is left out. `Line` writes it down and `SplitExec` reads it:
the tokenizer character by character, the filter of field codes, the
unescaping of percent signs. One letter stands for all that mean nothing.

**Accounts** (`users.rs`) and **Sessions** (`sessions.rs`, the entry parser and
the directory scan of `desktop_entry.rs`). The state is the files, written a
line at a time; `OfferedAccounts` and `Discovered` are what the code makes of
them, and the properties say what it should be in terms of the lines. Names
and stems are numbers in their order. A name or a command in a session file may
be empty; such a session is offered like any other. A directory may be listed twice, as it
may be in `XDG_DATA_DIRS`; nothing in the code removes it. **Catalog** is the
three side by side.

The loops of these scans are recursive functions over the positions of a
sequence, and so is the filter, `Without` of **Lists**; a sort is the choice of
an order (`Accounts!Sorted`, `Sessions!ScanDir`). `SelectSeq` and `SortSeq`
take their test as an operator, which the provers cannot reason about.

## The runs

| Run | cfg | Shows |
|---|---|---|
| `locker` | `MCLocker.cfg` | eight invariants, two action properties and the refinement of `FailSecureLock`, 2.8 million states |
| `locker_live` | `MCLockerLive.cfg` | a check ends, a failure clears, an accepted password leads to an exit and to an unlocked session |
| `greeter` | `MCGreeter.cfg` | three invariants; the interface always hears from the actor again and `Starting` ends; 276 thousand states |
| `greeter_wedge` | `MCGreeterWedge.cfg` | a disagreement, see below |
| `commands` | `MCCommands.cfg` | two invariants and an action property, 240 thousand states |
| `commands_live` | `MCCommandsLive.cfg` | a lock command ends with a locked session or a reported failure |
| `lock_screen` | `MCLockScreen.cfg` | three invariants, and that an idle lock screen sleeps, 640 thousand states |
| `lock_screen_breath` | `MCLockScreenBreath.cfg` | a disagreement, see below |
| `surfaces` | `MCSurfaces.cfg` | one surface per output, commits of the right size, every output shows a frame again; 143 thousand states |
| `watchers` | `MCWatchers.cfg` | the cache follows the file, palettes and status catch up; 513 thousand states |
| `frames` | `MCFrames.cfg` | the blit stays inside, the cache holds the sizes used last, the rectangle holds the chrome but for the descenders of the status line; 92 thousand states |
| `catalog` | `MCCatalog.cfg` | arguments, accounts and the default session come out as meant, 1.8 million states |

**Bounds.**

* `locker`: three generations are an attempt, one that supersedes or cancels
  it and a third after both; one PAM slot makes the second attempt meet the
  cap while the first is still in PAM; `MAX_CONSECUTIVE_DISPATCH_ERRORS` is 2
  so that one error is survived and the next is fatal; a password of one
  character tells empty from full, which is all the handlers look at. Three
  failures leave room for two timers armed at once. `MaxFails >= MaxGen` is
  assumed so that the bound on failures never holds a result back.
  `locker_live` uses one size less, because behaviours and not states are what
  it enumerates.
* `greeter`: two accounts are what switching needs; a picker with one session
  and with none covers both branches on `sessions` and a position outside the
  list; with two inputs and two commands queued by the user, and any number by
  the program, a switch still overtakes an older event.
* `commands`: three ids are a locker, one that replaces it or duplicates it,
  and one more for the bus to start; two commands are one that probes while
  another is answered; two ends are a password and the dismissal of the fading
  lock, or two locks in a row; one death leaves an orphaned lock behind, one
  error of `try_acquire` lets two lockers run. Process ids are interchangeable
  and the invariants symmetric in them, so this run uses symmetry.
  `commands_live` publishes only `lock`, and no lock ends: an unlock command
  whose probe turns away the locker of hypridle, and a locker on its way out,
  are the two ways in which the property fails; both are described below.
* `lock_screen`: two seats and two keyboards that appear let the bound one go
  while another is there, or come back; two keys are a character and a submit,
  from which a result and the fade follow. Keys, keyboards and minutes share an
  allowance of three (`MCLockScreen!MaxOutside`), since the seats and the
  animations meet only in the key that is pressed. One failed binding and one
  failed frame or timer are where the invariants make their exception. All
  eight combinations of the slow effects are initial states.
* `surfaces`: two outputs, each with a surface, of two modes of the same area
  and different stride, so that a buffer of the right number of bytes may still
  be the wrong one; two changes are a mode and a scale, or an output that goes
  and comes back. One frame fails, at one step or at a GPU and a software step
  in a row (`MCSurfaces!Cases`). Theorems cover the rest.
* `watchers`: one output with a name (one without is never read again), two
  palettes after the first, two players so that one is before the other, three
  changes of the world: enough for a bus that stops and starts with a player
  that changes in between. `MCWatchers!SmallInit` starts with all of it up and
  paused, and takes the incomplete watches and status lines one at a time.
* `frames`: five output sizes on four cache slots, sizes of a few pixels so that
  every rounding occurs, a pan of two steps at a zoom of 150 % so that there is
  room to pan; the chrome on a large surface and on one so narrow that a few
  characters fill the pill, every frame of the entrance and six of the unlock,
  among them both ends of the flash and of the fade. Glyphs end at 120 % of their
  size, so that descenders stand out of their lines.
* `catalog`: two arguments of up to two of the seven kinds of characters, each in
  each of its forms, for what one argument does to the next; three account lines, of which two may
  share a name or a uid; up to three lines after the start of a session file,
  each key with each of its values (an empty name and an empty command too), in
  two directories of two stems each, one of them listed twice. Theorems cover
  the rest.

**Deadlock** is checked where the program goes on for ever: `surfaces`,
`watchers`, `frames`. It is not where it stops: the locker when the process has
gone, the lock screen when it leaves, the greeter when the session has been
started, the processes around a session when the bounds are used up, and the
files of `catalog` when they are written.

## Fairness

`Locker!Fairness`: calloop serves every ready source and its `dispatch`
returns within 250 ms (`main.rs`), timers and `recv_timeout` elapse, and the
compositor reads what it has been sent. Nothing is assumed of PAM (the worker
has no fairness), of the user, or of the compositor's decision to grant.

`Greeter!Fairness`: the interface handles its inputs and the actor its
commands; `DEFAULT_ROUNDTRIP_TIMEOUT` elapses; a dead socket is noticed.
Nothing is assumed of greetd. `FairPeerSpec` adds that greetd answers
`CancelSession`, the one wait the code puts no limit on; without that
assumption `NeverWedged` is violated (run `greeter_wedge`), with it, it holds,
whatever else greetd leaves unanswered.

`LockScreen!Fairness`: calloop fires the clock tick and the animation timer,
and time passes. Nothing is assumed of the user, of PAM or of the compositor:
`Sleeps` makes an exception for a user who keeps pressing Tab.

`Commands!Fairness`: the listener and the lockers run, and the compositor
grants a request when no other client holds the lock. Nothing is assumed of
hypridle, of the user or of the bus beyond delivery.

`Surfaces!Fairness`: the loop delivers outputs that came and went, the
compositor configures each surface once, the 1 s timer redraws. A frame of the
timer that fails does not count as fair, so that `EveryOutputShows` says:
once frames succeed again, whatever failed before.

`Watchers!Fairness`: calloop serves every source that is ready in each dispatch,
which is strong fairness for handlers that wait for the loop to be between two
others; the poller goes on as long as its calls return. Nothing is assumed of
the writer, the players or the buses. `StatusCatchesUp` therefore makes an
exception for a player that hangs: the D-Bus call has no timeout.

## The proofs

All theorems are for every value of the constants that satisfies the named
assumptions (`PamAssumption`, `LockerAssumption`, `UsersAssumption`,
`SessionsAssumption`, `QueueAssumption`, `CommandsAssumption`,
`SeatsAssumption`, `AnimationAssumption`, `SurfacesAssumption`,
`PaletteAssumption`, `StatusAssumption`, `WatchersAssumption`, `WallpaperAssumption`,
`ChromeAssumption`, `ExecAssumption`, `AccountsAssumption`,
`CatalogAssumption`), which only say that bounds are numbers, of which some are
not zero, that the names of processes and seats are distinct from the value for
none, that images and outputs have a size, and that names and stems are
numbers, of finitely many stems. One theorem, `ChromeFits`, has a premise of its
own, given below.

**LockerProofs** has three parts. The first is about the PAM attempts: counting
slot holders, and the result channel. The second proves that `Locker!IInv` is
inductive and derives every invariant and action property of run `locker`. The
invariants alone are not inductive. `OpenedOnlyByPam` speaks of a session that has been
opened; what keeps it true begins earlier, when a result is taken
(`PassedByPam`: from then on the accepted attempt stays the current one) and
when the unlock is queued (`RequestJustified`: the fade has ended, or the
compositor had dismissed the lock). That an opened session was not opened on
the strength of `finished` needs the history of the lock object, its
undelivered events and the client's flag (`LockObjectHistory`).
`CheckingIsPending` needs that generations not yet handed out have no thread
(`FreshGens`), so that a cancelled generation has no outcome to come.

The third part proves `Spec => FailSecureLock!Spec`: each step of the locker
maps to a step or a stutter. A submit is a Try, a cancel or a rejection
a Withdraw, PAM's answer an Accept, a matching acceptance a Pass, serving the
request an Open. The step that needs the invariant is the last: `opened`
requires `passed`, from `RequestJustified`.

**GreeterProofs** proves `Greeter!IInv` inductive, and with it type
correctness, `BusyHasWork` and `EntryFollowsStage`. `BusyHasWork` is not
inductive because `AutoStart` is handled without a look at the stage: that it
finds the stage Working and the entry off is `KickComesFirst` (only the error
of the first connect can be handled before it, which leaves auto mode in
Working). `AutoHasUser` makes the command it sends well-formed.
`TypedNeverStacks` is proved from `StackInv`, on top of `IInv`: whatever opens a
conversation - the one greetd may have, the `CreateSession`s in the queue, the
name the user may enter next - has a place in one order, and between any two
stands a `CancelSession` (`CreatesApart`). Appending a command and taking the
first one keep the order apart (`AppendApart`, `TailApart`), which is what every
handler and the actor come down to. `NoEmptyExit` says that the process exits
only after greetd has started somebody's session; its invariant is that no
`Started` is among the inputs before (`StartedIsTrue`).

**CommandsProofs** proves `Commands!IInv` inductive for any set of process ids
and verbs. `OneLocker` alone says nothing about a locker that is about to
acquire the singleton; `Guarded` does: without an error of `try_acquire`,
every locker past it is the holder, so that whoever finds it free finds no
locker. `SingletonLive` is what makes a free singleton the normal case again.
`BusNeverUnlocks` follows from `TypeOK` and the one action that opens a
session.

**LockScreenProofs** proves `LockScreen!IInv`, the conjunction of the
invariants of run `lock_screen` with the types. `MovingIsTimed` needs `TimerMatchesFlag` in
one place, the callback: only because the timer that fires is the one the flag
speaks of may the callback clear the flag. `RedrawArms` is the lemma
everything else cites: after a redraw that did not fail, what moves has its
timer. `MovingInProgress` is why dropping the timer is safe: `anim_in_progress`
leaves out nothing that moves.

**SurfacesProofs** proves type correctness, `SurfacePerOutput` and
`CommitsAllowed`, for any outputs, sizes, scales and combinations of mishaps.
Their conjunction is inductive. One lemma says what a redraw makes of a surface
whose window is none or of the right size (`RedrawSound`, from the GPU frame and
the software frame), and every handler comes down to it: a configure and a
scale bring the window to that size first, a new entry has none. That an entry
with no size has no window (`NoWindowBeforeSize`), so that nothing is committed
before the first configure, follows from `FrameFits`.

**BackgroundProofs** is about what a frame relies on beside the lock itself.
* `CopiesInside`: the blit of the wallpaper reads nothing outside its source
  and agrees with the GPU's region, for every image, output, zoom and pan. The
  arithmetic of the cover fit and of its rounding is in lemmas (`ScaledBounds`:
  the scaled copy is at least the output on both axes); the invariant is that
  every copy in the cache has the size computed for it.
* `CacheKeepsRecent`: the cache holds the sizes used last, as many as it has
  slots. The inductive invariant is about the history of uses: the cache is
  exactly what `Latest` keeps of it, in the order of last use (`RecentStep`,
  from `HitKeepsRecent` and `MissKeepsRecent`).
* `CacheFollows`: a cached palette differs from its file only while a notice is
  under way, for any number of outputs and writes.
* `OffIsNotShown`: a status line that the configuration switches off is never
  shown, whatever players and buses do. That takes `StatusPoller!StatusInv`:
  nothing of it is in the snapshot being made, or in the channel. With
  `WatchersTyped` this is the safety side of `watchers`, for any number of
  players, outputs and events.
* `ChromeFits`: the recorded rectangle holds what is drawn except for what the
  status line has below its own line, the dots and the typed text stay inside the
  pill, and a text that is cut fits, in every frame of every animation. Its
  premise is `Chrome!LayoutFits`, which is what the drawing takes for granted of
  the font and of the outputs: the glyphs stand clear of the top of their line by
  the way a crossfading clock moves and end at 150 % of their size or before, down
  to where `measure_box` looks (descenders are allowed); those of a text in
  the pill are no taller than it; the pill is wide enough for a dot and a caret
  and about for the chip; and between the clock and the pill there is room for
  the chip, and for the lines under the clock above the end of the pill's
  record. The code enforces none of it; `MCFrames` assumes it, so that TLC
  evaluates it on the instance. The proof follows the boxes: each kind of drawing
  has one lemma that names the recorded boxes which cover it. The descenders of
  the clock, the date and the info line are below their own records and above
  the end of the pill's (`InkedIsCovered`); the status line is the lowest, and
  nothing covers its own (`StatusIsCovered` goes to the end of its line).

**Induction** is what makes the next proofs possible. The induction theorems of
the library take a predicate as a parameter, which the provers cannot
instantiate; `StepInduction` and `StrongInduction` say the same of a set of
numbers, and follow from the library's theorem about well-founded relations
(`LeastOfSet`). What a recursive function computes can then be proved for
inputs of any length.

**CatalogProofs** proves the three properties of run `catalog`, for arguments,
account lists, directories and files of any length.
* *Loops.* `LoopExists` says that a loop with a state has the sequence of its
  states; one lemma for each recursive function (`...Turns`) says what one turn
  does. `ReadConcat` and `HalvedConcat` say that a scan can be taken in two
  parts, since its whole state is in the record it passes on.
* *The command* (`CommandIsMeant`). A character of an argument is written, read
  and unescaped as one piece (`CharIsRead`), so an argument in the line is one
  token, in whichever of its forms it is written (`SpelledIsRead`), namely the argument with
  its percent signs doubled; such a token is no field code unless the argument
  was one (`DoubledBegins`), and unescaping undoes the doubling
  (`DoubledComesBack`).
* *The accounts* (`AccountsAreRight`). Any list has an order (`OrderExists`, by
  insertion), so that the sort is defined; a sorted list keeps each name under
  its first line when neighbours of one name are dropped (`DedupedElements`).
* *The session* (`SelectionIsDefault`). A file's entry is what the lines of its
  section say last (`ParsedFollows`); the list is put together of the scans of
  the directories, and each element of it has its directory and its place there
  (`FlattenPlaces`, `ListIs`); the first entry that fits is ahead of every other
  (`FirstIsAhead`). A file is offered if its last name and its last command are
  there, were they empty; that a session offered has a command is not stated,
  because it is false (see the disagreements).

The three properties are about what the code computes from its files; the
invariant the proofs add, `Formatted`, only says what the files are made of.

Every invariant, action property and refinement that a passing run checks is
stated by a theorem. Only model-checked are the liveness properties, all of
which need fairness, and TLAPS 1.4.5 does not know ENABLED: `CheckEnds`,
`FailureClears`, `UnlockCompletes` and `UnlockDelivered` of the locker,
`NeverWedged` and `StartingEnds` of the greeter, `LockCommandLocks`, `Sleeps`,
`EveryOutputShows`, `PaletteCatchesUp` and `StatusCatchesUp`.

The other way round, some theorems state what no run lists: the type invariants
but the locker's, `ExitMeansStarted` and `ShownIsAsked`. TLC confirms each when
its name is added to `MCGreeter.cfg` and `MCWatchers.cfg`.

## Disagreements between the code and its documents

Two of these are runs that TLC refutes and findings in `PROJECT.json`.

* `greeter_wedge`: the wait for the answer to `CancelSession` has no timeout,
  though "a wedged peer must not wedge the greeter".
* `lock_screen_breath`: a breath of the password pill starts only when a redraw
  arms the animation timer. If it falls due while the timer already runs - for
  a blinking caret, say - it never starts, and since a due breath counts as an
  animation the timer is never dropped: no breath again, and frames for ever.

More are stated next to the properties and have no run of their own; TLC
refutes each when its name is added to the configuration given here.

* `WorkingWhileRequested` (`MCGreeter.cfg`): an event of a cancelled
  conversation is handled as if it belonged to the current one: a prompt
  enables the entry while a newer request is in flight. For the same reason the
  session that starts can be that of the account shown before a switch.
* `DuplicateOfALocker` (`MCCommands.cfg`): the probe behind an unlock command
  holds the locker singleton; a locker that hypridle starts meanwhile exits as
  a duplicate, and the session stays open with nobody locking it.
* `UnlockedOnlyIfAcquired` (`MCLocker.cfg`): a password accepted before
  `locked` arrives publishes `bread.lock.unlocked` for a lock that was never
  acquired; EVENTS.md says it is not emitted then.
* `CreateNeverStacks` (`MCGreeter.cfg`): when the error of the first connect
  is handled before `AutoStart`, two `CreateSession`s go out in a row.
* `LockCommandLocks` (`MCCommandsLive.cfg` with `MaxEnds = 1`): a lock command
  that arrives while a locker is on its way out is answered `done`, because a
  locker that runs is taken for one that locks.
* `RevealMeansHeld` (`MCLockScreen.cfg`): a keyboard that is removed while Tab
  is held leaves `reveal_held` set, unless the compositor sends `leave` first:
  what is typed on the next keyboard shows in plain text until Tab is pressed
  and released there.
* `GivingUpQueuesNothing` (`MCLocker.cfg`): the last dispatch error can come
  out of the same dispatch as a handler that queued an unlock; the comment at
  the final roundtrip says nothing queued one.
* `SpinnerMeansRequest` (`MCGreeter.cfg`): with accounts but no session
  installed, an error turns the spinner on with no request in flight.
* `StartingStands` (`MCGreeter.cfg`): a stale event takes the interface out of
  Starting, so that Escape cancels.
* `DrawnIsRecorded` (`MCFrames.cfg`): `render.rs:341` calls the rectangle of
  `compose_chrome` "the bounding rect of everything drawn". The status line, which
  is the lowest text, is recorded down to its origin plus its size
  (`render.rs:922-927`); the descenders of "Wrong password" and "Checking…" end
  below that, so that the GPU path cuts them off. TLC finds it in the first frame
  that has a status line. `ChromeHolds` states what remains true.
* `SelectedHasCommand` (`MCCatalog.cfg`): a session file whose last `Exec=` is
  empty has a command for the parser (`desktop_entry.rs:45-46`), is listed with an
  empty argv (`sessions.rs:64`), and can be the one selected, which `start_session`
  (`main.rs:536-549`) then asks greetd to start. TLC shows it with one line added
  to a file. The code gives the same for a line of field codes only.
* `FreeMeansUnlocked` (`MCCommands.cfg`): after a locker died with its lock
  granted, an unlock command is answered `done`, which EVENTS.md explains as
  "session already unlocked".

Others came up while translating and are about a comment, or about a case a
property has to except:

* `gpu.rs:457` says the EGL surface is made "once per surface from its first
  configure"; after a fallback to software a later configure makes it again
  (`Surfaces!WindowFor`). `gpu.rs:512` says that `state.rs` ignores the result of
  a frame; it falls back on it (`RedrawSurface`).
* `render.rs:190` puts the overshoot of the entrance at about 5 %; it is 10 %
  (`Chrome!EaseOutBack`), which the pad of the recorded rectangle covers.
  `render.rs:966` says the loop of `ellipsize` trims one character; `nth_back(1)`
  trims two (`CutClosely` allows for it).
* A watch that could be armed for the themes alone makes `register` return
  `Some`, and palettes are then cached and never read again:
  `PaletteCatchesUp` without its premise is refuted. Outputs without a name
  keep the palette read at start.
* A player that never answers its D-Bus call stops the poller, and with it the
  battery line (`StatusPoller!ReadPlayer`). A failed call to a player, unlike
  the others, does not drop the connection; the next `ListNames` does.
* An empty argument in quotes is dropped from an Exec line, so `ExecLine` has
  none. A login name with two uids and another account between them is offered
  twice, since `dedup_by` looks at neighbours only.

## What is not modelled

* Colours, opacity, the dim veil, glyph blending, GL calls and shaders
  (`render.rs`, `gpu.rs`, `painter.rs`), CSS and palette parsing (`theme.rs`):
  what they compute is an image. Loading the wallpaper file itself.
* Configuration parsing: serde with defaults, no state after start. The
  environment of a started session (`start_env`).
* Developer binaries, the mock greetd, scripts and packaging.
* Time as a quantity: timeouts, the fade and timers happen after a while, in
  any order the code allows. That auto mode retries an unreachable greetd with
  no delay is therefore noted as a hazard and not checked.
* What PAM does inside a call, the wire format of greetd messages, D-Bus.
* inotify losing events, and two outputs that share a name.

## Plan

1. An abstract login specification for the greeter and its refinement.
2. `LockScreen` over `Surfaces`: `visible` as a consequence of the surfaces, and
   the grant of the lock shared with `Locker`.
3. `SlotCounter`: the compare-and-swap loop of `reserve_attempt` under
   concurrent releases, refining the one-step `ReserveAttempt`.
