----------------------------- MODULE PaletteCache -----------------------------
(***************************************************************************)
(* The palette every monitor is drawn with: a file per output that pywal   *)
(* rewrites, the cache in AppState, and the directory watch that empties   *)
(* it (breadlock/src/theme_watch.rs, palette_for_surface in state.rs).     *)
(*                                                                         *)
(* A palette is known by the number of times its file was written.  A      *)
(* redraw that misses the cache reads the file and stores what it read in  *)
(* two steps; the event loop runs nothing between them, but the writer and *)
(* the thread of the watcher do not wait for it.                           *)
(***************************************************************************)
EXTENDS Naturals

CONSTANTS
    Outputs,
    MaxWrites       \* bound on the writes of one file

ASSUME PaletteAssumption == MaxWrites \in Nat

VARIABLES
    named,      \* the outputs that have a name
    watched,    \* the directories the watcher could be armed for
    file,       \* per output, its palette on disk
    notices,    \* messages in the channel of the watcher
    cache,      \* output_palettes
    loading,    \* the output and palette read but not stored, or Nothing
    todo,       \* outputs redraw_all has not come to yet
    drawn       \* per output, the palette of its last frame

paletteVars == <<named, watched, file, notices, cache, loading, todo, drawn>>

Dirs == {"palettes", "themes"}

Palette == 0..MaxWrites

Uncached == MaxWrites + 1

Nothing == <<>>

PaletteTypeOK ==
    /\ named \subseteq Outputs
    /\ watched \subseteq Dirs
    /\ file \in [Outputs -> Palette]
    /\ notices \in Nat
    /\ cache \in [Outputs -> Palette \union {Uncached}]
    /\ loading = Nothing \/ loading \in Outputs \X Palette
    /\ todo \subseteq Outputs
    /\ drawn \in [Outputs -> Palette]

PaletteInit ==
    /\ named \in SUBSET Outputs
    /\ watched \in SUBSET Dirs
    /\ file = [o \in Outputs |-> 0]
    /\ notices = 0
    /\ cache = [o \in Outputs |-> Uncached]
    /\ loading = Nothing
    /\ todo = Outputs
    /\ drawn = [o \in Outputs |-> 0]

\* register gives a ThemeWatch if either directory could be watched.
Armed == watched # {}

\* The event loop is between two handlers.
Idle == loading = Nothing /\ todo = {}
-----------------------------------------------------------------------------
\* Mutant: events of *.css files alone are passed on.
NotifyCss(dir) == notices' = IF dir \in watched /\ dir = "themes" THEN notices + 1 ELSE notices

\* The writer replaces a file by a rename; is_palette_change passes the
\* event on if its directory is watched.
Notify(dir) == notices' = IF dir \in watched THEN notices + 1 ELSE notices

WritePalette(o) ==
    /\ file[o] < MaxWrites
    /\ file' = [file EXCEPT ![o] = @ + 1]
    /\ Notify("palettes")
    /\ UNCHANGED <<named, watched, cache, loading, todo, drawn>>

WriteTheme ==
    /\ Notify("themes")
    /\ UNCHANGED <<named, watched, file, cache, loading, todo, drawn>>

\* Mutant: the thread of the watcher empties the cache itself.
ThemeChangedAtOnce ==
    /\ notices > 0
    /\ notices' = notices - 1
    /\ cache' = [o \in Outputs |-> Uncached]
    /\ todo' = Outputs
    /\ UNCHANGED <<named, watched, file, loading, drawn>>

\* The callback of theme_watch: invalidate_palette_cache, redraw_all.
ThemeChanged ==
    /\ Idle
    /\ notices > 0
    /\ notices' = notices - 1
    /\ cache' = [o \in Outputs |-> Uncached]
    /\ todo' = Outputs
    /\ UNCHANGED <<named, watched, file, loading, drawn>>

\* redraw_all comes to an output whose palette needs no file: it has no
\* name, and is drawn with the palette read at start, or it is cached.
DrawFromMemory(o) ==
    /\ loading = Nothing
    /\ o \in todo
    /\ o \notin named \/ (Armed /\ cache[o] # Uncached)
    /\ drawn' = [drawn EXCEPT ![o] = IF o \in named THEN cache[o] ELSE 0]
    /\ todo' = todo \ {o}
    /\ UNCHANGED <<named, watched, file, notices, cache, loading>>

ReadPalette(o) ==
    /\ loading = Nothing
    /\ o \in todo \intersect named
    /\ ~Armed \/ cache[o] = Uncached
    /\ loading' = <<o, file[o]>>
    /\ UNCHANGED <<named, watched, file, notices, cache, todo, drawn>>

\* The palette that was read is stored, if there is a watch, and drawn.
StorePalette ==
    /\ loading # Nothing
    /\ cache' = IF Armed THEN [cache EXCEPT ![loading[1]] = loading[2]] ELSE cache
    /\ drawn' = [drawn EXCEPT ![loading[1]] = loading[2]]
    /\ todo' = todo \ {loading[1]}
    /\ loading' = Nothing
    /\ UNCHANGED <<named, watched, file, notices>>

LoopStep == StorePalette \/ \E o \in Outputs : DrawFromMemory(o) \/ ReadPalette(o)

\* The clock tick, and whatever else redraws every surface.
StartRedraw ==
    /\ Idle
    /\ todo' = Outputs
    /\ UNCHANGED <<named, watched, file, notices, cache, loading, drawn>>

Writer == \E o \in Outputs : WritePalette(o)
-----------------------------------------------------------------------------
(* A cached palette differs from its file only while a notice of the       *)
(* change is under way.  (The watch covers the palettes.)                  *)
CacheFollowsFile ==
    "palettes" \in watched =>
        \A o \in Outputs :
            /\ cache[o] \notin {file[o], Uncached} => notices > 0
            /\ loading # Nothing /\ loading[1] = o =>
                   loading[2] = file[o] \/ notices > 0

(* theme_watch.rs: "a wallpaper/palette change invalidates the cache and   *)
(* triggers one redraw".  When the writer is done, the outputs are drawn   *)
(* with what it wrote, provided the palettes are watched or nothing is: a  *)
(* watch on the themes alone also makes register return Some.              *)
PaletteCatchesUp ==
    "palettes" \in watched \/ ~Armed =>
        []<>(\A o \in named : drawn[o] = file[o])
=============================================================================
