------------------------------ MODULE Sessions ------------------------------
(***************************************************************************)
(* The sessions the greeter offers and the one it selects: the .desktop    *)
(* files of the configured directories (breadgreet/src/sessions.rs,        *)
(* breadlock-ui/src/desktop_entry.rs).  Stems are numbers in their order;  *)
(* a line is a key with what its value comes to.                           *)
(***************************************************************************)
EXTENDS Naturals, FiniteSets, Sequences, SequencesExt

CONSTANTS
    WaylandDirs, XsessionsDirs,     \* sequences of directories, which may repeat
    Stems,
    Default                         \* [sessions].default

Dirs == WaylandDirs \o XsessionsDirs

ASSUME SessionsAssumption ==
    /\ Stems \subseteq Nat /\ IsFiniteSet(Stems)
    /\ Default \in Nat
    /\ Dirs \in Seq(Range(Dirs))

VARIABLE files      \* per directory and stem, the lines of a file, or NoFile

\* A section header is the one of the entry or not; a name and a command may
\* be empty ("Exec="); TryExec names a program that is there, one that is
\* not, or nothing.
Lines == [key : {"section", "Hidden", "NoDisplay"}, value : {"true", "false"}]
    \union [key : {"Name", "Exec"}, value : {"text", ""}]
    \union [key : {"TryExec"}, value : {"found", "missing", ""}]

Key(key, value) == [key |-> key, value |-> value]

NoFile == <<>>

Whole == <<Key("section", "true"), Key("Name", "text"), Key("Exec", "text")>>

Nameless == <<Key("section", "true"), Key("Exec", "text")>>

SessionsInit == files \in [Range(Dirs) \X Stems -> {NoFile, Whole, Nameless}]

AddLine ==
    \E f \in DOMAIN files, line \in Lines :
        /\ files[f] # NoFile
        /\ files' = [files EXCEPT ![f] = Append(@, line)]

-----------------------------------------------------------------------------
\* desktop_entry::parse, line by line.  A name or a command that is empty is
\* there all the same; an empty TryExec is as good as none.
Empty == [inside |-> FALSE, name |-> "none", exec |-> "none", tryExec |-> "",
          hidden |-> FALSE, noDisplay |-> FALSE]

Parsed(e, line) ==
    CASE line.key = "section"                 -> [e EXCEPT !.inside = line.value = "true"]
      [] ~e.inside /\ line.key # "section"    -> e
      [] e.inside /\ line.key = "Name"        -> [e EXCEPT !.name = line.value]
      [] e.inside /\ line.key = "Exec"        -> [e EXCEPT !.exec = line.value]
      [] e.inside /\ line.key = "Hidden"      -> [e EXCEPT !.hidden = line.value = "true"]
      [] e.inside /\ line.key = "NoDisplay"   -> [e EXCEPT !.noDisplay = line.value = "true"]
      [] e.inside /\ line.key = "TryExec"     ->
            [e EXCEPT !.tryExec = IF line.value = "" THEN @ ELSE line.value]

Entry(lines) ==
    LET entry[i \in 0..Len(lines)] ==
          IF i = 0 THEN Empty ELSE Parsed(entry[i - 1], lines[i])
    IN  entry[Len(lines)]

\* scan_dir keeps the entry: it parses, and its TryExec program is there.
Scanned(lines) ==
    LET e == Entry(lines)
    IN  /\ ~e.hidden /\ ~e.noDisplay
        /\ e.name # "none" /\ e.exec # "none"
        /\ e.tryExec # "missing"

ScanDir(dir) ==
    LET stems == {s \in Stems : Scanned(files[<<dir, s>>])}
        n == Cardinality(stems)
        sorted == CHOOSE s \in Bijection(1..n, stems) :
                    \A i, j \in 1..n : i < j => s[i] < s[j]
    IN  [i \in 1..n |-> <<dir, sorted[i]>>]

\* list: the directories of Wayland sessions, then those of X11 sessions.
List == FlattenSeq([i \in DOMAIN Dirs |-> ScanDir(Dirs[i])])

\* Mutant: the last entry of that stem.
DefaultIndexLast(list) ==
    LET at == {i \in DOMAIN list : list[i][2] = Default}
    IN  IF at = {} THEN 1 ELSE CHOOSE i \in at : \A j \in at : j <= i

\* default_index, 0 in the code if the stem is absent.
DefaultIndex(list) ==
    LET at == {i \in DOMAIN list : list[i][2] = Default}
    IN  IF at = {} THEN 1 ELSE CHOOSE i \in at : \A j \in at : i <= j

\* discover
Discovered == LET list == List IN IF list = <<>> THEN NoFile ELSE list[DefaultIndex(list)]

-----------------------------------------------------------------------------
\* The value that holds for a key: the last one given in the section.
InSection(lines, i) == \E j \in 1..(i - 1) :
    /\ lines[j] = Key("section", "true")
    /\ \A k \in (j + 1)..i : lines[k].key # "section"

Given(lines, key) ==
    {i \in DOMAIN lines : /\ lines[i].key = key
                          /\ key = "TryExec" => lines[i].value # ""
                          /\ InSection(lines, i)}

LastIs(lines, key, value) == \E i \in Given(lines, key) :
    /\ lines[i].value = value
    /\ \A j \in Given(lines, key) : j <= i

\* A session the menu shows.  It has a name and a command, but either may be
\* empty.
Offered(lines) ==
    /\ ~LastIs(lines, "Hidden", "true") /\ ~LastIs(lines, "NoDisplay", "true")
    /\ Given(lines, "Name") # {} /\ Given(lines, "Exec") # {}
    /\ ~LastIs(lines, "TryExec", "missing")

\* A directory counts where it is listed first.
Place(f) == CHOOSE i \in DOMAIN Dirs :
    Dirs[i] = f[1] /\ \A j \in DOMAIN Dirs : Dirs[j] = f[1] => i <= j

Ahead(f, g) == Place(f) < Place(g) \/ (Place(f) = Place(g) /\ f[2] < g[2])

(* sessions.rs: "Default selection matches by .desktop file stem [...] If   *)
(* that stem is missing, the first entry from wayland_dirs then             *)
(* xsessions_dirs is used."  The session selected is the first one offered  *)
(* of the default's stem, else the first one offered, and none is selected  *)
(* only if none is offered.                                                 *)
DefaultSelected ==
    LET offered == {f \in DOMAIN files : Offered(files[f])}
        named == {f \in offered : f[2] = Default}
        pool == IF named # {} THEN named ELSE offered
        choice == Discovered
    IN  IF offered = {} THEN choice = NoFile
        ELSE choice \in pool /\ \A f \in pool \ {choice} : Ahead(choice, f)

(* start_session sends the command of the selected session to greetd.  That *)
(* there is one does NOT hold: a file with "Exec=", or whose last Exec line *)
(* is empty, is offered and selected, and its command has no arguments.     *)
SelectedHasCommand ==
    Discovered # NoFile => Entry(files[Discovered]).exec # ""
=============================================================================
