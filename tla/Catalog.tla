------------------------------- MODULE Catalog -------------------------------
(***************************************************************************)
(* What the greeter finds on the machine when it starts: accounts, session *)
(* files, and the command of a session.  The three are read from different *)
(* files; a behaviour is one of them being written, one line or argument   *)
(* at a time, and what the greeter makes of it is looked at in between.    *)
(***************************************************************************)
EXTENDS ExecLine, Accounts, Sessions

CONSTANT MaxEdits       \* bounds on the lines added, per part

Parts == {"exec", "accounts", "sessions"}

ASSUME CatalogAssumption == MaxEdits \in [Parts -> Nat]

VARIABLES
    part,       \* what is being written
    edits       \* lines added

vars == <<argv, accountVars, files, part, edits>>

Init ==
    /\ ExecInit
    /\ AccountsInit
    /\ SessionsInit
    /\ part \in Parts
    /\ part = "sessions" \/ \A f \in DOMAIN files : files[f] = NoFile
    /\ edits = 0

Next ==
    /\ edits < MaxEdits[part]
    /\ edits' = edits + 1
    /\ UNCHANGED part
    /\ \/ part = "exec" /\ AddArgument /\ UNCHANGED <<accountVars, files>>
       \/ part = "accounts" /\ (AddAccount \/ AddBound) /\ UNCHANGED <<argv, files>>
       \/ part = "sessions" /\ AddLine /\ UNCHANGED <<argv, accountVars>>

Spec == Init /\ [][Next]_vars
=============================================================================
