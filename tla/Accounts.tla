------------------------------ MODULE Accounts ------------------------------
(***************************************************************************)
(* The accounts the greeter offers: the lines of /etc/passwd within the    *)
(* bounds of /etc/login.defs (breadgreet/src/users.rs).  Names are numbers *)
(* in their alphabetical order; the name shown is left out.                *)
(***************************************************************************)
EXTENDS Naturals, Sequences, Functions, Lists

CONSTANTS
    Names,                  \* login names
    NobodyName,             \* the one among them that is "nobody"
    Uids,                   \* user ids that occur
    DefaultMin, DefaultMax  \* bounds when login.defs has none (1000, 60000)

ASSUME AccountsAssumption ==
    /\ Names \subseteq Nat
    /\ Uids \subseteq Nat
    /\ {DefaultMin, DefaultMax} \subseteq Nat

VARIABLES
    passwd,     \* lines of /etc/passwd
    loginDefs   \* lines of /etc/login.defs that set a bound

accountVars == <<passwd, loginDefs>>

\* A line whose uid or whose number of fields is wrong is "garbled"; shell:
\* is_login_shell.
PasswdLines == [name : Names, uid : Uids, shell : BOOLEAN, garbled : {FALSE}]
    \union [name : Names, uid : {0}, shell : {TRUE}, garbled : {TRUE}]

DefsLines == [key : {"UID_MIN", "UID_MAX"}, value : Uids, garbled : BOOLEAN]

AccountsInit ==
    /\ passwd = <<>>
    /\ loginDefs = <<>>

AddAccount ==
    /\ \E line \in PasswdLines : passwd' = Append(passwd, line)
    /\ UNCHANGED loginDefs

AddBound ==
    /\ \E line \in DefsLines : loginDefs' = Append(loginDefs, line)
    /\ UNCHANGED passwd

-----------------------------------------------------------------------------
\* uid_bounds: the last line that parses counts.
Bound(key, default) ==
    LET set == SelectSeq(loginDefs, LAMBDA l : l.key = key /\ ~l.garbled)
    IN  IF set = <<>> THEN default ELSE set[Len(set)].value

MayLogIn(line) ==
    /\ ~line.garbled
    /\ Bound("UID_MIN", DefaultMin) <= line.uid
    /\ line.uid <= Bound("UID_MAX", DefaultMax)
    /\ line.name # NobodyName
    /\ line.shell

Before(a, b) == a.uid < b.uid \/ (a.uid = b.uid /\ a.name < b.name)

\* sort_by
Sorted(s) ==
    LET order == CHOOSE p \in Bijection(DOMAIN s, DOMAIN s) :
          \A i, j \in DOMAIN s : i < j => ~Before(s[p[j]], s[p[i]])
    IN  [i \in DOMAIN s |-> s[order[i]]]

\* dedup_by: of entries of one name in a row, the first.
Deduped(s) ==
    LET kept[i \in 0..Len(s)] ==
          IF i = 0 THEN <<>>
          ELSE IF i > 1 /\ s[i].name = s[i - 1].name THEN kept[i - 1]
          ELSE Append(kept[i - 1], s[i])
    IN  kept[Len(s)]

Human(lines) == Without(lines, {line \in PasswdLines : ~MayLogIn(line)})

\* Mutant: duplicates are removed before the list is sorted.
OfferedUnsorted(lines) == Sorted(Deduped(Human(lines)))

\* parse
OfferedAccounts(lines) == Deduped(Sorted(Human(lines)))

(* users.rs: "Human users on this system, sorted by UID."  Every name that  *)
(* may log in is offered first under its lowest uid, nobody else is, and a  *)
(* name is never offered twice in a row.  (It may be offered again if other *)
(* accounts stand between two of its uids.)                                 *)
AccountsOffered ==
    LET users == OfferedAccounts(passwd)
        human == {i \in DOMAIN passwd : MayLogIn(passwd[i])}
    IN  /\ \A k \in DOMAIN users : \E i \in human : users[k] = passwd[i]
        /\ \A i \in human : \E k \in DOMAIN users :
              /\ users[k].name = passwd[i].name
              /\ users[k].uid <= passwd[i].uid
              /\ \A j \in 1..(k - 1) : users[j].name # users[k].name
        /\ \A k \in DOMAIN users : k > 1 =>
              Before(users[k - 1], users[k]) /\ users[k].name # users[k - 1].name
=============================================================================
