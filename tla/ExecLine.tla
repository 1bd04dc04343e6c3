------------------------------ MODULE ExecLine ------------------------------
(***************************************************************************)
(* The Exec line of a session and the command that is started from it      *)
(* (split_exec in breadgreet/src/sessions.rs).  A line is a sequence of    *)
(* characters, one of which stands for all that mean nothing here; how     *)
(* whoever wrote the line quoted an argument is part of the state.         *)
(***************************************************************************)
EXTENDS Naturals, Sequences, SequencesExt, Lists

CONSTANT MaxWord    \* bound on the length of an argument

ASSUME ExecAssumption == MaxWord \in Nat

VARIABLE argv   \* the arguments meant, each with the form it is written in

Chars == {"a", "f", " ", "\"", "'", "\\", "%"}

Codes == {<<"%", "f">>}     \* is_field_code, for one of its thirteen

Words == UNION {[1..n -> Chars] : n \in 1..MaxWord}

ExecInit == argv = <<>>

-----------------------------------------------------------------------------
\* tokenize_exec: what is done so far, and how the next character is read.
Start == [args |-> <<>>, current |-> <<>>, quote |-> "none", escaped |-> FALSE]

Push(t, c) == [t EXCEPT !.current = Append(@, c), !.escaped = FALSE]

Flush(t) ==
    IF t.current = <<>> THEN t
    ELSE [t EXCEPT !.args = Append(@, t.current), !.current = <<>>]

Token(t, c) ==
    CASE t.escaped                                 -> Push(t, c)
      [] ~t.escaped /\ t.quote = c                 -> [t EXCEPT !.quote = "none"]
      [] ~t.escaped /\ c = "\\" /\ t.quote # "'"   -> [t EXCEPT !.escaped = TRUE]
      [] ~t.escaped /\ t.quote = "none" /\ c \in {"\"", "'"} -> [t EXCEPT !.quote = c]
      [] ~t.escaped /\ t.quote = "none" /\ c = " " -> Flush(t)
      [] OTHER                                     -> Push(t, c)

Read(t, line) ==
    LET read[i \in 0..Len(line)] ==
          IF i = 0 THEN t ELSE Token(read[i - 1], line[i])
    IN  read[Len(line)]

\* A backslash that ends the line stands for itself.
TokenizeExec(line) ==
    LET t == Read(Start, line)
    IN  Flush(IF t.escaped THEN Push(t, "\\") ELSE t).args

\* unescape_percent: "%%" is one "%".
Unescaped(t, c) ==
    IF c = "%" /\ t.half THEN [t EXCEPT !.half = FALSE]
    ELSE [out |-> Append(t.out, c), half |-> c = "%"]

Halved(t, arg) ==
    LET read[i \in 0..Len(arg)] ==
          IF i = 0 THEN t ELSE Unescaped(read[i - 1], arg[i])
    IN  read[Len(arg)]

UnescapePercent(arg) == Halved([out |-> <<>>, half |-> FALSE], arg).out

Kept(args) == Without(args, Codes)

\* Mutant: the codes are dropped last.
SplitExecLate(line) ==
    LET args == TokenizeExec(line)
    IN  Kept([i \in DOMAIN args |-> UnescapePercent(args[i])])

\* split_exec; unescaping leaves no argument empty.
SplitExec(line) ==
    LET args == Kept(TokenizeExec(line))
    IN  [i \in DOMAIN args |-> UnescapePercent(args[i])]

-----------------------------------------------------------------------------
\* The forms of an argument: as it is if nothing in it is special, in double
\* quotes, in single quotes if none is in it, or with a backslash before every
\* special character.  A field code stands alone or in double quotes.  An
\* argument is in one form throughout, not quoted in part.
Special == {" ", "\"", "'", "\\"}

Forms(word) ==
    LET chars == {word[i] : i \in DOMAIN word}
    IN  {"quoted", "escaped"}
          \union (IF "'" \in chars THEN {} ELSE {"single"})
          \union (IF Special \intersect chars = {} THEN {"plain"} ELSE {})

CodeForms == {"code", "quoted code"}

CodeArguments == [word : Codes, form : CodeForms]

AddArgument ==
    \/ \E word \in Words : \E form \in Forms(word) :
          argv' = Append(argv, [word |-> word, form |-> form])
    \/ \E a \in CodeArguments : argv' = Append(argv, a)

Quote(form) ==
    CASE form \in {"quoted", "quoted code"} -> "\""
      [] form = "single"                    -> "'"
      [] OTHER                              -> "none"

Written(c, form) ==
    CASE c = "%" /\ form \notin CodeForms               -> <<"%", "%">>
      [] c \in {"\"", "\\"} /\ form = "quoted"          -> <<"\\", c>>
      [] c \in Special /\ form = "escaped"              -> <<"\\", c>>
      [] OTHER                                          -> <<c>>

Spelled(a) ==
    LET body == FlattenSeq([i \in DOMAIN a.word |-> Written(a.word[i], a.form)])
        mark == <<Quote(a.form)>>
    IN  IF Quote(a.form) = "none" THEN body ELSE mark \o body \o mark

Line == FlattenSeq([i \in DOMAIN argv |-> Spelled(argv[i]) \o <<" ">>])

(* sessions.rs: "Double-quoted arguments are one token [...] Whole-argument *)
(* field codes are dropped; %% is a literal %."  The session is started     *)
(* with the arguments that were meant, in whichever of its forms each was   *)
(* written, and without the field codes, quoted or not.                     *)
ArgvComesBack ==
    LET meant == Without(argv, CodeArguments)
    IN  SplitExec(Line) = [i \in DOMAIN meant |-> meant[i].word]
=============================================================================
