-------------------------------- MODULE Lists --------------------------------
(***************************************************************************)
(* The filter of the greeter's scans, as a recursive function: SelectSeq   *)
(* takes its test as an operator, which no proof can be about.             *)
(***************************************************************************)
EXTENDS Naturals, Sequences

\* The elements of s that are not in S, in their order.
Without(s, S) ==
    LET rest[i \in 0..Len(s)] ==
          IF i = 0 THEN <<>>
          ELSE IF s[i] \in S THEN rest[i - 1] ELSE Append(rest[i - 1], s[i])
    IN  rest[Len(s)]
=============================================================================
