-------------------------------- MODULE Lists --------------------------------
(***************************************************************************)
(* What filtering and summing a list return, as recursive functions of     *)
(* sets and lists alone: SelectSeq and FoldLeft take operators, about      *)
(* which nothing can be proved by induction.                               *)
(***************************************************************************)
EXTENDS Integers, Sequences

\* For each prefix of `s`, its elements in `T`, in order.
AmongFirst(s, T) ==
    LET kept[i \in 0 .. Len(s)] ==
            IF i = 0 THEN <<>>
            ELSE IF s[i] \in T THEN Append(kept[i - 1], s[i]) ELSE kept[i - 1]
    IN  kept

\* Array.filter: the elements of `s` that are in `T`.
Among(s, T) == AmongFirst(s, T)[Len(s)]

\* For each prefix of `s`, the sum of its elements.
TotalFirst(s) ==
    LET total[i \in 0 .. Len(s)] == IF i = 0 THEN 0 ELSE total[i - 1] + s[i]
    IN  total

Total(s) == TotalFirst(s)[Len(s)]

=============================================================================
