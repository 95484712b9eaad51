---------------------------- MODULE ListsProofs -----------------------------
(***************************************************************************)
(* Filtered and summed lists, by induction over the prefixes of a list.    *)
(*                                                                         *)
(* The induction theorems of the library take an operator.  Here induction *)
(* is over a set, which WFMin gives: were some number not in the set, there *)
(* would be a least one.  In the same way a recursive definition is shown  *)
(* to define a function, prefix by prefix.                                 *)
(***************************************************************************)
EXTENDS Lists, SequenceTheorems, WellFoundedInduction, TLAPS

(* A set of natural numbers that is not empty has a least element. *)
LEMMA Least ==
    ASSUME NEW T \in SUBSET Nat, T # {}
    PROVE  \E n \in T : \A m \in T : n <= m
<1> DEFINE R == OpToRel(<, Nat)
<1>1. IsWellFoundedOn(R, Nat)
    BY NatLessThanWellFounded
<1>2. \A x, y \in Nat : y < x => <<y, x>> \in R
    BY DEF OpToRel
<1> HIDE DEF R
<1>3. PICK n \in T : \A m \in T : ~ (<<m, n>> \in R)
    BY <1>1, WFMin
<1>4. \A m \in T : n \in Nat /\ m \in Nat /\ ~(m < n)
    BY <1>2, <1>3
<1>5. \A m \in T : n <= m
    BY <1>4
<1> QED
    BY <1>5

(* Induction up to a bound, over a set instead of an operator. *)
LEMMA UpTo ==
    ASSUME NEW N \in Nat, NEW T, 0 \in T, \A i \in 1 .. N : i - 1 \in T => i \in T
    PROVE  0 .. N \subseteq T
<1> SUFFICES ASSUME ~(0 .. N \subseteq T) PROVE FALSE
    OBVIOUS
<1> DEFINE missed == (0 .. N) \ T
<1>1. missed \in SUBSET Nat /\ missed # {}
    OBVIOUS
<1>2. PICK n \in missed : \A m \in missed : n <= m
    BY <1>1, Least
<1>3. n \in 1 .. N /\ n - 1 \in 0 .. N /\ n \notin T
    BY <1>2
<1>4. n - 1 \notin missed
    BY <1>2, <1>3
<1> QED
    BY <1>3, <1>4

(* `f` is the recursive function on 0 .. N that starts with `b` and goes on by
   `step`, with values in V. *)
Recursive(f, V, b, N, step) ==
    /\ f \in [0 .. N -> V]
    /\ f[0] = b
    /\ \A i \in 1 .. N : f[i] = step[<<i, f[i - 1]>>]

StepsIn(step, V, N) == \A i \in 1 .. N, v \in V : step[<<i, v>>] \in V

(* A recursive definition over the prefixes of a list defines a function. *)
LEMMA Recursion ==
    ASSUME NEW V, NEW b \in V, NEW N \in Nat, NEW step, StepsIn(step, V, N)
    PROVE  \E f : Recursive(f, V, b, N, step)
<1> DEFINE T == {n \in 0 .. N : \E f : Recursive(f, V, b, n, step)}
<1>1. 0 \in T
    <2> DEFINE f == [i \in 0 .. 0 |-> b]
    <2>1. Recursive(f, V, b, 0, step)
        BY DEF Recursive
    <2> QED
        BY <2>1
<1>2. ASSUME NEW n \in 1 .. N, n - 1 \in T PROVE n \in T
    <2>1. PICK f : Recursive(f, V, b, n - 1, step)
        BY <1>2
    <2> DEFINE g == [i \in 0 .. n |-> IF i = n THEN step[<<n, f[n - 1]>>] ELSE f[i]]
    <2>2. f[n - 1] \in V /\ step[<<n, f[n - 1]>>] \in V /\ \A i \in 0 .. n - 1 : f[i] \in V
        BY <2>1 DEF Recursive, StepsIn
    <2>3. g \in [0 .. n -> V]
        BY <2>2
    <2>4. g[n] = step[<<n, f[n - 1]>>] /\ \A i \in 0 .. n - 1 : g[i] = f[i]
        OBVIOUS
    <2> HIDE DEF g
    <2>5. g[0] = b
        BY <2>1, <2>4 DEF Recursive
    <2>6. ASSUME NEW i \in 1 .. n PROVE g[i] = step[<<i, g[i - 1]>>]
        <3>1. CASE i = n
            <4>1. g[n - 1] = f[n - 1]
                BY <2>4
            <4> QED
                BY <2>4, <3>1, <4>1
        <3>2. CASE i # n
            <4>1. i \in 1 .. n - 1 /\ i - 1 \in 0 .. n - 1 /\ i \in 0 .. n - 1
                BY <3>2
            <4>2. g[i] = f[i] /\ g[i - 1] = f[i - 1]
                BY <2>4, <4>1
            <4>3. f[i] = step[<<i, f[i - 1]>>]
                BY <2>1, <4>1 DEF Recursive
            <4> QED
                BY <4>2, <4>3
        <3> QED
            BY <3>1, <3>2
    <2>7. Recursive(g, V, b, n, step)
        BY <2>3, <2>5, <2>6 DEF Recursive
    <2> QED
        BY <2>7
<1> HIDE DEF T
<1>3. 0 .. N \subseteq T
    BY <1>1, <1>2, UpTo
<1>4. N \in T
    BY <1>3
<1> QED
    BY <1>4 DEF T

-----------------------------------------------------------------------------
(* Filtering.                                                               *)

\* How the filter of a prefix is made of that of the one before.
KeepsOrNot(s, T, kept) ==
    [i \in 0 .. Len(s) |->
        IF i = 0 THEN <<>>
        ELSE IF s[i] \in T THEN Append(kept[i - 1], s[i]) ELSE kept[i - 1]]

LEMMA KeepsOrNotAt ==
    ASSUME NEW s, NEW T, Len(s) \in Nat, NEW kept
    PROVE  /\ DOMAIN KeepsOrNot(s, T, kept) = 0 .. Len(s)
           /\ KeepsOrNot(s, T, kept)[0] = <<>>
           /\ \A i \in 1 .. Len(s) :
                KeepsOrNot(s, T, kept)[i] = IF s[i] \in T THEN Append(kept[i - 1], s[i])
                                            ELSE kept[i - 1]
BY DEF KeepsOrNot

\* A function of the prefixes of a list of length `n`.
OnPrefixes(f, n) == f = [i \in 0 .. n |-> f[i]]

LEMMA KeepsOrNotIs ==
    ASSUME NEW s, NEW T, Len(s) \in Nat, NEW kept, NEW f,
           OnPrefixes(f, Len(s)),
           f[0] = <<>>,
           \A i \in 1 .. Len(s) :
                f[i] = IF s[i] \in T THEN Append(kept[i - 1], s[i]) ELSE kept[i - 1]
    PROVE  f = KeepsOrNot(s, T, kept)
<1> DEFINE k == KeepsOrNot(s, T, kept)
<1>1. k = [i \in 0 .. Len(s) |-> k[i]]
    BY DEF KeepsOrNot
<1>2. \A i \in 0 .. Len(s) : i = 0 \/ i \in 1 .. Len(s)
    OBVIOUS
<1>3. \A i \in 0 .. Len(s) : f[i] = k[i]
    BY <1>2, KeepsOrNotAt
<1> HIDE DEF k
<1>4. f = k
    BY <1>1, <1>3 DEF OnPrefixes
<1> QED
    BY <1>4 DEF k

LEMMA AmongFirstUnfolds ==
    ASSUME NEW S, NEW s \in Seq(S), NEW T
    PROVE  /\ AmongFirst(s, T) \in [0 .. Len(s) -> Seq(S)]
           /\ AmongFirst(s, T)[0] = <<>>
           /\ \A i \in 1 .. Len(s) :
                AmongFirst(s, T)[i] = IF s[i] \in T
                                      THEN Append(AmongFirst(s, T)[i - 1], s[i])
                                      ELSE AmongFirst(s, T)[i - 1]
<1> DEFINE N == Len(s)
           V == Seq(S)
           step == [a \in (1 .. N) \X V |->
                       IF s[a[1]] \in T THEN Append(a[2], s[a[1]]) ELSE a[2]]
<1>1. N \in Nat /\ <<>> \in V
    OBVIOUS
<1>2. \A i \in 1 .. N, l \in V :
         /\ (IF s[i] \in T THEN Append(l, s[i]) ELSE l) \in V
         /\ step[<<i, l>>] = IF s[i] \in T THEN Append(l, s[i]) ELSE l
    OBVIOUS
<1>3. StepsIn(step, V, N)
    BY DEF StepsIn
<1>0. N = Len(s)
    OBVIOUS
<1> HIDE DEF step, V, N
<1>4. PICK f : Recursive(f, V, <<>>, N, step)
    BY <1>1, <1>3, Recursion
<1>5. \A i \in 1 .. N : /\ f[i - 1] \in V
                        /\ f[i] = IF s[i] \in T THEN Append(f[i - 1], s[i]) ELSE f[i - 1]
    <2>1. \A i \in 1 .. N : i - 1 \in 0 .. N
        BY <1>1
    <2> QED
        BY <1>2, <1>4, <2>1 DEF Recursive
<1>6. f = KeepsOrNot(s, T, f)
    <2>1. f = [i \in 0 .. N |-> f[i]] /\ f[0] = <<>>
        BY <1>4 DEF Recursive
    <2>2. OnPrefixes(f, Len(s))
        BY <1>0, <2>1 DEF OnPrefixes
    <2>3. /\ Len(s) \in Nat /\ f[0] = <<>>
          /\ \A i \in 1 .. Len(s) :
                f[i] = IF s[i] \in T THEN Append(f[i - 1], s[i]) ELSE f[i - 1]
        BY <1>0, <1>1, <1>5, <2>1
    <2> QED
        BY <2>2, <2>3, KeepsOrNotIs
<1> DEFINE g == AmongFirst(s, T)
<1>7. g = CHOOSE kept : kept = KeepsOrNot(s, T, kept)
    BY DEF AmongFirst, KeepsOrNot
<1> HIDE DEF g
<1>8. g = KeepsOrNot(s, T, g)
    BY <1>6, <1>7
<1>9. /\ g = [i \in 0 .. N |-> g[i]] /\ g[0] = <<>>
      /\ \A i \in 1 .. N : g[i] = IF s[i] \in T THEN Append(g[i - 1], s[i]) ELSE g[i - 1]
    <2> DEFINE k == KeepsOrNot(s, T, g)
    <2>1. /\ k = [i \in 0 .. N |-> k[i]]
        BY <1>0 DEF KeepsOrNot
    <2>2. /\ k[0] = <<>>
          /\ \A i \in 1 .. N : k[i] = IF s[i] \in T THEN Append(g[i - 1], s[i]) ELSE g[i - 1]
        BY <1>0, <1>1, KeepsOrNotAt
    <2>3. g = k
        BY <1>8
    <2> HIDE DEF k
    <2> QED
        BY <2>1, <2>2, <2>3
<1> DEFINE W == {i \in 0 .. N : g[i] \in V}
<1>10. 0 \in W
    BY <1>1, <1>9
<1>11. ASSUME NEW i \in 1 .. N, i - 1 \in W PROVE i \in W
    <2>1. g[i - 1] \in V /\ i \in 0 .. N
        BY <1>1, <1>11
    <2>2. g[i] = IF s[i] \in T THEN Append(g[i - 1], s[i]) ELSE g[i - 1]
        BY <1>9
    <2>3. g[i] \in V
        BY <1>2, <2>1, <2>2
    <2> QED
        BY <2>1, <2>3
<1> HIDE DEF W
<1>12. 0 .. N \subseteq W
    BY <1>1, <1>10, <1>11, UpTo
<1>13. \A i \in 0 .. N : g[i] \in V
    BY <1>12 DEF W
<1> QED
    BY <1>0, <1>9, <1>13 DEF g, V

(* What is kept are elements of the list that are in the set. *)
LEMMA AmongElements ==
    ASSUME NEW S, NEW s \in Seq(S), NEW T
    PROVE  /\ Among(s, T) \in Seq(S)
           /\ \A j \in 1 .. Len(Among(s, T)) : \E i \in 1 .. Len(s) :
                 Among(s, T)[j] = s[i] /\ s[i] \in T
<1> DEFINE N == Len(s)
           g == AmongFirst(s, T)
           Sifted(l) == \A j \in 1 .. Len(l) : \E i \in 1 .. N : l[j] = s[i] /\ s[i] \in T
           W == {i \in 0 .. N : Sifted(g[i])}
<1>1. /\ g \in [0 .. N -> Seq(S)] /\ g[0] = <<>> /\ N \in Nat
      /\ \A i \in 1 .. N : g[i] = IF s[i] \in T THEN Append(g[i - 1], s[i]) ELSE g[i - 1]
    BY AmongFirstUnfolds
<1> HIDE DEF g
<1>2. 0 \in W
    BY <1>1
<1>3. ASSUME NEW i \in 1 .. N, i - 1 \in W PROVE i \in W
    <2>1. g[i - 1] \in Seq(S) /\ Sifted(g[i - 1])
        BY <1>1, <1>3
    <2>2. CASE s[i] \in T
        <3> DEFINE l == g[i - 1]
        <3>1. s[i] \in S /\ l \in Seq(S) /\ g[i] = Append(l, s[i])
            <4>1. s[i] \in S
                OBVIOUS
            <4>2. g[i] = IF s[i] \in T THEN Append(g[i - 1], s[i]) ELSE g[i - 1]
                BY <1>1
            <4> QED
                BY <2>1, <2>2, <4>1, <4>2
        <3> HIDE DEF l
        <3>2. /\ Len(g[i]) = Len(l) + 1 /\ g[i][Len(l) + 1] = s[i]
              /\ \A j \in 1 .. Len(l) : g[i][j] = l[j]
            BY <3>1
        <3>3. Sifted(g[i])
            BY <2>1, <2>2, <3>1, <3>2 DEF l
        <3> QED
            BY <3>3
    <2>3. CASE s[i] \notin T
        <3>1. g[i] = g[i - 1]
            BY <1>1, <2>3
        <3> QED
            BY <2>1, <3>1
    <2> QED
        BY <2>2, <2>3
<1> HIDE DEF W
<1>4. 0 .. N \subseteq W
    BY <1>1, <1>2, <1>3, UpTo
<1>5. Sifted(g[N]) /\ g[N] \in Seq(S)
    BY <1>1, <1>4 DEF W
<1> QED
    BY <1>5 DEF g, Among

(* Filtering a list whose unwanted elements are all at its start. *)
LEMMA AmongSuffix ==
    ASSUME NEW S, NEW s \in Seq(S), NEW T, NEW d \in 0 .. Len(s),
           \A i \in 1 .. d : s[i] \notin T,
           \A i \in d + 1 .. Len(s) : s[i] \in T
    PROVE  Among(s, T) = SubSeq(s, d + 1, Len(s))
<1> DEFINE N == Len(s)
           g == AmongFirst(s, T)
           W == {i \in 0 .. N : g[i] = SubSeq(s, d + 1, i)}
<1>1. /\ g \in [0 .. N -> Seq(S)] /\ g[0] = <<>> /\ N \in Nat
      /\ \A i \in 1 .. N : g[i] = IF s[i] \in T THEN Append(g[i - 1], s[i]) ELSE g[i - 1]
    BY AmongFirstUnfolds
<1> HIDE DEF g
<1>2. 0 \in W
    BY <1>1, SubSeqEmpty
<1>3. ASSUME NEW i \in 1 .. N, i - 1 \in W PROVE i \in W
    <2>1. CASE i <= d
        <3>1. SubSeq(s, d + 1, i - 1) = <<>> /\ SubSeq(s, d + 1, i) = <<>>
            BY <2>1, SubSeqEmpty
        <3>2. g[i] = g[i - 1]
            BY <1>1, <2>1
        <3> QED
            BY <1>3, <3>1, <3>2
    <2>2. CASE i > d
        <3>1. g[i] = Append(SubSeq(s, d + 1, i - 1), s[i])
            <4>1. g[i - 1] = SubSeq(s, d + 1, i - 1) /\ s[i] \in T
                BY <1>3, <2>2
            <4>2. g[i] = IF s[i] \in T THEN Append(g[i - 1], s[i]) ELSE g[i - 1]
                BY <1>1
            <4> QED
                BY <4>1, <4>2
        <3>2. Append(SubSeq(s, d + 1, i - 1), s[i]) = SubSeq(s, d + 1, i)
            BY <2>2
        <3>3. g[i] = SubSeq(s, d + 1, i)
            BY <3>1, <3>2
        <3> QED
            BY <2>2, <3>3
    <2> QED
        BY <2>1, <2>2
<1> HIDE DEF W
<1>4. 0 .. N \subseteq W
    BY <1>1, <1>2, <1>3, UpTo
<1>5. N \in W
    BY <1>1, <1>4
<1>6. g[N] = SubSeq(s, d + 1, N)
    BY <1>5 DEF W
<1> QED
    BY <1>6 DEF g, Among

(* What is left of a list after its first elements. *)
LEMMA SuffixIs ==
    ASSUME NEW S, NEW s \in Seq(S), NEW c \in 0 .. Len(s)
    PROVE  LET rest == SubSeq(s, c + 1, Len(s))
           IN  /\ rest \in Seq(S) /\ Len(rest) = Len(s) - c
               /\ \A i \in 1 .. Len(rest) : rest[i] = s[c + i]
<1> DEFINE m == c + 1
           n == Len(s)
<1>1. m \in Int /\ n \in Int /\ \A i \in m .. n : s[i] \in S
    OBVIOUS
<1> DEFINE rest == SubSeq(s, m, n)
<1>2. /\ rest \in Seq(S) /\ Len(rest) = IF m <= n THEN n - m + 1 ELSE 0
      /\ \A i \in 1 .. n - m + 1 : rest[i] = s[m + i - 1]
    <2> HIDE DEF m, n
    <2> QED
        BY <1>1, SubSeqProperties
<1> HIDE DEF rest
<1>3. Len(rest) = n - c
    BY <1>2
<1>4. \A i \in 1 .. Len(rest) : i \in 1 .. n - m + 1 /\ m + i - 1 = c + i
    BY <1>3
<1>5. \A i \in 1 .. Len(rest) : rest[i] = s[c + i]
    BY <1>2, <1>4
<1> QED
    BY <1>2, <1>3, <1>5 DEF rest

-----------------------------------------------------------------------------
(* Summing.                                                                 *)

\* How the sum of a prefix is made of that of the one before.
Adds(s, total) == [i \in 0 .. Len(s) |-> IF i = 0 THEN 0 ELSE total[i - 1] + s[i]]

LEMMA AddsAt ==
    ASSUME NEW s, Len(s) \in Nat, NEW total
    PROVE  /\ DOMAIN Adds(s, total) = 0 .. Len(s)
           /\ Adds(s, total)[0] = 0
           /\ \A i \in 1 .. Len(s) : Adds(s, total)[i] = total[i - 1] + s[i]
BY DEF Adds

LEMMA AddsIs ==
    ASSUME NEW s, Len(s) \in Nat, NEW total, NEW f,
           f = [i \in 0 .. Len(s) |-> f[i]], f[0] = 0,
           \A i \in 1 .. Len(s) : f[i] = total[i - 1] + s[i]
    PROVE  f = Adds(s, total)
<1> DEFINE k == Adds(s, total)
<1>1. k = [i \in 0 .. Len(s) |-> k[i]]
    BY DEF Adds
<1>2. \A i \in 0 .. Len(s) : i = 0 \/ i \in 1 .. Len(s)
    OBVIOUS
<1>3. \A i \in 0 .. Len(s) : f[i] = k[i]
    BY <1>2, AddsAt
<1> HIDE DEF k
<1>4. f = k
    BY <1>1, <1>3
<1> QED
    BY <1>4 DEF k

LEMMA TotalFirstUnfolds ==
    ASSUME NEW s \in Seq(Int)
    PROVE  /\ TotalFirst(s) \in [0 .. Len(s) -> Int]
           /\ TotalFirst(s)[0] = 0
           /\ \A i \in 1 .. Len(s) : TotalFirst(s)[i] = TotalFirst(s)[i - 1] + s[i]
<1> DEFINE N == Len(s)
           step == [a \in (1 .. N) \X Int |-> a[2] + s[a[1]]]
<1>1. N \in Nat
    OBVIOUS
<1>2. \A i \in 1 .. N, l \in Int : l + s[i] \in Int /\ step[<<i, l>>] = l + s[i]
    OBVIOUS
<1>3. StepsIn(step, Int, N)
    BY DEF StepsIn
<1>0. N = Len(s)
    OBVIOUS
<1> HIDE DEF step, N
<1>4. PICK f : Recursive(f, Int, 0, N, step)
    <2> DEFINE V == Int
               b == 0
    <2>1. b \in V /\ StepsIn(step, V, N)
        BY <1>3
    <2> HIDE DEF V, b
    <2>2. \E f : Recursive(f, V, b, N, step)
        BY <1>1, <2>1, Recursion
    <2> QED
        BY <2>2 DEF V, b
<1>5. \A i \in 1 .. N : f[i - 1] \in Int /\ f[i] = f[i - 1] + s[i]
    <2>1. \A i \in 1 .. N : i - 1 \in 0 .. N
        BY <1>1
    <2> QED
        BY <1>2, <1>4, <2>1 DEF Recursive
<1>6. f = Adds(s, f)
    <2>1. f = [i \in 0 .. N |-> f[i]] /\ f[0] = 0
        BY <1>4 DEF Recursive
    <2> QED
        BY <1>0, <1>1, <1>5, <2>1, AddsIs
<1> DEFINE g == TotalFirst(s)
<1>7. g = CHOOSE total : total = Adds(s, total)
    BY DEF TotalFirst, Adds
<1> HIDE DEF g
<1>8. g = Adds(s, g)
    BY <1>6, <1>7
<1>9. /\ g = [i \in 0 .. N |-> g[i]] /\ g[0] = 0
      /\ \A i \in 1 .. N : g[i] = g[i - 1] + s[i]
    <2> DEFINE k == Adds(s, g)
    <2>1. k = [i \in 0 .. N |-> k[i]]
        BY <1>0 DEF Adds
    <2>2. k[0] = 0 /\ \A i \in 1 .. N : k[i] = g[i - 1] + s[i]
        BY <1>0, <1>1, AddsAt
    <2>3. g = k
        BY <1>8
    <2> HIDE DEF k
    <2> QED
        BY <2>1, <2>2, <2>3
<1> DEFINE W == {i \in 0 .. N : g[i] \in Int}
<1>10. 0 \in W
    BY <1>1, <1>9
<1>11. ASSUME NEW i \in 1 .. N, i - 1 \in W PROVE i \in W
    <2>1. g[i - 1] \in Int /\ i \in 0 .. N
        BY <1>1, <1>11
    <2>2. g[i] \in Int
        BY <1>2, <1>9, <2>1
    <2> QED
        BY <2>1, <2>2
<1> HIDE DEF W
<1>12. 0 .. N \subseteq W
    BY <1>1, <1>10, <1>11, UpTo
<1>13. \A i \in 0 .. N : g[i] \in Int
    BY <1>12 DEF W
<1> QED
    BY <1>0, <1>9, <1>13 DEF g

(* The sum of a list that has grown by one element. *)
LEMMA TotalAppend ==
    ASSUME NEW s \in Seq(Int), NEW v \in Int
    PROVE  Total(s) \in Int /\ Total(Append(s, v)) = Total(s) + v
<1> DEFINE N == Len(s)
           t == Append(s, v)
           f == TotalFirst(s)
           g == TotalFirst(t)
<1>1. /\ t \in Seq(Int) /\ Len(t) = N + 1 /\ t[N + 1] = v /\ N \in Nat
      /\ \A i \in 1 .. N : t[i] = s[i]
    OBVIOUS
<1> HIDE DEF t
<1>2. /\ f \in [0 .. N -> Int] /\ f[0] = 0
      /\ \A i \in 1 .. N : f[i] = f[i - 1] + s[i]
    BY TotalFirstUnfolds
<1>3. /\ g[0] = 0
      /\ \A i \in 1 .. N + 1 : g[i] = g[i - 1] + t[i]
    BY <1>1, TotalFirstUnfolds
<1> HIDE DEF f, g, N
<1> DEFINE W == {i \in 0 .. N : g[i] = f[i]}
<1>4. 0 \in W
    BY <1>1, <1>2, <1>3
<1>5. ASSUME NEW i \in 1 .. N, i - 1 \in W PROVE i \in W
    <2>1. i \in 1 .. N + 1 /\ i \in 0 .. N
        BY <1>1
    <2>2. g[i] = g[i - 1] + t[i] /\ f[i] = f[i - 1] + s[i] /\ t[i] = s[i]
        BY <1>1, <1>2, <1>3, <2>1
    <2> QED
        BY <1>5, <2>1, <2>2
<1> HIDE DEF W
<1>6. 0 .. N \subseteq W
    BY <1>1, <1>4, <1>5, UpTo
<1>7. g[N] = f[N] /\ f[N] \in Int
    BY <1>1, <1>2, <1>6 DEF W
<1>8. g[N + 1] = g[N] + v
    <2>1. N + 1 \in 1 .. N + 1 /\ (N + 1) - 1 = N
        BY <1>1
    <2> QED
        BY <1>1, <1>3, <2>1
<1> QED
    BY <1>1, <1>7, <1>8 DEF f, g, t, N, Total

LEMMA TotalEmpty == Total(<<>>) = 0
<1>1. <<>> \in Seq(Int) /\ Len(<<>>) = 0
    OBVIOUS
<1> QED
    BY <1>1, TotalFirstUnfolds DEF Total
=============================================================================
