----------------------------- MODULE TextProofs ------------------------------
(***************************************************************************)
(* Proofs about the texts: titles for every message, and the redaction of  *)
(* every transcript under every .env.                                      *)
(***************************************************************************)
EXTENDS MCTexts, SequenceFacts, FiniteSetTheorems

-----------------------------------------------------------------------------
(* Parts of a text *)

LEMMA PrefixGrows ==
    ASSUME NEW C, NEW t \in Seq(C)
    PROVE  /\ SubSeq(t, 1, 0) = <<>>
           /\ SubSeq(t, 1, Len(t)) = t
           /\ \A k \in Nat : k < Len(t) =>
                 /\ SubSeq(t, 1, k) \in Seq(C) /\ t[k + 1] \in C
                 /\ SubSeq(t, 1, k + 1) = Append(SubSeq(t, 1, k), t[k + 1])
OBVIOUS

LEMMA PrefixProperty ==
    ASSUME NEW C, NEW t \in Seq(C), NEW n \in 0..Len(t)
    PROVE  /\ SubSeq(t, 1, n) \in Seq(C) /\ Len(SubSeq(t, 1, n)) = n
           /\ \A i \in 1..n : SubSeq(t, 1, n)[i] = t[i]
OBVIOUS

\* rstrip cuts a text after its last ink.
LEMMA RStripped ==
    ASSUME NEW C, NEW t \in Seq(C)
    PROVE  \E n \in 0..Len(t) :
               /\ rstrip(t) = SubSeq(t, 1, n)
               /\ n > 0 => t[n] \notin Blanks
               /\ \A i \in n + 1..Len(t) : t[i] \in Blanks
<1> DEFINE T == InkOf(t) \cup {0}
           last == CHOOSE n \in T : \A i \in InkOf(t) : i <= n
<1>1. /\ T \in SUBSET Int /\ T # {} /\ Len(t) \in Int /\ \A x \in T : x <= Len(t)
    BY DEF InkOf
<1>2. \E n \in T : \A i \in T : i <= n
    <2> HIDE DEF T
    <2>1. \A x \in T : x <= Len(t)
        BY <1>1
    <2> DEFINE len == Len(t)
    <2>2. T \in SUBSET Int /\ T # {} /\ len \in Int /\ \A x \in T : x <= len
        BY <1>1
    <2> HIDE DEF len
    <2> QED
        BY ONLY <2>2, Greatest
<1>3. last \in T /\ \A i \in InkOf(t) : i <= last
    BY <1>2
<1>4. rstrip(t) = SubSeq(t, 1, last)
    BY DEF rstrip
<1> HIDE DEF last
<1>5. last \in 0..Len(t)
    BY <1>3 DEF InkOf
<1>6. last > 0 => t[last] \notin Blanks
    BY <1>3 DEF InkOf
<1>7. ASSUME NEW i \in last + 1..Len(t) PROVE t[i] \in Blanks
    BY <1>3, <1>5 DEF InkOf
<1> QED
    BY <1>4, <1>5, <1>6, <1>7

\* strip leaves what lies between the first ink and the last.
LEMMA Stripped ==
    ASSUME NEW C, NEW t \in Seq(C)
    PROVE  \/ strip(t) = <<>> /\ InkOf(t) = {}
           \/ \E i, j \in InkOf(t) :
                 /\ strip(t) = SubSeq(t, i, j) /\ strip(t) # <<>>
                 /\ InkOf(t) \subseteq i..j
<1>1. PICK n \in 0..Len(t) :
               /\ rstrip(t) = SubSeq(t, 1, n)
               /\ n > 0 => t[n] \notin Blanks
               /\ \A i \in n + 1..Len(t) : t[i] \in Blanks
    BY RStripped
<1> DEFINE back == Reverse(SubSeq(t, 1, n))
<1>2. /\ back \in Seq(C) /\ Len(back) = n
      /\ \A i \in 1..n : back[i] = t[n - i + 1]
    BY PrefixProperty DEF Reverse
<1> HIDE DEF back
<1>3. PICK m \in 0..Len(back) :
               /\ rstrip(back) = SubSeq(back, 1, m)
               /\ m > 0 => back[m] \notin Blanks
               /\ \A i \in m + 1..Len(back) : back[i] \in Blanks
    BY <1>2, RStripped
<1>4. strip(t) = Reverse(SubSeq(back, 1, m))
    BY <1>1, <1>3 DEF strip, back
<1>5. /\ n \in Nat /\ m \in Nat /\ m <= n /\ n <= Len(t) /\ Len(t) \in Nat
      /\ DOMAIN t = 1..Len(t)
    BY <1>2
<1>6. /\ Len(SubSeq(back, 1, m)) = m
      /\ \A i \in 1..m : SubSeq(back, 1, m)[i] = t[n - i + 1]
    BY <1>2, <1>3, PrefixProperty
<1> DEFINE first == n - m + 1
<1>7. strip(t) = [i \in 1..m |-> t[first + i - 1]]
    <2>1. \A i \in 1..m : m - i + 1 \in 1..m /\ n - (m - i + 1) + 1 = first + i - 1
        BY <1>5
    <2> QED
        BY <1>4, <1>6, <2>1 DEF Reverse
<1>8. ASSUME NEW i \in InkOf(t) PROVE first <= i /\ i <= n
    <2>1. i \in 1..Len(t) /\ t[i] \notin Blanks
        BY DEF InkOf
    <2>2. i <= n
        BY <1>1, <1>5, <2>1
    <2>3. ASSUME i < first PROVE FALSE
        <3>1. n - i + 1 \in m + 1..n /\ n - (n - i + 1) + 1 = i
            BY <1>5, <2>1, <2>2, <2>3
        <3>2. back[n - i + 1] = t[i]
            BY <1>2, <1>5, <3>1
        <3> QED
            BY <1>2, <1>3, <2>1, <3>1, <3>2
    <2> QED
        BY <1>5, <2>1, <2>2, <2>3
<1>9. CASE m = 0
    <2>1. InkOf(t) = {}
        BY <1>5, <1>8, <1>9 DEF InkOf
    <2>2. strip(t) = <<>>
        BY <1>7, <1>9
    <2> QED
        BY <2>1, <2>2
<1>10. CASE m > 0
    <2>1. first \in 1..n /\ n > 0 /\ n \in 1..Len(t)
        BY <1>5, <1>10
    <2>2. back[m] = t[first]
        BY <1>2, <1>5, <1>10
    <2>3. first \in InkOf(t) /\ n \in InkOf(t)
        BY <1>1, <1>3, <1>5, <1>10, <2>1, <2>2 DEF InkOf
    <2>4. strip(t) = SubSeq(t, first, n)
        BY <1>5, <1>7, <2>1
    <2>5. Len(strip(t)) = m
        BY <1>5, <1>7
    <2>6. InkOf(t) \subseteq first..n
        BY <1>5, <1>8 DEF InkOf
    <2>7. strip(t) # <<>>
        BY <1>10, <2>5
    <2> HIDE DEF first
    <2> QED
        BY <2>3, <2>4, <2>6, <2>7
<1>11. m = 0 \/ m > 0
    BY <1>5
<1> QED
    BY <1>9, <1>10, <1>11

-----------------------------------------------------------------------------
(* Ink and lines *)

\* Ink, one character at a time.
LEMMA InkAppends ==
    ASSUME NEW C, NEW t \in Seq(C), NEW c \in C
    PROVE  /\ Ink(<<>>) = <<>>
           /\ Ink(t) \in Seq(C)
           /\ Ink(Append(t, c)) =
                 IF c \in Blanks THEN Ink(t) ELSE Append(Ink(t), c)
<1> DEFINE V == Seq(C)
           base == <<>>
           op(v, x) == IF x \in Blanks THEN v ELSE Append(v, x)
           F == [p \in V \X C |-> op(p[1], p[2])]
           Iterates(it, seq) ==
               it = [s \in SUBSET DOMAIN seq |->
                        IF s = {} THEN base ELSE op(it[s \ {Max(s)}], seq[Max(s)])]
           Iterator(seq) == CHOOSE it : Iterates(it, seq)
<1>1. \A seq : Ink(seq) = Iterator(seq)[DOMAIN seq]
    BY DEF Ink, FoldLeft, MapThenFoldSet
<1>2. base \in V /\ \A v \in V, x \in C : op(v, x) \in V
    OBVIOUS
<1>3. F \in [V \X C -> V] /\ \A v \in V, x \in C : F[<<v, x>>] = op(v, x)
    BY <1>2
<1> HIDE DEF V, F, op, base
<1>4. ASSUME NEW seq \in Seq(C)
      PROVE  Foldable(V, C, base, F, seq) /\ Folds(Iterator(seq), V, base, F, seq)
    <2>1. Foldable(V, C, base, F, seq)
        BY <1>2, <1>3 DEF Foldable
    <2>2. PICK it : Iterating(it, V, C, base, F, seq)
        BY ONLY <2>1, FoldExists
    <2>3. Iterates(it, seq)
        BY <1>3, <2>2 DEF Iterating
    <2>4. Iterates(Iterator(seq), seq)
        BY <2>3
    <2> HIDE DEF Iterator
    <2>5. ASSUME NEW s \in SUBSET DOMAIN seq, s # {}, Iterator(seq)[s \ {Max(s)}] \in V
          PROVE  Iterator(seq)[s] = F[<<Iterator(seq)[s \ {Max(s)}], seq[Max(s)]>>]
        <3>1. Iterator(seq)[s] = op(Iterator(seq)[s \ {Max(s)}], seq[Max(s)])
            BY <2>4, <2>5
        <3>2. seq[Max(s)] \in C
            BY <2>2, <2>5 DEF Iterating
        <3> QED
            BY <1>3, <2>5, <3>1, <3>2
    <2>6. Iterator(seq)[{}] = base
        BY <2>4
    <2> QED
        BY <2>1, <2>5, <2>6 DEF Folds
<1>5. Append(t, c) \in Seq(C) /\ <<>> \in Seq(C)
    OBVIOUS
<1> DEFINE a == Iterator(t)
           b == Iterator(Append(t, c))
<1>6. /\ Foldable(V, C, base, F, t)
      /\ Folds(a, V, base, F, t) /\ Folds(b, V, base, F, Append(t, c))
    BY <1>4, <1>5
<1>7. Ink(t) = a[DOMAIN t] /\ Ink(Append(t, c)) = b[DOMAIN Append(t, c)]
    BY <1>1
<1> HIDE DEF Iterator
<1>8. Ink(<<>>) = base
    <2>1. DOMAIN <<>> = {}
        OBVIOUS
    <2> QED
        BY <1>1, <1>4, <1>5, <2>1 DEF Folds
<1> HIDE DEF a, b
<1>9. a[DOMAIN t] \in V /\ b[DOMAIN Append(t, c)] = F[<<a[DOMAIN t], c>>]
    BY ONLY c \in C, <1>6, FoldAppends
<1> QED
    BY <1>3, <1>7, <1>8, <1>9 DEF op, base, V

\* A message squeezed, one character at a time.
LEMMA SqueezedAppends ==
    ASSUME NEW C, Space \in C, NEW t \in Seq(C), NEW c \in C
    PROVE  /\ Squeezed(<<>>) = <<>>
           /\ Squeezed(t) \in Seq(C)
           /\ Squeezed(Append(t, c)) =
                 IF c \notin Blanks THEN Append(Squeezed(t), c)
                 ELSE IF Squeezed(t) = <<>> \/ Last(Squeezed(t)) = Space THEN Squeezed(t)
                 ELSE Append(Squeezed(t), Space)
<1> DEFINE V == Seq(C)
           base == <<>>
           op(v, x) == IF x \notin Blanks THEN Append(v, x)
                        ELSE IF v = <<>> \/ Last(v) = Space THEN v
                        ELSE Append(v, Space)
           F == [p \in V \X C |-> op(p[1], p[2])]
           Iterates(it, seq) ==
               it = [s \in SUBSET DOMAIN seq |->
                        IF s = {} THEN base ELSE op(it[s \ {Max(s)}], seq[Max(s)])]
           Iterator(seq) == CHOOSE it : Iterates(it, seq)
<1>1. \A seq : Squeezed(seq) = Iterator(seq)[DOMAIN seq]
    BY DEF Squeezed, FoldLeft, MapThenFoldSet
<1>2. base \in V /\ \A v \in V, x \in C : op(v, x) \in V
    OBVIOUS
<1>3. F \in [V \X C -> V] /\ \A v \in V, x \in C : F[<<v, x>>] = op(v, x)
    BY <1>2
<1> HIDE DEF V, F, op, base
<1>4. ASSUME NEW seq \in Seq(C)
      PROVE  Foldable(V, C, base, F, seq) /\ Folds(Iterator(seq), V, base, F, seq)
    <2>1. Foldable(V, C, base, F, seq)
        BY <1>2, <1>3 DEF Foldable
    <2>2. PICK it : Iterating(it, V, C, base, F, seq)
        BY ONLY <2>1, FoldExists
    <2>3. Iterates(it, seq)
        BY <1>3, <2>2 DEF Iterating
    <2>4. Iterates(Iterator(seq), seq)
        BY <2>3
    <2> HIDE DEF Iterator
    <2>5. ASSUME NEW s \in SUBSET DOMAIN seq, s # {}, Iterator(seq)[s \ {Max(s)}] \in V
          PROVE  Iterator(seq)[s] = F[<<Iterator(seq)[s \ {Max(s)}], seq[Max(s)]>>]
        <3>1. Iterator(seq)[s] = op(Iterator(seq)[s \ {Max(s)}], seq[Max(s)])
            BY <2>4, <2>5
        <3>2. seq[Max(s)] \in C
            BY <2>2, <2>5 DEF Iterating
        <3> QED
            BY <1>3, <2>5, <3>1, <3>2
    <2>6. Iterator(seq)[{}] = base
        BY <2>4
    <2> QED
        BY <2>1, <2>5, <2>6 DEF Folds
<1>5. Append(t, c) \in Seq(C) /\ <<>> \in Seq(C)
    OBVIOUS
<1> DEFINE a == Iterator(t)
           b == Iterator(Append(t, c))
<1>6. /\ Foldable(V, C, base, F, t)
      /\ Folds(a, V, base, F, t) /\ Folds(b, V, base, F, Append(t, c))
    BY <1>4, <1>5
<1>7. Squeezed(t) = a[DOMAIN t] /\ Squeezed(Append(t, c)) = b[DOMAIN Append(t, c)]
    BY <1>1
<1> HIDE DEF Iterator
<1>8. Squeezed(<<>>) = base
    <2>1. DOMAIN <<>> = {}
        OBVIOUS
    <2> QED
        BY <1>1, <1>4, <1>5, <2>1 DEF Folds
<1> HIDE DEF a, b
<1>9. a[DOMAIN t] \in V /\ b[DOMAIN Append(t, c)] = F[<<a[DOMAIN t], c>>]
    BY ONLY c \in C, <1>6, FoldAppends
<1> QED
    BY <1>3, <1>7, <1>8, <1>9 DEF op, base, V

\* A further part of a text has what ink is in it, and only that.
LEMMA InkGrows ==
    ASSUME NEW C, Space \in C, NEW t \in Seq(C), NEW n \in 0..Len(t)
    PROVE  LET head == SubSeq(t, 1, n)
           IN  /\ Ink(head) \in Seq(C) /\ Ink(t) \in Seq(C)
               /\ (\A i \in n + 1..Len(t) : t[i] \in Blanks) => Ink(t) = Ink(head)
               /\ (\E i \in n + 1..Len(t) : t[i] \notin Blanks) =>
                     IsStrictPrefix(Ink(head), Ink(t))
<1> DEFINE N == Len(t)
           I(k) == Ink(SubSeq(t, 1, k))
           Grown(k) == /\ I(n) \in Seq(C) /\ I(k) \in Seq(C)
                       /\ Len(I(n)) <= Len(I(k))
                       /\ \A i \in 1..Len(I(n)) : I(k)[i] = I(n)[i]
                       /\ (\A i \in n + 1..k : t[i] \in Blanks) => I(k) = I(n)
                       /\ (\E i \in n + 1..k : t[i] \notin Blanks) => Len(I(n)) < Len(I(k))
           T == {k \in Nat : k < n \/ Grown(k)}
<1>1. N \in Nat /\ n \in Nat /\ n <= N
    OBVIOUS
<1>2. \A k \in 0..N : I(k) \in Seq(C)
    <2> SUFFICES ASSUME NEW k \in 0..N PROVE I(k) \in Seq(C)
        OBVIOUS
    <2>1. SubSeq(t, 1, k) \in Seq(C)
        BY PrefixProperty
    <2> QED
        BY <2>1, InkAppends
<1>3. ASSUME NEW k \in Nat, k < N
      PROVE  I(k + 1) = IF t[k + 1] \in Blanks THEN I(k) ELSE Append(I(k), t[k + 1])
    <2>1. /\ SubSeq(t, 1, k) \in Seq(C) /\ t[k + 1] \in C
          /\ SubSeq(t, 1, k + 1) = Append(SubSeq(t, 1, k), t[k + 1])
        BY <1>3, PrefixGrows
    <2> DEFINE u == SubSeq(t, 1, k)
               c == t[k + 1]
    <2>2. u \in Seq(C) /\ c \in C
        BY <2>1
    <2> HIDE DEF u, c
    <2>3. Ink(Append(u, c)) = IF c \in Blanks THEN Ink(u) ELSE Append(Ink(u), c)
        BY ONLY <2>2, InkAppends
    <2> QED
        BY <2>1, <2>3 DEF u, c
<1> HIDE DEF I
<1>4. Grown(n)
    <2>1. n + 1..n = {}
        BY <1>1
    <2>2. I(n) \in Seq(C)
        BY <1>1, <1>2
    <2> QED
        BY <2>1, <2>2
<1>5. ASSUME NEW k \in Nat, k < N, k \in T PROVE k + 1 \in T
    <2>1. CASE k + 1 < n
        BY <2>1
    <2>2. CASE k + 1 = n
        BY <1>4, <2>2
    <2>3. CASE n <= k
        <3>1. /\ Grown(k) /\ I(k) \in Seq(C) /\ I(k + 1) \in Seq(C) /\ I(n) \in Seq(C)
              /\ Len(I(n)) \in Nat /\ Len(I(k)) \in Nat
            BY <1>1, <1>2, <1>5, <2>3
        <3>2. n + 1..k + 1 = (n + 1..k) \cup {k + 1}
            BY <1>1, <2>3
        <3>3. CASE t[k + 1] \in Blanks
            <4>1. I(k + 1) = I(k)
                BY <1>3, <1>5, <3>3
            <4> HIDE DEF T
            <4>2. Grown(k + 1)
                BY <3>1, <3>2, <3>3, <4>1
            <4> QED
                BY <4>2 DEF T
        <3>4. CASE t[k + 1] \notin Blanks
            <4>1. I(k + 1) = Append(I(k), t[k + 1])
                BY <1>3, <1>5, <3>4
            <4>2. /\ Len(I(k + 1)) = Len(I(k)) + 1
                  /\ \A i \in 1..Len(I(k)) : I(k + 1)[i] = I(k)[i]
                <5>1. t[k + 1] \in C
                    BY <1>5
                <5> DEFINE v == I(k)
                           x == t[k + 1]
                <5>2. v \in Seq(C) /\ x \in C /\ I(k + 1) = Append(v, x)
                    BY <3>1, <4>1, <5>1
                <5> HIDE DEF v, x
                <5>3. Len(I(k + 1)) = Len(v) + 1 /\ \A i \in 1..Len(v) : I(k + 1)[i] = v[i]
                    BY ONLY <5>2
                <5> QED
                    BY <5>3 DEF v
            <4>3. k + 1 \in n + 1..k + 1
                BY <1>1, <2>3
            <4> HIDE DEF T
            <4>4. Grown(k + 1)
                BY <3>1, <3>4, <4>2, <4>3
            <4> QED
                BY <4>4 DEF T
        <3> QED
            BY <3>3, <3>4
    <2> QED
        BY <1>1, <2>1, <2>2, <2>3
<1>6. 0 \in T
    BY <1>1, <1>4
<1>7. N \in T
    <2> HIDE DEF T, N
    <2>1. \A k \in Nat : k < N /\ k \in T => k + 1 \in T
        BY <1>5
    <2> QED
        BY <1>1, <1>6, <2>1, UpTo
<1>8. Grown(N)
    BY <1>1, <1>7
<1>9. I(N) = Ink(t) /\ I(n) = Ink(SubSeq(t, 1, n))
    BY PrefixGrows DEF I
<1>10. Len(I(n)) < Len(I(N)) => IsStrictPrefix(I(n), I(N))
    BY <1>8 DEF IsStrictPrefix, IsPrefix
<1> QED
    BY <1>8, <1>9, <1>10

\* A text has ink or is blank.
LEMMA InkOfBlank ==
    ASSUME NEW C, Space \in C, NEW t \in Seq(C)
    PROVE  Ink(t) = <<>> <=> InkOf(t) = {}
<1>1. SubSeq(t, 1, 0) = <<>> /\ Ink(<<>>) = <<>>
    BY PrefixGrows, InkAppends
<1> DEFINE zero == 0
<1>2. /\ (\A i \in zero + 1..Len(t) : t[i] \in Blanks) => Ink(t) = Ink(SubSeq(t, 1, zero))
      /\ (\E i \in zero + 1..Len(t) : t[i] \notin Blanks) =>
            IsStrictPrefix(Ink(SubSeq(t, 1, zero)), Ink(t))
    <2>1. zero \in 0..Len(t)
        OBVIOUS
    <2> HIDE DEF zero
    <2> QED
        BY <2>1, InkGrows
<1>3. /\ (\A i \in DOMAIN t : t[i] \in Blanks) => Ink(t) = <<>>
      /\ (\E i \in DOMAIN t : t[i] \notin Blanks) => <<>> # Ink(t)
    <2>1. DOMAIN t = zero + 1..Len(t)
        OBVIOUS
    <2> QED
        BY <1>1, <1>2, <2>1 DEF IsStrictPrefix
<1> QED
    BY <1>3 DEF InkOf

\* Words joined by single spaces, perhaps with one more after the last.
Spaced(row) ==
    \A i \in DOMAIN row : row[i] \in Blanks =>
        row[i] = Space /\ 1 < i /\ (i < Len(row) => row[i + 1] \notin Blanks)

LEMMA SqueezedIsSpaced ==
    ASSUME NEW C, Space \in C, NEW t \in Seq(C)
    PROVE  Squeezed(t) \in Seq(C) /\ Spaced(Squeezed(t)) /\ Ink(Squeezed(t)) = Ink(t)
<1> DEFINE N == Len(t)
           P(k) == SubSeq(t, 1, k)
           T == {k \in 0..N : Spaced(Squeezed(P(k))) /\ Ink(Squeezed(P(k))) = Ink(P(k))}
<1>1. N \in Nat /\ P(0) = <<>> /\ P(N) = t
    BY PrefixGrows
<1>0. \A k \in Nat : k < N => P(k) \in Seq(C) /\ t[k + 1] \in C /\ P(k + 1) = Append(P(k), t[k + 1])
    BY PrefixGrows
<1> HIDE DEF P
<1>2. \A u \in Seq(C) : Squeezed(u) \in Seq(C) /\ Ink(u) \in Seq(C)
    BY SqueezedAppends, InkAppends
<1>3. Squeezed(<<>>) = <<>> /\ Ink(<<>>) = <<>>
    BY SqueezedAppends, InkAppends
<1>4. 0 \in T
    <2>1. Spaced(<<>>)
        BY DEF Spaced
    <2> QED
        BY <1>1, <1>3, <2>1
<1>5. ASSUME NEW k \in Nat, k < N, k \in T PROVE k + 1 \in T
    <2> DEFINE row == Squeezed(P(k))
               next == Squeezed(P(k + 1))
               c == t[k + 1]
    <2>1. P(k) \in Seq(C) /\ c \in C /\ P(k + 1) = Append(P(k), c)
        BY <1>0, <1>5
    <2>2. row \in Seq(C) /\ Spaced(row) /\ Ink(row) = Ink(P(k))
        BY <1>2, <1>5, <2>1
    <2>3. next = IF c \notin Blanks THEN Append(row, c)
                 ELSE IF row = <<>> \/ Last(row) = Space THEN row
                 ELSE Append(row, Space)
        <3> DEFINE u == P(k)
        <3>1. u \in Seq(C) /\ c \in C /\ Space \in C /\ next = Squeezed(Append(u, c)) /\ row = Squeezed(u)
            BY <2>1
        <3> HIDE DEF u, c, next, row
        <3> QED
            BY ONLY <3>1, SqueezedAppends
    <2>4. Ink(P(k + 1)) = IF c \in Blanks THEN Ink(P(k)) ELSE Append(Ink(P(k)), c)
        <3> DEFINE u == P(k)
        <3>1. u \in Seq(C) /\ c \in C /\ P(k + 1) = Append(u, c)
            BY <2>1
        <3> HIDE DEF u, c
        <3>2. Ink(Append(u, c)) = IF c \in Blanks THEN Ink(u) ELSE Append(Ink(u), c)
            BY ONLY <3>1, InkAppends
        <3> QED
            BY <3>1, <3>2 DEF u
    <2> HIDE DEF c, row, next
    <2>0. k + 1 \in 0..N
        BY <1>1, <1>5
    <2>5. CASE c \notin Blanks
        <3>1. next = Append(row, c)
            BY <2>3, <2>5
        <3>2. Ink(next) = Append(Ink(row), c)
            BY <2>1, <2>2, <2>5, <3>1, InkAppends
        <3>3. Spaced(next)
            BY <2>1, <2>2, <2>5, <3>1 DEF Spaced
        <3> QED
            BY <2>0, <2>2, <2>4, <2>5, <3>2, <3>3 DEF next
    <2>6. CASE c \in Blanks /\ (row = <<>> \/ Last(row) = Space)
        BY <2>0, <2>2, <2>3, <2>4, <2>6 DEF next
    <2>7. CASE c \in Blanks /\ row # <<>> /\ Last(row) # Space
        <3>1. next = Append(row, Space)
            BY <2>3, <2>7
        <3>2. Ink(next) = Ink(row)
            BY <2>2, <3>1, BlankAssumption, InkAppends
        <3>3. Len(row) \in Nat \ {0} /\ row[Len(row)] \notin Blanks
            <4>1. Len(row) \in Nat \ {0} /\ Len(row) \in DOMAIN row
                BY <2>2, <2>7
            <4> QED
                BY <2>2, <2>7, <4>1 DEF Spaced, Last
        <3>4. Spaced(next)
            BY <2>2, <3>1, <3>3 DEF Spaced
        <3> QED
            BY <2>0, <2>2, <2>4, <2>7, <3>2, <3>4 DEF next
    <2> QED
        BY <2>5, <2>6, <2>7
<1>6. N \in T
    <2> HIDE DEF T, N
    <2>1. \A k \in Nat : k < N /\ k \in T => k + 1 \in T
        BY <1>5
    <2> QED
        BY <1>1, <1>4, <2>1, UpTo
<1> QED
    BY <1>1, <1>2, <1>6

\* A message's words on one line: its ink, and none of its blanks at either end.
LEMMA OneLine ==
    ASSUME NEW C, Space \in C, NEW content \in Seq(C)
    PROVE  LET row == SingleLine(content)
           IN  /\ row \in Seq(C) /\ Spaced(row) /\ Ink(row) = Ink(content)
               /\ row # <<>> => row[1] \notin Blanks /\ row[Len(row)] \notin Blanks
<1> DEFINE full == Squeezed(content)
<1>1. full \in Seq(C) /\ Spaced(full) /\ Ink(full) = Ink(content)
    BY SqueezedIsSpaced
<1> HIDE DEF full
<1>2. PICK n \in 0..Len(full) :
               /\ rstrip(full) = SubSeq(full, 1, n)
               /\ n > 0 => full[n] \notin Blanks
               /\ \A i \in n + 1..Len(full) : full[i] \in Blanks
    BY <1>1, RStripped
<1> DEFINE row == SubSeq(full, 1, n)
<1>3. row \in Seq(C) /\ Len(row) = n /\ \A i \in 1..n : row[i] = full[i]
    BY <1>1, PrefixProperty
<1>4. Ink(row) = Ink(full)
    BY <1>1, <1>2, InkGrows
<1>5. SingleLine(content) = row
    BY <1>2 DEF SingleLine, full
<1> HIDE DEF row
<1>6. Spaced(row)
    <2> SUFFICES ASSUME NEW i \in 1..n, row[i] \in Blanks
                 PROVE  row[i] = Space /\ 1 < i /\ (i < n => row[i + 1] \notin Blanks)
        BY <1>3 DEF Spaced
    <2>1. i \in DOMAIN full /\ (i < n => i < Len(full) /\ i + 1 \in 1..n)
        BY <1>1
    <2> QED
        BY <1>1, <1>3, <2>1 DEF Spaced
<1>7. row # <<>> => row[1] \notin Blanks /\ row[Len(row)] \notin Blanks
    <2> SUFFICES ASSUME row # <<>>
                 PROVE  row[1] \notin Blanks /\ row[Len(row)] \notin Blanks
        OBVIOUS
    <2>1. n \in Nat /\ n > 0 /\ 1 \in DOMAIN row
        BY <1>3
    <2>2. row[1] \notin Blanks
        <3>1. row[1] \in Blanks => 1 < 1
            BY ONLY <1>6, <2>1 DEF Spaced
        <3> QED
            BY ONLY <3>1
    <2>3. row[n] = full[n]
        BY <1>3, <2>1
    <2> QED
        BY <1>2, <1>3, <2>1, <2>2, <2>3
<1> QED
    BY <1>1, <1>3, <1>4, <1>5, <1>6, <1>7

\* The title derived from an accepted message is what TitledBy says.
LEMMA DerivedTitle ==
    ASSUME NEW C, Space \in C, Ellipsis \in C, NEW content \in Seq(C), Accepted(content)
    PROVE  TitledBy(derive_title(content), content)
<1> DEFINE row == SingleLine(content)
           title == derive_title(content)
<1>1. /\ row \in Seq(C) /\ Spaced(row) /\ Ink(row) = Ink(content)
      /\ row # <<>> => row[1] \notin Blanks /\ row[Len(row)] \notin Blanks
    BY OneLine
<1>2. title = IF Len(row) <= MAX_TITLE_LENGTH THEN row
              ELSE Append(rstrip(SubSeq(row, 1, MAX_TITLE_LENGTH - 1)), Ellipsis)
    BY DEF derive_title
<1> HIDE DEF row, title
<1>3. row # <<>>
    <2>1. InkOf(content) # {}
        <3>1. strip(content) # <<>>
            BY DEF Accepted
        <3>2. \/ strip(content) = <<>> /\ InkOf(content) = {}
              \/ \E i, j \in InkOf(content) : strip(content) = SubSeq(content, i, j)
            BY Stripped
        <3> QED
            BY <3>1, <3>2
    <2>2. Ink(content) # <<>>
        BY <2>1, InkOfBlank
    <2>3. Ink(<<>>) = <<>>
        BY InkAppends
    <2> QED
        BY <1>1, <2>2, <2>3
<1>4. /\ Len(row) \in Nat \ {0} /\ MAX_TITLE_LENGTH \in Nat \ {0, 1}
      /\ row[1] \notin Blanks /\ row[Len(row)] \notin Blanks
    BY <1>1, <1>3, LengthAssumption
<1>5. CASE Len(row) <= MAX_TITLE_LENGTH
    <2>1. Presentable(row)
        BY <1>1, <1>3, <1>4 DEF Presentable, Spaced
    <2> QED
        BY <1>1, <1>2, <1>5, <2>1 DEF TitledBy, title
<1>6. CASE MAX_TITLE_LENGTH < Len(row)
    <2> DEFINE limit == MAX_TITLE_LENGTH - 1
               cut == SubSeq(row, 1, limit)
    <2>1. /\ limit \in 0..Len(row) /\ limit \in Nat \ {0} /\ limit = MAX_TITLE_LENGTH - 1
          /\ limit < Len(row) /\ DOMAIN row = 1..Len(row)
        BY <1>1, <1>4, <1>6
    <2> HIDE DEF limit
    <2>2. cut \in Seq(C) /\ Len(cut) = limit /\ \A i \in 1..limit : cut[i] = row[i]
        BY <1>1, <2>1, PrefixProperty
    <2> HIDE DEF cut
    <2>3. PICK n \in 0..Len(cut) :
               /\ rstrip(cut) = SubSeq(cut, 1, n)
               /\ n > 0 => cut[n] \notin Blanks
               /\ \A i \in n + 1..Len(cut) : cut[i] \in Blanks
        BY <2>2, RStripped
    <2> DEFINE words == SubSeq(cut, 1, n)
    <2>4. words \in Seq(C) /\ Len(words) = n /\ \A i \in 1..n : words[i] = cut[i]
        BY <2>2, PrefixProperty
    <2>5. n \in Nat /\ n <= limit /\ limit < Len(row)
        BY <1>4, <1>6, <2>1, <2>2
    <2>6. n > 0
        <3>1. CASE n = 0
            <4> DEFINE len == Len(cut)
            <4>0. n + 1 = 1 /\ len \in Nat \ {0}
                BY <2>1, <2>2, <3>1
            <4> HIDE DEF len
            <4>1. 1 \in n + 1..len
                BY ONLY <4>0
            <4>2. cut[1] \in Blanks /\ cut[1] = row[1]
                BY <2>1, <2>2, <2>3, <4>1 DEF len
            <4> QED
                BY <1>4, <4>2
        <3> QED
            BY <2>5, <3>1
    <2>7. n >= limit - 1
        <3>1. CASE n < limit - 1
            <4>1. n + 1 \in n + 1..Len(cut) /\ n + 2 \in n + 1..Len(cut)
                  /\ n + 1 \in 1..limit /\ n + 2 \in 1..limit
                BY <2>1, <2>2, <2>5, <3>1
            <4>2. row[n + 1] \in Blanks /\ row[n + 2] \in Blanks
                BY <2>2, <2>3, <4>1
            <4>3. n + 1 \in DOMAIN row /\ n + 1 < Len(row) /\ (n + 1) + 1 = n + 2
                BY <1>4, <2>1, <2>5, <3>1
            <4> QED
                BY <1>1, <4>2, <4>3 DEF Spaced
        <3> QED
            BY <2>1, <2>5, <3>1
    <2>8. row[n] \notin Blanks /\ \A i \in 1..n : words[i] = row[i]
        BY <2>2, <2>3, <2>4, <2>5, <2>6
    <2>9. words = SubSeq(row, 1, n)
        BY <1>1, <2>4, <2>5, <2>8
    <2>10. title = Append(words, Ellipsis)
        BY <1>2, <1>4, <1>6, <2>1, <2>3 DEF cut
    <2> HIDE DEF words
    <2>11. /\ Len(title) = n + 1 /\ title[n + 1] = Ellipsis
           /\ \A i \in 1..n : title[i] = row[i]
           /\ DOMAIN title = 1..n + 1
        BY <2>4, <2>8, <2>10
    <2>12. Front(title) = words
        BY <2>4, <2>10 DEF Front
    <2>13. Presentable(title)
        <3> SUFFICES ASSUME NEW i \in 1..n + 1, title[i] \in Blanks
                     PROVE  title[i] = Space /\ 1 < i /\ i < n + 1 /\ title[i + 1] \notin Blanks
            BY <2>5, <2>11 DEF Presentable
        <3>1. i \in 1..n /\ i # n /\ title[i] = row[i]
            BY <2>5, <2>8, <2>11, BlankAssumption
        <3>2. i \in DOMAIN row /\ i < Len(row) /\ i + 1 \in 1..n
            BY <1>4, <2>1, <2>5, <3>1
        <3> QED
            BY <1>1, <2>5, <2>11, <3>1, <3>2 DEF Spaced
    <2>14. IsStrictPrefix(Ink(words), Ink(content))
        <3>1. n \in 0..Len(row) /\ Len(row) \in n + 1..Len(row)
            BY <1>4, <2>1, <2>5
        <3>2. IsStrictPrefix(Ink(SubSeq(row, 1, n)), Ink(row))
            BY <1>1, <1>4, <3>1, InkGrows
        <3> QED
            BY <1>1, <2>9, <3>2
    <2>15. Last(title) = Ellipsis /\ Last(Front(title)) \notin Blanks
        BY <2>4, <2>5, <2>6, <2>8, <2>11, <2>12 DEF Last
    <2>16. Len(title) <= MAX_TITLE_LENGTH /\ Len(title) >= MAX_TITLE_LENGTH - 1
        BY <1>4, <2>1, <2>5, <2>7, <2>11
    <2> QED
        BY <2>12, <2>13, <2>14, <2>15, <2>16 DEF TitledBy, title
<1> QED
    BY <1>4, <1>5, <1>6

\* A given title is kept but for the blanks around it, or is none.
LEMMA GivenTitle ==
    ASSUME NEW C, Space \in C, NEW given \in Seq(C)
    PROVE  GivenBy(given_title(given), given)
<1>1. CASE strip(given) = <<>> /\ InkOf(given) = {}
    BY <1>1, InkOfBlank DEF GivenBy, given_title
<1>2. CASE \E i, j \in InkOf(given) :
              /\ strip(given) = SubSeq(given, i, j) /\ strip(given) # <<>>
              /\ InkOf(given) \subseteq i..j
    BY <1>2 DEF GivenBy, given_title
<1> QED
    BY <1>1, <1>2, Stripped

-----------------------------------------------------------------------------
(* Theorems on titles *)

\* Every accepted message gets a title it can be told by, on one line and within the
\* limit, and a given title is kept or is none (_derive_title, create_session): for
\* every message, every set of blanks and every limit from 2.
THEOREM TitlesArePresented == Spec => []TitlesArePresentable
<1> DEFINE C == Chars \cup {Space, Ellipsis}
<1>1. env \in Envs /\ sources \in Sources => TitlesArePresentable
    <2> SUFFICES ASSUME sources \in Sources, NEW f \in DOMAIN sources
                 PROVE  LET content == sources[f]
                        IN  /\ Accepted(content) => TitledBy(derive_title(content), content)
                            /\ GivenBy(given_title(content), content)
        BY DEF TitlesArePresentable
    <2>1. sources[f] \in Seq(C) /\ Space \in C /\ Ellipsis \in C
        BY TextAssumption
    <2> HIDE DEF C
    <2> QED
        BY <2>1, DerivedTitle, GivenTitle
<1>2. Spec => [](env \in Envs /\ sources \in Sources)
    <2>1. Init => env \in Envs /\ sources \in Sources
        BY DEF Init
    <2>2. env \in Envs /\ sources \in Sources /\ [Next]_vars => (env \in Envs /\ sources \in Sources)'
        BY DEF Next, vars, LoadLine, ListFiles, ReadFile, Scrub, MatchPatterns, WriteFile, Finish, Done
    <2> QED
        BY <2>1, <2>2, PTL DEF Spec
<1> QED
    BY <1>1, <1>2, PTL

-----------------------------------------------------------------------------
(* Searching and replacing *)

Cell == [ch : Chars, place : Nat]
Words == Seq(Chars) \ {<<>>}
Window(i, word) == i .. i + Len(word) - 1

LEMMA LongestIsOne ==
    ASSUME NEW words \in SUBSET Words, words # {}, NEW n \in Nat,
           \A w \in words : Len(w) <= n
    PROVE  \E w \in words : Longest(words) = Len(w) /\ \A v \in words : Len(v) <= Len(w)
<1> DEFINE T == {Len(w) : w \in words}
<1>1. T \in SUBSET Int /\ T # {} /\ n \in Int /\ \A x \in T : x <= n
    BY DEF Words
<1>2. \E x \in T : \A y \in T : y <= x
    <2> HIDE DEF T
    <2> QED
        BY ONLY <1>1, Greatest
<1>3. PICK x \in T : \A y \in T : y <= x
    BY <1>2
<1>4. \A w \in words : Len(w) <= x
    BY <1>3
<1>5. Longest(words) \in T /\ \A w \in words : Len(w) <= Longest(words)
    BY <1>3, <1>4 DEF Longest
<1> QED
    BY <1>5

\* The equations of Replace, from the end of the text.
LEMMA ReplaceUnrolls ==
    ASSUME NEW t \in Seq(Cell), NEW words \in SUBSET Words, NEW mark \in Words
    PROVE  \E rest \in [1 .. Len(t) + 1 -> Seq(Cell)] :
               /\ Replace(t, words, mark) = rest[1]
               /\ rest[Len(t) + 1] = <<>>
               /\ \A i \in 1..Len(t) :
                     \/ /\ \A w \in words : ~Spelled(Spelling(t), w, i)
                        /\ rest[i] = <<t[i]>> \o rest[i + 1]
                     \/ \E w \in words :
                           /\ Spelled(Spelling(t), w, i)
                           /\ rest[i] = Unplaced(mark) \o rest[i + Len(w)]
<1> DEFINE N == Len(t)
           chars == Spelling(t)
           V == Seq(Cell)
           base == <<>>
           found(i) == {w \in words : Spelled(chars, w, i)}
           next == [i \in 1..N |-> IF found(i) = {} THEN i + 1 ELSE i + Longest(found(i))]
           F == [p \in (1..N) \X V |-> IF found(p[1]) = {} THEN <<t[p[1]]>> \o p[2]
                                       ELSE Unplaced(mark) \o p[2]]
           Step(f, i) == IF i > N THEN <<>>
                         ELSE IF found(i) = {} THEN <<t[i]>> \o f[i + 1]
                         ELSE Unplaced(mark) \o f[i + Longest(found(i))]
           Unrolls(f) == f = [i \in 1 .. N + 1 |-> Step(f, i)]
           Rest == CHOOSE f : Unrolls(f)
<1>1. Replace(t, words, mark) = Rest[1]
    BY DEF Replace
<1>2. N \in Nat /\ Len(chars) = N /\ base \in V /\ Unplaced(mark) \in V
      /\ \A i \in 1..N : <<t[i]>> \in V
    <2>1. Unplaced(mark) \in V
        <3>1. mark \in Seq(Chars)
            BY DEF Words
        <3>2. \A i \in DOMAIN mark : [ch |-> mark[i], place |-> 0] \in Cell
            BY <3>1 DEF Cell
        <3>3. DOMAIN mark = 1..Len(mark) /\ Len(mark) \in Nat
            BY <3>1
        <3> QED
            BY <3>2, <3>3 DEF Unplaced
    <2> QED
        BY <2>1 DEF Spelling
<1> HIDE DEF chars
<1>3. ASSUME NEW i \in 1..N, found(i) # {}
      PROVE  \E w \in found(i) : Longest(found(i)) = Len(w)
    <2>1. found(i) \in SUBSET Words /\ \A w \in found(i) : Len(w) <= N
        BY <1>2 DEF Spelled, Words
    <2> DEFINE ws == found(i)
    <2>2. ws \in SUBSET Words /\ ws # {} /\ \A w \in ws : Len(w) <= N
        BY <1>3, <2>1
    <2> HIDE DEF ws
    <2>3. \E w \in ws : Longest(ws) = Len(w) /\ \A v \in ws : Len(v) <= Len(w)
        BY ONLY <1>2, <2>2, LongestIsOne
    <2> QED
        BY <2>3 DEF ws
<1>4. next \in [1..N -> Int] /\ \A i \in 1..N : i < next[i] /\ next[i] <= N + 1
    <2> SUFFICES ASSUME NEW i \in 1..N PROVE next[i] \in Int /\ i < next[i] /\ next[i] <= N + 1
        OBVIOUS
    <2>1. CASE found(i) = {}
        BY <1>2, <2>1
    <2>2. CASE found(i) # {}
        <3>1. PICK w \in found(i) : Longest(found(i)) = Len(w)
            BY <1>3, <2>2
        <3>2. Len(w) \in Nat \ {0} /\ i + Len(w) - 1 <= N
            BY <1>2 DEF Spelled, Words
        <3>3. next[i] = i + Len(w)
            BY <2>2, <3>1
        <3> QED
            BY <1>2, <3>2, <3>3
    <2> QED
        BY <2>1, <2>2
<1>5. F \in [(1..N) \X V -> V]
    BY <1>2
<1>6. \A i \in 1..N, v \in V :
          F[<<i, v>>] = IF found(i) = {} THEN <<t[i]>> \o v ELSE Unplaced(mark) \o v
    OBVIOUS
<1>7. \A i \in 1..N : next[i] = IF found(i) = {} THEN i + 1 ELSE i + Longest(found(i))
    OBVIOUS
<1> HIDE DEF next, F, V, base, found, N
<1>8. \E f \in [1 .. N + 1 -> V] : f[N + 1] = base /\ \A i \in 1..N : f[i] = F[<<i, f[next[i]]>>]
    <2>1. Descends(V, base, N, F, next)
        BY <1>2, <1>4, <1>5 DEF Descends
    <2> QED
        BY ONLY <2>1, DownExists
<1>9. PICK f \in [1 .. N + 1 -> V] : f[N + 1] = base /\ \A i \in 1..N : f[i] = F[<<i, f[next[i]]>>]
    BY <1>8
<1>10. \A i \in 1..N : /\ next[i] \in 1 .. N + 1
                       /\ f[i] = IF found(i) = {} THEN <<t[i]>> \o f[i + 1]
                                 ELSE Unplaced(mark) \o f[i + Longest(found(i))]
    <2> SUFFICES ASSUME NEW i \in 1..N
                 PROVE  /\ next[i] \in 1 .. N + 1
                        /\ f[i] = IF found(i) = {} THEN <<t[i]>> \o f[i + 1]
                                  ELSE Unplaced(mark) \o f[i + Longest(found(i))]
        OBVIOUS
    <2>1. next[i] \in 1 .. N + 1
        BY <1>2, <1>4
    <2>2. f[i] = IF found(i) = {} THEN <<t[i]>> \o f[next[i]] ELSE Unplaced(mark) \o f[next[i]]
        BY <1>6, <1>9, <2>1
    <2> QED
        BY <1>7, <2>1, <2>2
<1>11. Unrolls(f)
    <2>1. ASSUME NEW i \in 1 .. N + 1 PROVE f[i] = Step(f, i)
        <3>1. CASE i = N + 1
            BY <1>2, <1>9, <3>1 DEF base
        <3>2. CASE i \in 1..N
            <4>1. ~(i > N)
                BY <1>2, <3>2
            <4> QED
                BY <1>10, <3>2, <4>1
        <3> QED
            BY <1>2, <3>1, <3>2
    <2> HIDE DEF Step
    <2> QED
        BY <1>9, <2>1
<1>12. Unrolls(Rest)
    BY <1>11
<1> HIDE DEF Rest
<1>12a. /\ DOMAIN Rest = 1 .. N + 1 /\ Rest = [i \in 1 .. N + 1 |-> Rest[i]]
        /\ \A i \in 1 .. N + 1 : Rest[i] = Step(Rest, i)
    <2> HIDE DEF Step
    <2> QED
        BY <1>12
<1> HIDE DEF Unrolls
<1>12b. /\ Rest[N + 1] = base /\ N + 1 \in 1 .. N + 1
        /\ \A i \in 1..N : Rest[i] = IF found(i) = {} THEN <<t[i]>> \o Rest[i + 1]
                                      ELSE Unplaced(mark) \o Rest[i + Longest(found(i))]
    <2>1. N + 1 \in 1 .. N + 1 /\ N + 1 > N
        BY <1>2
    <2>2. \A i \in 1..N : i \in 1 .. N + 1 /\ ~(i > N)
        BY <1>2
    <2> QED
        BY <1>12a, <2>1, <2>2 DEF base
<1> HIDE DEF Step
<1>13. PICK g \in [1 .. N + 1 -> V] : Rest = g
    <2> SUFFICES Rest \in [1 .. N + 1 -> V]
        OBVIOUS
    <2>3. \A i \in 1..N : Rest[i] = IF found(i) = {} THEN <<t[i]>> \o Rest[next[i]]
                                    ELSE Unplaced(mark) \o Rest[next[i]]
        BY <1>7, <1>12b
    <2> DEFINE T == {i \in 1 .. N + 1 : \A j \in i .. N + 1 : Rest[j] \in V}
    <2>4. N + 1 \in T
        BY <1>2, <1>12b
    <2>5. ASSUME NEW n \in 2 .. N + 1, n \in T PROVE n - 1 \in T
        <3>1. n - 1 \in 1..N /\ next[n - 1] \in n .. N + 1
            BY <1>2, <1>4, <2>5
        <3>2. Rest[next[n - 1]] \in V
            BY <2>5, <3>1
        <3>3. Rest[n - 1] \in V
            <4>1. /\ Rest[n - 1] = <<t[n - 1]>> \o Rest[next[n - 1]]
                     \/ Rest[n - 1] = Unplaced(mark) \o Rest[next[n - 1]]
                  /\ <<t[n - 1]>> \in V /\ Unplaced(mark) \in V
                BY <1>2, <2>3, <3>1
            <4> DEFINE v == Rest[next[n - 1]]
                       x == <<t[n - 1]>>
                       y == Unplaced(mark)
            <4>2. \A p, q \in V : p \o q \in V
                BY DEF V
            <4> HIDE DEF v, x, y
            <4> QED
                BY <3>2, <4>1, <4>2 DEF v, x, y
        <3> QED
            BY <1>2, <2>5, <3>1, <3>3
    <2>6. 1 .. N + 1 \subseteq T
        <3> HIDE DEF T
        <3>1. 1 \in Int /\ N + 1 \in Int /\ 1 + 1 = 2
            BY <1>2
        <3>2. \A n \in 1 + 1 .. N + 1 : n \in T => n - 1 \in T
            BY <2>5
        <3> QED
            BY ONLY <2>4, <3>1, <3>2, Downward
    <2>7. \A i \in 1 .. N + 1 : Rest[i] \in V
        BY <1>2, <2>6
    <2> QED
        BY <1>12a, <2>7
<1>14. \A i \in 1..N :
           \/ (\A w \in words : ~Spelled(chars, w, i)) /\ g[i] = <<t[i]>> \o g[i + 1]
           \/ \E w \in words : Spelled(chars, w, i) /\ g[i] = Unplaced(mark) \o g[i + Len(w)]
    <2> SUFFICES ASSUME NEW i \in 1..N
                 PROVE  \/ (\A w \in words : ~Spelled(chars, w, i)) /\ g[i] = <<t[i]>> \o g[i + 1]
                        \/ \E w \in words : /\ Spelled(chars, w, i)
                                            /\ g[i] = Unplaced(mark) \o g[i + Len(w)]
        OBVIOUS
    <2>1. g[i] = IF found(i) = {} THEN <<t[i]>> \o g[i + 1]
                 ELSE Unplaced(mark) \o g[i + Longest(found(i))]
        BY <1>12b, <1>13
    <2>2. CASE found(i) = {}
        BY <2>1, <2>2 DEF found
    <2>3. CASE found(i) # {}
        BY <1>3, <2>1, <2>3 DEF found
    <2> QED
        BY <2>2, <2>3
<1> QED
    <2>1. Replace(t, words, mark) = g[1] /\ g[N + 1] = <<>>
        BY <1>1, <1>12b, <1>13 DEF base
    <2> QED
        BY <1>14, <2>1 DEF N, V, chars

-----------------------------------------------------------------------------
(* Where the cells of a text come from that Replace has made of t from place i on:     *)
(* source names the cell of t that each one is, or 0 for a cell of the mark.            *)

ComesFrom(t, r, source) ==
    \A k \in 1..Len(r) : IF source[k] = 0 THEN r[k].place = 0 ELSE r[k] = t[source[k]]

InOrder(r, source) ==
    \A k, l \in 1..Len(r) : k < l /\ source[k] # 0 /\ source[l] # 0 => source[k] < source[l]

SideBySide(r, source) ==
    \A k, l \in 1..Len(r) : source[k] # 0 /\ source[l] # 0 => (l = k + 1 <=> source[l] = source[k] + 1)

Bracketed(mark, r, source) ==
    \A k \in 1..Len(r) : source[k] = 0 =>
        /\ k = 1 \/ source[k - 1] # 0 => r[k].ch = Head(mark)
        /\ k = Len(r) \/ source[k + 1] # 0 => r[k].ch = Last(mark)

FromEndToEnd(i, t, r, source) ==
    /\ i <= Len(t) => r # <<>>
    /\ r # <<>> => source[1] \in {0, i} /\ source[Len(r)] \in {0, Len(t)}
    /\ \A k \in 1..Len(r) : source[k] = i => k = 1

OnlyMatchesGo(i, t, words, r, source) ==
    \A j \in i..Len(t) : (\A k \in 1..Len(r) : source[k] # j) =>
        \E w \in words, a \in i..Len(t) :
            /\ Spelled(Spelling(t), w, a) /\ j \in Window(a, w)
            /\ \A k \in 1..Len(r) : source[k] \notin Window(a, w)

NoMatchStays(i, t, words, r, source) ==
    \A w \in words, a \in i..Len(t) : Spelled(Spelling(t), w, a) =>
        \E j \in Window(a, w) : \A k \in 1..Len(r) : source[k] # j

Traces(i, t, words, mark, r, source) ==
    /\ r \in Seq(Cell)
    /\ source \in [1..Len(r) -> {0} \cup (i..Len(t))]
    /\ ComesFrom(t, r, source)
    /\ InOrder(r, source)
    /\ SideBySide(r, source)
    /\ Bracketed(mark, r, source)
    /\ FromEndToEnd(i, t, r, source)
    /\ OnlyMatchesGo(i, t, words, r, source)
    /\ NoMatchStays(i, t, words, r, source)

\* The cell at i is kept: no word is spelled there.
LEMMA TraceKept ==
    ASSUME NEW t \in Seq(Cell), NEW words \in SUBSET Words, NEW mark \in Words,
           NEW i \in 1..Len(t), \A w \in words : ~Spelled(Spelling(t), w, i),
           NEW r, NEW source, Traces(i + 1, t, words, mark, r, source)
    PROVE  \E from : Traces(i, t, words, mark, <<t[i]>> \o r, from)
<1> DEFINE s == <<t[i]>> \o r
           N == Len(t)
           n == Len(r)
           from == [k \in 1 .. n + 1 |-> IF k = 1 THEN i ELSE source[k - 1]]
<1>1. /\ r \in Seq(Cell) /\ n \in Nat /\ N \in Nat /\ i \in Nat \ {0} /\ i <= N
      /\ source \in [1..n -> {0} \cup (i + 1 .. N)] /\ t[i] \in Cell
    BY DEF Traces
<1>2. /\ s \in Seq(Cell) /\ Len(s) = n + 1 /\ s[1] = t[i] /\ s # <<>>
      /\ \A k \in 1..n : s[k + 1] = r[k]
    BY <1>1
<1>3. /\ from \in [1..Len(s) -> {0} \cup (i..N)] /\ from[1] = i
      /\ \A k \in 1..n : from[k + 1] = source[k]
    BY <1>1, <1>2
<1>4. \A k \in 1..Len(s) : k = 1 \/ (k - 1 \in 1..n /\ (k - 1) + 1 = k)
    BY <1>1, <1>2
<1>5. \A k \in 1..Len(s) : \/ k = 1 /\ from[k] = i /\ s[k] = t[i]
                           \/ /\ k - 1 \in 1..n /\ from[k] = source[k - 1] /\ s[k] = r[k - 1]
                              /\ from[k] = 0 \/ from[k] \in i + 1 .. N
    BY <1>1, <1>2, <1>3, <1>4
<1> HIDE DEF s, from
<1>6. ComesFrom(t, s, from)
    <2> SUFFICES ASSUME NEW k \in 1..Len(s)
                 PROVE  IF from[k] = 0 THEN s[k].place = 0 ELSE s[k] = t[from[k]]
        BY DEF ComesFrom
    <2>1. CASE k = 1
        BY <1>1, <1>2, <1>3, <2>1
    <2>2. CASE /\ k - 1 \in 1..n /\ from[k] = source[k - 1] /\ s[k] = r[k - 1]
        BY <2>2 DEF Traces, ComesFrom
    <2> QED
        BY <1>5, <2>1, <2>2
<1>7. InOrder(s, from)
    <2> SUFFICES ASSUME NEW k \in 1..Len(s), NEW l \in 1..Len(s), k < l, from[k] # 0, from[l] # 0
                 PROVE  from[k] < from[l]
        BY DEF InOrder
    <2>1. l - 1 \in 1..n /\ from[l] = source[l - 1] /\ from[l] \in i + 1 .. N
        BY <1>1, <1>2, <1>5
    <2>2. CASE k = 1
        BY <1>1, <1>3, <2>1, <2>2
    <2>3. CASE k - 1 \in 1..n /\ from[k] = source[k - 1]
        <3>1. k - 1 < l - 1
            BY <1>1, <1>2
        <3> QED
            BY <2>1, <2>3, <3>1 DEF Traces, InOrder
    <2> QED
        BY <1>5, <2>2, <2>3
<1>8. SideBySide(s, from)
    <2>0. /\ n > 0 => source[1] \in {0, i + 1}
          /\ \A k \in 1..n : source[k] = i + 1 => k = 1
        BY <1>1 DEF Traces, FromEndToEnd
    <2> SUFFICES ASSUME NEW k \in 1..Len(s), NEW l \in 1..Len(s), from[k] # 0, from[l] # 0
                 PROVE  l = k + 1 <=> from[l] = from[k] + 1
        BY DEF SideBySide
    <2>1. CASE k = 1
        <3>1. CASE l = 1
            BY <1>1, <1>3, <2>1, <3>1
        <3>2. CASE l - 1 \in 1..n /\ from[l] = source[l - 1]
            BY <1>1, <1>2, <1>3, <2>0, <2>1, <3>2
        <3> QED
            BY <1>5, <3>1, <3>2
    <2>2. CASE k - 1 \in 1..n /\ from[k] = source[k - 1] /\ from[k] \in i + 1 .. N
        <3>1. CASE l = 1
            BY <1>1, <1>2, <1>3, <2>2, <3>1
        <3>2. CASE l - 1 \in 1..n /\ from[l] = source[l - 1]
            <4>1. l - 1 = (k - 1) + 1 <=> l = k + 1
                BY <1>1, <1>2
            <4>2. l - 1 = (k - 1) + 1 <=> source[l - 1] = source[k - 1] + 1
                BY <2>2, <3>2 DEF Traces, SideBySide
            <4> QED
                BY <2>2, <3>2, <4>1, <4>2
        <3> QED
            BY <1>5, <3>1, <3>2
    <2> QED
        BY <1>1, <1>5, <2>1, <2>2
<1>9. Bracketed(mark, s, from)
    BY <1>1, <1>2, <1>3, <1>5, SMTT(30) DEF Traces, Bracketed
<1>10. FromEndToEnd(i, t, s, from)
    BY <1>1, <1>2, <1>3, <1>5, SMTT(30) DEF Traces, FromEndToEnd
<1>11. OnlyMatchesGo(i, t, words, s, from)
    <2> SUFFICES ASSUME NEW j \in i..N, \A k \in 1..Len(s) : from[k] # j
                 PROVE  \E w \in words, a \in i..N :
                            /\ Spelled(Spelling(t), w, a) /\ j \in Window(a, w)
                            /\ \A k \in 1..Len(s) : from[k] \notin Window(a, w)
        BY DEF OnlyMatchesGo
    <2>1. j \in i + 1 .. N /\ \A k \in 1..n : source[k] # j
        <3>1. 1 \in 1..Len(s) /\ \A k \in 1..n : k + 1 \in 1..Len(s)
            BY <1>1, <1>2
        <3>2. j # i
            BY <1>3, <3>1
        <3> QED
            BY <1>1, <1>3, <3>1, <3>2
    <2>2. PICK w \in words, a \in i + 1 .. N :
               /\ Spelled(Spelling(t), w, a) /\ j \in Window(a, w)
               /\ \A k \in 1..n : source[k] \notin Window(a, w)
        BY <2>1 DEF Traces, OnlyMatchesGo
    <2>3. a \in i..N /\ i \notin Window(a, w)
        BY <1>1 DEF Window, Words
    <2>4. \A k \in 1..Len(s) : from[k] \notin Window(a, w)
        BY <1>5, <2>2, <2>3
    <2> QED
        BY <2>2, <2>3, <2>4
<1>12. NoMatchStays(i, t, words, s, from)
    <2> SUFFICES ASSUME NEW w \in words, NEW a \in i..N, Spelled(Spelling(t), w, a)
                 PROVE  \E j \in Window(a, w) : \A k \in 1..Len(s) : from[k] # j
        BY DEF NoMatchStays
    <2>1. a \in i + 1 .. N
        BY <1>1
    <2>2. PICK j \in Window(a, w) : \A k \in 1..n : source[k] # j
        BY <2>1 DEF Traces, NoMatchStays
    <2>3. j # i
        BY <1>1, <2>1 DEF Window, Words
    <2> QED
        BY <1>1, <1>5, <2>2, <2>3
<1>13. Traces(i, t, words, mark, s, from)
    BY <1>2, <1>3, <1>6, <1>7, <1>8, <1>9, <1>10, <1>11, <1>12 DEF Traces
<1> QED
    BY <1>13 DEF s
\* A word is spelled at i: the mark takes its place.
LEMMA TraceMarked ==
    ASSUME NEW t \in Seq(Cell), NEW words \in SUBSET Words, NEW mark \in Words,
           NEW i \in 1..Len(t), NEW v \in words, Spelled(Spelling(t), v, i),
           NEW r, NEW source, Traces(i + Len(v), t, words, mark, r, source)
    PROVE  \E from : Traces(i, t, words, mark, Unplaced(mark) \o r, from)
<1> DEFINE s == Unplaced(mark) \o r
           N == Len(t)
           n == Len(r)
           m == Len(mark)
           next == i + Len(v)
           from == [k \in 1 .. m + n |-> IF k <= m THEN 0 ELSE source[k - m]]
<1>1. /\ r \in Seq(Cell) /\ n \in Nat /\ N \in Nat /\ i \in Nat \ {0} /\ i <= N
      /\ m \in Nat \ {0} /\ next \in Nat /\ i < next /\ next <= N + 1
      /\ source \in [1..n -> {0} \cup (next .. N)]
    BY DEF Traces, Words, Spelled, Spelling
<1>2. /\ Unplaced(mark) \in Seq(Cell) /\ Len(Unplaced(mark)) = m
      /\ \A k \in 1..m : Unplaced(mark)[k] = [ch |-> mark[k], place |-> 0]
    <2>1. mark \in Seq(Chars) /\ DOMAIN mark = 1..m
        BY DEF Words
    <2>2. \A k \in 1..m : [ch |-> mark[k], place |-> 0] \in Cell
        BY <2>1 DEF Cell
    <2> QED
        BY <1>1, <2>1, <2>2 DEF Unplaced
<1>3. /\ s \in Seq(Cell) /\ Len(s) = m + n /\ s # <<>>
      /\ \A k \in 1..m : s[k].place = 0 /\ s[k].ch = mark[k]
      /\ \A k \in 1..n : s[m + k] = r[k]
    <2> DEFINE u == Unplaced(mark)
    <2>1. u \in Seq(Cell) /\ Len(u) = m /\ \A k \in 1..m : u[k] = [ch |-> mark[k], place |-> 0]
        BY <1>2
    <2> HIDE DEF u, m, n
    <2>2. \A k \in 1..m : u[k].place = 0 /\ u[k].ch = mark[k]
        BY <2>1
    <2>3. /\ u \o r \in Seq(Cell) /\ Len(u \o r) = m + n
          /\ \A k \in 1..m : (u \o r)[k] = u[k]
          /\ \A k \in 1..n : (u \o r)[m + k] = r[k]
        <3>1. u \in Seq(Cell) /\ r \in Seq(Cell)
            BY <1>1, <2>1
        <3>2. /\ u \o r \in Seq(Cell) /\ Len(u \o r) = Len(u) + Len(r)
              /\ \A k \in 1..Len(u) : (u \o r)[k] = u[k]
              /\ \A k \in 1..Len(r) : (u \o r)[Len(u) + k] = r[k]
            BY ONLY <3>1, Joined
        <3> QED
            BY <2>1, <3>2 DEF n
    <2>4. m + n # 0
        BY <1>1
    <2> QED
        BY <2>2, <2>3, <2>4 DEF u
<1>4. /\ from \in [1..Len(s) -> {0} \cup (i..N)]
      /\ \A k \in 1..m : from[k] = 0
      /\ \A k \in 1..n : from[m + k] = source[k]
    BY <1>1, <1>3
<1>5. \A k \in 1..Len(s) : \/ k \in 1..m /\ from[k] = 0 /\ s[k].place = 0 /\ s[k].ch = mark[k]
                           \/ /\ k - m \in 1..n /\ from[k] = source[k - m] /\ s[k] = r[k - m]
                              /\ from[k] = 0 \/ from[k] \in next .. N
    <2> SUFFICES ASSUME NEW k \in 1..Len(s), k \notin 1..m
                 PROVE  /\ k - m \in 1..n /\ from[k] = source[k - m] /\ s[k] = r[k - m]
                        /\ from[k] = 0 \/ from[k] \in next .. N
        BY <1>3, <1>4
    <2>1. k - m \in 1..n /\ m + (k - m) = k
        BY <1>1, <1>3
    <2> QED
        BY <1>1, <1>3, <1>4, <2>1
<1>6. \A k \in 1..m : k \in 1..Len(s)
    BY <1>1, <1>3
<1>7. mark[1] = Head(mark) /\ mark[m] = Last(mark)
    BY DEF Words, Last
<1> HIDE DEF s, from, next, m, n
<1>8. ComesFrom(t, s, from)
    <2> SUFFICES ASSUME NEW k \in 1..Len(s)
                 PROVE  IF from[k] = 0 THEN s[k].place = 0 ELSE s[k] = t[from[k]]
        BY DEF ComesFrom
    <2>1. CASE k \in 1..m /\ from[k] = 0 /\ s[k].place = 0
        BY <2>1
    <2>2. CASE /\ k - m \in 1..n /\ from[k] = source[k - m] /\ s[k] = r[k - m]
        BY <2>2 DEF Traces, ComesFrom, n
    <2> QED
        BY <1>5, <2>1, <2>2
<1>9. ASSUME NEW k \in 1..Len(s), from[k] # 0
      PROVE  k - m \in 1..n /\ from[k] = source[k - m] /\ from[k] \in next .. N
    BY <1>5, <1>9
<1>10. InOrder(s, from)
    <2> SUFFICES ASSUME NEW k \in 1..Len(s), NEW l \in 1..Len(s), k < l, from[k] # 0, from[l] # 0
                 PROVE  from[k] < from[l]
        BY DEF InOrder
    <2>1. /\ l - m \in 1..n /\ from[l] = source[l - m]
          /\ k - m \in 1..n /\ from[k] = source[k - m]
        BY <1>9
    <2>2. k - m < l - m
        BY <1>1, <1>3
    <2> QED
        BY <2>1, <2>2 DEF Traces, InOrder, n
<1>11. SideBySide(s, from)
    <2> SUFFICES ASSUME NEW k \in 1..Len(s), NEW l \in 1..Len(s), from[k] # 0, from[l] # 0
                 PROVE  l = k + 1 <=> from[l] = from[k] + 1
        BY DEF SideBySide
    <2>1. /\ l - m \in 1..n /\ from[l] = source[l - m]
          /\ k - m \in 1..n /\ from[k] = source[k - m]
        BY <1>9
    <2>2. l - m = (k - m) + 1 <=> l = k + 1
        BY <1>1, <1>3
    <2>3. l - m = (k - m) + 1 <=> source[l - m] = source[k - m] + 1
        BY <2>1 DEF Traces, SideBySide, n
    <2> QED
        BY <2>1, <2>2, <2>3
<1>12. Bracketed(mark, s, from)
    <2> SUFFICES ASSUME NEW k \in 1..Len(s), from[k] = 0
                 PROVE  /\ k = 1 \/ from[k - 1] # 0 => s[k].ch = Head(mark)
                        /\ k = Len(s) \/ from[k + 1] # 0 => s[k].ch = Last(mark)
        BY DEF Bracketed
    <2>1. CASE k \in 1..m
        <3>1. s[k].ch = mark[k]
            BY <1>3, <2>1
        <3>2. k # 1 => k - 1 \in 1..m /\ from[k - 1] = 0
            BY <1>1, <1>4, <2>1
        <3>3. k # m => k + 1 \in 1..m /\ from[k + 1] = 0 /\ k # Len(s)
            BY <1>1, <1>3, <1>4, <2>1
        <3> QED
            BY <1>7, <3>1, <3>2, <3>3
    <2>2. CASE k - m \in 1..n /\ k \notin 1..m
        <3>1. source[k - m] = 0 /\ s[k] = r[k - m]
            BY <1>5, <2>2
        <3>2. /\ k - m = 1 \/ source[(k - m) - 1] # 0 => r[k - m].ch = Head(mark)
              /\ k - m = n \/ source[(k - m) + 1] # 0 => r[k - m].ch = Last(mark)
            BY <2>2, <3>1 DEF Traces, Bracketed, n
        <3>3. k # 1 /\ (k - m # 1 => from[k - 1] = source[(k - m) - 1])
            <4>1. CASE k - m # 1
                <5>1. (k - m) - 1 \in 1..n /\ m + ((k - m) - 1) = k - 1
                    BY <1>1, <2>2, <4>1
                <5> QED
                    BY <1>1, <1>4, <2>2, <5>1
            <4> QED
                BY <1>1, <2>2, <4>1
        <3>4. (k - m = n <=> k = Len(s)) /\ (k - m # n => from[k + 1] = source[(k - m) + 1])
            <4>1. CASE k - m # n
                <5>1. (k - m) + 1 \in 1..n /\ m + ((k - m) + 1) = k + 1
                    BY <1>1, <2>2, <4>1
                <5>2. from[m + ((k - m) + 1)] = source[(k - m) + 1]
                    BY <1>4, <5>1
                <5> QED
                    BY <1>1, <1>3, <4>1, <5>1, <5>2
            <4>2. k - m = n <=> k = Len(s)
                BY <1>1, <1>3
            <4> QED
                BY <4>1, <4>2
        <3> QED
            BY <3>1, <3>2, <3>3, <3>4
    <2> QED
        BY <1>5, <2>1, <2>2
<1>13. FromEndToEnd(i, t, s, from)
    <2>1. 1 \in 1..m /\ from[1] = 0
        BY <1>1, <1>4
    <2>2. from[Len(s)] \in {0, N}
        <3>1. CASE n = 0
            BY <1>1, <1>3, <1>4, <3>1
        <3>2. CASE n > 0
            <4>1. source[n] \in {0, N} /\ n \in 1..n
                BY <1>1, <3>2 DEF Traces, FromEndToEnd, n
            <4> QED
                BY <1>3, <1>4, <4>1
        <3> QED
            BY <1>1, <3>1, <3>2
    <2>3. ASSUME NEW k \in 1..Len(s) PROVE from[k] # i
        <3>1. from[k] = 0 \/ from[k] \in next .. N
            BY <1>5
        <3> QED
            BY <1>1, <3>1
    <2> QED
        BY <1>3, <2>1, <2>2, <2>3 DEF FromEndToEnd
<1>14. Window(i, v) = i .. next - 1 /\ \A k \in 1..Len(s) : from[k] \notin i .. next - 1
    <2>1. Window(i, v) = i .. next - 1
        BY DEF Window, next
    <2> QED
        BY <1>1, <1>5, <2>1
<1>15. OnlyMatchesGo(i, t, words, s, from)
    <2> SUFFICES ASSUME NEW j \in i..N, \A k \in 1..Len(s) : from[k] # j
                 PROVE  \E w \in words, a \in i..N :
                            /\ Spelled(Spelling(t), w, a) /\ j \in Window(a, w)
                            /\ \A k \in 1..Len(s) : from[k] \notin Window(a, w)
        BY DEF OnlyMatchesGo
    <2>1. CASE j < next
        <3>1. i \in i..N /\ j \in Window(i, v)
            BY <1>1, <1>14, <2>1
        <3> QED
            BY <1>14, <3>1
    <2>2. CASE j >= next
        <3>1. j \in next .. N /\ \A k \in 1..n : source[k] # j
            <4>1. \A k \in 1..n : m + k \in 1..Len(s)
                BY <1>1, <1>3
            <4>2. \A k \in 1..n : from[m + k] = source[k]
                BY <1>4
            <4>3. j \in next .. N
                BY <1>1, <2>2
            <4> QED
                BY <4>1, <4>2, <4>3
        <3>2. PICK w \in words, a \in next .. N :
                   /\ Spelled(Spelling(t), w, a) /\ j \in Window(a, w)
                   /\ \A k \in 1..n : source[k] \notin Window(a, w)
            BY <3>1 DEF Traces, OnlyMatchesGo, n, next
        <3>3. a \in i..N /\ 0 \notin Window(a, w)
            BY <1>1 DEF Window, Words
        <3>4. \A k \in 1..Len(s) : from[k] \notin Window(a, w)
            BY <1>5, <3>2, <3>3
        <3> QED
            BY <3>2, <3>3, <3>4
    <2> QED
        BY <1>1, <2>1, <2>2
<1>16. NoMatchStays(i, t, words, s, from)
    <2> SUFFICES ASSUME NEW w \in words, NEW a \in i..N, Spelled(Spelling(t), w, a)
                 PROVE  \E j \in Window(a, w) : \A k \in 1..Len(s) : from[k] # j
        BY DEF NoMatchStays
    <2>1. CASE a < next
        <3>1. a \in i .. next - 1 /\ a \in Window(a, w)
            BY <1>1, <2>1 DEF Window, Words
        <3> QED
            BY <1>14, <3>1
    <2>2. CASE a >= next
        <3>1. a \in next .. N
            BY <1>1, <2>2
        <3>2. PICK j \in Window(a, w) : \A k \in 1..n : source[k] # j
            BY <3>1 DEF Traces, NoMatchStays, n, next
        <3>3. j # 0
            BY <1>1, <2>2 DEF Window, Words
        <3> QED
            BY <1>5, <3>2, <3>3
    <2> QED
        BY <1>1, <2>1, <2>2
<1>17. Traces(i, t, words, mark, s, from)
    BY <1>3, <1>4, <1>8, <1>10, <1>11, <1>12, <1>13, <1>15, <1>16 DEF Traces
<1> QED
    BY <1>17 DEF s

\* Every replacement can be traced.
LEMMA ReplaceTraced ==
    ASSUME NEW t \in Seq(Cell), NEW words \in SUBSET Words, NEW mark \in Words
    PROVE  \E source : Traces(1, t, words, mark, Replace(t, words, mark), source)
<1> DEFINE N == Len(t)
<1>1. PICK rest \in [1 .. N + 1 -> Seq(Cell)] :
               /\ Replace(t, words, mark) = rest[1]
               /\ rest[N + 1] = <<>>
               /\ \A i \in 1..N :
                     \/ /\ \A w \in words : ~Spelled(Spelling(t), w, i)
                        /\ rest[i] = <<t[i]>> \o rest[i + 1]
                     \/ \E w \in words :
                           /\ Spelled(Spelling(t), w, i)
                           /\ rest[i] = Unplaced(mark) \o rest[i + Len(w)]
    BY ReplaceUnrolls
<1>2. N \in Nat
    OBVIOUS
<1> DEFINE Traced(i) == \E source : Traces(i, t, words, mark, rest[i], source)
           T == {i \in 1 .. N + 1 : \A j \in i .. N + 1 : Traced(j)}
<1>3. Traced(N + 1)
    <2> DEFINE source == [k \in 1..0 |-> 0]
    <2>1. source \in [1..Len(<<>>) -> {0} \cup (N + 1 .. N)] /\ <<>> \in Seq(Cell) /\ Len(<<>>) = 0
        OBVIOUS
    <2> HIDE DEF source
    <2>2. 1..Len(<<>>) = {} /\ N + 1 .. N = {} /\ ~(N + 1 <= N)
        BY <1>2
    <2>3. Traces(N + 1, t, words, mark, <<>>, source)
        BY <2>1, <2>2 DEF Traces, ComesFrom, InOrder, SideBySide, Bracketed, FromEndToEnd,
                          OnlyMatchesGo, NoMatchStays
    <2> QED
        BY <1>1, <2>3
<1>4. N + 1 \in T
    BY <1>2, <1>3
<1>5. ASSUME NEW n \in 2 .. N + 1, n \in T PROVE n - 1 \in T
    <2> DEFINE i == n - 1
    <2>1. i \in 1..N /\ i + 1 = n
        BY <1>2
    <2>2. Traced(i)
        <3>1. CASE /\ \A w \in words : ~Spelled(Spelling(t), w, i)
                   /\ rest[i] = <<t[i]>> \o rest[i + 1]
            <4>1. Traced(i + 1)
                BY <1>2, <1>5, <2>1
            <4>2. PICK source : Traces(i + 1, t, words, mark, rest[i + 1], source)
                BY <4>1
            <4> HIDE DEF i
            <4>3. \E from : Traces(i, t, words, mark, <<t[i]>> \o rest[i + 1], from)
                BY ONLY t \in Seq(Cell), words \in SUBSET Words, mark \in Words,
                        <2>1, <3>1, <4>2, TraceKept DEF N
            <4> QED
                BY <3>1, <4>3
        <3>2. CASE \E w \in words : /\ Spelled(Spelling(t), w, i)
                                    /\ rest[i] = Unplaced(mark) \o rest[i + Len(w)]
            <4>1. PICK w \in words : /\ Spelled(Spelling(t), w, i)
                                     /\ rest[i] = Unplaced(mark) \o rest[i + Len(w)]
                BY <3>2
            <4>2. i + Len(w) \in n .. N + 1
                BY <1>2, <2>1, <4>1 DEF Spelled, Spelling, Words
            <4>3. Traced(i + Len(w))
                BY <1>2, <1>5, <4>2
            <4>4. PICK source : Traces(i + Len(w), t, words, mark, rest[i + Len(w)], source)
                BY <4>3
            <4> HIDE DEF i
            <4>5. \E from : Traces(i, t, words, mark, Unplaced(mark) \o rest[i + Len(w)], from)
                BY ONLY t \in Seq(Cell), words \in SUBSET Words, mark \in Words, w \in words,
                        <2>1, <4>1, <4>4, TraceMarked DEF N
            <4> QED
                BY <4>1, <4>5
        <3> QED
            BY <1>1, <2>1, <3>1, <3>2
    <2> HIDE DEF Traced
    <2> QED
        BY <1>2, <1>5, <2>1, <2>2
<1>6. 1 .. N + 1 \subseteq T
    <2> HIDE DEF T, N
    <2>1. 1 \in Int /\ N + 1 \in Int /\ \A n \in 1 + 1 .. N + 1 : n \in T => n - 1 \in T
        BY <1>2, <1>5
    <2> QED
        BY ONLY <1>4, <2>1, Downward
<1>7. Traced(1)
    <2>1. 1 \in T /\ 1 \in 1 .. N + 1
        BY <1>2, <1>6
    <2> HIDE DEF Traced
    <2> QED
        BY <2>1
<1> QED
    BY <1>1, <1>7

-----------------------------------------------------------------------------
(* A transcript being redacted, and its original *)

\* Every cell that has a place is the original's character there.
Genuine(original, t) ==
    \A i \in 1..Len(t) :
        /\ t[i].place \in 0..Len(original)
        /\ t[i].place # 0 => t[i].ch = original[t[i].place]

Ordered(t) ==
    \A i, j \in 1..Len(t) : i < j /\ t[i].place # 0 /\ t[j].place # 0 => t[i].place < t[j].place

\* Characters are next to one another as in the original.
Together(t) ==
    \A i, j \in 1..Len(t) : t[i].place # 0 /\ t[j].place # 0 =>
        (j = i + 1 <=> t[j].place = t[i].place + 1)

\* Where marks begin and end there is a character that no secret has.
Fenced(secs, t) ==
    \A i \in 1..Len(t) :
        /\ t[i].place = 0
        /\ i = 1 \/ t[i - 1].place # 0 \/ i = Len(t) \/ t[i + 1].place # 0
        => \A n \in DOMAIN secs : t[i].ch \notin Range(secs[n].value)

LEMMA KeptPlaces ==
    ASSUME NEW t \in Seq(Cell)
    PROVE  /\ \A i \in 1..Len(t) : t[i].place \in Nat /\ t[i].ch \in Chars
           /\ \A i \in 1..Len(t) : t[i].place # 0 => t[i].place \in Kept(t)
           /\ \A q \in Kept(t) : q # 0 /\ \E i \in 1..Len(t) : t[i].place = q
<1>1. DOMAIN t = 1..Len(t) /\ \A i \in 1..Len(t) : t[i] \in Cell
    OBVIOUS
<1> QED
    BY <1>1 DEF Kept, Cell

\* A place is kept if its cell has not been dropped.
LEMMA TracedPlaces ==
    ASSUME NEW t \in Seq(Cell), NEW words, NEW mark, NEW r, NEW source,
           Traces(1, t, words, mark, r, source), Ordered(t)
    PROVE  /\ r \in Seq(Cell) /\ Ordered(r) /\ Kept(r) \subseteq Kept(t)
           /\ \A k \in 1..Len(r) : r[k].place # 0 =>
                 source[k] \in 1..Len(t) /\ r[k] = t[source[k]]
           /\ \A j \in 1..Len(t) : t[j].place \in Kept(r) => \E k \in 1..Len(r) : source[k] = j
<1>1. /\ r \in Seq(Cell) /\ source \in [1..Len(r) -> {0} \cup (1..Len(t))]
      /\ ComesFrom(t, r, source) /\ InOrder(r, source)
    BY DEF Traces
<1>2. \A k \in 1..Len(r) : r[k].place # 0 =>
          source[k] # 0 /\ source[k] \in 1..Len(t) /\ r[k] = t[source[k]]
    BY <1>1 DEF ComesFrom
<1>3. Ordered(r)
    <2> SUFFICES ASSUME NEW i \in 1..Len(r), NEW j \in 1..Len(r), i < j,
                        r[i].place # 0, r[j].place # 0
                 PROVE  r[i].place < r[j].place
        BY DEF Ordered
    <2>1. source[i] < source[j]
        BY <1>1, <1>2 DEF InOrder
    <2> QED
        BY <1>2, <2>1 DEF Ordered
<1>4. Kept(r) \subseteq Kept(t)
    <2> SUFFICES ASSUME NEW q \in Kept(r) PROVE q \in Kept(t)
        OBVIOUS
    <2>1. PICK k \in 1..Len(r) : r[k].place = q /\ q # 0
        BY <1>1, KeptPlaces
    <2> QED
        BY <1>2, <2>1, KeptPlaces
<1>5. ASSUME NEW j \in 1..Len(t), t[j].place \in Kept(r)
      PROVE  \E k \in 1..Len(r) : source[k] = j
    <2>1. PICK k \in 1..Len(r) : r[k].place = t[j].place /\ t[j].place # 0
        BY <1>1, <1>5, KeptPlaces
    <2>2. source[k] \in 1..Len(t) /\ t[source[k]].place = t[j].place
        BY <1>2, <2>1
    <2>3. t[j].place \in Nat
        BY KeptPlaces
    <2>4. ~(source[k] < j) /\ ~(j < source[k])
        BY <2>1, <2>2, <2>3 DEF Ordered
    <2> QED
        BY <2>2, <2>4
<1> QED
    BY <1>1, <1>2, <1>3, <1>4, <1>5

LEMMA TracedTogether ==
    ASSUME NEW original \in Seq(Chars), NEW t \in Seq(Cell), NEW words, NEW mark, NEW r, NEW source,
           Traces(1, t, words, mark, r, source), Ordered(t), Genuine(original, t), Together(t)
    PROVE  Genuine(original, r) /\ Together(r)
<1>1. /\ r \in Seq(Cell) /\ Len(original) \in Nat
      /\ \A k \in 1..Len(r) : r[k].place # 0 =>
                 source[k] \in 1..Len(t) /\ r[k] = t[source[k]]
    BY TracedPlaces
<1>2. Genuine(original, r)
    <2>1. \A k \in 1..Len(r) : r[k].place = 0 => r[k].place \in 0..Len(original)
        BY <1>1
    <2> QED
        BY <1>1, <2>1 DEF Genuine
<1>3. Together(r)
    <2> SUFFICES ASSUME NEW i \in 1..Len(r), NEW j \in 1..Len(r), r[i].place # 0, r[j].place # 0
                 PROVE  j = i + 1 <=> r[j].place = r[i].place + 1
        BY DEF Together
    <2>1. /\ source[i] \in 1..Len(t) /\ r[i] = t[source[i]]
          /\ source[j] \in 1..Len(t) /\ r[j] = t[source[j]]
        BY <1>1
    <2>2. j = i + 1 <=> source[j] = source[i] + 1
        <3>1. source[i] # 0 /\ source[j] # 0
            BY <2>1
        <3> QED
            BY <3>1 DEF Traces, SideBySide
    <2>3. source[j] = source[i] + 1 <=> t[source[j]].place = t[source[i]].place + 1
        BY <2>1 DEF Together
    <2> QED
        BY <2>1, <2>2, <2>3
<1> QED
    BY <1>2, <1>3

LEMMA TracedFenced ==
    ASSUME NEW secs, NEW t \in Seq(Cell), NEW words, NEW mark, NEW r, NEW source,
           Traces(1, t, words, mark, r, source), Ordered(t), Fenced(secs, t),
           \A n \in DOMAIN secs : {Head(mark), Last(mark)} \cap Range(secs[n].value) = {}
    PROVE  Fenced(secs, r)
<1>1. /\ r \in Seq(Cell) /\ Len(r) \in Nat
      /\ \A k \in 1..Len(r) : r[k].place # 0 =>
                 source[k] \in 1..Len(t) /\ r[k] = t[source[k]]
    BY TracedPlaces
<1>2. /\ source \in [1..Len(r) -> {0} \cup (1..Len(t))]
      /\ ComesFrom(t, r, source) /\ SideBySide(r, source) /\ Bracketed(mark, r, source)
      /\ FromEndToEnd(1, t, r, source)
    BY DEF Traces
<1> SUFFICES ASSUME NEW k \in 1..Len(r), r[k].place = 0,
                    k = 1 \/ r[k - 1].place # 0 \/ k = Len(r) \/ r[k + 1].place # 0,
                    NEW n \in DOMAIN secs
             PROVE  r[k].ch \notin Range(secs[n].value)
    BY DEF Fenced
<1>3. k # 1 => k - 1 \in 1..Len(r) /\ k = (k - 1) + 1
    BY <1>1
<1>4. k # Len(r) => k + 1 \in 1..Len(r)
    BY <1>1
<1>5. k # 1 /\ r[k - 1].place # 0 => source[k - 1] # 0
    BY <1>1, <1>3
<1>6. k # Len(r) /\ r[k + 1].place # 0 => source[k + 1] # 0
    BY <1>1, <1>4
<1>7. CASE source[k] = 0
    <2>1. r[k].ch \in {Head(mark), Last(mark)}
        BY <1>2, <1>5, <1>6, <1>7 DEF Bracketed
    <2> QED
        BY <2>1
<1>8. CASE source[k] # 0
    <2> DEFINE j == source[k]
    <2>1. j \in 1..Len(t) /\ r[k] = t[j] /\ t[j].place = 0
        BY <1>2, <1>8 DEF ComesFrom
    <2>2. k = 1 => j = 1
        BY <1>1, <1>2, <1>8 DEF FromEndToEnd
    <2>3. k = Len(r) => j = Len(t)
        BY <1>1, <1>2, <1>8 DEF FromEndToEnd
    <2>4. k # 1 /\ r[k - 1].place # 0 => t[j - 1].place # 0
        <3> SUFFICES ASSUME k # 1, r[k - 1].place # 0 PROVE t[j - 1].place # 0
            OBVIOUS
        <3>1. j = source[k - 1] + 1 /\ source[k - 1] \in 1..Len(t)
            BY <1>1, <1>2, <1>3, <1>5, <1>8 DEF SideBySide
        <3>2. j - 1 = source[k - 1]
            BY <3>1
        <3> QED
            BY <1>1, <1>3, <3>2
    <2>5. k # Len(r) /\ r[k + 1].place # 0 => t[j + 1].place # 0
        <3> SUFFICES ASSUME k # Len(r), r[k + 1].place # 0 PROVE t[j + 1].place # 0
            OBVIOUS
        <3>1. source[k + 1] = j + 1
            BY <1>1, <1>2, <1>4, <1>6, <1>8 DEF SideBySide
        <3> QED
            BY <1>1, <1>4, <3>1
    <2> QED
        BY <2>1, <2>2, <2>3, <2>4, <2>5 DEF Fenced
<1> QED
    BY <1>7, <1>8

\* The secret n is found in t at a, and its character at j is no mark's.
Found(original, secs, t, n, a, j) ==
    /\ original \in Seq(Chars) /\ t \in Seq(Cell)
    /\ Genuine(original, t) /\ Together(t) /\ Fenced(secs, t)
    /\ n \in DOMAIN secs /\ secs[n].value \in Words
    /\ a \in 1..Len(t) /\ Spelled(Spelling(t), secs[n].value, a)
    /\ j \in Window(a, secs[n].value) /\ t[j].place # 0

\* It is an occurrence in the original.
OfOriginal(original, secs, t, n, a) ==
    \E p \in 1..Len(original) :
        /\ Spelled(original, secs[n].value, p)
        /\ \A x \in 0..Len(secs[n].value) - 1 : t[a + x].place = p + x

\* A secret that is found is the original's.
LEMMA MatchIsGenuine ==
    ASSUME NEW original, NEW secs, NEW t, NEW n, NEW a, NEW j, Found(original, secs, t, n, a, j)
    PROVE  OfOriginal(original, secs, t, n, a)
<1> USE DEF Found
<1> DEFINE word == secs[n].value
           b == a + Len(word) - 1
<1>1. /\ a \in Nat \ {0} /\ Len(word) \in Nat \ {0} /\ b \in Nat /\ a <= b /\ b <= Len(t)
      /\ Window(a, word) = a..b /\ word \in Seq(Chars) /\ DOMAIN word = 1..Len(word)
      /\ Len(t) \in Nat
    BY DEF Words, Spelled, Spelling, Window
<1>2. \A i \in a..b : i \in 1..Len(t) /\ t[i].ch \in Range(word) /\ t[i].ch = word[i - a + 1]
    <2> SUFFICES ASSUME NEW i \in a..b
                 PROVE  i \in 1..Len(t) /\ t[i].ch \in Range(word) /\ t[i].ch = word[i - a + 1]
        OBVIOUS
    <2>1. i \in 1..Len(t) /\ i - a + 1 \in DOMAIN word /\ a + (i - a + 1) - 1 = i
        BY <1>1
    <2>2. Spelling(t)[a + (i - a + 1) - 1] = word[i - a + 1]
        BY <2>1 DEF Spelled
    <2>3. Spelling(t)[i] = t[i].ch
        BY <2>1 DEF Spelling
    <2> QED
        BY <2>1, <2>2, <2>3 DEF Range
<1>3. \A i \in a..b : t[i].place = 0 =>
          i # 1 /\ t[i - 1].place = 0 /\ i # Len(t) /\ t[i + 1].place = 0
    BY <1>2 DEF Fenced
<1>4. \A i \in 1..Len(t) : t[i].place \in Nat
    BY KeptPlaces
<1> HIDE DEF b, word
<1>5. t[a].place # 0
    <2> SUFFICES ASSUME t[a].place = 0 PROVE FALSE
        OBVIOUS
    <2> DEFINE T == {i \in a..b : t[i].place = 0}
    <2>1. a \in T
        BY <1>1
    <2>2. \A i \in a .. b - 1 : i \in T => i + 1 \in T
        BY <1>1, <1>3
    <2>3. a..b \subseteq T
        <3> HIDE DEF T
        <3>1. a \in Int /\ b \in Int
            BY <1>1
        <3> QED
            BY ONLY <2>1, <2>2, <3>1, Upward
    <2> QED
        BY <1>1, <2>3 DEF word
<1> DEFINE p == t[a].place
           T == {i \in a..b : t[i].place = p + (i - a)}
<1>6. p \in Nat \ {0}
    BY <1>1, <1>4, <1>5
<1>7. a \in T
    BY <1>1, <1>6
<1>8. ASSUME NEW i \in a .. b - 1, i \in T PROVE i + 1 \in T
    <2>1. /\ i \in a..b /\ i + 1 \in a..b /\ i \in 1..Len(t) /\ i + 1 \in 1..Len(t)
          /\ t[i].place = p + (i - a) /\ (i + 1) - 1 = i
        BY <1>1, <1>8
    <2>2. t[i].place # 0
        BY <1>1, <1>6, <2>1
    <2>3. t[i + 1].place # 0
        BY <1>3, <2>1, <2>2
    <2>4. t[i + 1].place = t[i].place + 1
        BY <2>1, <2>2, <2>3 DEF Together
    <2>5. p + (i - a) + 1 = p + ((i + 1) - a)
        <3>1. p \in Int /\ i \in Int /\ a \in Int
            BY <1>1, <1>6
        <3> HIDE DEF p
        <3> QED
            BY ONLY <3>1
    <2> QED
        BY <2>1, <2>4, <2>5
<1>9. a..b \subseteq T
    <2> HIDE DEF T
    <2>1. a \in Int /\ b \in Int
        BY <1>1
    <2>2. \A i \in a .. b - 1 : i \in T => i + 1 \in T
        BY <1>8
    <2> QED
        BY ONLY <1>7, <2>1, <2>2, Upward
<1>10. ASSUME NEW x \in 0..Len(word) - 1
       PROVE  /\ t[a + x].place = p + x /\ p + x \in 1..Len(original)
              /\ original[p + x] = word[x + 1]
    <2>1. a + x \in a..b /\ (a + x) - a = x
        BY <1>1 DEF b
    <2>2. t[a + x].place = p + x
        BY <1>9, <2>1
    <2>3. p + x # 0 /\ a + x \in 1..Len(t)
        BY <1>2, <1>6, <2>1
    <2>4. p + x \in 0..Len(original) /\ t[a + x].ch = original[p + x]
        BY <2>2, <2>3 DEF Genuine
    <2>5. t[a + x].ch = word[x + 1]
        BY <1>2, <2>1
    <2> QED
        BY <1>6, <2>2, <2>3, <2>4, <2>5
<1> HIDE DEF p, T
<1>11. p \in 1..Len(original)
    <2>1. 0 \in 0..Len(word) - 1 /\ p + 0 = p
        BY <1>1, <1>6
    <2> QED
        BY <1>10, <2>1
<1>12. Spelled(original, word, p)
    <2>1. p + Len(word) - 1 <= Len(original)
        <3>1. Len(word) - 1 \in 0..Len(word) - 1 /\ p + Len(word) - 1 = p + (Len(word) - 1)
            BY <1>1, <1>6
        <3>2. p + (Len(word) - 1) \in 1..Len(original)
            BY <1>10, <3>1
        <3> QED
            BY <3>1, <3>2
    <2>2. ASSUME NEW k \in DOMAIN word PROVE original[p + k - 1] = word[k]
        <3>1. k - 1 \in 0..Len(word) - 1 /\ p + k - 1 = p + (k - 1) /\ (k - 1) + 1 = k
            BY <1>1, <1>6 DEF word
        <3> QED
            BY <1>10, <3>1
    <2> QED
        BY <2>1, <2>2 DEF Spelled
<1> QED
    BY <1>10, <1>11, <1>12 DEF word, OfOriginal

\* Where all of a secret of the original is left, the text spells it.
LEMMA OccurrenceIsFound ==
    ASSUME NEW original \in Seq(Chars), NEW t \in Seq(Cell),
           Genuine(original, t), Together(t), Ordered(t), NEW word \in Words,
           NEW p \in 1..Len(original), Spelled(original, word, p), Window(p, word) \subseteq Kept(t)
    PROVE  \E a \in 1..Len(t) :
               /\ Spelled(Spelling(t), word, a)
               /\ \A x \in 0..Len(word) - 1 : a + x \in 1..Len(t) /\ t[a + x].place = p + x
<1> DEFINE L == Len(word) - 1
<1>1. /\ L \in Nat /\ p \in Nat \ {0} /\ Window(p, word) = p .. p + L
      /\ DOMAIN word = 1 .. L + 1 /\ Len(t) \in Nat /\ word \in Seq(Chars)
      /\ p + L <= Len(original)
    BY DEF Words, Window, Spelled
<1> HIDE DEF L
<1>2. \A q \in p .. p + L : \E i \in 1..Len(t) : t[i].place = q
    BY <1>1, KeptPlaces
<1>3. PICK a \in 1..Len(t) : t[a].place = p
    BY <1>1, <1>2
<1> DEFINE T == {x \in 0..L : a + x \in 1..Len(t) /\ t[a + x].place = p + x}
<1>4. 0 \in T
    BY <1>1, <1>3
<1>5. ASSUME NEW x \in 0 .. L - 1, x \in T PROVE x + 1 \in T
    <2>1. p + (x + 1) \in p .. p + L /\ x + 1 \in 0..L
        BY <1>1
    <2>2. PICK i \in 1..Len(t) : t[i].place = p + (x + 1)
        BY <1>2, <2>1
    <2>3. a + x \in 1..Len(t) /\ t[a + x].place = p + x
        BY <1>5
    <2>4. t[i].place = t[a + x].place + 1 /\ t[i].place # 0 /\ t[a + x].place # 0
        BY <1>1, <2>2, <2>3
    <2>5. i = (a + x) + 1
        BY <2>3, <2>4 DEF Together
    <2>6. i = a + (x + 1)
        BY <1>3, <2>5
    <2> QED
        BY <2>1, <2>2, <2>6
<1>6. 0..L \subseteq T
    <2> HIDE DEF T
    <2>1. 0 \in Int /\ L \in Int /\ \A x \in 0 .. L - 1 : x \in T => x + 1 \in T
        BY <1>1, <1>5
    <2> QED
        BY ONLY <1>4, <2>1, Upward
<1>7. \A x \in 0..L : a + x \in 1..Len(t) /\ t[a + x].place = p + x
    BY <1>6
<1>8. Spelled(Spelling(t), word, a)
    <2>1. a + L \in 1..Len(t) /\ Len(Spelling(t)) = Len(t) /\ Len(word) = L + 1
        <3>1. L \in 0..L
            BY <1>1
        <3>2. Len(word) = L + 1
            BY DEF L, Words
        <3>3. Len(Spelling(t)) = Len(t)
            BY DEF Spelling
        <3> QED
            BY <1>7, <3>1, <3>2, <3>3
    <2>2. ASSUME NEW k \in DOMAIN word PROVE Spelling(t)[a + k - 1] = word[k]
        <3>1. k - 1 \in 0..L /\ a + k - 1 = a + (k - 1) /\ p + k - 1 = p + (k - 1)
            BY <1>1, <1>3
        <3>2. a + k - 1 \in 1..Len(t) /\ t[a + k - 1].place = p + k - 1
            BY <1>7, <3>1
        <3>3. t[a + k - 1].ch = original[p + k - 1]
            <4>1. t[a + k - 1].place # 0
                BY <1>1, <3>1, <3>2
            <4> QED
                BY <3>2, <4>1 DEF Genuine
        <3>4. original[p + k - 1] = word[k]
            BY DEF Spelled
        <3> QED
            BY <3>2, <3>3, <3>4 DEF Spelling
    <2> QED
        BY <1>1, <2>1, <2>2 DEF Spelled
<1> QED
    BY <1>7, <1>8 DEF L

\* What has gone of the original are secrets, each as a whole, of those done.
OnlySecretsLost(original, secs, done, t) ==
    \A q \in (1..Len(original)) \ Kept(t) :
        \E n \in done, p \in 1..Len(original) :
            /\ Spelled(original, secs[n].value, p) /\ q \in Window(p, secs[n].value)
            /\ Window(p, secs[n].value) \cap Kept(t) = {}

\* No occurrence of a secret that is done is left as it was.
Broken(original, secs, done, t) ==
    \A n \in done, p \in 1..Len(original) :
        Spelled(original, secs[n].value, p) => ~(Window(p, secs[n].value) \subseteq Kept(t))

\* An occurrence that overlaps no other one except those within it.
Alone(original, secs, p, word) ==
    \A m \in DOMAIN secs, q \in 1..Len(original) : Spelled(original, secs[m].value, q) =>
        \/ Window(q, secs[m].value) \cap Window(p, word) = {}
        \/ Window(q, secs[m].value) \subseteq Window(p, word)

\* Of those that are alone nothing is left.
AloneGone(original, secs, done, t) ==
    \A n \in done, p \in 1..Len(original) :
        Spelled(original, secs[n].value, p) /\ Alone(original, secs, p, secs[n].value) =>
            Window(p, secs[n].value) \cap Kept(t) = {}

\* What has been redacted of the original once the secrets of done have been replaced.
Redacts(original, secs, done, t) ==
    /\ t \in Seq(Cell)
    /\ Genuine(original, t) /\ Ordered(t) /\ Together(t) /\ Fenced(secs, t)
    /\ OnlySecretsLost(original, secs, done, t)
    /\ Broken(original, secs, done, t)
    /\ AloneGone(original, secs, done, t)

\* One secret more.
LEMMA RedactsOneMore ==
    ASSUME NEW original \in Seq(Chars), NEW secs, \A n \in DOMAIN secs : secs[n].value \in Words,
           NEW done \in SUBSET DOMAIN secs, NEW n \in DOMAIN secs, NEW mark \in Words,
           \A m \in DOMAIN secs : {Head(mark), Last(mark)} \cap Range(secs[m].value) = {},
           \A m \in done : Len(secs[n].value) <= Len(secs[m].value),
           NEW t, Redacts(original, secs, done, t)
    PROVE  Redacts(original, secs, done \cup {n}, Replace(t, {secs[n].value}, mark))
<1> DEFINE word == secs[n].value
           words == {word}
           r == Replace(t, words, mark)
<1>1. /\ t \in Seq(Cell) /\ Genuine(original, t) /\ Ordered(t) /\ Together(t) /\ Fenced(secs, t)
      /\ OnlySecretsLost(original, secs, done, t) /\ Broken(original, secs, done, t)
      /\ AloneGone(original, secs, done, t) /\ Len(t) \in Nat
    BY DEF Redacts
<1>2. word \in Words /\ words \in SUBSET Words /\ Len(word) \in Nat \ {0}
    BY DEF Words
<1>3. PICK source : Traces(1, t, words, mark, r, source)
    BY <1>1, <1>2, ReplaceTraced
<1> HIDE DEF r, words
<1>4. /\ r \in Seq(Cell) /\ Ordered(r) /\ Kept(r) \subseteq Kept(t)
      /\ \A k \in 1..Len(r) : r[k].place # 0 =>
            source[k] \in 1..Len(t) /\ r[k] = t[source[k]]
      /\ \A j \in 1..Len(t) : t[j].place \in Kept(r) => \E k \in 1..Len(r) : source[k] = j
    BY <1>1, <1>3, TracedPlaces
<1>5. Genuine(original, r) /\ Together(r)
    BY <1>1, <1>3, TracedTogether
<1>6. Fenced(secs, r)
    BY <1>1, <1>3, TracedFenced
<1>7. OnlySecretsLost(original, secs, done \cup {n}, r)
    <2> SUFFICES ASSUME NEW q \in (1..Len(original)) \ Kept(r)
                 PROVE  \E m \in done \cup {n}, p \in 1..Len(original) :
                            /\ Spelled(original, secs[m].value, p)
                            /\ q \in Window(p, secs[m].value)
                            /\ Window(p, secs[m].value) \cap Kept(r) = {}
        BY DEF OnlySecretsLost
    <2>1. CASE q \notin Kept(t)
        BY <1>1, <1>4, <2>1 DEF OnlySecretsLost
    <2>2. CASE q \in Kept(t)
        <3>1. PICK j \in 1..Len(t) : t[j].place = q /\ q # 0
            BY <1>1, <2>2, KeptPlaces
        <3>2. \A k \in 1..Len(r) : source[k] # j
            <4> SUFFICES ASSUME NEW k \in 1..Len(r), source[k] = j PROVE FALSE
                OBVIOUS
            <4>1. source[k] # 0 /\ r[k] = t[j]
                BY <1>1, <1>3 DEF Traces, ComesFrom
            <4>2. r[k].place = q
                BY <3>1, <4>1
            <4> QED
                BY <1>4, <3>1, <4>2, KeptPlaces
        <3>3. PICK w \in words, a \in 1..Len(t) :
                   /\ Spelled(Spelling(t), w, a) /\ j \in Window(a, w)
                   /\ \A k \in 1..Len(r) : source[k] \notin Window(a, w)
            BY <1>3, <3>2 DEF Traces, OnlyMatchesGo
        <3>4. w = word
            BY DEF words
        <3>5. PICK p \in 1..Len(original) :
                   /\ Spelled(original, word, p)
                   /\ \A x \in 0..Len(word) - 1 : t[a + x].place = p + x
            <4>1. Found(original, secs, t, n, a, j)
                BY <1>1, <3>1, <3>3, <3>4 DEF Found
            <4>2. OfOriginal(original, secs, t, n, a)
                BY ONLY <4>1, MatchIsGenuine
            <4> QED
                BY <4>2 DEF OfOriginal
        <3> HIDE DEF word
        <3>6. j - a \in 0..Len(word) - 1 /\ a + (j - a) = j
            BY <1>2, <3>3, <3>4 DEF Window
        <3>7. q = p + (j - a)
            BY <3>1, <3>5, <3>6
        <3>8. q \in Window(p, word)
            BY <1>2, <3>6, <3>7 DEF Window
        <3>9. Window(p, word) \cap Kept(r) = {}
            <4> SUFFICES ASSUME NEW y \in Window(p, word), y \in Kept(r) PROVE FALSE
                OBVIOUS
            <4>1. y - p \in 0..Len(word) - 1 /\ p + (y - p) = y
                BY <1>2 DEF Window
            <4>2. a + (y - p) \in Window(a, word) /\ a + (y - p) \in 1..Len(t)
                BY <1>1, <1>2, <3>3, <3>4, <4>1 DEF Window, Spelled, Spelling
            <4>3. t[a + (y - p)].place = y
                BY <3>5, <4>1
            <4>4. PICK k \in 1..Len(r) : source[k] = a + (y - p)
                BY <1>4, <4>2, <4>3
            <4> QED
                BY <3>3, <3>4, <4>2, <4>4
        <3> QED
            BY <3>5, <3>8, <3>9 DEF word
    <2> QED
        BY <2>1, <2>2
<1>8. Broken(original, secs, done \cup {n}, r)
    <2>1. ASSUME NEW p \in 1..Len(original), Spelled(original, word, p),
                 Window(p, word) \subseteq Kept(r)
          PROVE  FALSE
        <3>1. Window(p, word) \subseteq Kept(t)
            BY <1>4, <2>1
        <3>2. PICK a \in 1..Len(t) :
                   /\ Spelled(Spelling(t), word, a)
                   /\ \A x \in 0..Len(word) - 1 : a + x \in 1..Len(t) /\ t[a + x].place = p + x
            BY <1>1, <1>2, <2>1, <3>1, OccurrenceIsFound
        <3>3. PICK j \in Window(a, word) : \A k \in 1..Len(r) : source[k] # j
            BY <1>3, <3>2 DEF Traces, NoMatchStays, words
        <3> HIDE DEF word
        <3>4. j - a \in 0..Len(word) - 1 /\ a + (j - a) = j
            BY <1>2 DEF Window
        <3>5. j \in 1..Len(t) /\ t[j].place = p + (j - a)
            BY <3>2, <3>4
        <3>6. p + (j - a) \in Window(p, word)
            BY <1>2, <3>4 DEF Window
        <3> QED
            BY <1>4, <2>1, <3>3, <3>5, <3>6
    <2> QED
        BY <1>1, <1>4, <2>1 DEF Broken
<1>9. AloneGone(original, secs, done \cup {n}, r)
    <2>1. ASSUME NEW p \in 1..Len(original), Spelled(original, word, p),
                 Alone(original, secs, p, word)
          PROVE  Window(p, word) \cap Kept(r) = {}
        <3>1. PICK q \in Window(p, word) : q \notin Kept(r)
            BY <1>8, <2>1 DEF Broken
        <3>2. q \in 1..Len(original)
            BY <1>2, <2>1 DEF Window, Spelled
        <3>3. PICK m \in done \cup {n}, o \in 1..Len(original) :
                   /\ Spelled(original, secs[m].value, o)
                   /\ q \in Window(o, secs[m].value)
                   /\ Window(o, secs[m].value) \cap Kept(r) = {}
            BY <1>7, <3>1, <3>2 DEF OnlySecretsLost
        <3>4. Window(o, secs[m].value) \subseteq Window(p, word)
            BY <2>1, <3>1, <3>3 DEF Alone
        <3> DEFINE L == Len(secs[m].value)
        <3>5. L \in Nat \ {0} /\ Len(word) <= L /\ Window(o, secs[m].value) = o .. o + L - 1
              /\ Window(p, word) = p .. p + Len(word) - 1
            BY <1>2 DEF Words, Window
        <3> HIDE DEF L, word
        <3>6. o \in p .. p + Len(word) - 1 /\ o + L - 1 \in p .. p + Len(word) - 1
            <4>1. o \in o .. o + L - 1 /\ o + L - 1 \in o .. o + L - 1
                BY <3>5
            <4> QED
                BY <3>4, <3>5, <4>1
        <3>7. o = p /\ L = Len(word)
            BY <1>2, <3>5, <3>6
        <3> QED
            BY <3>3, <3>5, <3>7
    <2> QED
        BY <1>1, <1>4, <2>1 DEF AloneGone
<1>10. Redacts(original, secs, done \cup {n}, r)
    BY <1>4, <1>5, <1>6, <1>7, <1>8, <1>9 DEF Redacts
<1> QED
    BY <1>10 DEF r, words

\* To begin with, all of the original is there.
LEMMA RedactsNothing ==
    ASSUME NEW original \in Seq(Chars), NEW secs
    PROVE  Redacts(original, secs, {}, Placed(original))
<1> DEFINE t == Placed(original)
<1>1. /\ t \in Seq(Cell) /\ Len(t) = Len(original) /\ Len(original) \in Nat
      /\ \A i \in 1..Len(original) : t[i].place = i /\ t[i].ch = original[i]
    <2>1. /\ DOMAIN original = 1..Len(original) /\ Len(original) \in Nat
          /\ \A i \in 1..Len(original) : original[i] \in Chars
        OBVIOUS
    <2>2. t = [i \in 1..Len(original) |-> [ch |-> original[i], place |-> i]]
        BY <2>1 DEF Placed
    <2>3. \A i \in 1..Len(original) : [ch |-> original[i], place |-> i] \in Cell
        BY <2>1 DEF Cell
    <2> HIDE DEF t
    <2> QED
        BY <2>1, <2>2, <2>3
<1> HIDE DEF t
<1>2. Kept(t) = 1..Len(original)
    <2>1. \A i \in 1..Len(original) : i \in Kept(t)
        BY <1>1, KeptPlaces
    <2>2. \A q \in Kept(t) : q \in 1..Len(original)
        BY <1>1, KeptPlaces
    <2> QED
        BY <2>1, <2>2
<1>3. Genuine(original, t) /\ Ordered(t) /\ Together(t) /\ Fenced(secs, t)
    BY <1>1 DEF Genuine, Ordered, Together, Fenced
<1> QED
    BY <1>1, <1>2, <1>3 DEF Redacts, OnlySecretsLost, Broken, AloneGone, t

-----------------------------------------------------------------------------
(* The patterns *)

\* No secret is spelled but with a character of a mark.
Unspelled(secs, t) ==
    \A n \in DOMAIN secs, a \in 1..Len(t) : Spelled(Spelling(t), secs[n].value, a) =>
        \E j \in Window(a, secs[n].value) : t[j].place = 0

LEMMA RedactedIsUnspelled ==
    ASSUME NEW original \in Seq(Chars), NEW secs, \A n \in DOMAIN secs : secs[n].value \in Words,
           NEW t, Redacts(original, secs, DOMAIN secs, t)
    PROVE  Unspelled(secs, t)
<1> SUFFICES ASSUME NEW n \in DOMAIN secs, NEW a \in 1..Len(t),
                    Spelled(Spelling(t), secs[n].value, a),
                    \A j \in Window(a, secs[n].value) : t[j].place # 0
             PROVE  FALSE
    BY DEF Unspelled
<1>1. /\ t \in Seq(Cell) /\ Genuine(original, t) /\ Together(t) /\ Fenced(secs, t)
      /\ Broken(original, secs, DOMAIN secs, t)
    BY DEF Redacts
<1> DEFINE word == secs[n].value
<1>2. Len(word) \in Nat \ {0} /\ a \in Nat /\ Len(t) \in Nat
    BY <1>1 DEF Words
<1>3. a \in Window(a, word)
    BY <1>2 DEF Window
<1>4. \E j : Found(original, secs, t, n, a, j)
    BY <1>1, <1>3 DEF Found
<1>5. PICK p \in 1..Len(original) :
           /\ Spelled(original, word, p)
           /\ \A x \in 0..Len(word) - 1 : t[a + x].place = p + x
    <2>1. OfOriginal(original, secs, t, n, a)
        BY ONLY <1>4, MatchIsGenuine
    <2> QED
        BY <2>1 DEF OfOriginal
<1>6. ASSUME NEW q \in Window(p, word) PROVE q \in Kept(t)
    <2>1. q - p \in 0..Len(word) - 1 /\ p + (q - p) = q
        BY <1>2 DEF Window
    <2>2. t[a + (q - p)].place = q
        BY <1>5, <2>1
    <2>3. a + (q - p) \in 1..Len(t)
        BY <1>2, <2>1 DEF Spelled, Spelling
    <2>4. q # 0
        BY <1>2 DEF Window
    <2> QED
        BY <1>1, <2>2, <2>3, <2>4, KeptPlaces
<1> QED
    BY <1>1, <1>5, <1>6 DEF Broken

\* Nothing is spelled by what a replacement leaves, that was not before.
LEMMA UnspelledStays ==
    ASSUME NEW secs, \A n \in DOMAIN secs : secs[n].value \in Words,
           NEW t \in Seq(Cell), NEW words, NEW mark, NEW r, NEW source,
           Traces(1, t, words, mark, r, source), Ordered(t), Unspelled(secs, t)
    PROVE  Unspelled(secs, r)
<1> SUFFICES ASSUME NEW n \in DOMAIN secs, NEW a \in 1..Len(r),
                    Spelled(Spelling(r), secs[n].value, a),
                    \A j \in Window(a, secs[n].value) : r[j].place # 0
             PROVE  FALSE
    BY DEF Unspelled
<1> DEFINE word == secs[n].value
           L == Len(word) - 1
           b == source[a]
<1>1. /\ r \in Seq(Cell) /\ Len(r) \in Nat /\ Len(t) \in Nat
      /\ \A k \in 1..Len(r) : r[k].place # 0 =>
            source[k] \in 1..Len(t) /\ r[k] = t[source[k]]
    BY TracedPlaces
<1>2. /\ L \in Nat /\ a \in Nat \ {0} /\ Window(a, word) = a .. a + L
      /\ DOMAIN word = 1 .. L + 1 /\ a + L <= Len(r)
      /\ \A x \in 0..L : a + x \in 1..Len(r) /\ r[a + x].ch = word[x + 1]
    <2>1. /\ L \in Nat /\ a \in Nat \ {0} /\ Window(a, word) = a .. a + L
          /\ DOMAIN word = 1 .. L + 1 /\ a + L <= Len(r)
        BY <1>1 DEF Words, Window, Spelled, Spelling
    <2> HIDE DEF L
    <2>2. ASSUME NEW x \in 0..L PROVE a + x \in 1..Len(r) /\ r[a + x].ch = word[x + 1]
        <3>1. x + 1 \in DOMAIN word /\ a + (x + 1) - 1 = a + x /\ a + x \in 1..Len(r)
            BY <1>1, <2>1
        <3>2. Spelling(r)[a + (x + 1) - 1] = word[x + 1]
            BY <3>1 DEF Spelled
        <3> QED
            BY <3>1, <3>2 DEF Spelling
    <2> QED
        BY <2>1, <2>2
<1> HIDE DEF L, word
<1>3. \A x \in 0..L : r[a + x].place # 0 /\ source[a + x] \in 1..Len(t) /\ r[a + x] = t[source[a + x]]
    <2> SUFFICES ASSUME NEW x \in 0..L
                 PROVE  r[a + x].place # 0 /\ source[a + x] \in 1..Len(t) /\ r[a + x] = t[source[a + x]]
        OBVIOUS
    <2>1. a + x \in Window(a, word)
        BY <1>2
    <2> QED
        BY <1>1, <1>2, <2>1 DEF word
<1> DEFINE T == {x \in 0..L : source[a + x] = b + x}
<1>4. b \in 1..Len(t)
    <2>1. 0 \in 0..L /\ a + 0 = a
        BY <1>2
    <2> QED
        BY <1>3, <2>1
<1>5. 0 \in T
    BY <1>2, <1>4
<1>6. ASSUME NEW x \in 0 .. L - 1, x \in T PROVE x + 1 \in T
    <2> DEFINE y == x + 1
    <2>0. b \in Nat
        BY <1>4
    <2> HIDE DEF b
    <2>1. x \in 0..L /\ y \in 0..L /\ a + y = (a + x) + 1 /\ b + y = (b + x) + 1
        BY <1>2, <2>0
    <2> HIDE DEF y
    <2>2. /\ source[a + x] # 0 /\ source[a + y] # 0
          /\ a + x \in 1..Len(r) /\ a + y \in 1..Len(r)
        <3>1. ASSUME NEW z \in 0..L PROVE source[a + z] # 0 /\ a + z \in 1..Len(r)
            <4>1. source[a + z] \in 1..Len(t) /\ a + z \in 1..Len(r)
                BY <1>2, <1>3
            <4> QED
                BY <4>1
        <3> QED
            BY <2>1, <3>1
    <2>3. source[a + y] = source[a + x] + 1
        BY <2>1, <2>2 DEF Traces, SideBySide
    <2>4. source[a + x] = b + x
        BY <1>6 DEF b
    <2>5. source[a + y] = b + y
        BY <2>1, <2>3, <2>4
    <2> QED
        BY <2>1, <2>5 DEF b, y
<1>7. 0..L \subseteq T
    <2> HIDE DEF T
    <2>1. 0 \in Int /\ L \in Int /\ \A x \in 0 .. L - 1 : x \in T => x + 1 \in T
        BY <1>2, <1>6
    <2> QED
        BY ONLY <1>5, <2>1, Upward
<1>8. \A x \in 0..L : b + x \in 1..Len(t) /\ t[b + x].ch = word[x + 1] /\ t[b + x].place # 0
    <2> SUFFICES ASSUME NEW x \in 0..L
                 PROVE  b + x \in 1..Len(t) /\ t[b + x].ch = word[x + 1] /\ t[b + x].place # 0
        OBVIOUS
    <2>1. source[a + x] = b + x
        BY <1>7
    <2> QED
        BY <1>2, <1>3, <2>1
<1> HIDE DEF b, T
<1>9. Spelled(Spelling(t), word, b)
    <2>1. b + Len(word) - 1 <= Len(Spelling(t))
        <3>1. L \in 0..L /\ Len(word) = L + 1
            BY <1>2 DEF L, word, Words
        <3>2. b + L \in 1..Len(t) /\ Len(Spelling(t)) = Len(t)
            BY <1>8, <3>1 DEF Spelling
        <3> QED
            BY <1>4, <3>1, <3>2
    <2>2. ASSUME NEW k \in DOMAIN word PROVE Spelling(t)[b + k - 1] = word[k]
        <3>1. k - 1 \in 0..L /\ b + k - 1 = b + (k - 1) /\ (k - 1) + 1 = k
            BY <1>2, <1>4
        <3> QED
            BY <1>8, <3>1 DEF Spelling
    <2> QED
        BY <2>1, <2>2 DEF Spelled
<1>10. PICK j \in Window(b, word) : t[j].place = 0
    BY <1>4, <1>9 DEF Unspelled, word
<1>11. j - b \in 0..L /\ b + (j - b) = j
    <2>1. Window(b, word) = b .. b + L
        <3>1. Len(word) = L + 1
            BY <1>2 DEF L, word, Words
        <3> QED
            BY <1>2, <1>4, <3>1 DEF Window
    <2> QED
        BY <1>2, <1>4, <2>1
<1> QED
    BY <1>8, <1>10, <1>11

\* One pattern after another.
Pattern == [words : SUBSET Words, mark : Words]

LEMMA MatchedAppends ==
    ASSUME NEW t \in Seq(Cell), NEW ps \in Seq(Pattern)
    PROVE  /\ Matched(t, <<>>) = t
           /\ \A p \in Pattern :
                 Matched(t, Append(ps, p)) = Replace(Matched(t, ps), p.words, p.mark)
<1> DEFINE V == Seq(Cell)
           D == Pattern
           base == t
           op(v, x) == Replace(v, x.words, x.mark)
           F == [z \in V \X D |-> op(z[1], z[2])]
           Iterates(it, seq) ==
               it = [s \in SUBSET DOMAIN seq |->
                        IF s = {} THEN base ELSE op(it[s \ {Max(s)}], seq[Max(s)])]
           Iterator(seq) == CHOOSE it : Iterates(it, seq)
<1>1. \A seq : Matched(t, seq) = Iterator(seq)[DOMAIN seq]
    BY DEF Matched, FoldLeft, MapThenFoldSet
<1>2. base \in V /\ \A v \in V, x \in D : op(v, x) \in V
    <2> SUFFICES ASSUME NEW v \in Seq(Cell), NEW x \in Pattern
                 PROVE  Replace(v, x.words, x.mark) \in Seq(Cell)
        OBVIOUS
    <2>1. x.words \in SUBSET Words /\ x.mark \in Words
        BY DEF Pattern
    <2>2. \E source : Traces(1, v, x.words, x.mark, Replace(v, x.words, x.mark), source)
        BY <2>1, ReplaceTraced
    <2> QED
        BY <2>2 DEF Traces
<1>3. F \in [V \X D -> V] /\ \A v \in V, x \in D : F[<<v, x>>] = op(v, x)
    BY <1>2
<1> HIDE DEF V, D, F, op, base
<1>4. ASSUME NEW seq \in Seq(D)
      PROVE  Foldable(V, D, base, F, seq) /\ Folds(Iterator(seq), V, base, F, seq)
    <2>1. Foldable(V, D, base, F, seq)
        BY <1>2, <1>3 DEF Foldable
    <2>2. PICK it : Iterating(it, V, D, base, F, seq)
        BY ONLY <2>1, FoldExists
    <2>3. Iterates(it, seq)
        BY <1>3, <2>2 DEF Iterating
    <2>4. Iterates(Iterator(seq), seq)
        BY <2>3
    <2> HIDE DEF Iterator
    <2>5. ASSUME NEW s \in SUBSET DOMAIN seq, s # {}, Iterator(seq)[s \ {Max(s)}] \in V
          PROVE  Iterator(seq)[s] = F[<<Iterator(seq)[s \ {Max(s)}], seq[Max(s)]>>]
        <3>1. Iterator(seq)[s] = op(Iterator(seq)[s \ {Max(s)}], seq[Max(s)])
            BY <2>4, <2>5
        <3>2. seq[Max(s)] \in D
            BY <2>2, <2>5 DEF Iterating
        <3> QED
            BY <1>3, <2>5, <3>1, <3>2
    <2>6. Iterator(seq)[{}] = base
        BY <2>4
    <2> QED
        BY <2>1, <2>5, <2>6 DEF Folds
<1>5. ps \in Seq(D) /\ <<>> \in Seq(D)
    BY DEF D
<1>6. Matched(t, <<>>) = base
    <2>1. DOMAIN <<>> = {}
        OBVIOUS
    <2> HIDE DEF Iterator
    <2> QED
        BY <1>1, <1>4, <1>5, <2>1 DEF Folds
<1>7. ASSUME NEW p \in D PROVE Matched(t, Append(ps, p)) = op(Matched(t, ps), p)
    <2>1. Append(ps, p) \in Seq(D) /\ p \in D
        BY <1>5
    <2> DEFINE a == Iterator(ps)
               b == Iterator(Append(ps, p))
    <2>2. /\ Foldable(V, D, base, F, ps)
          /\ Folds(a, V, base, F, ps) /\ Folds(b, V, base, F, Append(ps, p))
        BY <1>4, <1>5, <2>1
    <2>3. Matched(t, ps) = a[DOMAIN ps] /\ Matched(t, Append(ps, p)) = b[DOMAIN Append(ps, p)]
        BY <1>1
    <2> HIDE DEF Iterator, a, b
    <2>4. a[DOMAIN ps] \in V /\ b[DOMAIN Append(ps, p)] = F[<<a[DOMAIN ps], p>>]
        BY ONLY <2>1, <2>2, FoldAppends
    <2> QED
        BY <1>3, <2>1, <2>3, <2>4
<1> QED
    BY <1>6, <1>7 DEF op, base, D

\* The patterns lose characters, and no secret comes of it.
Searched(secs, t) == t \in Seq(Cell) /\ Ordered(t) /\ Unspelled(secs, t)

LEMMA PatternsSearch ==
    ASSUME NEW secs, \A n \in DOMAIN secs : secs[n].value \in Words,
           NEW t, Searched(secs, t), NEW ps \in Seq(Pattern)
    PROVE  Searched(secs, Matched(t, ps)) /\ Kept(Matched(t, ps)) \subseteq Kept(t)
<1> DEFINE N == Len(ps)
           M(k) == Matched(t, SubSeq(ps, 1, k))
           Good(k) == Searched(secs, M(k)) /\ Kept(M(k)) \subseteq Kept(t)
           T == {k \in Nat : Good(k)}
<1>1. t \in Seq(Cell) /\ N \in Nat
    BY DEF Searched
<1>2. Good(0)
    <2>1. SubSeq(ps, 1, 0) = <<>>
        BY PrefixGrows
    <2>2. Matched(t, <<>>) = t
        BY ONLY <1>1, ps \in Seq(Pattern), MatchedAppends
    <2>3. M(0) = t
        BY <2>1, <2>2
    <2> QED
        BY <2>3
<1>3. ASSUME NEW k \in Nat, k < N, Good(k) PROVE Good(k + 1)
    <2>1. /\ SubSeq(ps, 1, k) \in Seq(Pattern) /\ ps[k + 1] \in Pattern
          /\ SubSeq(ps, 1, k + 1) = Append(SubSeq(ps, 1, k), ps[k + 1])
        BY <1>3, PrefixGrows
    <2> DEFINE u == M(k)
               p == ps[k + 1]
               r == Replace(u, p.words, p.mark)
    <2>2. M(k + 1) = r
        <3> DEFINE qs == SubSeq(ps, 1, k)
        <3>1. t \in Seq(Cell) /\ qs \in Seq(Pattern) /\ p \in Pattern
            BY <1>1, <2>1
        <3> HIDE DEF qs, p
        <3>2. Matched(t, Append(qs, p)) = Replace(Matched(t, qs), p.words, p.mark)
            BY ONLY <3>1, MatchedAppends
        <3> QED
            BY <2>1, <3>2 DEF qs, p
    <2>3. u \in Seq(Cell) /\ Ordered(u) /\ Unspelled(secs, u)
        BY <1>3 DEF Searched
    <2>4. p.words \in SUBSET Words /\ p.mark \in Words
        BY <2>1 DEF Pattern
    <2> HIDE DEF u, p, M
    <2>5. PICK source : Traces(1, u, p.words, p.mark, r, source)
        BY <2>3, <2>4, ReplaceTraced
    <2> HIDE DEF r
    <2>6. r \in Seq(Cell) /\ Ordered(r) /\ Kept(r) \subseteq Kept(u)
        BY <2>3, <2>5, TracedPlaces
    <2>7. Unspelled(secs, r)
        BY <2>3, <2>5, UnspelledStays
    <2>8. Kept(u) \subseteq Kept(t)
        BY <1>3 DEF u
    <2> QED
        BY <2>2, <2>6, <2>7, <2>8 DEF Searched
<1> HIDE DEF M
<1>4. N \in T
    <2>1. 0 \in T /\ \A k \in Nat : k < N /\ k \in T => k + 1 \in T
        BY <1>2, <1>3
    <2> HIDE DEF T, N
    <2> QED
        BY <1>1, <2>1, UpTo
<1>5. M(N) = Matched(t, ps)
    BY PrefixGrows DEF M
<1> QED
    BY <1>4, <1>5

-----------------------------------------------------------------------------
(* The invariant of the redaction *)

Secret == [label : Labels, value : Words]

Typed ==
    /\ env \in Envs /\ sources \in Sources
    /\ secrets \in Seq(Secret)
    /\ at \in Stages
    /\ line \in 1..Len(env) + 1
    /\ text \in Seq(Cell)
    /\ todo \subseteq DOMAIN secrets
    /\ out \in Seq(Seq(Cell)) /\ Len(out) <= Len(sources)
    /\ leaks \in Nat
    /\ exit \in {0, 1, None}

Staged ==
    /\ at = "loading" => out = <<>> /\ leaks = 0
    /\ at \in {"scrubbing", "writing"} => Len(out) < Len(sources)
    /\ at = "writing" => todo = {}
    /\ at # "done" => exit = None
    /\ at \notin {"loading", "done"} => sources # <<>>

\* Every secret is a line of .env, and is long enough.
FromEnv ==
    \A n \in DOMAIN secrets :
        /\ Len(secrets[n].value) >= MIN_SECRET_LEN
        /\ \E m \in DOMAIN env : secrets[n] = [label |-> env[m].key, value |-> env[m].value]

\* None that is still to be looked for is longer than one that has been.
Scrubbed ==
    at = "scrubbing" =>
        /\ \A n \in DOMAIN secrets \ todo, m \in todo :
              Len(secrets[m].value) <= Len(secrets[n].value)
        /\ Redacts(sources[Len(out) + 1], secrets, DOMAIN secrets \ todo, text)

SearchedThrough ==
    at = "writing" =>
        /\ Searched(secrets, text)
        /\ AloneGone(sources[Len(out) + 1], secrets, DOMAIN secrets, text)

Written == \A f \in DOMAIN out : Unspelled(secrets, out[f])

LeftIn(secs, t) ==
    {n \in DOMAIN secs : \E i \in DOMAIN t : Spelled(Spelling(t), secs[n].value, i)}

Counted ==
    /\ leaks > 0 <=> \E f \in DOMAIN out : LeftIn(secrets, out[f]) # {}
    /\ exit # None => (exit = 1 <=> sources = <<>> \/ leaks > 0)

IInv == Typed /\ Staged /\ FromEnv /\ Scrubbed /\ SearchedThrough /\ Written /\ Counted

\* The next secret to be looked for is none shorter than another.
LEMMA LongestIsNext ==
    ASSUME secrets \in Seq(Secret), NEW ns \in SUBSET DOMAIN secrets, ns # {}
    PROVE  /\ LongestOf(ns) \in ns
           /\ \A m \in ns : Len(secrets[m].value) <= Len(secrets[LongestOf(ns)].value)
<1> DEFINE size == [m \in DOMAIN secrets |-> Len(secrets[m].value)]
           N == Len(secrets)
<1>1. N \in Nat /\ DOMAIN secrets = 1..N /\ \A m \in 1..N : size[m] = Len(secrets[m].value) /\ size[m] \in Nat
    BY DEF Secret, Words
<1> HIDE DEF size, N
<1>2. PICK b \in Nat : \A m \in 1..N : size[m] <= b
    <2> DEFINE T == {k \in Nat : k <= N => \E b \in Nat : \A m \in 1..k : size[m] <= b}
    <2>1. 0 \in T
        <3>1. \A m \in 1..0 : size[m] <= 0
            OBVIOUS
        <3> QED
            BY <3>1
    <2>2. ASSUME NEW k \in Nat, k < N, k \in T PROVE k + 1 \in T
        <3>1. PICK b \in Nat : \A m \in 1..k : size[m] <= b
            BY <2>2, <1>1
        <3> DEFINE c == IF size[k + 1] <= b THEN b ELSE size[k + 1]
        <3>2. size[k + 1] \in Nat
            BY <1>1, <2>2
        <3>3. c \in Nat /\ b <= c /\ size[k + 1] <= c
            BY <3>2
        <3> HIDE DEF c
        <3>4. ASSUME NEW m \in 1..k + 1 PROVE size[m] <= c
            <4>1. m \in 1..N /\ (m \in 1..k \/ m = k + 1)
                BY <1>1, <2>2
            <4>2. size[m] \in Nat
                BY <1>1, <4>1
            <4>3. CASE m \in 1..k
                <5>1. size[m] <= b
                    BY <3>1, <4>3
                <5> QED
                    BY <3>3, <4>2, <5>1
            <4>4. CASE m = k + 1
                BY <3>3, <4>4
            <4> QED
                BY <4>1, <4>3, <4>4
        <3>5. \E d \in Nat : \A m \in 1..k + 1 : size[m] <= d
            BY <3>3, <3>4
        <3>6. k + 1 \in Nat
            OBVIOUS
        <3> QED
            BY ONLY <3>5, <3>6, Zenon
    <2>3. N \in T
        <3> HIDE DEF T
        <3>1. \A k \in Nat : k < N /\ k \in T => k + 1 \in T
            BY <2>2
        <3> QED
            BY ONLY <1>1, <2>1, <3>1, UpTo
    <2> QED
        BY <1>1, <2>3
<1> DEFINE sizes == {size[m] : m \in ns}
<1>3. sizes \in SUBSET Int /\ sizes # {} /\ b \in Int /\ \A x \in sizes : x <= b
    BY <1>1, <1>2
<1>4. PICK x \in sizes : \A y \in sizes : y <= x
    <2> HIDE DEF sizes
    <2> QED
        BY ONLY <1>3, Greatest
<1> DEFINE firsts == {m \in ns : size[m] = x}
<1>5. firsts \in SUBSET Nat /\ firsts # {}
    BY <1>1, <1>4
<1>6. PICK n \in firsts : \A m \in firsts : n <= m
    <2> HIDE DEF firsts
    <2> QED
        BY ONLY <1>5, Least
<1>7. ASSUME NEW m \in ns
      PROVE  \/ Len(secrets[m].value) < Len(secrets[n].value)
             \/ Len(secrets[m].value) = Len(secrets[n].value) /\ n <= m
    <2>1. /\ size[m] \in Nat /\ size[n] \in Nat /\ size[m] <= size[n]
          /\ size[m] = Len(secrets[m].value) /\ size[n] = Len(secrets[n].value)
        BY <1>1, <1>4, <1>6
    <2>2. size[m] = size[n] => n <= m
        BY <1>6
    <2> QED
        BY <2>1, <2>2
<1>8. n \in ns
    BY <1>6
<1> DEFINE first == LongestOf(ns)
<1>9. /\ first \in ns
      /\ \A m \in ns : \/ Len(secrets[m].value) < Len(secrets[first].value)
                       \/ Len(secrets[m].value) = Len(secrets[first].value) /\ first <= m
    <2> HIDE DEF firsts, sizes
    <2> QED
        BY <1>7, <1>8 DEF LongestOf
<1> HIDE DEF first
<1>10. \A m \in ns : Len(secrets[m].value) \in Nat
    BY <1>1
<1>11. \A m \in ns : Len(secrets[m].value) <= Len(secrets[first].value)
    BY <1>9, <1>10
<1> QED
    BY <1>9, <1>11 DEF first

\* The words and marks of the secrets are fit to be searched for and put in.
LEMMA SecretsAreFit ==
    ASSUME Typed, FromEnv
    PROVE  /\ \A n \in DOMAIN secrets : secrets[n].value \in Words
           /\ \A n \in DOMAIN secrets : Marks[secrets[n].label] \in Words
           /\ \A n, m \in DOMAIN secrets :
                 {Head(Marks[secrets[n].label]), Last(Marks[secrets[n].label])}
                     \cap Range(secrets[m].value) = {}
<1>1. ASSUME NEW n \in DOMAIN secrets
      PROVE  secrets[n].label \in Labels /\ secrets[n].value \in Words
    <2>1. secrets[n] \in Secret
        BY DEF Typed
    <2> QED
        BY <2>1 DEF Secret
<1>2. \A n \in DOMAIN secrets : Marks[secrets[n].label] \in Words
    BY <1>1, MarkAssumption DEF Words
<1>3. ASSUME NEW n \in DOMAIN secrets, NEW m \in DOMAIN secrets
      PROVE  {Head(Marks[secrets[n].label]), Last(Marks[secrets[n].label])}
                 \cap Range(secrets[m].value) = {}
    <2>1. PICK k \in DOMAIN env : secrets[m].value = env[k].value
        BY DEF FromEnv
    <2>2. env \in Envs /\ secrets[n].label \in Labels
        BY <1>1 DEF Typed
    <2> QED
        BY <2>1, <2>2, MarkAssumption
<1> QED
    BY <1>1, <1>2, <1>3

-----------------------------------------------------------------------------
(* Every step keeps the invariant *)

LEMMA InitHolds == Init => IInv
<1> SUFFICES ASSUME Init PROVE IInv
    OBVIOUS
<1>1. /\ env \in Envs /\ sources \in Sources /\ secrets = <<>> /\ at = "loading" /\ line = 1
      /\ text = <<>> /\ todo = {} /\ out = <<>> /\ leaks = 0 /\ exit = None
    BY DEF Init
<1>2. Len(env) \in Nat /\ Len(sources) \in Nat
    BY <1>1, TextAssumption
<1>3. Typed
    BY <1>1, <1>2 DEF Typed, Stages
<1>4. Staged /\ FromEnv /\ Scrubbed /\ SearchedThrough /\ Written /\ Counted
    BY <1>1 DEF Staged, FromEnv, Scrubbed, SearchedThrough, Written, Counted
<1> QED
    BY <1>3, <1>4 DEF IInv

LEMMA LoadLineKeeps == ASSUME IInv, LoadLine PROVE IInv'
<1>1. /\ Typed /\ Staged /\ FromEnv /\ at = "loading" /\ line \in 1..Len(env)
      /\ out = <<>> /\ leaks = 0 /\ exit = None
    BY DEF IInv, Typed, Staged, LoadLine
<1>2. /\ env \in Envs /\ env \in Seq([key : Labels \cup {None}, value : Seq(Chars)])
      /\ env[line].key \in Labels \cup {None} /\ env[line].value \in Seq(Chars)
      /\ Len(env) \in Nat /\ line \in DOMAIN env
    <2> DEFINE Entry == [key : Labels \cup {None}, value : Seq(Chars)]
    <2>1. env \in Envs
        BY <1>1 DEF Typed
    <2>2. env \in Seq(Entry)
        BY <2>1, TextAssumption
    <2> HIDE DEF Entry
    <2>3. Len(env) \in Nat /\ line \in DOMAIN env /\ env[line] \in Entry
        BY <1>1, <2>2
    <2> QED
        BY <2>1, <2>2, <2>3 DEF Entry
<1>3. UNCHANGED <<env, sources, at, text, todo, out, leaks, exit>> /\ line' = line + 1
    BY DEF LoadLine
<1> DEFINE new == [label |-> env[line].key, value |-> env[line].value]
           known == {n \in DOMAIN secrets : secrets[n].label = new.label}
<1>4. secrets' = IF new.label = None \/ Len(new.value) < MIN_SECRET_LEN THEN secrets
                 ELSE IF known = {} THEN Append(secrets, new)
                 ELSE [n \in DOMAIN secrets |-> IF n \in known THEN new ELSE secrets[n]]
    BY DEF LoadLine
<1>5. ~(new.label = None \/ Len(new.value) < MIN_SECRET_LEN) =>
          new \in Secret /\ Len(new.value) >= MIN_SECRET_LEN
    BY <1>2, TextAssumption DEF Secret, Words
<1>6. secrets \in Seq(Secret)
    BY <1>1 DEF Typed
<1> HIDE DEF known
<1>7. /\ secrets' \in Seq(Secret) /\ DOMAIN secrets \subseteq DOMAIN secrets'
      /\ \A n \in DOMAIN secrets' :
            \/ n \in DOMAIN secrets /\ secrets'[n] = secrets[n]
            \/ secrets'[n] = new /\ Len(new.value) >= MIN_SECRET_LEN
    <2> HIDE DEF new
    <2>1. CASE secrets' = secrets
        BY <1>6, <2>1
    <2>2. CASE secrets' = Append(secrets, new) /\ new \in Secret /\ Len(new.value) >= MIN_SECRET_LEN
        BY <1>6, <2>2
    <2>3. CASE /\ secrets' = [n \in DOMAIN secrets |-> IF n \in known THEN new ELSE secrets[n]]
               /\ new \in Secret /\ Len(new.value) >= MIN_SECRET_LEN
        BY <1>6, <2>3
    <2> QED
        BY <1>4, <1>5, <2>1, <2>2, <2>3
<1>8. Typed'
    <2>1. line + 1 \in 1..Len(env) + 1
        BY <1>1, <1>2
    <2> QED
        BY <1>1, <1>3, <1>7, <2>1 DEF Typed
<1>9. FromEnv'
    <2> SUFFICES ASSUME NEW n \in DOMAIN secrets'
                 PROVE  /\ Len(secrets'[n].value) >= MIN_SECRET_LEN
                        /\ \E m \in DOMAIN env :
                              secrets'[n] = [label |-> env[m].key, value |-> env[m].value]
        BY <1>3 DEF FromEnv
    <2> QED
        BY <1>1, <1>2, <1>7 DEF FromEnv
<1>10. Staged' /\ Scrubbed' /\ SearchedThrough' /\ Written'
    BY <1>1, <1>3 DEF Staged, Scrubbed, SearchedThrough, Written
<1>11. Counted'
    BY <1>1, <1>3 DEF Counted
<1> QED
    BY <1>8, <1>9, <1>10, <1>11 DEF IInv

LEMMA ListFilesKeeps == ASSUME IInv, ListFiles PROVE IInv'
<1>1. /\ Typed /\ Staged /\ FromEnv /\ at = "loading" /\ out = <<>> /\ leaks = 0 /\ exit = None
    BY DEF IInv, Staged, ListFiles
<1>2. /\ UNCHANGED <<env, sources, secrets, line, text, todo, out, leaks>>
      /\ \/ sources = <<>> /\ at' = "done" /\ exit' = 1
         \/ sources # <<>> /\ at' = "reading" /\ exit' = exit
    BY DEF ListFiles
<1>3. Typed'
    BY <1>1, <1>2 DEF Typed, Stages
<1>4. Staged' /\ FromEnv' /\ Scrubbed' /\ SearchedThrough' /\ Written'
    BY <1>1, <1>2 DEF Staged, FromEnv, Scrubbed, SearchedThrough, Written
<1>5. Counted'
    BY <1>1, <1>2 DEF Counted
<1> QED
    BY <1>3, <1>4, <1>5 DEF IInv

LEMMA ReadFileKeeps == ASSUME IInv, ReadFile PROVE IInv'
<1>1. /\ Typed /\ Staged /\ FromEnv /\ Written /\ Counted /\ at = "reading"
      /\ Len(out) < Len(sources)
    BY DEF IInv, ReadFile
<1>2. /\ UNCHANGED <<env, sources, secrets, line, out, leaks, exit>>
      /\ text' = Placed(sources[Len(out) + 1]) /\ todo' = DOMAIN secrets /\ at' = "scrubbing"
    BY DEF ReadFile
<1>3. sources \in Seq(Seq(Chars)) /\ out \in Seq(Seq(Cell))
    BY <1>1, TextAssumption DEF Typed
<1> DEFINE original == sources[Len(out) + 1]
<1>4. original \in Seq(Chars)
    BY <1>1, <1>3
<1>5. Redacts(original, secrets, {}, Placed(original))
    <2> HIDE DEF original
    <2> QED
        BY <1>4, RedactsNothing
<1>6. Typed'
    <2>1. text' \in Seq(Cell)
        BY <1>2, <1>5 DEF Redacts
    <2> QED
        BY <1>1, <1>2, <2>1 DEF Typed, Stages
<1>7. Scrubbed'
    <2>1. DOMAIN secrets' \ todo' = {}
        BY <1>2
    <2> QED
        BY <1>2, <1>5, <2>1 DEF Scrubbed
<1>8. Staged' /\ FromEnv' /\ SearchedThrough' /\ Written' /\ Counted'
    BY <1>1, <1>2 DEF Staged, FromEnv, SearchedThrough, Written, Counted
<1> QED
    BY <1>6, <1>7, <1>8 DEF IInv

LEMMA ScrubKeeps == ASSUME IInv, Scrub PROVE IInv'
<1>1. /\ Typed /\ Staged /\ FromEnv /\ Scrubbed /\ Written /\ Counted /\ at = "scrubbing" /\ todo # {}
    BY DEF IInv, Scrub
<1> DEFINE n == LongestOf(todo)
           word == secrets[n].value
           mark == Marks[secrets[n].label]
           original == sources[Len(out) + 1]
           done == DOMAIN secrets \ todo
<1>2. /\ UNCHANGED <<env, sources, secrets, at, line, out, leaks, exit>>
      /\ text' = Replace(text, {word}, mark) /\ todo' = todo \ {n}
    BY DEF Scrub
<1>3. /\ n \in todo /\ todo \subseteq DOMAIN secrets
      /\ \A m \in todo : Len(secrets[m].value) <= Len(word)
    <2>1. secrets \in Seq(Secret) /\ todo \in SUBSET DOMAIN secrets
        BY <1>1 DEF Typed
    <2> QED
        BY <1>1, <2>1, LongestIsNext
<1> HIDE DEF n
<1>4. /\ \A m \in DOMAIN secrets : secrets[m].value \in Words
      /\ mark \in Words
      /\ \A m \in DOMAIN secrets : {Head(mark), Last(mark)} \cap Range(secrets[m].value) = {}
    BY <1>1, <1>3, SecretsAreFit
<1>5. original \in Seq(Chars)
    <2>1. sources \in Seq(Seq(Chars)) /\ out \in Seq(Seq(Cell)) /\ Len(out) < Len(sources)
        BY <1>1, TextAssumption DEF Typed, Staged
    <2> QED
        BY <2>1
<1>6. /\ \A k \in done, m \in todo : Len(secrets[m].value) <= Len(secrets[k].value)
      /\ Redacts(original, secrets, done, text)
    BY <1>1 DEF Scrubbed
<1>7. Redacts(original, secrets, done \cup {n}, Replace(text, {word}, mark))
    <2>1. done \in SUBSET DOMAIN secrets /\ n \in DOMAIN secrets
        BY <1>3
    <2>2. \A m \in done : Len(secrets[n].value) <= Len(secrets[m].value)
        BY <1>3, <1>6
    <2> HIDE DEF done, original, mark
    <2> QED
        BY <1>4, <1>5, <1>6, <2>1, <2>2, RedactsOneMore
<1>8. DOMAIN secrets \ (todo \ {n}) = done \cup {n}
    BY <1>3
<1>9. Typed'
    <2>1. text' \in Seq(Cell)
        BY <1>2, <1>7 DEF Redacts
    <2> QED
        BY <1>1, <1>2, <2>1 DEF Typed
<1>10. Scrubbed'
    <2>1. \A k \in done \cup {n}, m \in todo \ {n} : Len(secrets[m].value) <= Len(secrets[k].value)
        BY <1>3, <1>6
    <2> HIDE DEF done, word, mark
    <2> QED
        BY <1>2, <1>7, <1>8, <2>1 DEF Scrubbed
<1>11. Staged' /\ FromEnv' /\ SearchedThrough' /\ Written' /\ Counted'
    BY <1>1, <1>2 DEF Staged, FromEnv, SearchedThrough, Written, Counted
<1> QED
    BY <1>9, <1>10, <1>11 DEF IInv

LEMMA MatchPatternsKeeps == ASSUME IInv, MatchPatterns PROVE IInv'
<1>1. /\ Typed /\ Staged /\ FromEnv /\ Scrubbed /\ Written /\ Counted
      /\ at = "scrubbing" /\ todo = {}
    BY DEF IInv, MatchPatterns
<1>2. /\ UNCHANGED <<env, sources, secrets, line, todo, out, leaks, exit>>
      /\ text' = Matched(text, PATTERNS) /\ at' = "writing"
    BY DEF MatchPatterns
<1> DEFINE original == sources[Len(out) + 1]
<1>3. original \in Seq(Chars)
    <2>1. sources \in Seq(Seq(Chars)) /\ out \in Seq(Seq(Cell)) /\ Len(out) < Len(sources)
        BY <1>1, TextAssumption DEF Typed, Staged
    <2> QED
        BY <2>1
<1>4. Redacts(original, secrets, DOMAIN secrets, text)
    <2>1. DOMAIN secrets \ todo = DOMAIN secrets
        BY <1>1
    <2> QED
        BY <1>1, <2>1 DEF Scrubbed
<1> HIDE DEF original
<1>5. \A m \in DOMAIN secrets : secrets[m].value \in Words
    BY <1>1, SecretsAreFit
<1>6. Searched(secrets, text)
    <2>1. Unspelled(secrets, text)
        BY <1>3, <1>4, <1>5, RedactedIsUnspelled
    <2> QED
        BY <1>4, <2>1 DEF Redacts, Searched
<1>7. PATTERNS \in Seq(Pattern)
    BY TextAssumption DEF Pattern, Words
<1>8. Searched(secrets, text') /\ Kept(text') \subseteq Kept(text)
    BY <1>2, <1>5, <1>6, <1>7, PatternsSearch
<1>9. AloneGone(original, secrets, DOMAIN secrets, text')
    <2>1. AloneGone(original, secrets, DOMAIN secrets, text)
        BY <1>4 DEF Redacts
    <2> QED
        BY <1>8, <2>1 DEF AloneGone
<1>10. SearchedThrough'
    BY <1>2, <1>8, <1>9 DEF SearchedThrough, original
<1>11. Typed'
    BY <1>1, <1>2, <1>8 DEF Typed, Stages, Searched
<1>12. Staged' /\ FromEnv' /\ Scrubbed' /\ Written' /\ Counted'
    BY <1>1, <1>2 DEF Staged, FromEnv, Scrubbed, Written, Counted
<1> QED
    BY <1>10, <1>11, <1>12 DEF IInv

LEMMA WriteFileKeeps == ASSUME IInv, WriteFile PROVE IInv'
<1>1. /\ Typed /\ Staged /\ FromEnv /\ SearchedThrough /\ Written /\ Counted /\ at = "writing"
      /\ exit = None /\ Len(out) < Len(sources) /\ sources # <<>>
    BY DEF IInv, WriteFile, Staged
<1>2. /\ UNCHANGED <<env, sources, secrets, line, text, todo, exit>>
      /\ out' = Append(out, text) /\ leaks' = leaks + Cardinality(Leaking(text)) /\ at' = "reading"
    BY DEF WriteFile
<1>3. /\ out \in Seq(Seq(Cell)) /\ text \in Seq(Cell) /\ leaks \in Nat /\ secrets \in Seq(Secret)
      /\ sources \in Seq(Seq(Chars))
    BY <1>1, TextAssumption DEF Typed
<1>4. /\ out' \in Seq(Seq(Cell)) /\ Len(out') = Len(out) + 1
      /\ \A f \in DOMAIN out' : \/ f \in DOMAIN out /\ out'[f] = out[f]
                                \/ f = Len(out) + 1 /\ out'[f] = text
      /\ DOMAIN out \subseteq DOMAIN out' /\ Len(out) + 1 \in DOMAIN out'
      /\ \A f \in DOMAIN out : out'[f] = out[f]
      /\ out'[Len(out) + 1] = text
    BY <1>2, <1>3
<1>5. Leaking(text) = LeftIn(secrets, text)
    BY DEF Leaking, LeftIn
<1>6. Cardinality(Leaking(text)) \in Nat /\ (Cardinality(Leaking(text)) = 0 <=> Leaking(text) = {})
    <2>1. IsFiniteSet(1..Len(secrets)) /\ Leaking(text) \in SUBSET (1..Len(secrets))
        BY <1>3, FS_Interval DEF Leaking
    <2>2. IsFiniteSet(Leaking(text))
        BY <2>1, FS_Subset
    <2> QED
        BY <2>2, FS_CardinalityType, FS_EmptySet
<1>7. Typed'
    <2>1. Len(out) + 1 <= Len(sources)
        BY <1>1, <1>3
    <2> QED
        BY <1>1, <1>2, <1>4, <1>6, <2>1 DEF Typed, Stages
<1>8. Written'
    BY <1>1, <1>2, <1>4 DEF Written, SearchedThrough, Searched
<1>9. Counted'
    <2>1. leaks > 0 <=> \E f \in DOMAIN out : LeftIn(secrets, out[f]) # {}
        BY <1>1 DEF Counted
    <2>2. leaks' > 0 <=> leaks > 0 \/ LeftIn(secrets, text) # {}
        BY <1>2, <1>3, <1>5, <1>6
    <2>3. (\E f \in DOMAIN out' : LeftIn(secrets, out'[f]) # {})
             <=> (\E f \in DOMAIN out : LeftIn(secrets, out[f]) # {}) \/ LeftIn(secrets, text) # {}
        BY <1>4
    <2> QED
        BY <1>1, <1>2, <2>1, <2>2, <2>3 DEF Counted
<1>10. Staged' /\ FromEnv' /\ Scrubbed' /\ SearchedThrough'
    BY <1>1, <1>2 DEF Staged, FromEnv, Scrubbed, SearchedThrough
<1> QED
    BY <1>7, <1>8, <1>9, <1>10 DEF IInv

LEMMA FinishKeeps == ASSUME IInv, Finish PROVE IInv'
<1>1. /\ Typed /\ Staged /\ FromEnv /\ Written /\ Counted /\ at = "reading" /\ sources # <<>>
    BY DEF IInv, Finish, Staged
<1>2. /\ UNCHANGED <<env, sources, secrets, line, text, todo, out, leaks>>
      /\ at' = "done" /\ exit' = IF leaks > 0 THEN 1 ELSE 0
    BY DEF Finish
<1>3. Typed'
    BY <1>1, <1>2 DEF Typed, Stages
<1>4. Counted'
    BY <1>1, <1>2 DEF Counted
<1>5. Staged' /\ FromEnv' /\ Scrubbed' /\ SearchedThrough' /\ Written'
    BY <1>1, <1>2 DEF Staged, FromEnv, Scrubbed, SearchedThrough, Written
<1> QED
    BY <1>3, <1>4, <1>5 DEF IInv

LEMMA NextHolds == IInv /\ [Next]_vars => IInv'
<1> SUFFICES ASSUME IInv, [Next]_vars PROVE IInv'
    OBVIOUS
<1>1. CASE UNCHANGED vars
    BY <1>1 DEF vars, IInv, Typed, Staged, FromEnv, Scrubbed, SearchedThrough, Written, Counted
<1>2. CASE Done
    BY <1>1, <1>2 DEF Done
<1> QED
    BY <1>1, <1>2, LoadLineKeeps, ListFilesKeeps, ReadFileKeeps, ScrubKeeps,
       MatchPatternsKeeps, WriteFileKeeps, FinishKeeps DEF Next

LEMMA InvHolds == Spec => []IInv
BY InitHolds, NextHolds, PTL DEF Spec

-----------------------------------------------------------------------------
(* Theorems on the redaction *)

\* Whatever .env, transcripts and patterns: only secrets of .env are looked for that are
\* long enough, and a text being redacted consists of characters and of marks.
THEOREM RedactionTyped == Spec => []TypeOK
<1>1. IInv => TypeOK
    <2> SUFFICES ASSUME IInv PROVE TypeOK
        OBVIOUS
    <2>1. Typed /\ FromEnv
        BY DEF IInv
    <2>2. \A n \in DOMAIN secrets :
             secrets[n].label \in Labels /\ Len(secrets[n].value) >= MIN_SECRET_LEN
        <3> SUFFICES ASSUME NEW n \in DOMAIN secrets
                     PROVE  secrets[n].label \in Labels /\ Len(secrets[n].value) >= MIN_SECRET_LEN
            OBVIOUS
        <3>1. secrets[n] \in Secret
            BY <2>1 DEF Typed
        <3> QED
            BY <2>1, <3>1 DEF FromEnv, Secret
    <2>3. \A i \in DOMAIN text : text[i].ch \in Chars /\ text[i].place \in Nat
        BY <2>1, KeptPlaces DEF Typed
    <2> QED
        BY <2>1, <2>2, <2>3 DEF Typed, TypeOK
<1> QED
    BY <1>1, InvHolds, PTL

\* What stands in a text are the windows of the secrets it spells.
LEMMA OccurrencesAre ==
    ASSUME NEW chars
    PROVE  \A o : o \in Occurrences(chars) <=>
              \E n \in DOMAIN secrets, i \in DOMAIN chars :
                  Spelled(chars, secrets[n].value, i) /\ o = Window(i, secrets[n].value)
BY DEF Occurrences, Window

\* Of a secret that no other overlaps except within it, not a character is left, however
\* the secrets of .env contain and overlap one another: redact_text's order, longest
\* first, sees to it; and nothing but secrets has gone, and what is left is in its order.
THEOREM SecretsGo == Spec => []ExactlySecretsGo
<1>1. IInv => ExactlySecretsGo
    <2> SUFFICES ASSUME IInv PROVE ExactlySecretsGo
        OBVIOUS
    <2>1. Typed /\ Staged /\ Scrubbed /\ SearchedThrough
        BY DEF IInv
    <2> DEFINE original == sources[Len(out) + 1]
    <2>2. ASSUME at = "scrubbing" \/ at = "writing" PROVE DOMAIN original = 1..Len(original)
        <3>1. sources \in Seq(Seq(Chars)) /\ out \in Seq(Seq(Cell)) /\ Len(out) < Len(sources)
            BY <2>1, <2>2, TextAssumption DEF Typed, Staged
        <3> QED
            BY <3>1
    <2>3. ASSUME at = "scrubbing", todo = {} PROVE Redacts(original, secrets, DOMAIN secrets, text)
        <3>1. DOMAIN secrets \ todo = DOMAIN secrets
            BY <2>3
        <3> QED
            BY <2>1, <2>3, <3>1 DEF Scrubbed
    <2> HIDE DEF original
    <2>4. ASSUME at = "scrubbing", todo = {}
          PROVE  DOMAIN original \ UNION Occurrences(original) \subseteq Kept(text)
        <3> SUFFICES ASSUME NEW q \in DOMAIN original, q \notin Kept(text)
                     PROVE  q \in UNION Occurrences(original)
            OBVIOUS
        <3>1. q \in (1..Len(original)) \ Kept(text) /\ OnlySecretsLost(original, secrets, DOMAIN secrets, text)
            BY <2>2, <2>3, <2>4 DEF Redacts
        <3>2. PICK n \in DOMAIN secrets, p \in 1..Len(original) :
                   Spelled(original, secrets[n].value, p) /\ q \in Window(p, secrets[n].value)
            BY <3>1 DEF OnlySecretsLost
        <3>3. Window(p, secrets[n].value) \in Occurrences(original)
            BY <2>2, <2>4, <3>2, OccurrencesAre
        <3> QED
            BY <3>2, <3>3
    <2>5. ASSUME at \in {"scrubbing", "writing"}, todo = {}
          PROVE  /\ Kept(text) \cap UNION Isolated(original) = {}
                 /\ \A i, j \in DOMAIN text :
                       i < j /\ text[i].place # 0 /\ text[j].place # 0 =>
                           text[i].place < text[j].place
        <3>1. Ordered(text) /\ AloneGone(original, secrets, DOMAIN secrets, text)
            <4>1. CASE at = "scrubbing"
                BY <2>3, <2>5, <4>1 DEF Redacts
            <4>2. CASE at = "writing"
                BY <2>1, <4>2 DEF SearchedThrough, Searched, original
            <4> QED
                BY <2>5, <4>1, <4>2
        <3>2. DOMAIN text = 1..Len(text)
            BY <2>1 DEF Typed
        <3>3. ASSUME NEW o \in Isolated(original) PROVE Kept(text) \cap o = {}
            <4>1. /\ o \in Occurrences(original)
                  /\ \A p \in Occurrences(original) : p \cap o = {} \/ p \subseteq o
                BY DEF Isolated
            <4>2. PICK n \in DOMAIN secrets, i \in 1..Len(original) :
                       Spelled(original, secrets[n].value, i) /\ o = Window(i, secrets[n].value)
                BY <2>2, <2>5, <4>1, OccurrencesAre
            <4>3. Alone(original, secrets, i, secrets[n].value)
                <5> SUFFICES ASSUME NEW m \in DOMAIN secrets, NEW q \in 1..Len(original),
                                    Spelled(original, secrets[m].value, q)
                             PROVE  \/ Window(q, secrets[m].value) \cap o = {}
                                    \/ Window(q, secrets[m].value) \subseteq o
                    BY <4>2 DEF Alone
                <5>1. Window(q, secrets[m].value) \in Occurrences(original)
                    BY <2>2, <2>5, OccurrencesAre
                <5> QED
                    BY <4>1, <5>1
            <4> QED
                BY <3>1, <4>2, <4>3 DEF AloneGone
        <3> QED
            BY <3>1, <3>2, <3>3 DEF Ordered
    <2> QED
        BY <2>4, <2>5 DEF ExactlySecretsGo, original
<1> QED
    BY <1>1, InvHolds, PTL

\* A copy spells a secret only with a character of a placeholder, whatever the patterns
\* have joined (main's --check would call that a leak), and the script fails exactly when
\* there are no transcripts or a copy has a leak, however many there are.
THEOREM LeaksAreOfMarks == Spec => []LeaksAreSpelledByMarks
<1>1. IInv => LeaksAreSpelledByMarks
    <2> SUFFICES ASSUME IInv PROVE LeaksAreSpelledByMarks
        OBVIOUS
    <2>1. Typed /\ Written /\ Counted
        BY DEF IInv
    <2>2. ASSUME NEW f \in DOMAIN out, NEW o \in Occurrences(Spelling(out[f]))
          PROVE  \E i \in o : out[f][i].place = 0
        <3>1. out[f] \in Seq(Cell)
            BY <2>1 DEF Typed
        <3>2. DOMAIN Spelling(out[f]) = 1..Len(out[f])
            BY <3>1 DEF Spelling
        <3>3. PICK n \in DOMAIN secrets, i \in 1..Len(out[f]) :
                   /\ Spelled(Spelling(out[f]), secrets[n].value, i)
                   /\ o = Window(i, secrets[n].value)
            BY <3>2, OccurrencesAre
        <3> QED
            BY <2>1, <3>3 DEF Written, Unspelled
    <2>3. \A f \in DOMAIN out : Leaking(out[f]) = LeftIn(secrets, out[f])
        BY DEF Leaking, LeftIn
    <2>4. exit # None => (exit = 1 <=> sources = <<>> \/ \E f \in DOMAIN out : Leaking(out[f]) # {})
        BY <2>1, <2>3 DEF Counted
    <2> QED
        BY <2>2, <2>4 DEF LeaksAreSpelledByMarks
<1> QED
    BY <1>1, InvHolds, PTL

==============================================================================
