--------------------------- MODULE SequenceFacts ----------------------------
(***************************************************************************)
(* Induction over data, without operator parameters: the library's theorem *)
(* that a well-founded relation has minimal elements, for sets of numbers; *)
(* and with it, what FoldLeft computes.                                    *)
(***************************************************************************)
EXTENDS Integers, Sequences, SequencesExt, FiniteSetsExt, WellFoundedInduction, TLAPS

Less == {p \in Nat \X Nat : p[1] < p[2]}

LEMMA LessIsWellFounded == IsWellFoundedOn(Less, Nat)
BY NatLessThanWellFounded DEF OpToRel, Less

LEMMA Least ==
    ASSUME NEW T \in SUBSET Nat, T # {}
    PROVE  \E x \in T : \A y \in T : x <= y
<1>1. PICK x \in T : \A y \in T : <<y, x>> \notin Less
    BY LessIsWellFounded, WFMin
<1>2. ASSUME NEW y \in T PROVE x <= y
    <2>1. x \in Nat /\ y \in Nat /\ <<y, x>> \notin Less
        BY <1>1
    <2> QED
        BY <2>1 DEF Less
<1> QED
    BY <1>2

LEMMA Greatest ==
    ASSUME NEW T \in SUBSET Int, T # {}, NEW b \in Int, \A x \in T : x <= b
    PROVE  \E x \in T : \A y \in T : y <= x
<1> DEFINE Below == {b - x : x \in T}
<1>1. Below \in SUBSET Nat /\ Below # {}
    <2>1. \A x \in T : b - x \in Nat
        OBVIOUS
    <2> QED
        BY <2>1
<1>2. PICK d \in Below : \A e \in Below : d <= e
    BY <1>1, Least
<1>3. PICK x \in T : d = b - x
    OBVIOUS
<1>4. ASSUME NEW y \in T PROVE y <= x
    <2>1. b - y \in Below /\ x \in Int /\ y \in Int
        OBVIOUS
    <2>2. d <= b - y
        BY <1>2, <2>1
    <2> HIDE DEF Below
    <2> QED
        BY <1>3, <2>1, <2>2
<1> QED
    BY <1>4

\* Induction up to a number, as a fact about sets.
LEMMA Upward ==
    ASSUME NEW T, NEW a \in Int, NEW b \in Int, a \in T,
           \A n \in a .. b - 1 : n \in T => n + 1 \in T
    PROVE  a..b \subseteq T
<1> SUFFICES ASSUME (a..b) \ T # {} PROVE FALSE
    OBVIOUS
<1> DEFINE Off == {n - a : n \in (a..b) \ T}
<1>1. Off \in SUBSET Nat /\ Off # {}
    OBVIOUS
<1>2. PICK d \in Off : \A e \in Off : d <= e
    BY <1>1, Least
<1>3. PICK x \in (a..b) \ T : d = x - a
    OBVIOUS
<1>4. x \in a + 1 .. b
    BY <1>3
<1>5. x - 1 \in T
    <2> SUFFICES ASSUME x - 1 \notin T PROVE FALSE
        OBVIOUS
    <2>1. x - 1 \in (a..b) \ T
        BY <1>4
    <2>2. (x - 1) - a \in Off
        BY <2>1
    <2>3. d <= (x - 1) - a
        BY <1>2, <2>2
    <2> HIDE DEF Off
    <2> QED
        BY <1>3, <1>4, <2>3
<1> QED
    BY <1>4, <1>5

LEMMA UpTo ==
    ASSUME NEW T, NEW N \in Nat, 0 \in T, \A n \in Nat : n < N /\ n \in T => n + 1 \in T
    PROVE  N \in T
<1>1. 0..N \subseteq T
    BY Upward
<1> QED
    BY <1>1

\* The same, downwards.
LEMMA Downward ==
    ASSUME NEW T, NEW a \in Int, NEW b \in Int, b \in T,
           \A n \in a + 1 .. b : n \in T => n - 1 \in T
    PROVE  a..b \subseteq T
<1> DEFINE Mirror == {n \in Int : b - n \in T}
           m == b - a
<1>1. m \in Int /\ 0 \in Mirror
    OBVIOUS
<1>2. ASSUME NEW n \in 0 .. m - 1, n \in Mirror PROVE n + 1 \in Mirror
    <2>1. b - n \in a + 1 .. b /\ b - n \in T
        BY <1>2
    <2>2. (b - n) - 1 \in T /\ (b - n) - 1 = b - (n + 1)
        BY <2>1
    <2> QED
        BY <2>2
<1>3. 0 .. m \subseteq Mirror
    <2> HIDE DEF Mirror, m
    <2> QED
        BY <1>1, <1>2, Upward
<1>4. ASSUME NEW n \in a..b PROVE n \in T
    <2>1. b - n \in 0 .. m
        OBVIOUS
    <2>2. b - n \in Mirror
        BY <1>3, <2>1
    <2>3. b - (b - n) = n
        OBVIOUS
    <2> QED
        BY <2>2, <2>3
<1> QED
    BY <1>4

\* One sequence after another.
LEMMA Joined ==
    ASSUME NEW S, NEW p \in Seq(S), NEW q \in Seq(S)
    PROVE  /\ p \o q \in Seq(S) /\ Len(p \o q) = Len(p) + Len(q)
           /\ \A k \in 1..Len(p) : (p \o q)[k] = p[k]
           /\ \A k \in 1..Len(q) : (p \o q)[Len(p) + k] = q[k]
OBVIOUS

-----------------------------------------------------------------------------
(* What FoldLeft computes *)

LEMMA MaxOfSet ==
    ASSUME NEW S \in SUBSET Int, NEW n \in S, \A x \in S : x <= n
    PROVE  Max(S) = n
<1>1. \A m \in S : (\A x \in S : m >= x) => m = n
    OBVIOUS
<1>2. n \in S /\ \A x \in S : n >= x
    OBVIOUS
<1> QED
    BY <1>1, <1>2 DEF Max

LEMMA MaxIsIn ==
    ASSUME NEW n \in Nat, NEW S \in SUBSET (1..n), S # {}
    PROVE  Max(S) \in S
<1>1. S \in SUBSET Int /\ n \in Int /\ \A x \in S : x <= n
    OBVIOUS
<1>2. \E m \in S : \A x \in S : x <= m
    BY ONLY <1>1, S # {}, Greatest
<1>3. PICK m \in S : \A x \in S : x <= m
    BY <1>2
<1> QED
    BY <1>1, <1>3, MaxOfSet

LEMMA MaxOfInterval ==
    ASSUME NEW n \in Nat \ {0}
    PROVE  Max(1..n) = n /\ (1..n) \ {n} = 1 .. n - 1 /\ 1..n # {}
<1>1. n \in 1..n /\ 1..n \in SUBSET Int /\ \A x \in 1..n : x <= n
    OBVIOUS
<1>2. Max(1..n) = n
    BY <1>1, MaxOfSet
<1>3. \A x : x \in (1..n) \ {n} <=> x \in 1 .. n - 1
    OBVIOUS
<1> QED
    BY <1>1, <1>2, <1>3

\* What FoldLeft is given: a start and a function that keeps to V over sequences of D.
Foldable(V, D, base, F, seq) == base \in V /\ F \in [V \X D -> V] /\ seq \in Seq(D)

\* An iterator of MapThenFoldSet, as FoldLeft calls it, that agrees with F where F is
\* defined.
Folds(it, V, base, F, seq) ==
    /\ it[{}] = base
    /\ \A s \in SUBSET DOMAIN seq :
          s # {} /\ it[s \ {Max(s)}] \in V => it[s] = F[<<it[s \ {Max(s)}], seq[Max(s)]>>]

\* One that is defined everywhere.
Iterating(it, V, D, base, F, seq) ==
    /\ it \in [SUBSET DOMAIN seq -> V]
    /\ it[{}] = base
    /\ \A s \in SUBSET DOMAIN seq :
          s # {} => /\ it[s] = F[<<it[s \ {Max(s)}], seq[Max(s)]>>]
                    /\ it[s \ {Max(s)}] \in V
                    /\ seq[Max(s)] \in D

\* There is one.
LEMMA FoldExists ==
    ASSUME NEW V, NEW D, NEW base, NEW F, NEW seq, Foldable(V, D, base, F, seq)
    PROVE  \E it : Iterating(it, V, D, base, F, seq)
<1> USE DEF Foldable
<1> DEFINE Iterates(it, n) ==
               \A s \in SUBSET (1..n) :
                   it[s] = IF s = {} THEN base ELSE F[<<it[s \ {Max(s)}], seq[Max(s)]>>]
           Reached == {n \in 0..Len(seq) : \E f \in [SUBSET (1..n) -> V] : Iterates(f, n)}
<1>1. 0 \in Reached
    <2> DEFINE it == [s \in SUBSET (1..0) |-> base]
    <2>1. it \in [SUBSET (1..0) -> V] /\ Iterates(it, 0)
        <3>1. SUBSET (1..0) = {{}}
            OBVIOUS
        <3> QED
            BY <3>1
    <2>2. 0 \in 0..Len(seq)
        OBVIOUS
    <2> HIDE DEF it, Iterates
    <2> QED
        BY <2>1, <2>2
<1>2. ASSUME NEW n \in 0 .. Len(seq) - 1, n \in Reached PROVE n + 1 \in Reached
    <2>1. PICK it \in [SUBSET (1..n) -> V] : Iterates(it, n)
        BY <1>2
    <2> DEFINE next == [s \in SUBSET (1 .. n + 1) |->
                           IF n + 1 \in s THEN F[<<it[s \ {n + 1}], seq[n + 1]>>] ELSE it[s]]
    <2>2. \A s \in SUBSET (1 .. n + 1) :
              /\ n + 1 \in s => s \ {n + 1} \in SUBSET (1..n) /\ Max(s) = n + 1
              /\ n + 1 \notin s => s \in SUBSET (1..n)
        <3> SUFFICES ASSUME NEW s \in SUBSET (1 .. n + 1)
                     PROVE  /\ n + 1 \in s => s \ {n + 1} \in SUBSET (1..n) /\ Max(s) = n + 1
                            /\ n + 1 \notin s => s \in SUBSET (1..n)
            OBVIOUS
        <3>1. s \in SUBSET Int /\ (\A x \in s : x <= n + 1) /\ n + 1 \in Int
            OBVIOUS
        <3>2. n + 1 \in s => Max(s) = n + 1
            BY <3>1, MaxOfSet
        <3>3. \A x \in 1 .. n + 1 : x # n + 1 => x \in 1..n
            OBVIOUS
        <3> QED
            BY <3>2, <3>3
    <2>3. next \in [SUBSET (1 .. n + 1) -> V]
        <3>1. seq[n + 1] \in D
            OBVIOUS
        <3>2. ASSUME NEW s \in SUBSET (1 .. n + 1)
              PROVE  (IF n + 1 \in s THEN F[<<it[s \ {n + 1}], seq[n + 1]>>] ELSE it[s]) \in V
            <4>1. CASE n + 1 \in s
                <5>1. it[s \ {n + 1}] \in V
                    BY <2>2, <4>1
                <5> QED
                    BY <3>1, <4>1, <5>1
            <4>2. CASE n + 1 \notin s
                BY <2>2, <4>2
            <4> QED
                BY <4>1, <4>2
        <3> QED
            BY <3>2
    <2>4. ASSUME NEW s \in SUBSET (1 .. n + 1)
          PROVE  next[s] = IF s = {} THEN base ELSE F[<<next[s \ {Max(s)}], seq[Max(s)]>>]
        <3>1. CASE n + 1 \in s
            <4>1. /\ Max(s) = n + 1
                  /\ s \ {n + 1} \in SUBSET (1..n) /\ s \ {n + 1} \in SUBSET (1 .. n + 1)
                  /\ n + 1 \notin s \ {n + 1}
                BY <2>2, <3>1
            <4>2. next[s \ {n + 1}] = it[s \ {n + 1}]
                BY <4>1
            <4> QED
                BY <3>1, <4>1, <4>2
        <3>2. CASE n + 1 \notin s
            <4>1. /\ s \in SUBSET (1..n)
                  /\ \A x : s \ {x} \in SUBSET (1..n) /\ s \ {x} \in SUBSET (1 .. n + 1)
                            /\ n + 1 \notin s \ {x}
                BY <2>2, <3>2
            <4>2. next[s] = it[s] /\ next[s \ {Max(s)}] = it[s \ {Max(s)}]
                BY <3>2, <4>1
            <4> QED
                BY <2>1, <4>1, <4>2
        <3> QED
            BY <3>1, <3>2
    <2> HIDE DEF next
    <2>5. Iterates(next, n + 1)
        BY <2>4
    <2> HIDE DEF Iterates
    <2> QED
        BY <2>3, <2>5
<1>3. Len(seq) \in Reached
    <2> HIDE DEF Reached
    <2> DEFINE N == Len(seq)
    <2>1. N \in Nat
        OBVIOUS
    <2>2. \A n \in Nat : n < N /\ n \in Reached => n + 1 \in Reached
        BY <1>2
    <2> HIDE DEF N
    <2>3. N \in Reached
        BY <1>1, <2>1, <2>2, UpTo
    <2> QED
        BY <2>3 DEF N
<1>4. DOMAIN seq = 1..Len(seq) /\ Len(seq) \in Nat /\ \A i \in 1..Len(seq) : seq[i] \in D
    OBVIOUS
<1>5. PICK it \in [SUBSET (1..Len(seq)) -> V] : Iterates(it, Len(seq))
    BY <1>3
<1>6. ASSUME NEW s \in SUBSET DOMAIN seq, s # {}
      PROVE  /\ it[s] = F[<<it[s \ {Max(s)}], seq[Max(s)]>>]
             /\ it[s \ {Max(s)}] \in V
             /\ seq[Max(s)] \in D
    <2>1. s \in SUBSET (1..Len(seq)) /\ Len(seq) \in Nat /\ s # {}
        BY <1>4, <1>6
    <2>2. Max(s) \in s
        BY ONLY <2>1, MaxIsIn
    <2> QED
        BY <1>4, <1>5, <1>6, <2>1, <2>2
<1>7. it[{}] = base
    BY <1>5
<1> HIDE DEF Iterates
<1>8. Iterating(it, V, D, base, F, seq)
    BY <1>4, <1>5, <1>6, <1>7 DEF Iterating
<1> QED
    BY <1>8

\* What it comes to: the last element is applied last.  Given for iterators of a
\* sequence and of the same with one more element.
LEMMA FoldAppends ==
    ASSUME NEW V, NEW D, NEW base, NEW F, NEW seq, Foldable(V, D, base, F, seq),
           NEW d \in D, NEW a, NEW b,
           Folds(a, V, base, F, seq), Folds(b, V, base, F, Append(seq, d))
    PROVE  /\ a[DOMAIN seq] \in V
           /\ b[DOMAIN Append(seq, d)] = F[<<a[DOMAIN seq], d>>]
<1> USE DEF Foldable, Folds
<1> DEFINE N == Len(seq)
           Reached == {n \in 0..N : a[1..n] \in V /\ b[1..n] = a[1..n]}
<1>1. /\ N \in Nat /\ DOMAIN seq = 1..N /\ DOMAIN Append(seq, d) = 1 .. N + 1
      /\ \A n \in 1..N : seq[n] \in D /\ Append(seq, d)[n] = seq[n]
      /\ Append(seq, d)[N + 1] = d
    OBVIOUS
<1> HIDE DEF N
<1>2. \A n \in Nat \ {0} : Max(1..n) = n /\ (1..n) \ {n} = 1 .. n - 1 /\ 1..n # {}
    BY MaxOfInterval
<1>3. 0 \in Reached
    BY <1>1, 1..0 = {}
<1>4. ASSUME NEW n \in 0 .. N - 1, n \in Reached PROVE n + 1 \in Reached
    <2>1. /\ n + 1 \in 1..N /\ n + 1 \in Nat \ {0} /\ (n + 1) - 1 = n
          /\ 1 .. n + 1 \in SUBSET (1..N) /\ 1 .. n + 1 \in SUBSET (1 .. N + 1)
        BY <1>1
    <2>2. Max(1 .. n + 1) = n + 1 /\ (1 .. n + 1) \ {n + 1} = 1..n /\ 1 .. n + 1 # {}
        BY <1>2, <2>1
    <2> DEFINE s == 1 .. n + 1
    <2>3. a[s] = F[<<a[1..n], seq[n + 1]>>]
        <3>1. s \in SUBSET DOMAIN seq /\ s # {} /\ Max(s) = n + 1 /\ s \ {Max(s)} = 1..n
            BY <1>1, <2>1, <2>2
        <3>2. a[s \ {Max(s)}] \in V
            BY <1>4, <3>1
        <3> HIDE DEF s
        <3>3. a[s] = F[<<a[s \ {Max(s)}], seq[Max(s)]>>]
            BY <3>1, <3>2
        <3> QED
            BY <3>1, <3>3
    <2>4. b[s] = F[<<a[1..n], seq[n + 1]>>]
        <3>1. s \in SUBSET DOMAIN Append(seq, d) /\ s # {} /\ Max(s) = n + 1 /\ s \ {Max(s)} = 1..n
            BY <1>1, <2>1, <2>2
        <3>2. b[s \ {Max(s)}] \in V /\ b[s \ {Max(s)}] = a[1..n]
            BY <1>4, <3>1
        <3>3. Append(seq, d)[n + 1] = seq[n + 1]
            BY <1>1, <2>1
        <3> HIDE DEF s
        <3>4. b[s] = F[<<b[s \ {Max(s)}], Append(seq, d)[Max(s)]>>]
            BY <3>1, <3>2
        <3> QED
            BY <3>1, <3>2, <3>3, <3>4
    <2>5. F[<<a[1..n], seq[n + 1]>>] \in V
        BY <1>1, <1>4, <2>1
    <2> QED
        BY <2>1, <2>3, <2>4, <2>5
<1>5. N \in Reached
    <2> HIDE DEF Reached
    <2>1. \A n \in Nat : n < N /\ n \in Reached => n + 1 \in Reached
        BY <1>1, <1>4
    <2> QED
        BY <1>1, <1>3, <2>1, UpTo
<1>6. Max(1 .. N + 1) = N + 1 /\ (1 .. N + 1) \ {N + 1} = 1..N /\ 1 .. N + 1 # {}
    <2>1. N + 1 \in Nat \ {0} /\ (N + 1) - 1 = N
        BY <1>1
    <2> QED
        BY <1>2, <2>1
<1> DEFINE s == 1 .. N + 1
<1>7. s \in SUBSET DOMAIN Append(seq, d) /\ s # {} /\ Max(s) = N + 1 /\ s \ {Max(s)} = 1..N
    BY <1>1, <1>6
<1>8. a[1..N] \in V /\ b[1..N] = a[1..N]
    BY <1>5
<1>9. b[s] = F[<<a[1..N], d>>]
    <2> HIDE DEF s
    <2>1. b[s \ {Max(s)}] \in V
        BY <1>7, <1>8
    <2>2. b[s] = F[<<b[s \ {Max(s)}], Append(seq, d)[Max(s)]>>]
        BY <1>7, <2>1
    <2> QED
        BY <1>1, <1>7, <1>8, <2>2
<1> QED
    BY <1>1, <1>8, <1>9

\* What a function is made of that is defined from the end: its value at i comes of the
\* one further on that next names.
Descends(V, base, N, F, next) ==
    /\ base \in V /\ N \in Nat /\ F \in [(1..N) \X V -> V]
    /\ next \in [1..N -> Int] /\ \A i \in 1..N : i < next[i] /\ next[i] <= N + 1

LEMMA DownExists ==
    ASSUME NEW V, NEW base, NEW N, NEW F, NEW next, Descends(V, base, N, F, next)
    PROVE  \E f \in [1 .. N + 1 -> V] :
               f[N + 1] = base /\ \A i \in 1..N : f[i] = F[<<i, f[next[i]]>>]
<1> USE DEF Descends
<1> DEFINE Fits(f, k) ==
               /\ f[N + 1] = base
               /\ \A i \in 1..N : i > N - k => f[i] = F[<<i, f[next[i]]>>]
           T == {k \in 0..N : \E f \in [1 .. N + 1 -> V] : Fits(f, k)}
<1>1. 0 \in T
    <2> DEFINE f == [i \in 1 .. N + 1 |-> base]
    <2>1. f \in [1 .. N + 1 -> V] /\ Fits(f, 0)
        OBVIOUS
    <2>2. 0 \in 0..N
        OBVIOUS
    <2> HIDE DEF f, Fits
    <2> QED
        BY <2>1, <2>2
<1>2. ASSUME NEW k \in Nat, k < N, k \in T PROVE k + 1 \in T
    <2>1. PICK f \in [1 .. N + 1 -> V] : Fits(f, k)
        BY <1>2
    <2> DEFINE here == N - k
               g == [f EXCEPT ![here] = F[<<here, f[next[here]]>>]]
    <2>2. /\ here \in 1..N /\ next[here] \in 1 .. N + 1 /\ here # N + 1
          /\ f[next[here]] \in V /\ <<here, f[next[here]]>> \in (1..N) \X V
        BY <1>2
    <2>3. g \in [1 .. N + 1 -> V] /\ g[N + 1] = base
        BY <2>1, <2>2
    <2>4. ASSUME NEW i \in 1..N, i > N - (k + 1) PROVE g[i] = F[<<i, g[next[i]]>>]
        <3>1. next[i] # here /\ next[i] \in 1 .. N + 1 /\ (i = here \/ i > N - k)
            BY <1>2, <2>4
        <3>2. g[next[i]] = f[next[i]]
            BY <3>1
        <3>3. CASE i = here
            <4>1. g[here] = F[<<here, f[next[here]]>>]
                BY <2>2
            <4> QED
                BY <3>2, <3>3, <4>1
        <3>4. CASE i # here /\ i > N - k
            <4>1. g[i] = f[i]
                BY <3>4
            <4>2. f[i] = F[<<i, f[next[i]]>>]
                BY <2>1, <3>4
            <4> QED
                BY <3>2, <4>1, <4>2
        <3> QED
            BY <3>1, <3>3, <3>4
    <2> HIDE DEF g
    <2>5. Fits(g, k + 1) /\ k + 1 \in 0..N
        BY <1>2, <2>3, <2>4
    <2> HIDE DEF Fits
    <2> QED
        BY <2>3, <2>5
<1>3. N \in T
    <2> HIDE DEF T
    <2>1. \A k \in Nat : k < N /\ k \in T => k + 1 \in T
        BY <1>2
    <2> QED
        BY <1>1, <2>1, UpTo
<1> QED
    BY <1>3

==============================================================================
