---------------------------- MODULE EnginesProofs ----------------------------
(***************************************************************************)
(* What the engines compute, for all documents and all metadata: lemmas    *)
(* about the folds of Engines.  A fold runs through the positions of a     *)
(* sequence; what it has computed after k of them is named here, and facts *)
(* about it are proved by induction over k.                                *)
(***************************************************************************)
EXTENDS Engines, FiniteSetTheorems, WellFoundedInduction, SequenceTheorems, TLAPS

-----------------------------------------------------------------------------
(* Induction over the positions of a sequence                              *)

\* What holds of 0 and is handed on from k to k + 1 holds up to n.  The
\* property is given by the set of its numbers.
LEMMA UpTo ==
  ASSUME NEW n \in Nat, NEW S, 0 \in S, \A k \in 0..n-1 : k \in S => k + 1 \in S
  PROVE  \A k \in 0..n : k \in S
  <1>. DEFINE T    == (0..n) \ S
              Less == OpToRel(<, Nat)
  <1>. SUFFICES ASSUME T # {} PROVE FALSE
    OBVIOUS
  <1>1. T \subseteq Nat
    OBVIOUS
  <1>2. IsWellFoundedOn(Less, Nat)
    BY NatLessThanWellFounded DEF OpToRel
  <1>3. \A t, u \in Nat : <<u, t>> \notin Less => t <= u
    BY DEF OpToRel
  <1>. HIDE DEF Less
  <1>4. PICK t \in T : \A u \in T : <<u, t>> \notin Less
    BY <1>1, <1>2, WFMin
  <1>5. \A u \in T : t <= u
    BY <1>1, <1>3, <1>4
  <1>6. t \in 1..n /\ t - 1 \in 0..n-1
    OBVIOUS
  <1>7. t - 1 \in S
    BY <1>5, <1>6
  <1>. QED  BY <1>6, <1>7

\* The last position of an interval, and the interval without it.
LEMMA MaxUpTo ==
  ASSUME NEW k \in Nat \ {0}
  PROVE  Max(1..k) = k /\ (1..k) \ {k} = 1..(k-1)
  <1>1. k \in 1..k /\ \A y \in 1..k : k >= y
    OBVIOUS
  <1>2. \A x \in 1..k : (\A y \in 1..k : x >= y) => x = k
    OBVIOUS
  <1>3. Max(1..k) = k
    BY <1>1, <1>2 DEF Max
  <1>. QED  BY <1>3

\* The greatest of a set that has n + 1 and otherwise only smaller numbers.
LEMMA MaxNext ==
  ASSUME NEW n \in Nat, NEW s \in SUBSET (1..n+1), n + 1 \in s
  PROVE  Max(s) = n + 1 /\ s \ {n + 1} \in SUBSET (1..n)
  <1>1. \A y \in s : n + 1 >= y
    OBVIOUS
  <1>2. \A x \in s : (\A y \in s : x >= y) => x = n + 1
    OBVIOUS
  <1>3. Max(s) = n + 1
    BY <1>1, <1>2 DEF Max
  <1>. QED  BY <1>3

\* The greatest of a non-empty set of positions is one of them.
LEMMA MaxIn ==
  ASSUME NEW n \in Nat, NEW s \in SUBSET (1..n), s # {}
  PROVE  Max(s) \in s
  <1>. DEFINE Chosen(k) == \A r \in SUBSET (1..k) : r # {} => Max(r) \in r
              S == {k \in 0..n : Chosen(k)}
  <1>1. 0 \in S
    <2>1. ASSUME NEW r \in SUBSET (1..0) PROVE r = {}
      OBVIOUS
    <2>2. Chosen(0)
      BY <2>1, Zenon
    <2>3. 0 \in 0..n
      OBVIOUS
    <2>. QED  BY <2>2, <2>3, Zenon
  <1>2. ASSUME NEW k \in 0..n-1, k \in S PROVE k + 1 \in S
    <2>. SUFFICES ASSUME NEW r \in SUBSET (1..k+1), r # {} PROVE Max(r) \in r
      OBVIOUS
    <2>1. CASE k + 1 \in r
      BY <2>1, MaxNext
    <2>2. CASE k + 1 \notin r
      <3>1. r \in SUBSET (1..k)
        BY <2>2
      <3>. QED  BY <3>1, <1>2
    <2>. QED  BY <2>1, <2>2
  <1>. HIDE DEF S, Chosen
  <1>3. n \in S
    BY <1>1, <1>2, UpTo
  <1>. QED  BY <1>3 DEF S, Chosen

-----------------------------------------------------------------------------
(* Folds                                                                   *)

\* The function behind a left fold over n positions: `step` maps a position
\* and a result to the next result.
IsFold(it, n, c, step) ==
  \A s \in SUBSET (1..n) :
    it[s] = IF s = {} THEN c ELSE step[Max(s)][it[s \ {Max(s)}]]

\* The same, as far as the results are known to be in D.
FoldsIn(D, it, n, c, step) ==
  /\ it[{}] = c
  /\ \A s \in SUBSET (1..n) :
       s # {} /\ it[s \ {Max(s)}] \in D => it[s] = step[Max(s)][it[s \ {Max(s)}]]

\* The function behind a recursion over 0..n.
IsIteration(g, n, c, step) ==
  g[0] = c /\ \A k \in 1..n : g[k] = step[k][g[k - 1]]

\* Adding a position: the folds without it are kept.
LEMMA FoldNext ==
  ASSUME NEW n \in Nat, NEW D, NEW c \in D, NEW step \in [1..n+1 -> [D -> D]],
         NEW old \in [SUBSET (1..n) -> D], IsFold(old, n, c, step)
  PROVE  \E it \in [SUBSET (1..n+1) -> D] : IsFold(it, n + 1, c, step)
  <1>. DEFINE it == [s \in SUBSET (1..n+1) |->
                       IF n + 1 \in s THEN step[n + 1][old[s \ {n + 1}]] ELSE old[s]]
  <1>1. \A s \in SUBSET (1..n+1) : n + 1 \notin s => s \in SUBSET (1..n)
    OBVIOUS
  <1>2. \A s \in SUBSET (1..n+1) : s \ {n + 1} \in SUBSET (1..n)
    OBVIOUS
  <1>3. step[n + 1] \in [D -> D]
    OBVIOUS
  <1>4. it \in [SUBSET (1..n+1) -> D]
    BY <1>1, <1>2, <1>3
  <1>5. ASSUME NEW s \in SUBSET (1..n+1)
        PROVE  it[s] = IF s = {} THEN c ELSE step[Max(s)][it[s \ {Max(s)}]]
    <2>1. CASE n + 1 \in s
      <3>1. Max(s) = n + 1 /\ s # {}
        BY <2>1, MaxNext
      <3>2. it[s \ {n + 1}] = old[s \ {n + 1}]
        OBVIOUS
      <3>. QED  BY <2>1, <3>1, <3>2
    <2>2. CASE n + 1 \notin s
      <3>1. s \in SUBSET (1..n)
        BY <1>1, <2>2
      <3>2. s \ {Max(s)} \in SUBSET (1..n) /\ s \ {Max(s)} \in SUBSET (1..n+1)
        BY <3>1
      <3>3. n + 1 \notin s \ {Max(s)}
        BY <2>2
      <3>4. it[s] = old[s] /\ it[s \ {Max(s)}] = old[s \ {Max(s)}]
        BY <2>2, <3>2, <3>3
      <3>. QED  BY <3>1, <3>4 DEF IsFold
    <2>. QED  BY <2>1, <2>2
  <1>6. IsFold(it, n + 1, c, step)
    BY <1>5 DEF IsFold
  <1>. HIDE DEF it
  <1>. QED  BY <1>4, <1>6

\* The function behind a left fold exists.
LEMMA FoldExists ==
  ASSUME NEW n \in Nat, NEW D, NEW c \in D, NEW step \in [1..n -> [D -> D]]
  PROVE  \E it \in [SUBSET (1..n) -> D] : IsFold(it, n, c, step)
  <1>. DEFINE Exists(k) == \E it \in [SUBSET (1..k) -> D] : IsFold(it, k, c, step)
              S == {k \in 0..n : Exists(k)}
  <1>1. 0 \in S
    <2>. DEFINE it == [s \in SUBSET (1..0) |-> c]
    <2>1. \A s \in SUBSET (1..0) : s = {}
      OBVIOUS
    <2>2. it \in [SUBSET (1..0) -> D] /\ IsFold(it, 0, c, step)
      BY <2>1 DEF IsFold
    <2>. HIDE DEF it
    <2>3. Exists(0)
      BY <2>2, Zenon
    <2>4. 0 \in 0..n
      OBVIOUS
    <2>. QED  BY <2>3, <2>4, Zenon
  <1>2. ASSUME NEW k \in 0..n-1, k \in S PROVE k + 1 \in S
    <2>1. PICK old \in [SUBSET (1..k) -> D] : IsFold(old, k, c, step)
      BY <1>2
    <2>. DEFINE first == [i \in 1..k+1 |-> step[i]]
    <2>0. k \in Nat /\ k + 1 \in Nat
      OBVIOUS
    <2>2. first \in [1..k+1 -> [D -> D]] /\ k \in Nat /\ k + 1 \in 0..n
      OBVIOUS
    <2>3. IsFold(old, k, c, first)
      <3>. SUFFICES ASSUME NEW s \in SUBSET (1..k), s # {}
                    PROVE  step[Max(s)] = first[Max(s)]
        BY <2>1 DEF IsFold
      <3>1. Max(s) \in s
        BY <2>0, MaxIn
      <3>2. Max(s) \in 1..k
        BY <3>1
      <3>3. Max(s) \in 1..k+1
        BY <2>0, <3>2
      <3>. QED  BY <3>3
    <2>. HIDE DEF first
    <2>4. PICK it \in [SUBSET (1..k+1) -> D] : IsFold(it, k + 1, c, first)
      BY <2>1, <2>2, <2>3, FoldNext
    <2>5. IsFold(it, k + 1, c, step)
      <3>. SUFFICES ASSUME NEW s \in SUBSET (1..k+1), s # {}
                    PROVE  step[Max(s)] = first[Max(s)]
        BY <2>4 DEF IsFold
      <3>1. Max(s) \in s
        BY <2>0, MaxIn
      <3>2. Max(s) \in 1..k+1
        BY <3>1
      <3>. QED  BY <3>2 DEF first
    <2>. QED  BY <2>2, <2>5
  <1>. HIDE DEF S, Exists
  <1>3. \A k \in 0..n : k \in S
    BY <1>1, <1>2, UpTo
  <1>4. n \in S
    BY <1>3
  <1>. QED  BY <1>4 DEF S, Exists

\* A fold over the first k positions takes the k-th step last.  Its results
\* are known to be in D only as far as the steps have come.
LEMMA FoldSteps ==
  ASSUME NEW n \in Nat, NEW D, NEW c \in D, NEW step \in [1..n -> [D -> D]],
         NEW it, FoldsIn(D, it, n, c, step)
  PROVE  \E g \in [0..n -> D] : IsIteration(g, n, c, step) /\ g[n] = it[1..n]
  <1>. DEFINE g == [k \in 0..n |-> it[1..k]]
              T == {k \in 0..n : g[k] \in D}
  <1>1. 0 \in 0..n /\ n \in 0..n /\ 1..0 = {}
    OBVIOUS
  <1>2. g[0] = c
    BY <1>1 DEF FoldsIn
  <1>3. ASSUME NEW k \in 1..n, g[k - 1] \in D PROVE g[k] = step[k][g[k - 1]]
    <2>1. 1..k \subseteq 1..n /\ k \in 1..k /\ k \in 0..n /\ k - 1 \in 0..n
      OBVIOUS
    <2>2. Max(1..k) = k /\ (1..k) \ {k} = 1..(k-1)
      BY MaxUpTo
    <2>3. g[k] = it[1..k] /\ g[k - 1] = it[1..(k-1)]
      BY <2>1
    <2>. DEFINE s == 1..k
    <2>4. s \in SUBSET (1..n) /\ s # {} /\ Max(s) = k /\ it[s \ {Max(s)}] = g[k - 1]
      BY <2>1, <2>2, <2>3
    <2>. HIDE DEF g, s
    <2>5. it[s] = step[k][g[k - 1]]
      BY <1>3, <2>4 DEF FoldsIn
    <2>. QED  BY <2>3, <2>5 DEF s
  <1>4. \A k \in 0..n : k \in T
    <2>. HIDE DEF g
    <2>1. 0 \in T
      BY <1>1, <1>2
    <2>2. ASSUME NEW k \in 0..n-1, k \in T PROVE k + 1 \in T
      <3>1. k + 1 \in 1..n /\ (k + 1) - 1 = k /\ k + 1 \in 0..n
        OBVIOUS
      <3>2. g[k + 1] = step[k + 1][g[k]]
        BY <1>3, <2>2, <3>1
      <3>. QED  BY <2>2, <3>1, <3>2
    <2>. HIDE DEF T
    <2>. QED  BY <2>1, <2>2, UpTo
  <1>5. g \in [0..n -> D]
    BY <1>4
  <1>6. \A k \in 1..n : k - 1 \in 0..n
    OBVIOUS
  <1>7. g[n] = it[1..n]
    BY <1>1
  <1>. HIDE DEF g
  <1>8. IsIteration(g, n, c, step)
    BY <1>2, <1>3, <1>5, <1>6 DEF IsIteration
  <1>. QED  BY <1>5, <1>7, <1>8

\* A function defined by recursion over 0..n exists.
LEMMA IterationExists ==
  ASSUME NEW n \in Nat, NEW D, NEW c \in D, NEW step \in [1..n -> [D -> D]]
  PROVE  \E g \in [0..n -> D] : IsIteration(g, n, c, step)
  <1>1. PICK it \in [SUBSET (1..n) -> D] : IsFold(it, n, c, step)
    BY FoldExists
  <1>2. FoldsIn(D, it, n, c, step)
    BY <1>1 DEF IsFold, FoldsIn
  <1>. QED  BY <1>2, FoldSteps

-----------------------------------------------------------------------------
(* Concatenation                                                           *)

\* What FlattenSeq has concatenated after i of the sequences.
IsConcatenation(g, seqs) ==
  /\ g[1] = seqs[1]
  /\ \A i \in 2..Len(seqs) : g[i] = g[i - 1] \o seqs[i]

\* FlattenSeq concatenates one sequence after the other.
LEMMA FlattenSteps ==
  ASSUME NEW S, NEW seqs \in Seq(Seq(S)), seqs # <<>>
  PROVE  \E g : IsConcatenation(g, seqs) /\ FlattenSeq(seqs) = g[Len(seqs)]
  <1>. DEFINE n    == Len(seqs)
              D    == Seq(S)
              step == [k \in 1..n-1 |-> [d \in D |-> d \o seqs[k + 1]]]
              Fits(g) == g = [i \in 1..n |-> IF i = 1 THEN seqs[i] ELSE g[i - 1] \o seqs[i]]
              flatten == CHOOSE g : Fits(g)
  <1>1. n \in Nat \ {0} /\ \A i \in 1..n : seqs[i] \in D
    OBVIOUS
  <1>2. step \in [1..n-1 -> [D -> D]]
    <2>1. \A k \in 1..n-1 : k + 1 \in 1..n
      BY <1>1
    <2>. QED  BY <1>1, <2>1
  <1>3. PICK g \in [0..n-1 -> D] : IsIteration(g, n - 1, seqs[1], step)
    <2>1. n - 1 \in Nat /\ seqs[1] \in D
      BY <1>1
    <2>. HIDE DEF n, D, step
    <2>. QED  BY <1>2, <2>1, IterationExists
  <1>. DEFINE h == [i \in 1..n |-> g[i - 1]]
  <1>4. Fits(h)
    <2>1. g[0] = seqs[1]
      BY <1>3 DEF IsIteration
    <2>2. ASSUME NEW i \in 1..n, i # 1
          PROVE  g[i - 1] = g[(i - 1) - 1] \o seqs[i]
      <3>1. /\ i - 1 \in 1..n-1 /\ (i - 1) - 1 \in 0..n-1
            /\ (i - 1) + 1 = i
        BY <1>1, <2>2
      <3>2. g[i - 1] = step[i - 1][g[(i - 1) - 1]]
        BY <1>3, <3>1 DEF IsIteration
      <3>. QED  BY <3>1, <3>2
    <2>3. \A i \in 1..n : i # 1 => i - 1 \in 1..n
      BY <1>1
    <2>4. 1 - 1 = 0
      OBVIOUS
    <2>5. \A i \in 1..n : h[i] = IF i = 1 THEN seqs[i] ELSE h[i - 1] \o seqs[i]
      BY <2>1, <2>2, <2>3, <2>4
    <2>. QED  BY <2>5
  <1>5. Fits(flatten)
    <2>. HIDE DEF Fits, h
    <2>. QED  BY <1>4
  <1>6. FlattenSeq(seqs) = flatten[n]
    BY <1>1 DEF FlattenSeq
  <1>. HIDE DEF flatten
  <1>7. IsConcatenation(flatten, seqs)
    <2>1. flatten[1] = seqs[1]
      BY <1>1, <1>5
    <2>2. ASSUME NEW i \in 2..n PROVE flatten[i] = flatten[i - 1] \o seqs[i]
      <3>1. i \in 1..n /\ i # 1
        BY <1>1
      <3>. QED  BY <1>5, <3>1
    <2>. QED  BY <2>1, <2>2 DEF IsConcatenation
  <1>. QED  BY <1>6, <1>7

\* The result holds elements of the sequences, and is empty only if there is
\* none or the first one is.
LEMMA FlattenTyped ==
  ASSUME NEW S, NEW seqs \in Seq(Seq(S))
  PROVE  /\ FlattenSeq(seqs) \in Seq(S)
         /\ seqs # <<>> /\ seqs[1] # <<>> => FlattenSeq(seqs) # <<>>
  <1>1. CASE seqs = <<>>
    <2>1. FlattenSeq(seqs) = <<>>
      BY <1>1 DEF FlattenSeq
    <2>2. <<>> \in Seq(S)
      OBVIOUS
    <2>. QED  BY <1>1, <2>1, <2>2
  <1>2. CASE seqs # <<>>
    <2>1. PICK g : IsConcatenation(g, seqs) /\ FlattenSeq(seqs) = g[Len(seqs)]
      BY <1>2, FlattenSteps
    <2>. DEFINE n == Len(seqs)
                T == {k \in Nat : /\ g[k + 1] \in Seq(S)
                                  /\ seqs[1] # <<>> => g[k + 1] # <<>>}
    <2>2. n \in Nat \ {0} /\ \A i \in 1..n : seqs[i] \in Seq(S)
      BY <1>2
    <2>3. 0 \in T
      BY <2>1, <2>2 DEF IsConcatenation
    <2>4. ASSUME NEW k \in 0..(n-1)-1, k \in T PROVE k + 1 \in T
      <3>1. k + 2 \in 2..n /\ (k + 2) - 1 = k + 1 /\ (k + 1) + 1 = k + 2 /\ k + 2 \in 1..n
        BY <2>2
      <3>2. g[(k + 1) + 1] = g[k + 1] \o seqs[k + 2]
        BY <2>1, <3>1 DEF IsConcatenation
      <3>3. g[k + 1] \in Seq(S) /\ seqs[k + 2] \in Seq(S)
        BY <2>2, <2>4, <3>1
      <3>4. /\ g[(k + 1) + 1] \in Seq(S)
            /\ g[k + 1] # <<>> => g[(k + 1) + 1] # <<>>
        BY <3>2, <3>3
      <3>. QED  BY <2>4, <3>4
    <2>5. n - 1 \in T
      <3>1. n - 1 \in Nat /\ n - 1 \in 0..(n-1)
        BY <2>2
      <3>. HIDE DEF T, n
      <3>2. \A k \in 0..(n-1) : k \in T
        BY <2>3, <2>4, <3>1, UpTo
      <3>. QED  BY <3>1, <3>2
    <2>6. (n - 1) + 1 = n
      BY <2>2
    <2>. QED  BY <2>1, <2>5, <2>6
  <1>. QED  BY <1>1, <1>2

\* Sequences of one length add up to that length times their number.
LEMMA FlattenLength ==
  ASSUME NEW S, NEW seqs \in Seq(Seq(S)), seqs # <<>>, NEW m \in Nat,
         \A i \in 1..Len(seqs) : Len(seqs[i]) = m
  PROVE  Len(FlattenSeq(seqs)) = Len(seqs) * m
  <1>1. PICK g : IsConcatenation(g, seqs) /\ FlattenSeq(seqs) = g[Len(seqs)]
    BY FlattenSteps
  <1>. DEFINE n == Len(seqs)
              T == {k \in Nat : g[k + 1] \in Seq(S) /\ Len(g[k + 1]) = (k + 1) * m}
  <1>2. n \in Nat \ {0} /\ \A i \in 1..n : seqs[i] \in Seq(S)
    OBVIOUS
  <1>3. 0 \in T
    <2>1. g[0 + 1] = seqs[1] /\ 1 \in 1..n
      BY <1>1, <1>2 DEF IsConcatenation
    <2>2. (0 + 1) * m = m
      OBVIOUS
    <2>. QED  BY <1>2, <2>1, <2>2
  <1>4. ASSUME NEW k \in 0..(n-1)-1, k \in T PROVE k + 1 \in T
    <2>1. k + 2 \in 2..n /\ (k + 2) - 1 = k + 1 /\ (k + 1) + 1 = k + 2 /\ k + 2 \in 1..n
      BY <1>2
    <2>2. g[(k + 1) + 1] = g[k + 1] \o seqs[k + 2]
      BY <1>1, <2>1 DEF IsConcatenation
    <2>3. /\ g[k + 1] \in Seq(S) /\ seqs[k + 2] \in Seq(S)
          /\ Len(g[k + 1]) = (k + 1) * m /\ Len(seqs[k + 2]) = m
      BY <1>2, <1>4, <2>1
    <2>4. g[(k + 1) + 1] \in Seq(S) /\ Len(g[(k + 1) + 1]) = (k + 1) * m + m
      <3>1. \A a, b \in Seq(S) : a \o b \in Seq(S) /\ Len(a \o b) = Len(a) + Len(b)
        OBVIOUS
      <3>. HIDE DEF T
      <3>. QED  BY <2>2, <2>3, <3>1
    <2>5. k \in Nat /\ k + 1 \in Nat /\ (k + 1) * m + m = ((k + 1) + 1) * m
      OBVIOUS
    <2>. QED  BY <2>4, <2>5
  <1>5. n - 1 \in T
    <2>1. n - 1 \in Nat /\ n - 1 \in 0..(n-1)
      BY <1>2
    <2>. HIDE DEF T, n
    <2>2. \A k \in 0..(n-1) : k \in T
      BY <1>3, <1>4, <2>1, UpTo
    <2>. QED  BY <2>1, <2>2
  <1>6. (n - 1) + 1 = n
    BY <1>2
  <1>. QED  BY <1>1, <1>5, <1>6

\* Nothing and one sequence.
LEMMA FlattenOne ==
  ASSUME NEW S, NEW s \in Seq(S)
  PROVE  FlattenSeq(<<>>) = <<>> /\ FlattenSeq(<<s>>) = s
  <1>1. FlattenSeq(<<>>) = <<>>
    BY DEF FlattenSeq
  <1>. DEFINE one == <<s>>
  <1>2. one \in Seq(Seq(S)) /\ one # <<>> /\ Len(one) = 1 /\ one[1] = s
    OBVIOUS
  <1>. HIDE DEF one
  <1>3. PICK g : IsConcatenation(g, one) /\ FlattenSeq(one) = g[Len(one)]
    BY <1>2, FlattenSteps
  <1>4. FlattenSeq(one) = s
    BY <1>2, <1>3 DEF IsConcatenation
  <1>. QED  BY <1>1, <1>4 DEF one

-----------------------------------------------------------------------------
(* JSONPath                                                                *)

\* The matches of one step in the matches so far.
Children(found, step) ==
  FlattenSeq([i \in DOMAIN found |-> ChildrenAt(found[i], step)])

\* What [*] runs through is a sequence of JSON values.
LEMMA AsArrayTyped ==
  ASSUME NEW V, HoldsParts(V), NEW v \in V
  PROVE  AsArray(v) \in Seq(V)
  <1>1. v.kind = "array" => v.items \in Seq(V)
    BY DEF HoldsParts
  <1>2. <<v>> \in Seq(V) /\ <<>> \in Seq(V)
    OBVIOUS
  <1>. QED  BY <1>1, <1>2 DEF AsArray

\* A step from JSON values leads to their parts.
LEMMA ChildrenTyped ==
  ASSUME NEW V, HoldsParts(V), NEW found \in Seq(V), NEW step
  PROVE  Children(found, step) \in Seq(V)
  <1>1. ASSUME NEW v \in V PROVE ChildrenAt(v, step) \in Seq(V)
    BY AsArrayTyped DEF ChildrenAt, HoldsParts
  <1>. DEFINE seqs == [i \in DOMAIN found |-> ChildrenAt(found[i], step)]
  <1>2. seqs \in Seq(Seq(V))
    <2>1. \A i \in 1..Len(found) : found[i] \in V
      OBVIOUS
    <2>2. seqs \in [1..Len(found) -> Seq(V)]
      BY <1>1, <2>1
    <2>. QED  BY <2>2
  <1>. HIDE DEF seqs
  <1>3. FlattenSeq(seqs) \in Seq(V)
    BY <1>2, FlattenTyped
  <1>. QED  BY <1>3 DEF seqs, Children

\* The step from one match, and from none.
LEMMA ChildrenOne ==
  ASSUME NEW V, HoldsParts(V), NEW v \in V, NEW step
  PROVE  /\ Children(<<v>>, step) = ChildrenAt(v, step)
         /\ Children(<<>>, step) = <<>>
  <1>1. ChildrenAt(v, step) \in Seq(V)
    BY AsArrayTyped DEF ChildrenAt, HoldsParts
  <1>2. [i \in DOMAIN <<v>> |-> ChildrenAt(<<v>>[i], step)] = <<ChildrenAt(v, step)>>
    OBVIOUS
  <1>3. [i \in DOMAIN <<>> |-> ChildrenAt(<<>>[i], step)] = <<>>
    OBVIOUS
  <1>. QED  BY <1>1, <1>2, <1>3, FlattenOne DEF Children

\* The matches after each step of a path.
IsSearch(found, payload, path) ==
  /\ found[0] = <<payload>>
  /\ \A k \in 1..Len(path) : found[k] = Children(found[k - 1], path[k])

\* extract_all follows the path step by step.
LEMMA ExtractSteps ==
  ASSUME NEW V, HoldsParts(V), NEW payload \in V, NEW path \in Seq(STRING)
  PROVE  \E found \in [0..Len(path) -> Seq(V)] :
           IsSearch(found, payload, path) /\ extract_all(payload, path) = found[Len(path)]
  <1>. DEFINE n    == Len(path)
              D    == Seq(V)
              step == [k \in 1..n |-> [d \in D |-> Children(d, path[k])]]
              Fits(g) == g = [s \in SUBSET (DOMAIN path) |->
                                IF s = {} THEN <<payload>>
                                ELSE Children(g[s \ {Max(s)}], path[Max(s)])]
              fold  == CHOOSE g : Fits(g)
  <1>1. n \in Nat /\ DOMAIN path = 1..n /\ <<payload>> \in D
    OBVIOUS
  <1>2. step \in [1..n -> [D -> D]]
    BY ChildrenTyped
  <1>3. PICK it \in [SUBSET (1..n) -> D] : IsFold(it, n, <<payload>>, step)
    <2>. HIDE DEF n, D, step
    <2>. QED  BY <1>1, <1>2, FoldExists
  <1>4. Fits(it)
    <2>1. ASSUME NEW s \in SUBSET (1..n), s # {}
          PROVE  it[s] = Children(it[s \ {Max(s)}], path[Max(s)])
      <3>1. Max(s) \in 1..n
        BY <1>1, <2>1, MaxIn
      <3>2. it[s \ {Max(s)}] \in D
        OBVIOUS
      <3>. QED  BY <1>3, <2>1, <3>1, <3>2 DEF IsFold
    <2>2. it[{}] = <<payload>>
      BY <1>3 DEF IsFold
    <2>. QED  BY <1>1, <2>1, <2>2
  <1>5. Fits(fold)
    <2>. HIDE DEF Fits
    <2>. QED  BY <1>4
  <1>6. extract_all(payload, path) = fold[DOMAIN path]
    BY DEF extract_all, FoldLeft, MapThenFoldSet, Children
  <1>. HIDE DEF fold
  <1>7. PICK found \in [0..n -> D] : /\ IsIteration(found, n, <<payload>>, step)
                                     /\ found[n] = fold[1..n]
    <2>1. fold[{}] = <<payload>>
      BY <1>5
    <2>2. ASSUME NEW s \in SUBSET (1..n), s # {}, fold[s \ {Max(s)}] \in D
          PROVE  fold[s] = step[Max(s)][fold[s \ {Max(s)}]]
      <3>1. Max(s) \in 1..n
        BY <1>1, <2>2, MaxIn
      <3>. QED  BY <1>1, <1>5, <2>2, <3>1
    <2>. HIDE DEF n, D, step, Fits
    <2>3. FoldsIn(D, fold, n, <<payload>>, step)
      BY <2>1, <2>2 DEF FoldsIn
    <2>. QED  BY <1>1, <1>2, <2>3, FoldSteps
  <1>8. IsSearch(found, payload, path)
    <2>1. \A k \in 1..n : k - 1 \in 0..n
      BY <1>1
    <2>. QED  BY <1>7, <2>1 DEF IsSearch, IsIteration
  <1>. QED  BY <1>1, <1>6, <1>7, <1>8

\* The matches of a path are JSON values, and so is the first of them.
LEMMA ExtractTyped ==
  ASSUME NEW V, HoldsParts(V), Null \in V, NEW payload \in V, NEW path \in Seq(STRING)
  PROVE  extract_all(payload, path) \in Seq(V) /\ extract_value(payload, path) \in V
  <1>1. extract_all(payload, path) \in Seq(V)
    <2>1. PICK found \in [0..Len(path) -> Seq(V)] : extract_all(payload, path) = found[Len(path)]
      BY ExtractSteps
    <2>2. Len(path) \in 0..Len(path)
      OBVIOUS
    <2>. QED  BY <2>1, <2>2
  <1>. DEFINE matches == extract_all(payload, path)
  <1>2. matches # <<>> => matches[1] \in V
    <2>. HIDE DEF matches
    <2>1. matches \in Seq(V)
      BY <1>1 DEF matches
    <2>. QED  BY <2>1
  <1>. QED  BY <1>1, <1>2 DEF extract_value

-----------------------------------------------------------------------------
(* Flattening                                                              *)

\* The rows flatten_records makes of a payload.
FlatRows(V, payload) == [root : {payload}, children : Seq(V)]

\* What a row is exploded into: the elements at the path, or a null child.
ElementsAt(payload, path) ==
  LET found == extract_all(payload, path)
  IN IF found = <<>> THEN <<Null>> ELSE found

\* There is at least one child.
LEMMA ElementsTyped ==
  ASSUME NEW V, HoldsParts(V), Null \in V, NEW payload \in V, NEW path \in Seq(STRING)
  PROVE  ElementsAt(payload, path) \in Seq(V) /\ ElementsAt(payload, path) # <<>>
  <1>1. extract_all(payload, path) \in Seq(V)
    BY ExtractTyped
  <1>2. <<Null>> \in Seq(V) /\ <<Null>> # <<>>
    OBVIOUS
  <1>. QED  BY <1>1, <1>2 DEF ElementsAt

\* Rows stay rows, and each becomes as many as there are elements.
LEMMA ExplodeTyped ==
  ASSUME NEW V, HoldsParts(V), Null \in V, NEW payload \in V,
         NEW rows \in Seq(FlatRows(V, payload)), rows # <<>>,
         NEW config, config.path \in Seq(STRING)
  PROVE  /\ Explode(rows, config) \in Seq(FlatRows(V, payload)) /\ Explode(rows, config) # <<>>
         /\ Len(Explode(rows, config)) = Len(rows) * Len(ElementsAt(payload, config.path))
  <1>. DEFINE R        == FlatRows(V, payload)
              elements == ElementsAt(payload, config.path)
              exploded == [r \in DOMAIN rows |->
                             [e \in DOMAIN elements |->
                                [rows[r] EXCEPT !.children = Append(@, elements[e])]]]
  <1>1. elements \in Seq(V) /\ elements # <<>>
    BY ElementsTyped
  <1>2. ASSUME NEW r \in DOMAIN rows
        PROVE  rows[r] \in R /\ rows[r].root = payload /\ rows[r].children \in Seq(V)
    <2>1. rows[r] \in FlatRows(V, payload)
      OBVIOUS
    <2>. QED  BY <2>1 DEF FlatRows
  <1>3. Explode(rows, config) = FlattenSeq(exploded)
    BY <1>2 DEF Explode, ElementsAt
  <1>. HIDE DEF elements
  <1>4. ASSUME NEW r \in DOMAIN rows
        PROVE  /\ exploded[r] \in Seq(R) /\ exploded[r] # <<>>
               /\ Len(exploded[r]) = Len(elements)
    <2>1. ASSUME NEW e \in 1..Len(elements)
          PROVE  [rows[r] EXCEPT !.children = Append(@, elements[e])] \in R
      <3>1. elements[e] \in V
        BY <1>1
      <3>2. /\ rows[r] \in [root : {payload}, children : Seq(V)]
            /\ Append(rows[r].children, elements[e]) \in Seq(V)
        BY <1>2, <3>1 DEF FlatRows
      <3>. QED  BY <3>2 DEF FlatRows
    <2>. DEFINE s == exploded[r]
    <2>2. DOMAIN elements = 1..Len(elements) /\ Len(elements) \in Nat \ {0}
      BY <1>1
    <2>3. s \in [1..Len(elements) -> R]
      BY <2>1, <2>2
    <2>. HIDE DEF s, R
    <2>4. s \in Seq(R) /\ s # <<>> /\ Len(s) = Len(elements)
      BY <2>2, <2>3
    <2>. QED  BY <2>4 DEF s
  <1>5. /\ exploded \in Seq(Seq(R)) /\ exploded # <<>> /\ exploded[1] # <<>>
        /\ Len(exploded) = Len(rows)
        /\ \A r \in 1..Len(exploded) : Len(exploded[r]) = Len(elements)
    <2>1. DOMAIN rows = 1..Len(rows) /\ Len(rows) \in Nat \ {0}
      OBVIOUS
    <2>2. exploded \in [1..Len(rows) -> Seq(R)]
      BY <1>4, <2>1
    <2>3. exploded[1] # <<>>
      <3>1. 1 \in DOMAIN rows
        BY <2>1
      <3>. HIDE DEF exploded
      <3>. QED  BY <1>4, <3>1
    <2>. HIDE DEF exploded, R
    <2>4. exploded \in Seq(Seq(R)) /\ exploded # <<>> /\ Len(exploded) = Len(rows)
      BY <2>1, <2>2
    <2>. QED  BY <1>4, <2>1, <2>3, <2>4
  <1>6. Len(elements) \in Nat
    BY <1>1
  <1>. HIDE DEF exploded, R
  <1>7. FlattenSeq(exploded) \in Seq(R) /\ FlattenSeq(exploded) # <<>>
    BY <1>5, FlattenTyped
  <1>8. Len(FlattenSeq(exploded)) = Len(rows) * Len(elements)
    BY <1>5, <1>6, FlattenLength
  <1>. QED  BY <1>3, <1>7, <1>8 DEF R, elements

\* The rows of json_flatten_config are a sequence, and each has a path.
LEMMA ConfigsTyped ==
  ASSUME NEW configs \in Seq([path : Seq(STRING)])
  PROVE  /\ Len(configs) \in Nat /\ DOMAIN configs = 1..Len(configs)
         /\ configs # <<>> => Len(configs) # 0
         /\ \A k \in 1..Len(configs) : configs[k].path \in Seq(STRING)
  <1>. DEFINE Config == [path : Seq(STRING)]
  <1>1. ASSUME NEW k \in 1..Len(configs) PROVE configs[k] \in Config
    <2>1. configs \in Seq(Config)
      OBVIOUS
    <2>. HIDE DEF Config
    <2>. QED  BY <2>1
  <1>2. \A config \in Config : config.path \in Seq(STRING)
    OBVIOUS
  <1>3. /\ Len(configs) \in Nat /\ DOMAIN configs = 1..Len(configs)
        /\ configs # <<>> => Len(configs) # 0
    <2>1. configs \in Seq(Config)
      OBVIOUS
    <2>. HIDE DEF Config
    <2>. QED  BY <2>1
  <1>. HIDE DEF Config
  <1>. QED  BY <1>1, <1>2, <1>3

\* The rows after each of the flatten_configs.
IsFlattening(rows, payload, configs) ==
  /\ rows[0] = <<[root |-> payload, children |-> <<>>]>>
  /\ \A k \in 1..Len(configs) : rows[k] = Explode(rows[k - 1], configs[k])

\* flatten_records explodes the rows by one config after the other; every
\* payload has a row.
LEMMA FlattenRecords ==
  ASSUME NEW V, HoldsParts(V), Null \in V, NEW payload \in V,
         NEW configs \in Seq([path : Seq(STRING)])
  PROVE  /\ flatten_records(payload, configs) \in Seq(FlatRows(V, payload))
         /\ flatten_records(payload, configs) # <<>>
         /\ \E rows : /\ IsFlattening(rows, payload, configs)
                      /\ flatten_records(payload, configs) = rows[Len(configs)]
  <1>. DEFINE n    == Len(configs)
              D    == {rows \in Seq(FlatRows(V, payload)) : rows # <<>>}
              c    == <<[root |-> payload, children |-> <<>>]>>
              step == [k \in 1..n |-> [d \in D |-> Explode(d, configs[k])]]
              Fits(g) == g = [s \in SUBSET (DOMAIN configs) |->
                                IF s = {} THEN c
                                ELSE Explode(g[s \ {Max(s)}], configs[Max(s)])]
              fold  == CHOOSE g : Fits(g)
  <1>1. n \in Nat /\ DOMAIN configs = 1..n /\ \A k \in 1..n : configs[k].path \in Seq(STRING)
    BY ConfigsTyped
  <1>0. c \in D
    <2>1. <<>> \in Seq(V)
      OBVIOUS
    <2>2. [root |-> payload, children |-> <<>>] \in FlatRows(V, payload)
      BY <2>1 DEF FlatRows
    <2>. QED  BY <2>2
  <1>2. step \in [1..n -> [D -> D]]
    <2>. SUFFICES ASSUME NEW k \in 1..n, NEW d \in D PROVE Explode(d, configs[k]) \in D
      OBVIOUS
    <2>. QED  BY <1>1, ExplodeTyped
  <1>3. PICK it \in [SUBSET (1..n) -> D] : IsFold(it, n, c, step)
    <2>. HIDE DEF n, D, step, c
    <2>. QED  BY <1>0, <1>1, <1>2, FoldExists
  <1>. HIDE DEF c
  <1>4. Fits(it)
    <2>1. ASSUME NEW s \in SUBSET (1..n), s # {}
          PROVE  it[s] = Explode(it[s \ {Max(s)}], configs[Max(s)])
      <3>1. Max(s) \in 1..n
        BY <1>1, <2>1, MaxIn
      <3>. HIDE DEF D
      <3>2. it[s \ {Max(s)}] \in D
        OBVIOUS
      <3>. QED  BY <1>3, <2>1, <3>1, <3>2 DEF IsFold
    <2>2. it[{}] = c
      BY <1>3 DEF IsFold
    <2>. QED  BY <1>1, <2>1, <2>2
  <1>5. Fits(fold)
    <2>. HIDE DEF Fits
    <2>. QED  BY <1>4
  <1>6. flatten_records(payload, configs) = fold[DOMAIN configs]
    BY DEF flatten_records, FoldLeft, MapThenFoldSet, c
  <1>. HIDE DEF fold, D
  <1>7. PICK rows \in [0..n -> D] : IsIteration(rows, n, c, step) /\ rows[n] = fold[1..n]
    <2>1. fold[{}] = c
      BY <1>5
    <2>2. ASSUME NEW s \in SUBSET (1..n), s # {}, fold[s \ {Max(s)}] \in D
          PROVE  fold[s] = step[Max(s)][fold[s \ {Max(s)}]]
      <3>1. Max(s) \in 1..n
        BY <1>1, <2>2, MaxIn
      <3>. QED  BY <1>1, <1>5, <2>2, <3>1
    <2>. HIDE DEF n, step, Fits
    <2>3. FoldsIn(D, fold, n, c, step)
      BY <2>1, <2>2 DEF FoldsIn
    <2>. QED  BY <1>0, <1>1, <1>2, <2>3, FoldSteps
  <1>8. IsFlattening(rows, payload, configs)
    <2>1. \A k \in 1..n : k - 1 \in 0..n
      BY <1>1
    <2>. QED  BY <1>7, <2>1 DEF IsFlattening, IsIteration, c
  <1>9. rows[n] \in D
    BY <1>1
  <1>. QED  BY <1>1, <1>6, <1>7, <1>8, <1>9 DEF D

\* Every further array multiplies the rows, by its elements in the whole
\* document: the number of records is the product of the arrays' lengths (one
\* for an empty array), and not the number of leaves of a nested document.
THEOREM RowsMultiply ==
  ASSUME NEW V, HoldsParts(V), Null \in V, NEW payload \in V,
         NEW configs \in Seq([path : Seq(STRING)]),
         NEW product, product[0] = 1,
         \A k \in 1..Len(configs) :
           product[k] = product[k - 1] * Len(ElementsAt(payload, configs[k].path))
  PROVE  Len(flatten_records(payload, configs)) = product[Len(configs)]
  <1>. DEFINE n == Len(configs)
              R == FlatRows(V, payload)
  <1>1. PICK rows : IsFlattening(rows, payload, configs) /\ flatten_records(payload, configs) = rows[n]
    BY FlattenRecords
  <1>. DEFINE T == {k \in Nat : rows[k] \in Seq(R) /\ rows[k] # <<>> /\ Len(rows[k]) = product[k]}
  <1>2. n \in Nat
    BY ConfigsTyped
  <1>3. 0 \in T
    <2>. DEFINE row == [root |-> payload, children |-> <<>>]
    <2>1. row \in R
      <3>1. <<>> \in Seq(V)
        OBVIOUS
      <3>. QED  BY <3>1 DEF FlatRows
    <2>2. rows[0] = <<row>>
      BY <1>1 DEF IsFlattening
    <2>. HIDE DEF row, R
    <2>3. <<row>> \in Seq(R) /\ <<row>> # <<>> /\ Len(<<row>>) = 1
      BY <2>1
    <2>. QED  BY <2>2, <2>3
  <1>4. ASSUME NEW k \in 0..n-1, k \in T PROVE k + 1 \in T
    <2>1. k + 1 \in 1..n /\ (k + 1) - 1 = k /\ k + 1 \in Nat
      BY <1>2
    <2>2. /\ rows[k + 1] = Explode(rows[k], configs[k + 1])
          /\ product[k + 1] = product[k] * Len(ElementsAt(payload, configs[k + 1].path))
      BY <1>1, <2>1 DEF IsFlattening
    <2>3. configs[k + 1].path \in Seq(STRING)
      BY <2>1, ConfigsTyped
    <2>4. rows[k] \in Seq(R) /\ rows[k] # <<>> /\ Len(rows[k]) = product[k]
      BY <1>4
    <2>5. /\ Explode(rows[k], configs[k + 1]) \in Seq(R)
          /\ Explode(rows[k], configs[k + 1]) # <<>>
          /\ Len(Explode(rows[k], configs[k + 1]))
               = Len(rows[k]) * Len(ElementsAt(payload, configs[k + 1].path))
      BY <2>3, <2>4, ExplodeTyped
    <2>. QED  BY <2>1, <2>2, <2>4, <2>5
  <1>. HIDE DEF T, n
  <1>5. \A k \in 0..n : k \in T
    BY <1>2, <1>3, <1>4, UpTo
  <1>6. n \in T
    BY <1>2, <1>5
  <1>. QED  BY <1>1, <1>6 DEF T, n

\* Without an array, and with one: one row per element, or a null child.
LEMMA FlattenRecordsOnce ==
  ASSUME NEW V, HoldsParts(V), Null \in V, NEW payload \in V,
         NEW configs \in Seq([path : Seq(STRING)]), Len(configs) <= 1
  PROVE  flatten_records(payload, configs) =
           IF configs = <<>> THEN <<[root |-> payload, children |-> <<>>]>>
           ELSE LET elements == ElementsAt(payload, configs[1].path)
                IN [e \in DOMAIN elements |-> [root |-> payload, children |-> <<elements[e]>>]]
  <1>1. PICK rows : /\ IsFlattening(rows, payload, configs)
                    /\ flatten_records(payload, configs) = rows[Len(configs)]
    BY FlattenRecords
  <1>2. CASE configs = <<>>
    BY <1>1, <1>2 DEF IsFlattening
  <1>3. CASE configs # <<>>
    <2>1. Len(configs) = 1 /\ configs[1].path \in Seq(STRING)
      <3>1. Len(configs) \in Nat /\ Len(configs) # 0
        BY <1>3, ConfigsTyped
      <3>2. \A n \in Nat : n # 0 /\ n <= 1 => n = 1 /\ 1 \in 1..n
        OBVIOUS
      <3>3. Len(configs) = 1 /\ 1 \in 1..Len(configs)
        BY <3>1, <3>2, Zenon
      <3>. QED  BY <3>3, ConfigsTyped
    <2>. DEFINE row      == [root |-> payload, children |-> <<>>]
                elements == ElementsAt(payload, configs[1].path)
                exploded == [e \in DOMAIN elements |->
                               [root |-> payload, children |-> <<elements[e]>>]]
                R        == FlatRows(V, payload)
    <2>2. flatten_records(payload, configs) = Explode(<<row>>, configs[1])
      BY <1>1, <2>1 DEF IsFlattening
    <2>3. elements \in Seq(V)
      BY <2>1, ElementsTyped
    <2>4. Explode(<<row>>, configs[1]) = FlattenSeq(<<exploded>>)
      <3>. DEFINE one   == <<row>>
                  inner(r) == [e \in DOMAIN ElementsAt(one[r].root, configs[1].path) |->
                                 [one[r] EXCEPT !.children =
                                    Append(@, ElementsAt(one[r].root, configs[1].path)[e])]]
      <3>1. Explode(one, configs[1]) = FlattenSeq([r \in DOMAIN one |-> inner(r)])
        BY DEF Explode, ElementsAt
      <3>2. DOMAIN one = {1} /\ one[1] = row /\ row.root = payload /\ row.children = <<>>
        OBVIOUS
      <3>3. ASSUME NEW v PROVE [row EXCEPT !.children = Append(@, v)]
                                 = [root |-> payload, children |-> <<v>>]
        OBVIOUS
      <3>. HIDE DEF one, row
      <3>4. inner(1) = exploded
        BY <3>2, <3>3
      <3>. HIDE DEF inner, exploded
      <3>5. [r \in DOMAIN one |-> inner(r)] = <<exploded>>
        BY <3>2, <3>4
      <3>. QED  BY <3>1, <3>5 DEF one
    <2>5. exploded \in Seq(R)
      <3>. HIDE DEF elements
      <3>1. \A e \in DOMAIN elements : [root |-> payload, children |-> <<elements[e]>>] \in R
        <4>. TAKE e \in DOMAIN elements
        <4>1. elements[e] \in V
          BY <2>3
        <4>2. <<elements[e]>> \in Seq(V)
          BY <4>1
        <4>. QED  BY <4>2 DEF FlatRows
      <3>2. exploded \in [1..Len(elements) -> R]
        BY <2>3, <3>1
      <3>. HIDE DEF exploded, R
      <3>3. Len(elements) \in Nat
        BY <2>3
      <3>. QED  BY <3>2, <3>3
    <2>. HIDE DEF R, exploded
    <2>6. FlattenSeq(<<exploded>>) = exploded
      BY <2>5, FlattenOne
    <2>. QED  BY <1>3, <2>2, <2>4, <2>6 DEF exploded
  <1>. QED  BY <1>2, <1>3

-----------------------------------------------------------------------------
(* First positions                                                         *)

\* A non-empty set of numbers has a least one.
LEMMA LeastIn ==
  ASSUME NEW S, S \subseteq Nat, S # {}
  PROVE  \E i \in S : \A j \in S : i <= j
  <1>. DEFINE Less == OpToRel(<, Nat)
  <1>1. IsWellFoundedOn(Less, Nat)
    BY NatLessThanWellFounded DEF OpToRel
  <1>2. \A t, u \in Nat : <<u, t>> \notin Less => t <= u
    BY DEF OpToRel
  <1>. HIDE DEF Less
  <1>3. PICK t \in S : \A u \in S : <<u, t>> \notin Less
    BY <1>1, WFMin
  <1>. QED  BY <1>2, <1>3

\* FiniteSetsExt's Min is that number.
LEMMA MinIn ==
  ASSUME NEW S, S \subseteq Nat, S # {}
  PROVE  Min(S) \in S /\ \A j \in S : Min(S) <= j
  <1>1. \E i \in S : \A j \in S : i <= j
    BY LeastIn
  <1>. QED  BY <1>1 DEF Min

\* The rule's column is that of the first mapping of its path.
LEMMA ValueOfFirst ==
  ASSUME NEW M, NEW mappings \in Seq(M), NEW record, NEW path,
         NEW k \in 1..Len(mappings), mappings[k].path = path,
         \A j \in 1..k-1 : mappings[j].path # path
  PROVE  ValueUnder(record, path, mappings) = record[mappings[k].column]
  <1>. DEFINE I == {i \in 1..Len(mappings) : mappings[i].path = path}
  <1>1. I \subseteq Nat /\ k \in I
    OBVIOUS
  <1>2. Min(I) \in I /\ Min(I) <= k
    BY <1>1, MinIn
  <1>3. Min(I) \in 1..Len(mappings) /\ mappings[Min(I)].path = path
    BY <1>2
  <1>4. ~(Min(I) \in 1..k-1)
    BY <1>3
  <1>5. Min(I) = k
    <2>. DEFINE m == Min(I)
    <2>1. m \in Nat /\ m >= 1 /\ m <= k /\ ~(m \in 1..k-1) /\ k \in Nat
      BY <1>2, <1>3, <1>4
    <2>. HIDE DEF m, I
    <2>. QED  BY <2>1 DEF m
  <1>6. SelectInSeq(mappings, LAMBDA mapping : mapping.path = path) = k
    <2>1. SelectInSeq(mappings, LAMBDA mapping : mapping.path = path) =
            IF I # {} THEN Min(I) ELSE 0
      BY DEF SelectInSeq
    <2>. QED  BY <1>1, <1>5, <2>1
  <1>7. k # 0
    OBVIOUS
  <1>. QED  BY <1>6, <1>7 DEF ValueUnder

-----------------------------------------------------------------------------
(* The error heuristic                                                     *)

\* The schema and validation keywords come first: a message that has one is
\* classified so whatever other messages it is joined with.
LEMMA DataErrorsFirst ==
  ASSUME NEW some, NEW all, some \subseteq all,
         classify_heuristic(some) \in {"SCHEMA", "VALIDATION"}
  PROVE  classify_heuristic(all) \in {"SCHEMA", "VALIDATION"}
  <1>. DEFINE I(mentions) == {i \in 1..Len(KeywordCategory) : KeywordCategory[i][1] \in mentions}
              C(i) == KeywordCategory[i][2]
  <1>1. ASSUME NEW mentions
        PROVE  classify_heuristic(mentions) = IF I(mentions) = {} \/ Min(I(mentions)) = 0
                                              THEN "UNKNOWN" ELSE C(Min(I(mentions)))
    BY DEF classify_heuristic, SelectInSeq
  <1>2. /\ \A i \in 1..5 : C(i) \in {"SCHEMA", "VALIDATION"}
        /\ \A i \in 6..10 : C(i) \notin {"SCHEMA", "VALIDATION"}
        /\ Len(KeywordCategory) = 10
    BY DEF KeywordCategory
  <1>3. I(some) \subseteq I(all) /\ I(all) \subseteq 1..10
    BY <1>2
  <1>. HIDE DEF I, C
  <1>4. I(some) # {} /\ Min(I(some)) # 0 /\ C(Min(I(some))) \in {"SCHEMA", "VALIDATION"}
    BY <1>1
  <1>5. Min(I(some)) \in I(some)
    BY <1>3, <1>4, MinIn
  <1>6. Min(I(some)) \in 1..5
    BY <1>2, <1>3, <1>4, <1>5
  <1>7. Min(I(all)) \in I(all) /\ Min(I(all)) <= Min(I(some))
    BY <1>3, <1>4, <1>5, MinIn
  <1>8. Min(I(all)) \in 1..10
    BY <1>3, <1>7
  <1>9. Min(I(all)) \in 1..5
    BY <1>6, <1>7, <1>8
  <1>10. I(all) # {} /\ Min(I(all)) # 0
    BY <1>7, <1>9
  <1>. QED  BY <1>1, <1>2, <1>9, <1>10

-----------------------------------------------------------------------------
(* Transformation                                                          *)

\* What apply_transformations does for one mapping.
Converted(record, m) == [record EXCEPT ![m.column] = apply_transformation(@, m.rule)]

\* The record after each of the mappings.
IsConversion(g, record, mappings) ==
  /\ g[0] = record
  /\ \A k \in 1..Len(mappings) : g[k] = Converted(g[k - 1], mappings[k])

\* The fold behind apply_transformations.
IsConversionFold(it, n, record, mappings) ==
  \A s \in SUBSET (1..n) :
    it[s] = IF s = {} THEN record ELSE Converted(it[s \ {Max(s)}], mappings[Max(s)])

\* It exists, whatever the transformations make of the values.
LEMMA ConversionFoldExists ==
  ASSUME NEW n \in Nat, NEW record, NEW mappings
  PROVE  \E it : IsConversionFold(it, n, record, mappings)
  <1>. DEFINE Exists(k) == \E it : IsConversionFold(it, k, record, mappings)
              S == {k \in 0..n : Exists(k)}
  <1>1. 0 \in S
    <2>. DEFINE it == [s \in SUBSET (1..0) |-> record]
    <2>1. \A s \in SUBSET (1..0) : s = {}
      OBVIOUS
    <2>2. IsConversionFold(it, 0, record, mappings)
      BY <2>1 DEF IsConversionFold
    <2>. HIDE DEF it
    <2>3. Exists(0)
      BY <2>2, Zenon
    <2>4. 0 \in 0..n
      OBVIOUS
    <2>. QED  BY <2>3, <2>4, Zenon
  <1>2. ASSUME NEW k \in 0..n-1, k \in S PROVE k + 1 \in S
    <2>1. PICK old : IsConversionFold(old, k, record, mappings)
      BY <1>2
    <2>2. k \in Nat /\ k + 1 \in 0..n
      OBVIOUS
    <2>. DEFINE it == [s \in SUBSET (1..k+1) |->
                         IF k + 1 \in s THEN Converted(old[s \ {k + 1}], mappings[k + 1])
                         ELSE old[s]]
    <2>3. ASSUME NEW s \in SUBSET (1..k+1)
          PROVE  it[s] = IF s = {} THEN record ELSE Converted(it[s \ {Max(s)}], mappings[Max(s)])
      <3>1. CASE k + 1 \in s
        <4>1. Max(s) = k + 1 /\ s # {}
          BY <2>2, <3>1, MaxNext
        <4>2. it[s \ {k + 1}] = old[s \ {k + 1}]
          OBVIOUS
        <4>. QED  BY <3>1, <4>1, <4>2
      <3>2. CASE k + 1 \notin s
        <4>1. s \in SUBSET (1..k)
          BY <2>2, <3>2
        <4>2. s \ {Max(s)} \in SUBSET (1..k) /\ s \ {Max(s)} \in SUBSET (1..k+1)
          BY <4>1
        <4>3. k + 1 \notin s \ {Max(s)}
          BY <3>2
        <4>4. it[s] = old[s] /\ it[s \ {Max(s)}] = old[s \ {Max(s)}]
          BY <3>2, <4>2, <4>3
        <4>. QED  BY <2>1, <4>1, <4>4 DEF IsConversionFold
      <3>. QED  BY <3>1, <3>2
    <2>4. IsConversionFold(it, k + 1, record, mappings)
      BY <2>3 DEF IsConversionFold
    <2>. HIDE DEF it
    <2>5. Exists(k + 1)
      BY <2>4, Zenon
    <2>. QED  BY <2>2, <2>5, Zenon
  <1>. HIDE DEF S, Exists
  <1>3. \A k \in 0..n : k \in S
    BY <1>1, <1>2, UpTo
  <1>4. n \in S
    BY <1>3
  <1>. QED  BY <1>4 DEF S, Exists

\* apply_transformations converts a record mapping by mapping.
LEMMA TransformationSteps ==
  ASSUME NEW M, NEW mappings \in Seq(M), NEW record
  PROVE  \E g : /\ IsConversion(g, record, mappings)
                /\ apply_transformations(record, mappings) = g[Len(mappings)]
  <1>. DEFINE n == Len(mappings)
              Fits(g) == g = [s \in SUBSET (DOMAIN mappings) |->
                                IF s = {} THEN record
                                ELSE Converted(g[s \ {Max(s)}], mappings[Max(s)])]
              fold == CHOOSE g : Fits(g)
  <1>1. n \in Nat /\ DOMAIN mappings = 1..n
    OBVIOUS
  <1>2. PICK it : IsConversionFold(it, n, record, mappings)
    BY <1>1, ConversionFoldExists
  <1>. DEFINE whole == [s \in SUBSET (1..n) |-> it[s]]
  <1>3. Fits(whole)
    <2>1. \A s \in SUBSET (1..n) : s \ {Max(s)} \in SUBSET (1..n)
      OBVIOUS
    <2>2. \A s \in SUBSET (1..n) :
            whole[s] = IF s = {} THEN record ELSE Converted(whole[s \ {Max(s)}], mappings[Max(s)])
      BY <1>2, <2>1 DEF IsConversionFold
    <2>. QED  BY <1>1, <2>2
  <1>4. Fits(fold)
    <2>. HIDE DEF Fits, whole
    <2>. QED  BY <1>3
  <1>5. apply_transformations(record, mappings) = fold[DOMAIN mappings]
    BY DEF apply_transformations, FoldLeft, MapThenFoldSet, Converted
  <1>. HIDE DEF fold
  <1>. DEFINE g == [k \in 0..n |-> fold[1..k]]
  <1>6. g[0] = record
    <2>1. 1..0 = {} /\ 0 \in 0..n
      BY <1>1
    <2>2. {} \in SUBSET (1..n)
      OBVIOUS
    <2>. QED  BY <1>1, <1>4, <2>1, <2>2
  <1>7. ASSUME NEW k \in 1..n PROVE g[k] = Converted(g[k - 1], mappings[k])
    <2>1. 1..k \in SUBSET (1..n) /\ 1..k # {} /\ k \in Nat \ {0}
      BY <1>1
    <2>2. Max(1..k) = k /\ (1..k) \ {k} = 1..(k-1)
      BY <2>1, MaxUpTo
    <2>3. fold[1..k] = Converted(fold[1..(k-1)], mappings[k])
      BY <1>1, <1>4, <2>1, <2>2
    <2>4. k \in 0..n /\ k - 1 \in 0..n
      BY <1>1
    <2>. QED  BY <2>3, <2>4
  <1>8. g[n] = fold[DOMAIN mappings]
    BY <1>1
  <1>. HIDE DEF g, n
  <1>9. IsConversion(g, record, mappings)
    BY <1>6, <1>7 DEF IsConversion, n
  <1>. QED  BY <1>5, <1>8, <1>9 DEF n

\* What the engines compute from JSON values: a JSON value or an exception.
IsResult(value) == value.kind \in Kinds \/ value = Raised

\* A rule makes a result of a result.
LEMMA ResultStays ==
  ASSUME NEW value, IsResult(value), NEW rule
  PROVE  IsResult(apply_transformation(value, rule))
  <1>1. IsResult(celsius_to_fahrenheit(value))
    BY DEF IsResult, celsius_to_fahrenheit, Null, Raised, Number, Kinds
  <1>2. IsResult(normalize_string(value))
    <2>1. \A n : [Word(ToString(n)) EXCEPT !.reads = {n}].kind = "text"
      BY DEF Word
    <2>2. \A w : Word(w).kind = "text"
      BY DEF Word
    <2>3. Null.kind = "null"
      BY DEF Null
    <2>. QED  BY <2>1, <2>2, <2>3 DEF IsResult, normalize_string, Kinds
  <1>3. IsResult(epoch_to_iso8601(value))
    <2>1. \A w : Word(w).kind = "text"
      BY DEF Word
    <2>2. Null.kind = "null"
      BY DEF Null
    <2>. QED  BY <2>1, <2>2 DEF IsResult, epoch_to_iso8601, Kinds
  <1>. QED  BY <1>1, <1>2, <1>3 DEF apply_transformation, IsResult

\* The columns stay; results stay results; what exactly one mapping names is
\* converted once, by that mapping's rule.
LEMMA TransformedRecord ==
  ASSUME NEW M, NEW mappings \in Seq(M), NEW record, record = [c \in DOMAIN record |-> record[c]]
  PROVE  LET result == apply_transformations(record, mappings)
         IN /\ DOMAIN result = DOMAIN record
            /\ result = [c \in DOMAIN result |-> result[c]]
            /\ (\A c \in DOMAIN record : IsResult(record[c])) =>
                 \A c \in DOMAIN record : IsResult(result[c])
            /\ \A k \in 1..Len(mappings) :
                 /\ mappings[k].column \in DOMAIN record
                 /\ \A j \in 1..Len(mappings) : mappings[j].column = mappings[k].column => j = k
                 => result[mappings[k].column] =
                      apply_transformation(record[mappings[k].column], mappings[k].rule)
  <1>. DEFINE n == Len(mappings)
  <1>1. PICK g : /\ IsConversion(g, record, mappings)
                 /\ apply_transformations(record, mappings) = g[n]
    BY TransformationSteps
  <1>2. n \in Nat /\ n \in 0..n
    OBVIOUS
  <1>3. g[0] = record
    BY <1>1 DEF IsConversion
  <1>4. ASSUME NEW k \in 0..n-1 PROVE g[k + 1] = Converted(g[k], mappings[k + 1])
    <2>1. k + 1 \in 1..n /\ (k + 1) - 1 = k
      BY <1>2
    <2>. QED  BY <1>1, <2>1 DEF IsConversion
  <1>. HIDE DEF n
  \* The columns.
  <1>. DEFINE A == {k \in 0..n : /\ DOMAIN g[k] = DOMAIN record
                                 /\ g[k] = [c \in DOMAIN g[k] |-> g[k][c]]}
  <1>5. \A k \in 0..n : k \in A
    <2>1. 0 \in A
      BY <1>2, <1>3
    <2>2. ASSUME NEW k \in 0..n-1, k \in A PROVE k + 1 \in A
      <3>1. k + 1 \in 0..n
        BY <1>2
      <3>2. g[k + 1] = Converted(g[k], mappings[k + 1])
        BY <1>4
      <3>3. DOMAIN g[k] = DOMAIN record
        BY <2>2
      <3>. QED  BY <3>1, <3>2, <3>3 DEF Converted
    <2>. HIDE DEF A
    <2>. QED  BY <1>2, <2>1, <2>2, UpTo
  <1>6. ASSUME NEW k \in 0..n-1, NEW c \in DOMAIN record
        PROVE  g[k + 1][c] = IF c = mappings[k + 1].column
                             THEN apply_transformation(g[k][c], mappings[k + 1].rule)
                             ELSE g[k][c]
    <2>1. g[k + 1] = Converted(g[k], mappings[k + 1])
      BY <1>4
    <2>2. k \in 0..n
      BY <1>2
    <2>3. DOMAIN g[k] = DOMAIN record
      BY <1>5, <2>2
    <2>. QED  BY <2>1, <2>3 DEF Converted
  <1>. HIDE DEF A
  \* The kinds of the values.
  <1>7. ASSUME \A c \in DOMAIN record : IsResult(record[c])
        PROVE  \A c \in DOMAIN record : IsResult(g[n][c])
    <2>. DEFINE B == {k \in 0..n : \A c \in DOMAIN record : IsResult(g[k][c])}
    <2>1. 0 \in B
      BY <1>2, <1>3, <1>7
    <2>2. ASSUME NEW k \in 0..n-1, k \in B PROVE k + 1 \in B
      <3>1. k + 1 \in 0..n
        BY <1>2
      <3>2. ASSUME NEW c \in DOMAIN record PROVE IsResult(g[k + 1][c])
        <4>1. IsResult(g[k][c])
          BY <2>2
        <4>. QED  BY <1>6, <4>1, ResultStays
      <3>. QED  BY <3>1, <3>2
    <2>. HIDE DEF B
    <2>3. n \in B
      BY <1>2, <2>1, <2>2, UpTo
    <2>. QED  BY <2>3 DEF B
  \* The column of one mapping only.
  <1>8. ASSUME NEW k \in 1..n, mappings[k].column \in DOMAIN record,
               \A j \in 1..n : mappings[j].column = mappings[k].column => j = k
        PROVE  g[n][mappings[k].column] =
                 apply_transformation(record[mappings[k].column], mappings[k].rule)
    <2>. DEFINE c == mappings[k].column
                B == {i \in 0..n : g[i][c] = IF i < k THEN record[c]
                                             ELSE apply_transformation(record[c], mappings[k].rule)}
    <2>0. c \in DOMAIN record /\ \A j \in 1..n : j # k => mappings[j].column # c
      BY <1>8
    <2>1. 0 \in B
      BY <1>2, <1>3
    <2>2. ASSUME NEW i \in 0..n-1, i \in B PROVE i + 1 \in B
      <3>1. i + 1 \in 0..n /\ i + 1 \in 1..n /\ i \in Nat /\ k \in Nat
        BY <1>2
      <3>2. CASE i + 1 = k
        <4>1. i < k /\ ~(i + 1 < k)
          BY <3>1, <3>2
        <4>2. g[i][c] = record[c]
          BY <2>2, <4>1
        <4>3. g[i + 1][c] = apply_transformation(g[i][c], mappings[k].rule)
          BY <1>6, <2>0, <3>2
        <4>. QED  BY <3>1, <4>1, <4>2, <4>3
      <3>3. CASE i + 1 # k
        <4>1. (i < k) <=> (i + 1 < k)
          BY <3>1, <3>3
        <4>2. c # mappings[i + 1].column
          BY <2>0, <3>1, <3>3
        <4>. HIDE DEF c
        <4>3. g[i + 1][c] = g[i][c]
          BY <1>6, <2>0, <4>2
        <4>. QED  BY <2>2, <3>1, <4>1, <4>3
      <3>. QED  BY <3>2, <3>3
    <2>. HIDE DEF B, c
    <2>3. n \in B
      BY <1>2, <2>1, <2>2, UpTo
    <2>4. ~(n < k)
      BY <1>2
    <2>. QED  BY <2>3, <2>4 DEF B, c
  <1>. QED  BY <1>1, <1>2, <1>5, <1>7, <1>8 DEF A, n

-----------------------------------------------------------------------------
(* Mapping                                                                 *)

Mapping == [path : Seq(STRING), column : STRING, rule : STRING]

\* The records of values: the columns differ from record to record.
Records(V) == UNION {[C -> V] : C \in SUBSET STRING}

\* The rows of json_column_mapping are a sequence of mappings.
LEMMA MappingsTyped ==
  ASSUME NEW mappings \in Seq(Mapping)
  PROVE  /\ Len(mappings) \in Nat /\ DOMAIN mappings = 1..Len(mappings)
         /\ \A k \in 1..Len(mappings) : /\ mappings[k].path \in Seq(STRING)
                                        /\ mappings[k].column \in STRING
                                        /\ mappings[k].rule \in STRING
  <1>1. \A k \in 1..Len(mappings) : mappings[k] \in Mapping
    OBVIOUS
  <1>2. \A m \in Mapping : m.path \in Seq(STRING) /\ m.column \in STRING /\ m.rule \in STRING
    BY DEF Mapping
  <1>3. Len(mappings) \in Nat /\ DOMAIN mappings = 1..Len(mappings)
    OBVIOUS
  <1>. QED  BY <1>1, <1>2, <1>3

\* A part of a path is a path.
LEMMA RelativePathTyped ==
  ASSUME NEW path \in Seq(STRING)
  PROVE  RelativePath(path) \in Seq(STRING)
  <1>. DEFINE cuts == {i \in 1..Len(path) - 1 : path[i] = "*" /\ path[i + 1] # "*"}
              cut  == CHOOSE i \in cuts : \A j \in cuts : i <= j
  <1>1. CASE cuts = {}
    BY <1>1 DEF RelativePath
  <1>2. CASE cuts # {}
    <2>1. cuts \subseteq Nat
      OBVIOUS
    <2>2. \E i \in cuts : \A j \in cuts : i <= j
      <3>. HIDE DEF cuts
      <3>. QED  BY <1>2, <2>1, LeastIn
    <2>3. cut \in 1..Len(path) - 1
      <3>1. cut \in cuts
        BY <2>2
      <3>. QED  BY <3>1
    <2>4. RelativePath(path) = SubSeq(path, cut + 1, Len(path))
      BY <1>2 DEF RelativePath
    <2>. HIDE DEF cut, cuts
    <2>5. SubSeq(path, cut + 1, Len(path)) \in Seq(STRING)
      BY <2>3
    <2>. QED  BY <2>4, <2>5
  <1>. QED  BY <1>1, <1>2

\* What a path yields in a row is a JSON value.
LEMMA ResolveTyped ==
  ASSUME NEW V, HoldsParts(V), Null \in V, NEW payload \in V,
         NEW row \in FlatRows(V, payload), NEW path \in Seq(STRING)
  PROVE  Resolve(row, path) \in V
  <1>1. row.root \in V /\ row.children \in Seq(V)
    BY DEF FlatRows
  <1>2. extract_value(row.root, path) \in V
    BY <1>1, ExtractTyped
  <1>3. row.children # <<>> => extract_value(row.children[1], RelativePath(path)) \in V
    <2>. SUFFICES ASSUME row.children # <<>>
                  PROVE  extract_value(row.children[1], RelativePath(path)) \in V
      OBVIOUS
    <2>1. row.children[1] \in V
      BY <1>1
    <2>. QED  BY <2>1, ExtractTyped, RelativePathTyped
  <1>. QED  BY <1>2, <1>3 DEF Resolve

\* The record after each of the mappings.
IsMapping(g, row, mappings) ==
  /\ g[0] = <<>>
  /\ \A k \in 1..Len(mappings) :
       g[k] = Assigned(g[k - 1], mappings[k].column, Resolve(row, mappings[k].path))

\* apply_mappings fills a record column by column.
LEMMA MappingSteps ==
  ASSUME NEW V, HoldsParts(V), Null \in V, NEW payload \in V,
         NEW row \in FlatRows(V, payload), NEW mappings \in Seq(Mapping)
  PROVE  \E g \in [0..Len(mappings) -> Records(V)] :
           IsMapping(g, row, mappings) /\ apply_mappings(row, mappings) = g[Len(mappings)]
  <1>. DEFINE n       == Len(mappings)
              D       == Records(V)
              c       == <<>>
              Put(d, k) == Assigned(d, mappings[k].column, Resolve(row, mappings[k].path))
              step    == [k \in 1..n |-> [d \in D |-> Put(d, k)]]
              Fits(g) == g = [s \in SUBSET (DOMAIN mappings) |->
                                IF s = {} THEN c ELSE Put(g[s \ {Max(s)}], Max(s))]
              fold    == CHOOSE g : Fits(g)
  <1>1. n \in Nat /\ DOMAIN mappings = 1..n
    BY MappingsTyped
  <1>0. c \in D
    <2>1. c \in [{} -> V] /\ {} \in SUBSET STRING
      OBVIOUS
    <2>. QED  BY <2>1 DEF Records
  <1>2. step \in [1..n -> [D -> D]]
    <2>. SUFFICES ASSUME NEW k \in 1..n, NEW d \in D PROVE Put(d, k) \in D
      OBVIOUS
    <2>1. PICK C \in SUBSET STRING : d \in [C -> V]
      BY DEF Records
    <2>2. Resolve(row, mappings[k].path) \in V /\ mappings[k].column \in STRING
      BY MappingsTyped, ResolveTyped
    <2>3. Put(d, k) \in [C \cup {mappings[k].column} -> V]
      BY <2>1, <2>2 DEF Assigned
    <2>. HIDE DEF Put
    <2>. QED  BY <2>1, <2>2, <2>3 DEF Records
  <1>3. PICK it \in [SUBSET (1..n) -> D] : IsFold(it, n, c, step)
    <2>. HIDE DEF n, D, step, c
    <2>. QED  BY <1>0, <1>1, <1>2, FoldExists
  <1>. HIDE DEF c, D
  <1>4. Fits(it)
    <2>. HIDE DEF Put
    <2>1. ASSUME NEW s \in SUBSET (1..n), s # {}
          PROVE  it[s] = Put(it[s \ {Max(s)}], Max(s))
      <3>1. Max(s) \in 1..n
        BY <1>1, <2>1, MaxIn
      <3>2. it[s \ {Max(s)}] \in D
        OBVIOUS
      <3>. QED  BY <1>3, <2>1, <3>1, <3>2 DEF IsFold
    <2>2. it[{}] = c
      BY <1>3 DEF IsFold
    <2>. QED  BY <1>1, <2>1, <2>2
  <1>5. Fits(fold)
    <2>. HIDE DEF Fits
    <2>. QED  BY <1>4
  <1>6. apply_mappings(row, mappings) = fold[DOMAIN mappings]
    BY DEF apply_mappings, FoldLeft, MapThenFoldSet, c
  <1>. HIDE DEF fold, Put
  <1>7. PICK g \in [0..n -> D] : IsIteration(g, n, c, step) /\ g[n] = fold[1..n]
    <2>1. fold[{}] = c
      BY <1>5
    <2>2. ASSUME NEW s \in SUBSET (1..n), s # {}, fold[s \ {Max(s)}] \in D
          PROVE  fold[s] = step[Max(s)][fold[s \ {Max(s)}]]
      <3>1. Max(s) \in 1..n
        BY <1>1, <2>2, MaxIn
      <3>. QED  BY <1>1, <1>5, <2>2, <3>1
    <2>. HIDE DEF n, step, Fits
    <2>3. FoldsIn(D, fold, n, c, step)
      BY <2>1, <2>2 DEF FoldsIn
    <2>. QED  BY <1>0, <1>1, <1>2, <2>3, FoldSteps
  <1>8. IsMapping(g, row, mappings)
    <2>1. \A k \in 1..n : k - 1 \in 0..n
      BY <1>1
    <2>. QED  BY <1>7, <2>1 DEF IsMapping, IsIteration, c, Put
  <1>. QED  BY <1>1, <1>6, <1>7, <1>8 DEF D

\* The record has the mapped columns; a column that only one mapping names
\* holds what that mapping's path yields.
LEMMA MappedRecord ==
  ASSUME NEW V, HoldsParts(V), Null \in V, NEW payload \in V,
         NEW row \in FlatRows(V, payload), NEW mappings \in Seq(Mapping)
  PROVE  LET record == apply_mappings(row, mappings)
         IN /\ record \in Records(V)
            /\ \A k \in 1..Len(mappings) : mappings[k].column \in DOMAIN record
            /\ \A k \in 1..Len(mappings) :
                 (\A j \in 1..Len(mappings) : mappings[j].column = mappings[k].column => j = k)
                   => record[mappings[k].column] = Resolve(row, mappings[k].path)
  <1>. DEFINE n == Len(mappings)
  <1>1. PICK g \in [0..n -> Records(V)] :
           IsMapping(g, row, mappings) /\ apply_mappings(row, mappings) = g[n]
    BY MappingSteps
  <1>2. n \in Nat /\ n \in 0..n
    BY MappingsTyped
  <1>3. ASSUME NEW k \in 0..n-1
        PROVE  g[k + 1] = Assigned(g[k], mappings[k + 1].column, Resolve(row, mappings[k + 1].path))
    <2>1. k + 1 \in 1..n /\ (k + 1) - 1 = k
      BY <1>2
    <2>. QED  BY <1>1, <2>1 DEF IsMapping
  <1>. HIDE DEF n
  <1>4. ASSUME NEW k \in 1..n
        PROVE  /\ mappings[k].column \in DOMAIN g[n]
               /\ (\A j \in 1..n : mappings[j].column = mappings[k].column => j = k)
                    => g[n][mappings[k].column] = Resolve(row, mappings[k].path)
    <2>. DEFINE c == mappings[k].column
                Alone == \A j \in 1..n : mappings[j].column = c => j = k
                B == {i \in 0..n :
                        i >= k => /\ c \in DOMAIN g[i]
                                  /\ Alone => g[i][c] = Resolve(row, mappings[k].path)}
    <2>1. 0 \in B
      BY <1>2
    <2>2. ASSUME NEW i \in 0..n-1, i \in B PROVE i + 1 \in B
      <3>1. i + 1 \in 0..n /\ i + 1 \in 1..n /\ i \in Nat /\ k \in Nat
        BY <1>2
      <3>2. g[i + 1] = Assigned(g[i], mappings[i + 1].column, Resolve(row, mappings[i + 1].path))
        BY <1>3
      <3>3. CASE i + 1 = k
        BY <3>1, <3>2, <3>3 DEF Assigned
      <3>4. CASE i + 1 # k
        <4>1. (i >= k) <=> (i + 1 >= k)
          BY <3>1, <3>4
        <4>2. Alone => c # mappings[i + 1].column
          BY <3>1, <3>4
        <4>. HIDE DEF c, Alone
        <4>3. i >= k => /\ c \in DOMAIN g[i + 1]
                        /\ Alone => g[i + 1][c] = Resolve(row, mappings[k].path)
          BY <2>2, <3>2, <4>2 DEF Assigned
        <4>. QED  BY <3>1, <4>1, <4>3
      <3>. QED  BY <3>3, <3>4
    <2>. HIDE DEF B, c, Alone
    <2>3. n \in B
      BY <1>2, <2>1, <2>2, UpTo
    <2>4. n >= k
      BY <1>2
    <2>. QED  BY <2>3, <2>4 DEF B, c, Alone
  <1>. QED  BY <1>1, <1>2, <1>4 DEF n

-----------------------------------------------------------------------------
(* Walking a document                                                      *)

\* One step from a value, into the i-th element where it is [*].
StepInto(value, step, i) ==
  IF step = "*" /\ i \in DOMAIN AsArray(value) THEN AsArray(value)[i]
  ELSE IF step # "*" /\ value.kind = "object" /\ step \in DOMAIN value.fields
    THEN value.fields[step]
  ELSE Null

\* The values on the way along a path.
IsWalk(w, payload, path, i) ==
  w[0] = payload /\ \A k \in 1..Len(path) : w[k] = StepInto(w[k - 1], path[k], i)

\* A step stays among the JSON values.
LEMMA StepTyped ==
  ASSUME NEW V, HoldsParts(V), Null \in V, NEW value \in V, NEW step, NEW i
  PROVE  StepInto(value, step, i) \in V
  <1>1. value.kind = "object" => \A member \in DOMAIN value.fields : value.fields[member] \in V
    BY DEF HoldsParts
  <1>2. i \in DOMAIN AsArray(value) => AsArray(value)[i] \in V
    <2>1. AsArray(value) \in Seq(V)
      BY AsArrayTyped
    <2>. QED  BY <2>1
  <1>. QED  BY <1>1, <1>2 DEF StepInto

\* So does a walk.
LEMMA WalkTyped ==
  ASSUME NEW V, HoldsParts(V), Null \in V, NEW payload \in V, NEW path \in Seq(STRING), NEW i,
         NEW w, IsWalk(w, payload, path, i)
  PROVE  \A k \in 0..Len(path) : w[k] \in V
  <1>. DEFINE n == Len(path)
              A == {k \in 0..n : w[k] \in V}
  <1>1. n \in Nat
    OBVIOUS
  <1>2. 0 \in A
    BY <1>1 DEF IsWalk
  <1>3. ASSUME NEW k \in 0..n-1, k \in A PROVE k + 1 \in A
    <2>1. k + 1 \in 1..n /\ k + 1 \in 0..n /\ (k + 1) - 1 = k
      BY <1>1
    <2>2. w[k + 1] = StepInto(w[k], path[k + 1], i)
      BY <2>1 DEF IsWalk
    <2>. QED  BY <1>3, <2>1, <2>2, StepTyped
  <1>. HIDE DEF A, n
  <1>4. \A k \in 0..n : k \in A
    BY <1>1, <1>2, <1>3, UpTo
  <1>. QED  BY <1>4 DEF A, n

\* Along member names a search finds what the walk reaches, or nothing where
\* the walk has come to null.
LEMMA WalkPlain ==
  ASSUME NEW V, HoldsParts(V), Null \in V, NEW payload \in V, NEW path \in Seq(STRING), NEW i,
         NEW w, IsWalk(w, payload, path, i), \A k \in 1..Len(path) : path[k] # "*"
  PROVE  /\ \/ extract_all(payload, path) = <<w[Len(path)]>>
            \/ extract_all(payload, path) = <<>> /\ w[Len(path)] = Null
         /\ extract_value(payload, path) = w[Len(path)]
  <1>. DEFINE n == Len(path)
  <1>0. n \in Nat /\ n \in 0..n
    OBVIOUS
  <1>1. PICK found \in [0..n -> Seq(V)] :
          IsSearch(found, payload, path) /\ extract_all(payload, path) = found[n]
    BY ExtractSteps
  <1>. DEFINE Meets(k) == found[k] = <<w[k]>> \/ (found[k] = <<>> /\ w[k] = Null)
              A == {k \in 0..n : Meets(k)}
  <1>2. 0 \in A
    BY <1>0, <1>1 DEF IsSearch, IsWalk
  <1>3. ASSUME NEW k \in 0..n-1, k \in A PROVE k + 1 \in A
    <2>1. k + 1 \in 1..n /\ k + 1 \in 0..n /\ (k + 1) - 1 = k /\ k \in 0..n
      BY <1>0
    <2>2. w[k + 1] = StepInto(w[k], path[k + 1], i) /\ path[k + 1] # "*"
      BY <2>1 DEF IsWalk
    <2>3. found[k + 1] = Children(found[k], path[k + 1])
      BY <1>1, <2>1 DEF IsSearch
    <2>4. w[k] \in V
      BY <2>1, WalkTyped
    <2>5. CASE found[k] = <<w[k]>>
      <3>1. found[k + 1] = ChildrenAt(w[k], path[k + 1])
        BY <2>3, <2>4, <2>5, ChildrenOne
      <3>2. Meets(k + 1)
        BY <2>2, <3>1 DEF ChildrenAt, StepInto
      <3>. QED  BY <2>1, <3>2
    <2>6. CASE found[k] = <<>> /\ w[k] = Null
      <3>1. found[k + 1] = <<>>
        BY <2>3, <2>4, <2>6, ChildrenOne
      <3>2. w[k + 1] = Null
        BY <2>2, <2>6 DEF StepInto, Null
      <3>. QED  BY <2>1, <3>1, <3>2
    <2>. QED  BY <1>3, <2>5, <2>6
  <1>. HIDE DEF n
  <1>4. n \in A
    <2>. HIDE DEF A
    <2>. QED  BY <1>0, <1>2, <1>3, UpTo
  <1>5. Meets(n)
    BY <1>4
  <1>6. w[n] \in V
    BY <1>0, WalkTyped DEF n
  <1>7. extract_value(payload, path) = w[n]
    <2>1. CASE found[n] = <<w[n]>>
      BY <1>1, <2>1 DEF extract_value
    <2>2. CASE found[n] = <<>> /\ w[n] = Null
      BY <1>1, <2>2 DEF extract_value
    <2>. QED  BY <1>5, <2>1, <2>2
  <1>. QED  BY <1>1, <1>5, <1>7 DEF n

\* A part of a path, step by step.
LEMMA PathPart ==
  ASSUME NEW path \in Seq(STRING), NEW a \in 1..Len(path)+1, NEW b \in a-1..Len(path)
  PROVE  LET part == SubSeq(path, a, b)
         IN /\ part \in Seq(STRING) /\ Len(part) = b - a + 1
            /\ \A k \in 1..b-a+1 : part[k] = path[k + a - 1]
  OBVIOUS

\* At the [*] that ends a path, each child is what the walk into that element
\* reaches; without an element, the null child is what a walk reaches too.
LEMMA WalkArray ==
  ASSUME NEW V, HoldsParts(V), Null \in V, NEW payload \in V, NEW path \in Seq(STRING),
         path # <<>>, path[Len(path)] = "*", \A k \in 1..Len(path) - 1 : path[k] # "*",
         NEW i \in DOMAIN ElementsAt(payload, path), NEW w, IsWalk(w, payload, path, i)
  PROVE  ElementsAt(payload, path)[i] = w[Len(path)]
  <1>. DEFINE n    == Len(path)
              stem == SubSeq(path, 1, n - 1)
  <1>1. n \in Nat \ {0} /\ n - 1 \in 0..n /\ n \in 1..n
    OBVIOUS
  <1>2. /\ stem \in Seq(STRING) /\ Len(stem) = n - 1
        /\ \A k \in 1..n-1 : stem[k] = path[k]
    <2>1. 1 \in 1..Len(path)+1 /\ n - 1 \in (1-1)..Len(path)
      BY <1>1
    <2>2. /\ stem \in Seq(STRING) /\ Len(stem) = (n - 1) - 1 + 1
          /\ \A k \in 1..((n-1)-1+1) : stem[k] = path[k + 1 - 1]
      <3>. HIDE DEF n
      <3>. QED  BY <2>1, PathPart
    <2>3. (n - 1) - 1 + 1 = n - 1
      BY <1>1
    <2>4. \A k \in 1..n-1 : k + 1 - 1 = k
      BY <1>1
    <2>. HIDE DEF n, stem
    <2>. QED  BY <2>2, <2>3, <2>4
  <1>. HIDE DEF stem
  <1>3. IsWalk(w, payload, stem, i)
    BY <1>1, <1>2 DEF IsWalk
  <1>4. \/ extract_all(payload, stem) = <<w[n - 1]>>
        \/ extract_all(payload, stem) = <<>> /\ w[n - 1] = Null
    BY <1>2, <1>3, WalkPlain
  <1>5. PICK found \in [0..n -> Seq(V)] :
          IsSearch(found, payload, path) /\ extract_all(payload, path) = found[n]
    BY ExtractSteps
  <1>6. PICK before \in [0..n-1 -> Seq(V)] :
          IsSearch(before, payload, stem) /\ extract_all(payload, stem) = before[n - 1]
    <2>1. \E before \in [0..Len(stem) -> Seq(V)] :
            IsSearch(before, payload, stem) /\ extract_all(payload, stem) = before[Len(stem)]
      <3>1. stem \in Seq(STRING)
        BY <1>2
      <3>. HIDE DEF n
      <3>. QED  BY <3>1, ExtractSteps, Zenon
    <2>. QED  BY <1>2, <2>1
  <1>7. found[n - 1] = before[n - 1]
    <2>. DEFINE A == {k \in 0..n-1 : found[k] = before[k]}
    <2>1. 0 \in A
      <3>1. 0 \in 0..n-1
        BY <1>1
      <3>2. found[0] = before[0]
        BY <1>5, <1>6 DEF IsSearch
      <3>. QED  BY <3>1, <3>2
    <2>2. ASSUME NEW k \in 0..(n-1)-1, k \in A PROVE k + 1 \in A
      <3>1. k + 1 \in 1..n-1 /\ k + 1 \in 1..n /\ k + 1 \in 0..n-1 /\ (k + 1) - 1 = k
        BY <1>1
      <3>. QED  BY <1>2, <1>5, <1>6, <2>2, <3>1 DEF IsSearch
    <2>3. n - 1 \in Nat /\ n - 1 \in 0..n-1
      BY <1>1
    <2>. HIDE DEF A, n
    <2>4. n - 1 \in A
      BY <2>1, <2>2, <2>3, UpTo
    <2>. QED  BY <2>4 DEF A
  <1>8. found[n] = Children(found[n - 1], "*")
    BY <1>1, <1>5 DEF IsSearch
  <1>9. w[n - 1] \in V /\ w[n] = StepInto(w[n - 1], "*", i)
    BY <1>1, WalkTyped DEF IsWalk
  <1>10. found[n] = AsArray(w[n - 1])
    <2>1. CASE found[n - 1] = <<w[n - 1]>>
      <3>1. found[n] = ChildrenAt(w[n - 1], "*")
        BY <1>8, <1>9, <2>1, ChildrenOne
      <3>. QED  BY <3>1 DEF ChildrenAt
    <2>2. CASE found[n - 1] = <<>> /\ w[n - 1] = Null
      <3>1. found[n] = <<>>
        BY <1>8, <1>9, <2>2, ChildrenOne
      <3>2. AsArray(Null) = <<>>
        BY DEF AsArray, IsFalsy, Null
      <3>. QED  BY <2>2, <3>1, <3>2
    <2>. QED  BY <1>4, <1>6, <1>7, <2>1, <2>2
  <1>11. CASE found[n] = <<>>
    <2>1. ElementsAt(payload, path) = <<Null>> /\ i = 1
      BY <1>5, <1>11 DEF ElementsAt
    <2>2. w[n] = Null
      <3>1. DOMAIN AsArray(w[n - 1]) = {}
        BY <1>10, <1>11
      <3>. QED  BY <1>9, <3>1 DEF StepInto
    <2>. QED  BY <2>1, <2>2
  <1>12. CASE found[n] # <<>>
    <2>1. ElementsAt(payload, path) = found[n]
      BY <1>5, <1>12 DEF ElementsAt
    <2>2. i \in DOMAIN AsArray(w[n - 1])
      BY <1>10, <2>1
    <2>. QED  BY <1>9, <1>10, <2>1, <2>2 DEF StepInto
  <1>. QED  BY <1>11, <1>12

\* From a value that is not an object a walk along member names comes to null.
LEMMA WalkFromFalsy ==
  ASSUME NEW V, HoldsParts(V), Null \in V, NEW payload \in V, IsFalsy(payload),
         NEW path \in Seq(STRING), path # <<>>, \A k \in 1..Len(path) : path[k] # "*",
         NEW i, NEW w, IsWalk(w, payload, path, i)
  PROVE  w[Len(path)] = Null
  <1>. DEFINE n == Len(path)
              A == {k \in 0..n-1 : w[k + 1] = Null}
  <1>1. n \in Nat \ {0} /\ n - 1 \in Nat /\ n - 1 \in 0..n-1 /\ (n - 1) + 1 = n
    OBVIOUS
  <1>2. ASSUME NEW k \in 0..n-1
        PROVE  w[k + 1] = StepInto(w[k], path[k + 1], i) /\ path[k + 1] # "*"
    <2>1. k + 1 \in 1..n /\ (k + 1) - 1 = k
      BY <1>1
    <2>. QED  BY <2>1 DEF IsWalk
  <1>3. 0 \in A
    <2>1. w[0] = payload /\ 0 \in 0..n-1
      BY <1>1 DEF IsWalk
    <2>2. w[0 + 1] = Null
      BY <1>2, <2>1 DEF StepInto, IsFalsy
    <2>. QED  BY <2>1, <2>2
  <1>4. ASSUME NEW k \in 0..(n-1)-1, k \in A PROVE k + 1 \in A
    <2>1. k + 1 \in 0..n-1
      BY <1>1
    <2>2. w[(k + 1) + 1] = StepInto(Null, path[(k + 1) + 1], i) /\ path[(k + 1) + 1] # "*"
      BY <1>2, <1>4, <2>1
    <2>3. w[(k + 1) + 1] = Null
      BY <2>2 DEF StepInto, Null
    <2>. QED  BY <2>1, <2>3
  <1>. HIDE DEF n, A
  <1>5. n - 1 \in A
    BY <1>1, <1>3, <1>4, UpTo
  <1>. QED  BY <1>1, <1>5 DEF n, A

\* A path is resolved to what the walk reaches: from the root without a [*],
\* and below an element of the row's own array, whose path is the part of the
\* path up to its only [*].
LEMMA ResolvePlain ==
  ASSUME NEW V, HoldsParts(V), Null \in V, NEW payload \in V, NEW path \in Seq(STRING),
         \A k \in 1..Len(path) : path[k] # "*",
         NEW children, NEW i, NEW w, IsWalk(w, payload, path, i)
  PROVE  Resolve([root |-> payload, children |-> children], path) = w[Len(path)]
  <1>1. ~Contains(path, "*")
    BY DEF Contains
  <1>2. extract_value(payload, path) = w[Len(path)]
    BY WalkPlain
  <1>. QED  BY <1>1, <1>2 DEF Resolve

LEMMA ResolveThrough ==
  ASSUME NEW V, HoldsParts(V), Null \in V, NEW payload \in V, NEW path \in Seq(STRING),
         NEW p \in 1..Len(path)-1, \A k \in 1..Len(path) : path[k] = "*" <=> k = p,
         NEW array \in Seq(STRING), Len(array) = p, \A k \in 1..p : array[k] = path[k],
         NEW i \in DOMAIN ElementsAt(payload, array), NEW w, IsWalk(w, payload, path, i)
  PROVE  Resolve([root |-> payload, children |-> <<ElementsAt(payload, array)[i]>>], path)
           = w[Len(path)]
  <1>. DEFINE n    == Len(path)
              rest == SubSeq(path, p + 1, n)
              v    == [k \in 0..n-p |-> w[p + k]]
              child == ElementsAt(payload, array)[i]
  <1>1. n \in Nat /\ p \in Nat /\ p >= 1 /\ p < n /\ p \in 1..n /\ p + 1 \in 1..n
    OBVIOUS
  <1>2. /\ array # <<>> /\ array[Len(array)] = "*"
        /\ \A k \in 1..Len(array) - 1 : array[k] # "*"
    <2>1. \A k \in 1..p - 1 : k \in 1..p /\ k \in 1..n /\ k # p
      BY <1>1
    <2>. QED  BY <1>1, <2>1
  <1>3. /\ rest \in Seq(STRING) /\ Len(rest) = n - p /\ rest # <<>>
        /\ \A k \in 1..n-p : rest[k] = path[p + k]
    <2>1. p + 1 \in 1..Len(path)+1 /\ Len(path) \in ((p+1)-1)..Len(path)
      BY <1>1
    <2>2. /\ rest \in Seq(STRING) /\ Len(rest) = n - (p + 1) + 1
          /\ \A k \in 1..(n-(p+1)+1) : rest[k] = path[k + (p + 1) - 1]
      BY <2>1, PathPart
    <2>3. n - (p + 1) + 1 = n - p /\ n - p # 0 /\ \A k \in 1..n-p : k + (p + 1) - 1 = p + k
      BY <1>1
    <2>. HIDE DEF n, rest
    <2>. QED  BY <2>2, <2>3
  <1>. HIDE DEF rest
  <1>4. child = w[p]
    <2>1. IsWalk(w, payload, array, i)
      BY <1>1 DEF IsWalk
    <2>. HIDE DEF n, rest, v, child
    <2>2. ElementsAt(payload, array)[i] = w[Len(array)]
      BY <1>2, <2>1, WalkArray
    <2>. QED  BY <2>2 DEF child
  <1>5. w[p] \in V
    BY <1>1, WalkTyped
  <1>6. IsWalk(v, w[p], rest, i)
    <2>1. v[0] = w[p]
      BY <1>1
    <2>2. ASSUME NEW k \in 1..n-p PROVE v[k] = StepInto(v[k - 1], rest[k], i)
      <3>1. k \in 0..n-p /\ k - 1 \in 0..n-p /\ p + k \in 1..n /\ (p + k) - 1 = p + (k - 1)
        BY <1>1
      <3>2. w[p + k] = StepInto(w[p + (k - 1)], path[p + k], i)
        BY <3>1 DEF IsWalk
      <3>. QED  BY <1>3, <3>1, <3>2
    <2>. QED  BY <1>3, <2>1, <2>2 DEF IsWalk
  <1>7. \A k \in 1..Len(rest) : rest[k] # "*"
    <2>. SUFFICES ASSUME NEW k \in 1..n-p PROVE rest[k] # "*"
      BY <1>3
    <2>1. p + k \in 1..n /\ p + k # p
      BY <1>1
    <2>. QED  BY <1>3, <2>1
  <1>8. v[Len(rest)] = w[n]
    <2>1. n - p \in 0..n-p /\ p + (n - p) = n
      BY <1>1
    <2>. QED  BY <1>3, <2>1
  <1>9. RelativePath(path) = rest
    <2>. DEFINE cuts == {k \in 1..Len(path) - 1 : path[k] = "*" /\ path[k + 1] # "*"}
    <2>1. cuts = {p}
      <3>1. \A k \in 1..Len(path) - 1 : k \in 1..Len(path) /\ k + 1 \in 1..Len(path)
        BY <1>1
      <3>2. path[p] = "*" /\ path[p + 1] # "*"
        BY <1>1
      <3>. QED  BY <3>1, <3>2
    <2>. HIDE DEF cuts
    <2>2. (CHOOSE k \in cuts : \A j \in cuts : k <= j) = p
      BY <1>1, <2>1
    <2>3. RelativePath(path) = SubSeq(path, (CHOOSE k \in cuts : \A j \in cuts : k <= j) + 1, Len(path))
      BY <2>1 DEF RelativePath, cuts
    <2>. QED  BY <2>2, <2>3 DEF rest
  <1>10. Contains(path, "*")
    BY <1>1 DEF Contains
  <1>. DEFINE row == [root |-> payload, children |-> <<child>>]
  <1>11. row.children # <<>> /\ row.children[1] = child
    OBVIOUS
  <1>. HIDE DEF n, v, child, row
  <1>12. Resolve(row, path) = IF IsFalsy(w[p]) THEN Null ELSE extract_value(w[p], rest)
    BY <1>4, <1>9, <1>10, <1>11 DEF Resolve
  <1>13. CASE IsFalsy(w[p])
    <2>1. v[Len(rest)] = Null
      <3>1. rest \in Seq(STRING) /\ rest # <<>>
        BY <1>3
      <3>. QED  BY <1>5, <1>6, <1>7, <1>13, <3>1, WalkFromFalsy, Zenon
    <2>. QED  BY <1>8, <1>12, <1>13, <2>1 DEF row, child, n
  <1>14. CASE ~IsFalsy(w[p])
    <2>1. extract_value(w[p], rest) = v[Len(rest)]
      BY <1>3, <1>5, <1>6, <1>7, WalkPlain
    <2>. QED  BY <1>8, <1>12, <1>14, <2>1 DEF row, child, n
  <1>. QED  BY <1>13, <1>14

=============================================================================
