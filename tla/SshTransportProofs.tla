-------------------------- MODULE SshTransportProofs --------------------------
(***************************************************************************)
(* Proofs about the SSH transport: the known_hosts verdict is what ssh(1)  *)
(* would say of the key, the line splitter cuts a stream into its lines    *)
(* whatever the cuts, and so the two properties of SshTransport hold for   *)
(* every file, pattern, host, output and limit.                            *)
(***************************************************************************)
EXTENDS SshTransport, SequenceTheorems, WellFoundedInduction, TLAPS

-----------------------------------------------------------------------------
(* Loops as recursive functions.                                           *)

\* Induction over the naturals, for a set: the loops below are functions of the
\* number of turns they have taken.
LEMMA SetInduction ==
  ASSUME NEW S, 0 \in S, \A n \in Nat : n \in S => n + 1 \in S
  PROVE  Nat \subseteq S
<1> DEFINE T == Nat \ S
<1>1. SUFFICES ASSUME T # {} PROVE FALSE
  OBVIOUS
<1>2. \E x \in T : \A y \in T : ~ (<<y, x>> \in OpToRel(<, Nat))
  <2>1. T \subseteq Nat
    OBVIOUS
  <2> HIDE DEF T
  <2> QED
    BY <1>1, <2>1, NatLessThanWellFounded, WFMin
<1>3. ASSUME NEW x \in T PROVE x - 1 \in T /\ x - 1 < x /\ x - 1 \in Nat
  OBVIOUS
<1>4. ASSUME NEW x \in T PROVE <<x - 1, x>> \in OpToRel(<, Nat)
  BY <1>3 DEF OpToRel
<1> QED
  BY <1>2, <1>3, <1>4, Zenon

\* The same, up to the last turn of a loop that ends.
LEMMA TurnInduction ==
  ASSUME NEW N \in Nat, NEW S, 0 \in S, \A n \in 0..N - 1 : n \in S => n + 1 \in S
  PROVE  0..N \subseteq S
<1> DEFINE T == {n \in Nat : n <= N => n \in S}
<1>1. 0 \in T
  OBVIOUS
<1>2. ASSUME NEW n \in Nat, n \in T PROVE n + 1 \in T
  <2>1. SUFFICES ASSUME n + 1 <= N PROVE n + 1 \in S
    OBVIOUS
  <2>2. n \in 0..N - 1 /\ n \in S
    BY <1>2, <2>1
  <2> QED
    BY <2>2
<1>3. Nat \subseteq T
  <2> HIDE DEF T
  <2> QED
    BY <1>1, <1>2, SetInduction
<1> QED
  BY <1>3

\* The values of a loop after each of N turns, a turn being a function of its
\* number and of the value before it.
IsLoop(S, start, N, step, f) ==
  /\ f \in [0..N -> S]
  /\ f = [n \in 0..N |-> IF n = 0 THEN start ELSE step[n][f[n - 1]]]

\* Every such loop has its values.
LEMMA LoopExists ==
  ASSUME NEW S, NEW start \in S, NEW N \in Nat, NEW step \in [1..N -> [S -> S]]
  PROVE  \E f : IsLoop(S, start, N, step, f)
<1> DEFINE Upto(n, f) == /\ f \in [0..n -> S] /\ f[0] = start
                         /\ \A k \in 1..n : f[k] = step[k][f[k - 1]]
           T == {n \in 0..N : \E f : Upto(n, f)}
<1>1. 0 \in T
  <2>1. Upto(0, [k \in 0..0 |-> start])
    OBVIOUS
  <2>2. 0 \in 0..N
    OBVIOUS
  <2> HIDE DEF Upto
  <2> QED
    BY <2>1, <2>2
<1>2. ASSUME NEW n \in 0..N - 1, n \in T PROVE n + 1 \in T
  <2>1. PICK f : Upto(n, f)
    BY <1>2
  <2> DEFINE v == step[n + 1][f[n]]
             g == [k \in 0..n + 1 |-> IF k = n + 1 THEN v ELSE f[k]]
  <2>2. v \in S
    <3>1. n + 1 \in 1..N /\ f[n] \in S
      BY <2>1
    <3> QED
      BY <3>1
  <2>3. g \in [0..n + 1 -> S] /\ g[0] = start
    <3> HIDE DEF v
    <3> QED
      BY <2>1, <2>2
  <2>4. ASSUME NEW k \in 1..n + 1 PROVE g[k] = step[k][g[k - 1]]
    <3>1. CASE k = n + 1
      <4>1. g[k] = v /\ k - 1 = n /\ g[n] = f[n]
        BY <3>1
      <4> HIDE DEF g
      <4> QED
        BY <3>1, <4>1, Zenon
    <3>2. CASE k # n + 1
      <4>1. k \in 1..n /\ g[k] = f[k] /\ g[k - 1] = f[k - 1]
        BY <3>2
      <4>2. f[k] = step[k][f[k - 1]]
        BY <2>1, <4>1
      <4> QED
        BY <4>1, <4>2, Zenon
    <3> QED
      BY <3>1, <3>2
  <2>5. n + 1 \in 0..N
    OBVIOUS
  <2> HIDE DEF g
  <2>6. Upto(n + 1, g)
    BY <2>3, <2>4
  <2> QED
    BY <2>5, <2>6
<1>3. N \in T
  <2> HIDE DEF Upto, T
  <2>1. 0..N \subseteq T
    BY <1>1, <1>2, TurnInduction
  <2> QED
    BY <2>1
<1>4. PICK f : Upto(N, f)
  BY <1>3
<1>5. \A n \in 0..N : f[n] = IF n = 0 THEN start ELSE step[n][f[n - 1]]
  BY <1>4
<1>6. f \in [0..N -> S] /\ f = [n \in 0..N |-> f[n]]
  BY <1>4
<1>7. f = [n \in 0..N |-> IF n = 0 THEN start ELSE step[n][f[n - 1]]]
  BY <1>5, <1>6
<1> QED
  BY <1>6, <1>7 DEF IsLoop

\* What the turns of such a loop do to its values.
LEMMA LoopValues ==
  ASSUME NEW S, NEW start, NEW N \in Nat, NEW step, NEW f, IsLoop(S, start, N, step, f)
  PROVE  /\ f = [n \in 0..N |-> f[n]] /\ f[0] = start
         /\ \A n \in 1..N : f[n] = step[n][f[n - 1]] /\ f[n - 1] \in S
<1>1. f = [n \in 0..N |-> IF n = 0 THEN start ELSE step[n][f[n - 1]]] /\ f \in [0..N -> S]
  BY DEF IsLoop
<1>2. \A n \in 1..N : n \in 0..N /\ n # 0 /\ n - 1 \in 0..N
  OBVIOUS
<1>3. \A n \in 0..N : f[n] = IF n = 0 THEN start ELSE step[n][f[n - 1]]
  BY <1>1, Zenon
<1>4. 0 \in 0..N
  OBVIOUS
<1> QED
  BY <1>1, <1>2, <1>3, <1>4, Zenon

-----------------------------------------------------------------------------
(* A pattern and a name: glob_match_bytes.                                 *)

\* A name as the file is searched for it: its letters are in lower case.
Lookups == {name \in Seq(Chars) : \A j \in 1..Len(name) : LowerLetter(name[j]) = name[j]}

\* What may be behind the character i of a pattern, given what may be behind the
\* characters after it.
Behind(pattern, target, i, rest) ==
  {j \in 0..Len(target) :
     IF pattern[i] = "*" THEN \E k \in rest : j <= k
     ELSE j + 1 \in rest /\ (pattern[i] \in {"?", target[j + 1]} \/ LowerLetter(pattern[i]) = target[j + 1])}

\* A[i] holds how much of the target may be behind the first i characters of
\* the pattern when the rest of the one matches the rest of the other.
Placed(pattern, target, A) ==
  /\ A \in [0..Len(pattern) -> SUBSET (0..Len(target))]
  /\ A[Len(pattern)] = {Len(target)}
  /\ \A i \in 1..Len(pattern) : A[i - 1] = Behind(pattern, target, i, A[i])

\* Every pattern and target have such sets, and they decide what Matches says.
LEMMA PlacedExists ==
  ASSUME NEW pattern \in Seq(Chars), NEW target \in Seq(Chars)
  PROVE  \E A : Placed(pattern, target, A) /\ (Matches(pattern, target) <=> 0 \in A[0])
<1> DEFINE M == Len(pattern)
           T == Len(target)
           Back(n, rest) == Behind(pattern, target, M - n + 1, rest)
           Recurs(f) == f = [n \in 0..M |-> IF n = 0 THEN {T} ELSE Back(n, f[n - 1])]
           starts == CHOOSE f : Recurs(f)
           step == [n \in 1..M |-> [rest \in SUBSET (0..T) |-> Back(n, rest)]]
<1>1. M \in Nat /\ T \in Nat
  OBVIOUS
<1>2. Matches(pattern, target) <=> 0 \in starts[M]
  BY DEF Matches, Behind
<1>3. step \in [1..M -> [SUBSET (0..T) -> SUBSET (0..T)]]
  BY DEF Behind
<1>4. \E f : f \in [0..M -> SUBSET (0..T)] /\ Recurs(f)
  <2> DEFINE Sets == SUBSET (0..T)
             first == {T}
  <2> HIDE DEF M, T, step, Back
  <2>1. first \in Sets
    BY <1>1
  <2>a. step \in [1..M -> [Sets -> Sets]]
    BY <1>3, Zenon
  <2>b. M \in Nat
    BY <1>1
  <2> HIDE DEF Sets, first
  <2>2. PICK f : IsLoop(Sets, first, M, step, f)
    BY <2>a, <2>b, <2>1, LoopExists, Zenon
  <2> USE DEF Sets, first, IsLoop
  <2>3. ASSUME NEW n \in 1..M PROVE step[n][f[n - 1]] = Back(n, f[n - 1])
    <3>1. f[n - 1] \in SUBSET (0..T)
      BY <1>1, <2>2
    <3> QED
      BY <3>1 DEF step
  <2>4. \A n \in 0..M : f[n] = IF n = 0 THEN {T} ELSE Back(n, f[n - 1])
    <3>1. \A n \in 0..M : f[n] = IF n = 0 THEN {T} ELSE step[n][f[n - 1]]
      BY <2>2
    <3>2. \A n \in 0..M : n # 0 => n \in 1..M
      BY <1>1
    <3> QED
      BY <2>3, <3>1, <3>2, Zenon
  <2>5. Recurs(f)
    BY <2>2, <2>4
  <2> QED
    BY <2>2, <2>5
<1>5. Recurs(starts)
  <2> HIDE DEF Recurs
  <2> QED
    BY <1>4
<1>6. /\ starts[0] = {T}
      /\ \A n \in 1..M : starts[n] = Back(n, starts[n - 1])
  <2> HIDE DEF starts, Back, M, T
  <2>1. \A n \in 0..M : starts[n] = IF n = 0 THEN {T} ELSE Back(n, starts[n - 1])
    BY <1>5
  <2> QED
    BY <1>1, <2>1
<1> DEFINE A == [i \in 0..M |-> starts[M - i]]
<1> HIDE DEF starts
<1>7. A[M] = {T} /\ A[0] = starts[M]
  BY <1>1, <1>6
<1>8. ASSUME NEW i \in 1..M PROVE A[i - 1] = Behind(pattern, target, i, A[i])
  <2> DEFINE n == M - i + 1
  <2>1. n \in 1..M /\ M - (i - 1) = n /\ n - 1 = M - i /\ M - n + 1 = i
    BY <1>1
  <2> HIDE DEF n
  <2>2. A[i] = starts[n - 1] /\ A[i - 1] = starts[n]
    <3>1. i \in 0..M /\ i - 1 \in 0..M
      BY <1>1
    <3>2. A[i] = starts[M - i] /\ A[i - 1] = starts[M - (i - 1)]
      BY <3>1, Zenon
    <3> QED
      BY <2>1, <3>2, Zenon
  <2>3. starts[n] = Back(n, starts[n - 1])
    BY <1>6, <2>1
  <2> HIDE DEF A
  <2> QED
    BY <2>1, <2>2, <2>3
<1>9. A \in [0..M -> SUBSET (0..T)]
  <2>1. \A n \in 0..M : starts[n] \in SUBSET (0..T)
    <3>1. \A n \in 1..M : starts[n] \in SUBSET (0..T)
      BY <1>6 DEF Behind
    <3> QED
      BY <1>1, <1>6, <3>1
  <2> QED
    BY <1>1, <2>1
<1>10. Placed(pattern, target, A)
  <2> HIDE DEF A
  <2> QED
    BY <1>7, <1>8, <1>9 DEF Placed
<1> HIDE DEF A
<1> QED
  BY <1>2, <1>7, <1>10

\* Once all of the target is behind, the rest matches exactly if it is stars.
LEMMA OnlyStarsLeft ==
  ASSUME NEW pattern \in Seq(Chars), NEW target \in Seq(Chars), NEW A, Placed(pattern, target, A)
  PROVE  \A i \in 0..Len(pattern) :
           Len(target) \in A[i] <=> \A k \in i + 1..Len(pattern) : pattern[k] = "*"
<1> DEFINE M == Len(pattern)
           T == Len(target)
           Good(i) == T \in A[i] <=> \A k \in i + 1..M : pattern[k] = "*"
           S == {n \in 0..M : Good(M - n)}
<1>1. M \in Nat /\ T \in Nat
  OBVIOUS
<1>2. A[M] = {T} /\ \A i \in 1..M : A[i - 1] = Behind(pattern, target, i, A[i]) /\ A[i] \subseteq 0..T
  BY DEF Placed
<1> HIDE DEF M, T
<1>3. 0 \in S
  <2>1. M - 0 = M
    BY <1>1
  <2>2. Good(M)
    BY <1>1, <1>2
  <2> HIDE DEF Good
  <2> QED
    BY <1>1, <2>1, <2>2
<1>4. ASSUME NEW n \in 0..M - 1, n \in S PROVE n + 1 \in S
  <2> DEFINE i == M - n
  <2>1. i \in 1..M /\ M - (n + 1) = i - 1 /\ n + 1 \in 0..M
    BY <1>1
  <2>2. Good(i)
    BY <1>4
  <2> HIDE DEF i
  <2>3. Good(i - 1)
    <3>1. A[i - 1] = Behind(pattern, target, i, A[i]) /\ A[i] \subseteq 0..T
      BY <1>2, <2>1
    <3>2. T \in A[i - 1] <=> pattern[i] = "*" /\ T \in A[i]
      <4>1. T + 1 \notin A[i]
        BY <1>1, <3>1
      <4>2. \A k \in A[i] : T <= k <=> k = T
        BY <1>1, <3>1
      <4>3. T \in 0..Len(target)
        BY <1>1 DEF T
      <4> QED
        BY <3>1, <4>1, <4>2, <4>3 DEF Behind
    <3>3. (\A k \in i - 1 + 1..M : pattern[k] = "*")
            <=> pattern[i] = "*" /\ \A k \in i + 1..M : pattern[k] = "*"
      BY <1>1, <2>1
    <3> QED
      BY <2>2, <3>2, <3>3, Zenon
  <2> HIDE DEF Good
  <2> QED
    BY <2>1, <2>3
<1>5. 0..M \subseteq S
  <2> HIDE DEF S
  <2> QED
    BY <1>1, <1>3, <1>4, TurnInduction
<1>6. ASSUME NEW i \in 0..M PROVE Good(i)
  <2>1. M - i \in 0..M /\ M - (M - i) = i
    BY <1>1
  <2>2. Good(M - (M - i))
    BY <1>5, <2>1
  <2> HIDE DEF Good
  <2> QED
    BY <2>1, <2>2
<1> QED
  BY <1>6 DEF M, T

\* What glob_match_bytes keeps true turn after turn.  Before a star, what is left
\* of the pattern decides; after one, whether the star matches from where it
\* stands: no place before has to be tried again, and none of an earlier star.
\* And each turn moves on, or the loop is over.
GlobInv(pattern, target, A, s, n) ==
  LET M == Len(pattern)
      T == Len(target)
  IN
  /\ s \in [pat : 0..M, tgt : 0..T, star : 0..M, from : 0..T, stuck : BOOLEAN]
  /\ s.stuck => s.star = 0 /\ 0 \notin A[0]
  /\ s.star = 0 =>
       /\ s.from = 0
       /\ ~s.stuck => (0 \in A[0] <=> s.tgt \in A[s.pat])
  /\ s.star # 0 =>
       /\ pattern[s.star] = "*" /\ s.star <= s.pat
       /\ s.tgt - s.from = s.pat - s.star
       /\ 0 \in A[0] <=> s.from \in A[s.star - 1]
       /\ \A j \in A[s.star] : s.from <= j => j + (s.pat - s.star) \in A[s.pat]
       /\ s.tgt \in A[s.pat] => 0 \in A[0]
  /\ s.stuck \/ s.tgt = T \/ n <= s.from * (M + 1) + s.pat

\* A match of what is left is a match of the whole, and a match of the whole puts
\* what is left at or behind where the loop stands.
LEMMA GlobAhead ==
  ASSUME NEW pattern \in Seq(Chars), NEW target \in Seq(Chars), NEW A, Placed(pattern, target, A),
         NEW n, NEW s, GlobInv(pattern, target, A, s, n), ~s.stuck
  PROVE  /\ s.tgt \in A[s.pat] => 0 \in A[0]
         /\ 0 \in A[0] => \E j \in A[s.pat] : s.tgt <= j
<1>1. /\ s.pat \in 0..Len(pattern) /\ s.tgt \in 0..Len(target)
      /\ s.star \in 0..Len(pattern) /\ s.from \in 0..Len(target)
  BY DEF GlobInv
<1>2. CASE s.star = 0
  <2>1. 0 \in A[0] <=> s.tgt \in A[s.pat]
    BY <1>2 DEF GlobInv
  <2> QED
    BY <1>1, <2>1
<1>3. CASE s.star # 0
  <2>1. /\ s.tgt - s.from = s.pat - s.star
        /\ 0 \in A[0] <=> s.from \in A[s.star - 1]
        /\ \A j \in A[s.star] : s.from <= j => j + (s.pat - s.star) \in A[s.pat]
        /\ s.tgt \in A[s.pat] => 0 \in A[0]
        /\ pattern[s.star] = "*"
    BY <1>3 DEF GlobInv
  <2>2. s.star \in 1..Len(pattern) /\ A[s.star] \subseteq 0..Len(target)
    BY <1>1, <1>3 DEF Placed
  <2>3. A[s.star - 1] = Behind(pattern, target, s.star, A[s.star])
    BY <2>2 DEF Placed
  <2>4. ASSUME 0 \in A[0] PROVE \E j \in A[s.pat] : s.tgt <= j
    <3>1. PICK k \in A[s.star] : s.from <= k
      BY <2>1, <2>3, <2>4 DEF Behind
    <3>2. k + (s.pat - s.star) \in A[s.pat] /\ s.tgt <= k + (s.pat - s.star)
      BY <1>1, <2>1, <2>2, <3>1
    <3> QED
      BY <3>2
  <2> QED
    BY <2>1, <2>4
<1> QED
  BY <1>2, <1>3

\* The arithmetic of the measure by which a turn moves on.
LEMMA MeasureGrows ==
  ASSUME NEW a \in Nat, NEW b \in Nat, NEW m \in Nat
  PROVE  /\ a * m \in Nat /\ (a + 1) * m = a * m + m
         /\ a <= b => a * m <= b * m
<1>1. \A d \in Nat : (a + d) * m = a * m + d * m /\ d * m \in Nat /\ a * m \in Nat
  BY SMT
<1>2. (a + 1) * m = a * m + m /\ a * m \in Nat
  BY SMT
<1>3. ASSUME a <= b PROVE a * m <= b * m
  <2>1. b - a \in Nat /\ a + (b - a) = b
    BY <1>3
  <2> DEFINE d == b - a
  <2> HIDE DEF d
  <2>2. d \in Nat /\ a + d = b
    BY <2>1 DEF d
  <2>3. b * m = a * m + d * m /\ d * m \in Nat /\ a * m \in Nat
    BY <1>1, <2>2
  <2> QED
    BY <2>3
<1> QED
  BY <1>2, <1>3

\* Every turn of glob_match_bytes keeps the invariant, and moves on.
LEMMA TurnKeeps ==
  ASSUME NEW pattern \in Seq(Chars), NEW target \in Lookups, NEW A, Placed(pattern, target, A),
         NEW n \in Nat, NEW s, GlobInv(pattern, target, A, s, n)
  PROVE  GlobInv(pattern, target, A, Turn(pattern, target, s), n + 1)
<1> DEFINE M == Len(pattern)
           T == Len(target)
           t == Turn(pattern, target, s)
<1>0. target \in Seq(Chars) /\ \A j \in 1..T : LowerLetter(target[j]) = target[j]
  BY DEF Lookups
<1>1. M \in Nat /\ T \in Nat
  BY <1>0
<1>2. s \in [pat : 0..M, tgt : 0..T, star : 0..M, from : 0..T, stuck : BOOLEAN]
  BY DEF GlobInv
<1>3. s.pat \in 0..M /\ s.tgt \in 0..T /\ s.star \in 0..M /\ s.from \in 0..T /\ s.stuck \in BOOLEAN
  BY <1>2
<1>4. A[M] = {T} /\ A \in [0..M -> SUBSET (0..T)]
      /\ \A i \in 1..M : A[i - 1] = Behind(pattern, target, i, A[i])
  BY DEF Placed
<1>5. CASE s.tgt = T \/ s.stuck
  <2>1. t = s
    BY <1>5 DEF Turn
  <2> QED
    BY <1>5, <2>1 DEF GlobInv
<1> DEFINE i == s.pat + 1
           Left == s.pat < M
           Like == pattern[i] = "?" \/ LowerLetter(pattern[i]) = LowerLetter(target[s.tgt + 1])
<1>6. ASSUME s.tgt # T, ~s.stuck
      PROVE  /\ s.tgt < T /\ s.tgt + 1 \in 1..T
             /\ LowerLetter(target[s.tgt + 1]) = target[s.tgt + 1]
             /\ n <= s.from * (M + 1) + s.pat
             /\ Left => i \in 1..M /\ i - 1 = s.pat /\ A[s.pat] = Behind(pattern, target, i, A[i]) /\ A[i] \subseteq 0..T
  <2>1. s.tgt < T /\ s.tgt + 1 \in 1..T
    BY <1>1, <1>3, <1>6
  <2>2. n <= s.from * (M + 1) + s.pat
    BY <1>6 DEF GlobInv
  <2>3. ASSUME Left PROVE i \in 1..M /\ i - 1 = s.pat
    BY <1>1, <1>3, <2>3
  <2> HIDE DEF i
  <2> QED
    BY <1>0, <1>4, <2>1, <2>2, <2>3
<1>7. CASE s.tgt # T /\ ~s.stuck /\ Left /\ pattern[i] = "*"
  <2>1. t = [s EXCEPT !.pat = @ + 1, !.star = s.pat + 1, !.from = s.tgt]
    BY <1>6, <1>7 DEF Turn
  <2>2. /\ t \in [pat : 0..M, tgt : 0..T, star : 0..M, from : 0..T, stuck : BOOLEAN]
        /\ t.pat = i /\ t.tgt = s.tgt /\ t.star = i /\ t.from = s.tgt /\ ~t.stuck
    <3>1. i \in 0..M
      BY <1>1, <1>3, <1>6, <1>7
    <3>2. t.pat = i /\ t.tgt = s.tgt /\ t.star = i /\ t.from = s.tgt /\ ~t.stuck
      BY <1>2, <1>7, <2>1
    <3>3. t = [pat |-> i, tgt |-> s.tgt, star |-> i, from |-> s.tgt, stuck |-> s.stuck]
      <4> HIDE DEF t
      <4> QED
        BY <1>2, <2>1
    <3> HIDE DEF t, i
    <3> QED
      BY <1>3, <3>1, <3>2, <3>3
  <2>3. /\ i \in 1..M /\ i # 0 /\ i - 1 = s.pat /\ A[s.pat] = Behind(pattern, target, i, A[i])
        /\ A[i] \subseteq 0..T
    BY <1>1, <1>6, <1>7
  <2> HIDE DEF t, i
  <2>4. \A j \in 0..T : j \in A[s.pat] <=> \E k \in A[i] : j <= k
    BY <1>7, <2>3 DEF Behind
  <2>5. 0 \in A[0] <=> s.tgt \in A[s.pat]
    <3>1. s.tgt \in A[s.pat] => 0 \in A[0]
      BY <1>0, <1>7, GlobAhead
    <3>2. ASSUME 0 \in A[0] PROVE s.tgt \in A[s.pat]
      <4>1. PICK j \in A[s.pat] : s.tgt <= j
        BY <1>0, <1>7, <3>2, GlobAhead
      <4>2. j \in 0..T
        BY <2>3, <4>1 DEF Behind
      <4>3. PICK k \in A[i] : j <= k
        BY <2>4, <4>1, <4>2
      <4>4. s.tgt <= k
        BY <1>3, <2>3, <4>1, <4>2, <4>3
      <4> QED
        BY <1>3, <2>4, <4>4
    <3> QED
      BY <3>1, <3>2
  <2>6. s.tgt \in A[i] => s.tgt \in A[s.pat]
    BY <1>3, <2>4
  <2>7. \A j \in A[i] : j + (i - i) \in A[i]
    BY <2>3
  <2>8. n + 1 <= s.tgt * (M + 1) + i
    <3>1. s.from <= s.tgt
      BY <1>3 DEF GlobInv
    <3>2. s.from * (M + 1) <= s.tgt * (M + 1) /\ s.from * (M + 1) \in Nat /\ s.tgt * (M + 1) \in Nat
      <4>1. s.from \in Nat /\ s.tgt \in Nat /\ M + 1 \in Nat
        BY <1>1, <1>3
      <4> HIDE DEF M
      <4> QED
        BY ONLY <3>1, <4>1, MeasureGrows, SMTT(30)
    <3> QED
      BY <1>3, <1>6, <1>7, <2>3, <3>2
  <2>9. i <= i /\ s.tgt - s.tgt = i - i
    BY <1>3, <2>3
  <2>10. GlobInv(pattern, target, A, t, n + 1)
    BY <1>7, <2>2, <2>3, <2>5, <2>6, <2>7, <2>8, <2>9 DEF GlobInv
  <2> QED
    BY <2>10 DEF t
<1>8. CASE s.tgt # T /\ ~s.stuck /\ Left /\ pattern[i] # "*" /\ Like
  <2>1. t = [s EXCEPT !.pat = @ + 1, !.tgt = @ + 1]
    BY <1>6, <1>8 DEF Turn
  <2> DEFINE u == s.tgt + 1
  <2>2. /\ t \in [pat : 0..M, tgt : 0..T, star : 0..M, from : 0..T, stuck : BOOLEAN]
        /\ t.pat = i /\ t.tgt = u /\ t.star = s.star /\ t.from = s.from /\ ~t.stuck
    <3>1. i \in 0..M /\ u \in 0..T
      <4>1. s.pat < M /\ s.tgt \in 0..T /\ s.tgt # T /\ s.pat \in 0..M /\ M \in Nat /\ T \in Nat
        BY <1>1, <1>3, <1>6, <1>8
      <4> HIDE DEF M, T
      <4> QED
        BY ONLY <4>1, SMTT(30) DEF i, u
    <3>2. t = [pat |-> i, tgt |-> u, star |-> s.star, from |-> s.from, stuck |-> s.stuck]
      <4> HIDE DEF t
      <4> QED
        BY <1>2, <2>1
    <3> HIDE DEF t, i, u
    <3> QED
      BY <1>3, <1>8, <3>1, <3>2
  <2>3. /\ i \in 1..M /\ i - 1 = s.pat /\ A[s.pat] = Behind(pattern, target, i, A[i])
        /\ A[i] \subseteq 0..T /\ u \in 1..T
    BY <1>1, <1>6, <1>8
  <2> HIDE DEF t, i
  <2>4. \A j \in A[s.pat] : j + 1 \in A[i]
    BY <1>8, <2>3 DEF Behind
  <2>5. s.tgt \in A[s.pat] <=> u \in A[i]
    <3>1. pattern[i] \in {"?", target[u]} \/ LowerLetter(pattern[i]) = target[u]
      BY <1>6, <1>8
    <3> QED
      BY <1>3, <1>8, <2>3, <3>1 DEF Behind
  <2>6. CASE s.star = 0
    <3>1. s.from = 0 /\ (0 \in A[0] <=> s.tgt \in A[s.pat])
      BY <1>8, <2>6 DEF GlobInv
    <3>2. n + 1 <= s.from * (M + 1) + i
      BY <1>1, <1>3, <1>6, <1>8, <2>3, <3>1
    <3> HIDE DEF u
    <3>3. GlobInv(pattern, target, A, t, n + 1)
      BY <2>2, <2>5, <2>6, <3>1, <3>2 DEF GlobInv
    <3> QED
      BY <3>3 DEF t
  <2>7. CASE s.star # 0
    <3>1. /\ pattern[s.star] = "*" /\ s.star <= s.pat
          /\ s.tgt - s.from = s.pat - s.star
          /\ 0 \in A[0] <=> s.from \in A[s.star - 1]
          /\ \A j \in A[s.star] : s.from <= j => j + (s.pat - s.star) \in A[s.pat]
          /\ s.tgt \in A[s.pat] => 0 \in A[0]
      BY <2>7 DEF GlobInv
    <3>2. s.star <= i /\ u - s.from = i - s.star
      <4>1. s.star <= s.pat /\ s.tgt - s.from = s.pat - s.star
        BY <3>1
      <4>2. s.star \in Int /\ s.pat \in Int /\ s.tgt \in Int /\ s.from \in Int
        BY <1>3
      <4> QED
        BY ONLY <4>1, <4>2, SMTT(30) DEF i, u
    <3>3. ASSUME NEW j \in A[s.star], s.from <= j PROVE j + (i - s.star) \in A[i]
      <4>1. j \in 0..T
        BY <1>3, <1>4
      <4>2. j + (i - s.star) = j + (s.pat - s.star) + 1
        BY <1>3, <2>3, <4>1
      <4> QED
        BY <2>4, <3>1, <3>3, <4>2
    <3>4. n + 1 <= s.from * (M + 1) + i
      <4>1. s.from * (M + 1) \in Nat
        BY <1>1, <1>3, MeasureGrows
      <4> QED
        BY <1>3, <1>6, <1>8, <2>3, <4>1
    <3> HIDE DEF u
    <3>5. GlobInv(pattern, target, A, t, n + 1)
      BY <2>2, <2>5, <2>7, <3>1, <3>2, <3>3, <3>4 DEF GlobInv
    <3> QED
      BY <3>5 DEF t
  <2> QED
    BY <2>6, <2>7
<1>9. CASE s.tgt # T /\ ~s.stuck /\ ~(Left /\ (pattern[i] = "*" \/ Like)) /\ s.star = 0
  <2>1. t = [s EXCEPT !.stuck = TRUE]
    BY <1>6, <1>9 DEF Turn
  <2>2. s.tgt \notin A[s.pat]
    <3>1. CASE ~Left
      <4>1. s.pat = M
        BY <1>1, <1>3, <3>1
      <4> QED
        BY <1>4, <1>9, <4>1
    <3>2. CASE Left
      <4>1. A[s.pat] = Behind(pattern, target, i, A[i]) /\ pattern[i] # "*" /\ ~Like
        BY <1>6, <1>9, <3>2
      <4>2. ~(pattern[i] \in {"?", target[s.tgt + 1]} \/ LowerLetter(pattern[i]) = target[s.tgt + 1])
        BY <1>6, <1>9, <4>1
      <4> QED
        BY <4>1, <4>2 DEF Behind
    <3> QED
      BY <3>1, <3>2
  <2>3. s.from = 0 /\ (0 \in A[0] <=> s.tgt \in A[s.pat])
    BY <1>9 DEF GlobInv
  <2>4. /\ t \in [pat : 0..M, tgt : 0..T, star : 0..M, from : 0..T, stuck : BOOLEAN]
        /\ t.star = 0 /\ t.from = 0 /\ t.stuck
    BY <1>2, <1>9, <2>1, <2>3
  <2> HIDE DEF t
  <2>5. GlobInv(pattern, target, A, t, n + 1)
    BY <1>9, <2>2, <2>3, <2>4 DEF GlobInv
  <2> QED
    BY <2>5 DEF t
<1>10. CASE s.tgt # T /\ ~s.stuck /\ ~(Left /\ (pattern[i] = "*" \/ Like)) /\ s.star # 0
  <2> DEFINE f == s.from + 1
  <2>1. t = [s EXCEPT !.pat = s.star, !.tgt = f, !.from = f]
    BY <1>2, <1>6, <1>10 DEF Turn
  <2>2. s.tgt \notin A[s.pat]
    <3>1. CASE ~Left
      <4>1. s.pat = M
        BY <1>1, <1>3, <3>1
      <4> QED
        BY <1>4, <1>10, <4>1
    <3>2. CASE Left
      <4>1. A[s.pat] = Behind(pattern, target, i, A[i]) /\ pattern[i] # "*" /\ ~Like
        BY <1>6, <1>10, <3>2
      <4>2. ~(pattern[i] \in {"?", target[s.tgt + 1]} \/ LowerLetter(pattern[i]) = target[s.tgt + 1])
        BY <1>6, <1>10, <4>1
      <4> QED
        BY <4>1, <4>2 DEF Behind
    <3> QED
      BY <3>1, <3>2
  <2>3. /\ pattern[s.star] = "*" /\ s.star <= s.pat
        /\ s.tgt - s.from = s.pat - s.star
        /\ 0 \in A[0] <=> s.from \in A[s.star - 1]
        /\ \A j \in A[s.star] : s.from <= j => j + (s.pat - s.star) \in A[s.pat]
    BY <1>10 DEF GlobInv
  <2>4. f \in 1..T /\ s.star \in 1..M
    <3>1. s.from <= s.tgt /\ s.tgt < T
      <4>1. s.star <= s.pat /\ s.tgt - s.from = s.pat - s.star
        BY <2>3
      <4>2. s.tgt # T
        BY <1>10
      <4> HIDE DEF T, M
      <4> QED
        BY ONLY <1>1, <1>3, <4>1, <4>2, SMTT(30)
    <3> QED
      BY <1>1, <1>3, <1>10, <3>1
  <2>5. /\ t \in [pat : 0..M, tgt : 0..T, star : 0..M, from : 0..T, stuck : BOOLEAN]
        /\ t.pat = s.star /\ t.tgt = f /\ t.star = s.star /\ t.from = f /\ ~t.stuck
    <3>1. f \in 0..T
      BY <2>4
    <3>2. t = [pat |-> s.star, tgt |-> f, star |-> s.star, from |-> f, stuck |-> s.stuck]
      <4> HIDE DEF t, f
      <4> QED
        BY <1>2, <2>1
    <3> HIDE DEF t, f
    <3> QED
      BY <1>3, <1>10, <3>1, <3>2
  <2>6. s.from \notin A[s.star]
    <3>1. s.from + (s.pat - s.star) = s.tgt /\ s.from <= s.from
      BY <1>3, <2>3
    <3> QED
      BY <2>2, <2>3, <3>1
  <2>7. A[s.star] \subseteq 0..T /\ A[s.star - 1] = Behind(pattern, target, s.star, A[s.star])
    BY <1>3, <1>4, <2>4
  <2>8. \A j \in 0..T : j \in A[s.star - 1] <=> \E k \in A[s.star] : j <= k
    BY <2>3, <2>7 DEF Behind
  <2>9. 0 \in A[0] <=> f \in A[s.star - 1]
    <3>1. \A k \in A[s.star] : s.from <= k <=> f <= k
      BY <1>3, <2>6, <2>7
    <3> QED
      BY <1>3, <2>3, <2>4, <2>8, <3>1
  <2>10. f \in A[s.star] => f \in A[s.star - 1]
    BY <2>4, <2>8
  <2>11. \A j \in A[s.star] : j + (s.star - s.star) \in A[s.star]
    BY <1>3, <2>7
  <2>12. n + 1 <= f * (M + 1) + s.star
    <3>1. f * (M + 1) = s.from * (M + 1) + (M + 1) /\ s.from * (M + 1) \in Nat
      BY <1>1, <1>3, MeasureGrows
    <3> HIDE DEF f
    <3> QED
      BY <1>1, <1>3, <1>6, <1>10, <3>1, SMTT(30)
  <2>13. s.star <= s.star /\ f - f = s.star - s.star
    BY <1>3
  <2> HIDE DEF t, f
  <2>14. GlobInv(pattern, target, A, t, n + 1)
    BY <1>10, <2>3, <2>5, <2>9, <2>10, <2>11, <2>12, <2>13 DEF GlobInv
  <2> QED
    BY <2>14 DEF t
<1> QED
  BY <1>3, <1>5, <1>7, <1>8, <1>9, <1>10, Zenon

\* glob_match_bytes, with its single place to go back to, finds a match whenever
\* there is one, and never another: the turns the model allows are enough.
LEMMA GlobMatchIsMatches ==
  ASSUME NEW pattern \in Seq(Chars), NEW target \in Lookups
  PROVE  GlobMatch(pattern, target) <=> Matches(pattern, target)
<1> DEFINE M == Len(pattern)
           T == Len(target)
           N == Turns(pattern, target)
<1>1. target \in Seq(Chars) /\ M \in Nat /\ T \in Nat
  BY DEF Lookups
<1>2. PICK A : Placed(pattern, target, A) /\ (Matches(pattern, target) <=> 0 \in A[0])
  BY <1>1, PlacedExists
<1>3. N \in Nat /\ N = T * (M + 1) + (M + 1)
  <2>1. (M + 1) * (T + 1) = (T + 1) * (M + 1)
    BY <1>1
  <2>2. (T + 1) * (M + 1) = T * (M + 1) + (M + 1) /\ T * (M + 1) \in Nat
    BY <1>1, MeasureGrows
  <2> QED
    BY <1>1, <2>1, <2>2 DEF Turns
<1> DEFINE Records == [pat : 0..M, tgt : 0..T, star : 0..M, from : 0..T, stuck : BOOLEAN]
           Inv(s, n) == GlobInv(pattern, target, A, s, n)
           States == {s \in Records : \E n \in Nat : Inv(s, n)}
           turn(s) == Turn(pattern, target, s)
           first == [pat |-> 0, tgt |-> 0, star |-> 0, from |-> 0, stuck |-> FALSE]
           Recurs(f) == f = [n \in 0..N |-> IF n = 0 THEN first ELSE turn(f[n - 1])]
           run == CHOOSE f : Recurs(f)
           step == [n \in 1..N |-> [s \in States |-> turn(s)]]
<1>4. GlobMatch(pattern, target)
        <=> ~run[N].stuck /\ \A i \in run[N].pat + 1..M : pattern[i] = "*"
  BY DEF GlobMatch
<1>5. Inv(first, 0)
  <2>1. first \in Records
    BY <1>1
  <2>2. 0 <= 0 * (M + 1) + 0
    BY <1>1
  <2> QED
    BY <2>1, <2>2 DEF GlobInv
<1>6. \A s, n : Inv(s, n) => s \in Records
  BY DEF GlobInv
<1>7. \A s, n : n \in Nat /\ Inv(s, n) => Inv(turn(s), n + 1)
  BY <1>2, TurnKeeps
<1>8. Recurs(run)
  <2> HIDE DEF N, Records, Inv, turn, first
  <2>1. first \in States
    BY <1>5, <1>6
  <2>2. \A s \in States : turn(s) \in States
    <3>1. \A n \in Nat : n + 1 \in Nat
      OBVIOUS
    <3> QED
      BY <1>6, <1>7, <3>1
  <2> HIDE DEF States
  <2>3. step \in [1..N -> [States -> States]]
    BY <2>2
  <2> HIDE DEF step
  <2>4. PICK f : IsLoop(States, first, N, step, f)
    BY <1>3, <2>1, <2>3, LoopExists, Zenon
  <2>5. f \in [0..N -> States] /\ f = [n \in 0..N |-> IF n = 0 THEN first ELSE step[n][f[n - 1]]]
    BY <2>4 DEF IsLoop
  <2>6. ASSUME NEW n \in 1..N PROVE step[n][f[n - 1]] = turn(f[n - 1])
    <3>1. f[n - 1] \in States
      <4>1. n - 1 \in 0..N
        BY <1>3
      <4> QED
        BY <2>5, <4>1, Zenon
    <3> QED
      BY <3>1 DEF step
  <2>7. \A n \in 0..N : f[n] = IF n = 0 THEN first ELSE turn(f[n - 1])
    <3>1. \A n \in 0..N : f[n] = IF n = 0 THEN first ELSE step[n][f[n - 1]]
      BY <2>5
    <3>2. \A n \in 0..N : n # 0 => n \in 1..N
      BY <1>3
    <3> QED
      BY <2>6, <3>1, <3>2, Zenon
  <2>8. Recurs(f)
    BY <2>5, <2>7
  <2> HIDE DEF Recurs
  <2> QED
    BY <2>8
<1> HIDE DEF run
<1>9. run[0] = first /\ \A n \in 0..N - 1 : run[n + 1] = turn(run[n])
  <2> HIDE DEF N, first, turn
  <2>1. \A n \in 0..N : run[n] = IF n = 0 THEN first ELSE turn(run[n - 1])
    BY <1>8
  <2>2. ASSUME NEW n \in 0..N - 1 PROVE run[n + 1] = turn(run[n])
    <3> DEFINE k == n + 1
    <3>1. k \in 0..N /\ k # 0 /\ k - 1 = n
      BY <1>3
    <3> HIDE DEF k
    <3>2. run[k] = turn(run[n])
      BY <2>1, <3>1
    <3> QED
      BY <3>2 DEF k
  <2> QED
    BY <1>3, <2>1, <2>2
<1>10. Inv(run[N], N)
  <2> DEFINE S == {n \in 0..N : Inv(run[n], n)}
  <2> HIDE DEF N, first, turn, Inv
  <2>1. 0 \in S
    BY <1>3, <1>5, <1>9
  <2>2. ASSUME NEW n \in 0..N - 1, n \in S PROVE n + 1 \in S
    <3>1. n \in Nat /\ n + 1 \in 0..N
      BY <1>3
    <3> QED
      BY <1>7, <1>9, <2>2, <3>1
  <2>3. 0..N \subseteq S
    <3> HIDE DEF S
    <3> QED
      BY <1>3, <2>1, <2>2, TurnInduction
  <2> QED
    BY <1>3, <2>3
<1> DEFINE s == run[N]
<1> HIDE DEF N
<1>11. s \in Records /\ (s.stuck => 0 \notin A[0])
  BY <1>10 DEF GlobInv
<1>12. s.stuck \/ s.tgt = T
  <2>1. s.stuck \/ s.tgt = T \/ N <= s.from * (M + 1) + s.pat
    BY <1>10 DEF GlobInv
  <2>2. s.from * (M + 1) <= T * (M + 1) /\ s.from * (M + 1) \in Nat /\ T * (M + 1) \in Nat
    <3>1. s.from \in Nat /\ s.from <= T /\ M + 1 \in Nat
      BY <1>1, <1>11
    <3> HIDE DEF s, M, T
    <3> QED
      BY <1>1, <3>1, MeasureGrows
  <2>3. s.from * (M + 1) + s.pat < N
    <3>1. s.pat \in Nat /\ s.pat <= M
      BY <1>1, <1>11
    <3> HIDE DEF s, M, T
    <3> QED
      BY <1>1, <1>3, <2>2, <3>1
  <2> QED
    BY <1>3, <2>1, <2>2, <2>3, <1>1, <1>11
<1>13. CASE s.stuck
  BY <1>2, <1>4, <1>11, <1>13
<1>14. CASE ~s.stuck
  <2>1. s.tgt = T
    BY <1>12, <1>14
  <2>2. /\ T \in A[s.pat] => 0 \in A[0]
        /\ 0 \in A[0] => \E j \in A[s.pat] : T <= j
    BY <1>1, <1>2, <1>3, <1>10, <1>14, <2>1, GlobAhead
  <2>3. A[s.pat] \subseteq 0..T /\ s.pat \in 0..M
    BY <1>2, <1>11 DEF Placed
  <2>4. \A j \in A[s.pat] : T <= j => j = T
    BY <1>1, <2>3
  <2>5. T \in A[s.pat] <=> \A k \in s.pat + 1..M : pattern[k] = "*"
    BY <1>1, <1>2, <2>3, OnlyStarsLeft
  <2> QED
    BY <1>2, <1>4, <1>14, <2>2, <2>4, <2>5
<1> QED
  BY <1>13, <1>14

-----------------------------------------------------------------------------
(* A line of the file and a name; a file and a key.                        *)

\* What host_matches_patterns goes through.
PatternLists == Seq([glob : Seq(Chars), negated : BOOLEAN])

\* host_matches_patterns: some pattern of the line matches, and none that is
\* negated, wherever either stands.
LEMMA PatternsMatch ==
  ASSUME NEW patterns \in PatternLists, NEW lookup \in Lookups
  PROVE  HostMatchesPatterns(patterns, lookup) <=>
           /\ \E i \in DOMAIN patterns : Matches(patterns[i].glob, lookup)
           /\ \A i \in DOMAIN patterns : Matches(patterns[i].glob, lookup) => ~patterns[i].negated
<1> DEFINE N == Len(patterns)
           Values == {"none", "positive", "refused"}
           turn(n, x) == Find(x, patterns[n], lookup)
           Recurs(f) == f = [n \in 0..N |-> IF n = 0 THEN "none" ELSE turn(n, f[n - 1])]
           found == CHOOSE f : Recurs(f)
           step == [n \in 1..N |-> [x \in Values |-> turn(n, x)]]
           hit(n) == Matches(patterns[n].glob, lookup)
           no(n) == patterns[n].negated
<1>1. N \in Nat /\ DOMAIN patterns = 1..N
  BY DEF PatternLists
<1>2. HostMatchesPatterns(patterns, lookup) <=> found[N] = "positive"
  BY DEF HostMatchesPatterns
<1>3. Recurs(found)
  <2> HIDE DEF N
  <2>1. "none" \in Values /\ step \in [1..N -> [Values -> Values]]
    BY DEF Find
  <2> HIDE DEF turn, step, Values
  <2>2. PICK f : IsLoop(Values, "none", N, step, f)
    BY <1>1, <2>1, LoopExists, Zenon
  <2>3. /\ f = [n \in 0..N |-> f[n]] /\ f[0] = "none"
        /\ \A n \in 1..N : f[n] = step[n][f[n - 1]] /\ f[n - 1] \in Values
    BY <1>1, <2>2, LoopValues
  <2>4. \A n \in 1..N : f[n] = turn(n, f[n - 1])
    BY <2>3 DEF step
  <2>5. \A n \in 0..N : f[n] = IF n = 0 THEN "none" ELSE turn(n, f[n - 1])
    <3>1. \A n \in 0..N : n = 0 \/ n \in 1..N
      BY <1>1
    <3>2. \A n \in 1..N : n # 0
      BY <1>1
    <3> QED
      BY <2>3, <2>4, <3>1, <3>2, Zenon
  <2>6. Recurs(f)
    BY <2>3, <2>5
  <2> HIDE DEF Recurs
  <2> QED
    BY <2>6
<1> HIDE DEF found
<1>4. found[0] = "none" /\ \A n \in 0..N - 1 : found[n + 1] = turn(n + 1, found[n])
  <2> HIDE DEF N, turn
  <2>1. \A n \in 0..N : found[n] = IF n = 0 THEN "none" ELSE turn(n, found[n - 1])
    BY <1>3
  <2>2. ASSUME NEW n \in 0..N - 1 PROVE found[n + 1] = turn(n + 1, found[n])
    <3> DEFINE k == n + 1
    <3>1. k \in 0..N /\ k # 0 /\ k - 1 = n
      BY <1>1
    <3> HIDE DEF k
    <3>2. found[k] = turn(k, found[n])
      BY <2>1, <3>1
    <3> QED
      BY <3>2 DEF k
  <2> QED
    BY <1>1, <2>1, <2>2
<1>5. \A n \in 1..N : hit(n) <=> GlobMatch(patterns[n].glob, lookup)
  <2>1. ASSUME NEW n \in 1..N PROVE patterns[n].glob \in Seq(Chars)
    <3>1. patterns[n] \in [glob : Seq(Chars), negated : BOOLEAN]
      BY ElementOfSeq DEF PatternLists
    <3> QED
      BY <3>1
  <2> QED
    BY <2>1, GlobMatchIsMatches
<1> DEFINE Good(n) ==
             /\ found[n] \in Values
             /\ found[n] = "refused" <=> \E i \in 1..n : hit(i) /\ no(i)
             /\ found[n] = "none" <=> \A i \in 1..n : ~hit(i)
           S == {n \in 0..N : Good(n)}
<1>6. 0 \in S
  <2>1. Good(0)
    BY <1>4
  <2> QED
    BY <1>1, <2>1
<1>7. ASSUME NEW n \in 0..N - 1, n \in S PROVE n + 1 \in S
  <2> DEFINE k == n + 1
  <2>1. Good(n)
    BY <1>7
  <2>2. k \in 1..N /\ k \in 0..N
    BY <1>1
  <2>3. \A i : i \in 1..k <=> i \in 1..n \/ i = k
    BY <1>1
  <2>4. found[k] = turn(k, found[n])
    BY <1>4
  <2> HIDE DEF k, hit, no
  <2>5. found[k] = IF found[n] = "refused" \/ ~hit(k) THEN found[n]
                   ELSE IF no(k) THEN "refused" ELSE "positive"
    BY <1>5, <2>2, <2>4 DEF Find, no
  <2>6. Good(k)
    <3>1. CASE found[n] = "refused" \/ ~hit(k)
      BY <2>1, <2>3, <2>5, <3>1
    <3>2. CASE found[n] # "refused" /\ hit(k) /\ no(k)
      BY <2>1, <2>3, <2>5, <3>2
    <3>3. CASE found[n] # "refused" /\ hit(k) /\ ~no(k)
      BY <2>1, <2>3, <2>5, <3>3
    <3> QED
      BY <3>1, <3>2, <3>3
  <2> HIDE DEF Good
  <2>7. k \in S
    BY <2>2, <2>6
  <2> QED
    BY <2>7 DEF k
<1>8. Good(N)
  <2> HIDE DEF S
  <2>1. 0..N \subseteq S
    BY <1>1, <1>6, <1>7, TurnInduction
  <2> QED
    BY <1>1, <2>1 DEF S
<1> QED
  BY <1>1, <1>2, <1>8

\* host_matches_entry: a line is about a name when it hashes the name, or its
\* patterns match it.
LEMMA EntryIsAbout ==
  ASSUME NEW e \in FileEntry, NEW lookup \in Lookups, lookup # None
  PROVE  HostMatchesEntry(e, lookup) <=> Names(e, lookup)
<1>1. e.patterns \in PatternLists
  BY DEF FileEntry, PatternLists
<1>2. CASE e.hashed = None
  BY <1>1, <1>2, PatternsMatch DEF HostMatchesEntry, Names
<1>3. CASE e.hashed # None
  BY <1>3 DEF HostMatchesEntry, Names
<1> QED
  BY <1>2, <1>3

\* known_hosts_verdict: the one pass over the file that stops at a revocation
\* answers what the file as a whole says of the key, in whatever order its lines
\* stand.
THEOREM VerdictIsTrust ==
  ASSUME NEW file \in Seq(FileEntry), NEW lookup \in Lookups, lookup # None, NEW key
  PROVE  /\ Verdict(file, lookup, key) = "Trusted" <=> IsTrusted(file, lookup, key)
         /\ Verdict(file, lookup, key) = "Revoked" <=> Says(file, "revoked", lookup, key)
<1> DEFINE N == Len(file)
           Values == {"NotTrusted", "Trusted", "Revoked"}
           turn(n, x) == Judge(x, file[n], lookup, key)
           Recurs(f) == f = [n \in 0..N |-> IF n = 0 THEN "NotTrusted" ELSE turn(n, f[n - 1])]
           verdict == CHOOSE f : Recurs(f)
           step == [n \in 1..N |-> [x \in Values |-> turn(n, x)]]
           says(n, marker) == file[n].marker = marker /\ file[n].key = key /\ Names(file[n], lookup)
<1>1. N \in Nat /\ DOMAIN file = 1..N
  OBVIOUS
<1>2. Verdict(file, lookup, key) = verdict[N]
  BY DEF Verdict
<1>3. Recurs(verdict)
  <2> HIDE DEF N
  <2>1. "NotTrusted" \in Values /\ step \in [1..N -> [Values -> Values]]
    BY DEF Judge
  <2> HIDE DEF turn, step, Values
  <2>2. PICK f : IsLoop(Values, "NotTrusted", N, step, f)
    BY <1>1, <2>1, LoopExists, Zenon
  <2>3. /\ f = [n \in 0..N |-> f[n]] /\ f[0] = "NotTrusted"
        /\ \A n \in 1..N : f[n] = step[n][f[n - 1]] /\ f[n - 1] \in Values
    BY <1>1, <2>2, LoopValues
  <2>4. \A n \in 1..N : f[n] = turn(n, f[n - 1])
    BY <2>3 DEF step
  <2>5. \A n \in 0..N : f[n] = IF n = 0 THEN "NotTrusted" ELSE turn(n, f[n - 1])
    BY <1>1, <2>3, <2>4
  <2>6. Recurs(f)
    BY <2>3, <2>5
  <2> HIDE DEF Recurs
  <2> QED
    BY <2>6
<1> HIDE DEF verdict
<1>4. verdict[0] = "NotTrusted" /\ \A n \in 0..N - 1 : verdict[n + 1] = turn(n + 1, verdict[n])
  <2> HIDE DEF N, turn
  <2>1. \A n \in 0..N : verdict[n] = IF n = 0 THEN "NotTrusted" ELSE turn(n, verdict[n - 1])
    BY <1>3
  <2>2. ASSUME NEW n \in 0..N - 1 PROVE verdict[n + 1] = turn(n + 1, verdict[n])
    <3> DEFINE k == n + 1
    <3>1. k \in 0..N /\ k # 0 /\ k - 1 = n
      BY <1>1
    <3> HIDE DEF k
    <3>2. verdict[k] = turn(k, verdict[n])
      BY <2>1, <3>1
    <3> QED
      BY <3>2 DEF k
  <2> QED
    BY <1>1, <2>1, <2>2
<1>5. ASSUME NEW n \in 1..N
      PROVE  /\ file[n].marker \in {"none", "revoked", "cert-authority", "bad"}
             /\ HostMatchesEntry(file[n], lookup) <=> Names(file[n], lookup)
  <2>1. file[n] \in FileEntry
    BY ElementOfSeq
  <2> QED
    BY <2>1, EntryIsAbout DEF FileEntry
<1> DEFINE Good(n) ==
             /\ verdict[n] \in Values
             /\ verdict[n] = "Revoked" <=> \E i \in 1..n : says(i, "revoked")
             /\ verdict[n] = "NotTrusted" <=> \A i \in 1..n : ~says(i, "revoked") /\ ~says(i, "none")
           S == {n \in 0..N : Good(n)}
<1>6. 0 \in S
  <2>1. Good(0)
    BY <1>4
  <2> QED
    BY <1>1, <2>1
<1>7. ASSUME NEW n \in 0..N - 1, n \in S PROVE n + 1 \in S
  <2> DEFINE k == n + 1
  <2>1. Good(n)
    BY <1>7
  <2>2. k \in 1..N /\ k \in 0..N
    BY <1>1
  <2>3. \A i : i \in 1..k <=> i \in 1..n \/ i = k
    BY <1>1
  <2>4. verdict[k] = turn(k, verdict[n])
    BY <1>4
  <2> HIDE DEF k
  <2>5. verdict[k] = IF verdict[n] = "Revoked" \/ ~(says(k, "none") \/ says(k, "revoked")) THEN verdict[n]
                     ELSE IF says(k, "revoked") THEN "Revoked" ELSE "Trusted"
    BY <1>5, <2>2, <2>4 DEF Judge
  <2>6. ~(says(k, "none") /\ says(k, "revoked"))
    OBVIOUS
  <2> HIDE DEF says
  <2>7. Good(k)
    <3>1. CASE verdict[n] = "Revoked" \/ ~(says(k, "none") \/ says(k, "revoked"))
      BY <2>1, <2>3, <2>5, <3>1
    <3>2. CASE verdict[n] # "Revoked" /\ says(k, "revoked")
      BY <2>1, <2>3, <2>5, <3>2
    <3>3. CASE verdict[n] # "Revoked" /\ says(k, "none") /\ ~says(k, "revoked")
      BY <2>1, <2>3, <2>5, <3>3
    <3> QED
      BY <3>1, <3>2, <3>3
  <2> HIDE DEF Good
  <2>8. k \in S
    BY <2>2, <2>7
  <2> QED
    BY <2>8 DEF k
<1>8. Good(N)
  <2> HIDE DEF S
  <2>1. 0..N \subseteq S
    BY <1>1, <1>6, <1>7, TurnInduction
  <2> QED
    BY <1>1, <2>1 DEF S
<1>9. \A marker : Says(file, marker, lookup, key) <=> \E i \in 1..N : says(i, marker)
  BY <1>1 DEF Says
<1> HIDE DEF says
<1> QED
  BY <1>2, <1>8, <1>9 DEF IsTrusted

-----------------------------------------------------------------------------
(* The policy, and what waits for it.                                      *)

\* A name in lower case put together of two is in lower case.
LEMMA ConcatIsLower ==
  ASSUME NEW a \in Lookups, NEW b \in Lookups
  PROVE  a \o b \in Lookups
<1>1. /\ a \in Seq(Chars) /\ \A j \in 1..Len(a) : LowerLetter(a[j]) = a[j]
      /\ b \in Seq(Chars) /\ \A j \in 1..Len(b) : LowerLetter(b[j]) = b[j]
  BY DEF Lookups
<1> DEFINE whole == a \o b
<1>2. /\ whole \in Seq(Chars) /\ Len(whole) = Len(a) + Len(b)
      /\ \A j \in 1..Len(a) + Len(b) : whole[j] = IF j <= Len(a) THEN a[j] ELSE b[j - Len(a)]
  BY <1>1, ConcatProperties
<1> HIDE DEF whole
<1>3. ASSUME NEW j \in 1..Len(whole) PROVE LowerLetter(whole[j]) = whole[j]
  <2>1. Len(a) \in Nat /\ Len(b) \in Nat
    BY <1>1
  <2>2. CASE j <= Len(a)
    BY <1>1, <1>2, <2>1, <2>2
  <2>3. CASE ~(j <= Len(a))
    <3>1. whole[j] = b[j - Len(a)] /\ j - Len(a) \in 1..Len(b)
      BY <1>2, <2>1, <2>3
    <3> QED
      BY <1>1, <3>1
  <2> QED
    BY <2>2, <2>3
<1>4. whole \in Lookups
  BY <1>2, <1>3 DEF Lookups
<1> QED
  BY <1>4 DEF whole

\* known_hosts_lookup_name: the letters of the name are in lower case, a port has
\* none.
LEMMA LookupNameIsLower ==
  ASSUME NEW host \in Seq(Chars), NEW port \in Chars \ {"A"}
  PROVE  LookupName(host, port) \in Lookups
<1> DEFINE name == CanonicalHost(host)
           before == <<"[">>
           after == <<"]", ":", port>>
<1>1. name \in Lookups
  <2>1. Len(host) \in Nat /\ DOMAIN host = 1..Len(host) /\ \A i \in 1..Len(host) : host[i] \in Chars
    OBVIOUS
  <2>2. \A i \in 1..Len(host) : LowerLetter(host[i]) \in Chars
    BY <2>1, ConstantsAssumption DEF LowerLetter
  <2>3. name \in [1..Len(host) -> Chars] /\ \A i \in 1..Len(host) : name[i] = LowerLetter(host[i])
    BY <2>1, <2>2 DEF CanonicalHost
  <2>4. name \in Seq(Chars) /\ Len(name) = Len(host)
    BY <2>1, <2>3
  <2> QED
    BY <2>3, <2>4 DEF LowerLetter, Lookups
<1>2. before \in Lookups /\ after \in Lookups
  <2>1. "[" \in Chars /\ "]" \in Chars /\ ":" \in Chars /\ port \in Chars
    BY ConstantsAssumption
  <2>2. before \in Seq(Chars) /\ Len(before) = 1 /\ before[1] = "["
    BY <2>1
  <2>3. after \in Seq(Chars) /\ Len(after) = 3 /\ after[1] = "]" /\ after[2] = ":" /\ after[3] = port
    BY <2>1
  <2> HIDE DEF before, after
  <2>4. \A j \in 1..1 : j = 1
    OBVIOUS
  <2>5. \A j \in 1..3 : j = 1 \/ j = 2 \/ j = 3
    OBVIOUS
  <2> QED
    BY <2>2, <2>3, <2>4, <2>5 DEF Lookups, LowerLetter
<1>3. (before \o name) \o after \in Lookups
  <2> HIDE DEF before, name, after
  <2>1. before \o name \in Lookups
    BY <1>1, <1>2, ConcatIsLower
  <2> QED
    BY <1>2, <2>1, ConcatIsLower
<1> QED
  BY <1>1, <1>3 DEF LookupName

\* check_server_key accepts a key exactly when the documentation of the policy
\* vouches for it: any, the one that is pinned, or one the file trusts.
THEOREM AcceptsWhatItVouchesFor ==
  ASSUME NEW policy \in Policies, NEW host \in Hosts, NEW port \in Ports,
         NEW cert \in BOOLEAN, NEW key \in Keys
  PROVE  Accepts(policy, host, port, cert, key) <=> VouchedFor(policy, host, port, cert, key)
<1> DEFINE lookup == LookupName(host, port)
<1>1. lookup \in Lookups /\ lookup # None /\ None \notin Keys
  <2>1. host \in Seq(Chars) /\ port \in Chars \ {"A"}
    BY ConstantsAssumption
  <2> QED
    BY <2>1, LookupNameIsLower, ConstantsAssumption
<1>2. CASE policy.kind = "AcceptAny"
  BY <1>2 DEF Accepts, VouchedFor
<1>3. CASE policy.kind = "Pinned"
  <2>1. policy.file = None
    BY <1>3 DEF Policies
  <2> QED
    BY <1>3, <2>1 DEF Accepts, VouchedFor
<1>4. CASE policy.kind = "KnownHosts"
  <2>1. policy.pin # key /\ policy.file \in Files \cup {None}
    BY <1>1, <1>4 DEF Policies
  <2>2. policy.file # None => policy.file \in Seq(FileEntry)
    BY <2>1, ConstantsAssumption
  <2>3. policy.file # None =>
          (Verdict(policy.file, lookup, key) = "Trusted" <=> IsTrusted(policy.file, lookup, key))
    BY <1>1, <2>2, VerdictIsTrust
  <2> HIDE DEF lookup
  <2>4. Accepts(policy, host, port, cert, key)
          <=> ~cert /\ policy.file # None /\ Verdict(policy.file, lookup, key) = "Trusted"
    BY <1>4 DEF Accepts, lookup
  <2>5. VouchedFor(policy, host, port, cert, key)
          <=> ~cert /\ policy.file # None /\ IsTrusted(policy.file, lookup, key)
    BY <1>4, <2>1 DEF VouchedFor, lookup
  <2> QED
    BY <2>3, <2>4, <2>5
<1> QED
  BY <1>2, <1>3, <1>4 DEF Policies

\* What the calls of connect hold about the host key: a key no policy vouches for
\* is never past its check, and before the check nothing is up or sent.
TrustInv ==
  /\ pc \in {"new", "connecting", "rejected", "failed", "authenticating", "opening", "requesting",
             "replying", "open", "session", "shutdown", "disconnecting", "closed"}
  /\ trusted \in BOOLEAN /\ sent_credentials \in BOOLEAN
  /\ pc \in {"new", "connecting"} => ~sent_credentials /\ up = {}
  /\ pc \in {"authenticating", "opening", "requesting", "replying", "open", "session", "shutdown",
             "disconnecting", "closed"} => trusted
  /\ pc = "rejected" => ~trusted /\ ~sent_credentials
  /\ pc \in {"rejected", "failed"} => up = {}
  /\ sent_credentials => trusted

\* Before connect nothing is up or sent.
LEMMA TrustInvInit == Init => TrustInv
  BY DEF Init, TrustInv

\* A key is judged once, and what comes after rests on its verdict (connect).
LEMMA TrustInvNext == TrustInv /\ [Next]_vars => TrustInv'
<1> SUFFICES ASSUME TrustInv, [Next]_vars PROVE TrustInv'
  OBVIOUS
<1> USE DEF TrustInv
<1>1. CASE ConnectRefused
  BY <1>1 DEF ConnectRefused, Fail
<1>2. CASE Connect
  BY <1>2 DEF Connect
<1>3. CASE CheckServerKey
  <2>1. PICK policy \in Policies, host \in Hosts, port \in Ports, cert \in BOOLEAN, key \in Keys :
          /\ trusted' = VouchedFor(policy, host, port, cert, key)
          /\ IF Accepts(policy, host, port, cert, key)
             THEN pc' = "authenticating" /\ up' = {"connection"}
             ELSE pc' = "rejected" /\ up' = {}
    BY <1>3 DEF CheckServerKey
  <2>2. trusted' <=> Accepts(policy, host, port, cert, key)
    BY <2>1, AcceptsWhatItVouchesFor
  <2>3. trusted' \in BOOLEAN
    BY <2>1 DEF VouchedFor
  <2>4. pc = "connecting" /\ sent_credentials' = FALSE
    BY <1>3 DEF CheckServerKey
  <2>5. CASE Accepts(policy, host, port, cert, key)
    <3>1. trusted' = TRUE /\ pc' = "authenticating" /\ up' = {"connection"}
      BY <2>1, <2>2, <2>3, <2>5
    <3> QED
      BY <2>4, <3>1
  <2>6. CASE ~Accepts(policy, host, port, cert, key)
    <3>1. trusted' = FALSE /\ pc' = "rejected" /\ up' = {}
      BY <2>1, <2>2, <2>3, <2>6
    <3> QED
      BY <2>4, <3>1
  <2> QED
    BY <2>5, <2>6
<1>4. CASE SendCredentials
  BY <1>4 DEF SendCredentials
<1>5. CASE Authenticated
  BY <1>5 DEF Authenticated
<1>6. CASE ChannelOpened
  BY <1>6 DEF ChannelOpened
<1>7. CASE Requested
  BY <1>7 DEF Requested
<1>8. CASE ConnectFails
  BY <1>8 DEF ConnectFails, Fail
<1>9. CASE DataBeforeReply
  BY <1>9 DEF DataBeforeReply, Fail
<1>10. ASSUME NEW kind, ReplyArrives(kind) PROVE TrustInv'
  BY <1>10 DEF ReplyArrives, Fail
<1>11. CASE CloseShell
  BY <1>11 DEF CloseShell
<1>12. ASSUME NEW ok, SessionClosed(ok) PROVE TrustInv'
  BY <1>12 DEF SessionClosed
<1>13. CASE Shutdown
  BY <1>13 DEF Shutdown
<1>14. CASE Disconnected
  BY <1>14 DEF Disconnected
<1>15. CASE DropClose
  BY <1>15 DEF DropClose
<1>16. CASE UNCHANGED client
  BY <1>16 DEF client
<1>17. (Skip \/ ReadPending \/ ReadData \/ ReadEnd \/ Server \/ UNCHANGED vars) => UNCHANGED client
  BY DEF Skip, ReadPending, ReadData, ReadEnd, Server, ServerWrites, ServerReplies, ServerSaysOther, vars
<1> QED
  BY <1>1, <1>2, <1>3, <1>4, <1>5, <1>6, <1>7, <1>8, <1>9, <1>10, <1>11, <1>12, <1>13, <1>14, <1>15,
     <1>16, <1>17 DEF Next, ConnectSteps

\* Credentials reach, and a connection stays up with, only a server whose host key
\* the policy vouches for, and no key it vouches for is rejected: for every file,
\* pattern, host and port.
THEOREM OnlyTrustedServers == Spec => []CredentialsOnlyToTrusted
<1>1. TrustInv => CredentialsOnlyToTrusted
  BY DEF TrustInv, CredentialsOnlyToTrusted
<1> QED
  BY <1>1, TrustInvInit, TrustInvNext, PTL DEF Spec

-----------------------------------------------------------------------------
(* The newlines and the lines of a stream.                                 *)

\* The newlines of a stream, found byte by byte.
IsEnds(stream, f) ==
  /\ f \in [0..Len(stream) -> Seq(1..Len(stream))] /\ f[0] = <<>>
  /\ \A n \in 1..Len(stream) : f[n] = IF stream[n] = "LF" THEN Append(f[n - 1], n) ELSE f[n - 1]

\* Every stream has its newlines.
LEMMA EndsExist ==
  ASSUME NEW stream \in Seq(Bytes)
  PROVE  \E f : IsEnds(stream, f) /\ Ends(stream) = f[Len(stream)]
<1> DEFINE N == Len(stream)
           Values == Seq(1..N)
           turn(n, x) == IF stream[n] = "LF" THEN Append(x, n) ELSE x
           value(n, f) == IF n = 0 THEN <<>> ELSE turn(n, f[n - 1])
           Recurs(f) == f = [n \in 0..N |-> value(n, f)]
           ends == CHOOSE f : Recurs(f)
           step == [n \in 1..N |-> [x \in Values |-> turn(n, x)]]
<1>1. N \in Nat
  OBVIOUS
<1>2. Ends(stream) = ends[N]
  BY DEF Ends
<1>3. \A f : /\ value(0, f) = <<>>
             /\ \A n \in 1..N : value(n, f) = turn(n, f[n - 1])
  BY <1>1
<1>4. \A n \in 1..N, x \in Values : turn(n, x) \in Values
  BY AppendProperties
<1>5. \E f : Recurs(f)
  <2> HIDE DEF N
  <2>1. <<>> \in Values
    OBVIOUS
  <2> HIDE DEF turn, Values, value
  <2>2. step \in [1..N -> [Values -> Values]]
    BY <1>4
  <2> HIDE DEF step
  <2>3. PICK f : IsLoop(Values, <<>>, N, step, f)
    BY <1>1, <2>1, <2>2, LoopExists, Zenon
  <2>4. /\ f = [n \in 0..N |-> f[n]] /\ f[0] = <<>>
        /\ \A n \in 1..N : f[n] = step[n][f[n - 1]] /\ f[n - 1] \in Values
    BY <1>1, <2>3, LoopValues
  <2>5. \A n \in 1..N : f[n] = turn(n, f[n - 1])
    BY <2>4 DEF step
  <2>6. \A n \in 0..N : f[n] = value(n, f)
    BY <1>1, <1>3, <2>4, <2>5
  <2> QED
    BY <2>4, <2>6
<1>6. Recurs(ends)
  <2> HIDE DEF Recurs
  <2> QED
    BY <1>5
<1> HIDE DEF ends
<1>7. /\ ends = [n \in 0..N |-> ends[n]] /\ ends[0] = <<>>
      /\ \A n \in 1..N : ends[n] = turn(n, ends[n - 1])
  <2> HIDE DEF N, turn, value
  <2>1. \A n \in 0..N : ends[n] = value(n, ends)
    BY <1>6
  <2>2. ends = [n \in 0..N |-> ends[n]]
    BY <1>6, <2>1
  <2> QED
    BY <1>1, <1>3, <2>1, <2>2
<1>8. \A n \in 0..N : ends[n] \in Values
  <2> DEFINE S == {n \in 0..N : ends[n] \in Values}
  <2>1. 0 \in S
    BY <1>1, <1>7
  <2>2. ASSUME NEW n \in 0..N - 1, n \in S PROVE n + 1 \in S
    <3> DEFINE k == n + 1
    <3>1. k \in 1..N /\ k \in 0..N /\ k - 1 = n
      BY <1>1
    <3> HIDE DEF k, turn, N
    <3>2. ends[k] = turn(k, ends[n])
      BY <1>7, <3>1
    <3>3. k \in S
      BY <1>4, <2>2, <3>1, <3>2
    <3> QED
      BY <3>3 DEF k
  <2>3. 0..N \subseteq S
    <3> HIDE DEF S
    <3> QED
      BY <1>1, <2>1, <2>2, TurnInduction
  <2> QED
    BY <2>3
<1>9. IsEnds(stream, ends)
  <2> HIDE DEF N
  <2>1. ends \in [0..N -> Values]
    BY <1>7, <1>8
  <2> QED
    BY <1>7, <2>1 DEF IsEnds, N
<1> QED
  BY <1>2, <1>9

\* The newlines of a stream stay where they are when a byte follows.
LEMMA EndsAppend ==
  ASSUME NEW stream \in Seq(Bytes), NEW b \in Bytes
  PROVE  /\ Ends(stream) \in Seq(1..Len(stream))
         /\ Ends(Append(stream, b)) =
              IF b = "LF" THEN Append(Ends(stream), Len(stream) + 1) ELSE Ends(stream)
<1> DEFINE N == Len(stream)
           longer == Append(stream, b)
           p == N + 1
<1>1. /\ N \in Nat /\ longer \in Seq(Bytes) /\ Len(longer) = p /\ longer[p] = b
      /\ p \in 1..p /\ p - 1 = N
      /\ \A i \in 1..N : longer[i] = stream[i]
  BY AppendProperties
<1> HIDE DEF longer
<1>2. PICK f : IsEnds(stream, f) /\ Ends(stream) = f[N]
  BY EndsExist
<1>3. PICK g : IsEnds(longer, g) /\ Ends(longer) = g[p]
  BY <1>1, EndsExist
<1>4. \A n \in 0..N : g[n] = f[n]
  <2> DEFINE S == {n \in 0..N : g[n] = f[n]}
  <2>1. 0 \in S
    BY <1>1, <1>2, <1>3 DEF IsEnds
  <2>2. ASSUME NEW n \in 0..N - 1, n \in S PROVE n + 1 \in S
    <3> DEFINE k == n + 1
    <3>1. k \in 1..N /\ k \in 1..p /\ k \in 0..N /\ k - 1 = n
      BY <1>1
    <3> HIDE DEF k, p, N
    <3>2. f[k] = IF stream[k] = "LF" THEN Append(f[n], k) ELSE f[n]
      BY <1>2, <3>1 DEF IsEnds, N
    <3>3. g[k] = IF longer[k] = "LF" THEN Append(g[n], k) ELSE g[n]
      BY <1>1, <1>3, <3>1 DEF IsEnds
    <3>4. k \in S
      BY <1>1, <2>2, <3>1, <3>2, <3>3
    <3> QED
      BY <3>4 DEF k
  <2>3. 0..N \subseteq S
    <3> HIDE DEF S, N
    <3> QED
      BY <1>1, <2>1, <2>2, TurnInduction
  <2> QED
    BY <2>3
<1>5. g[p] = IF b = "LF" THEN Append(g[N], p) ELSE g[N]
  <2> HIDE DEF p, N
  <2> QED
    BY <1>1, <1>3 DEF IsEnds
<1>6. Ends(stream) \in Seq(1..N) /\ g[N] = f[N]
  BY <1>1, <1>2, <1>4 DEF IsEnds
<1> QED
  BY <1>2, <1>3, <1>5, <1>6 DEF longer

\* A piece of a stream stays what it is when a byte follows, or grows by that byte.
LEMMA SubSeqAppend ==
  ASSUME NEW S, NEW stream \in Seq(S), NEW b \in S, NEW i \in 1..Len(stream) + 1
  PROVE  /\ \A j \in 0..Len(stream) : /\ SubSeq(stream, i, j) \in Seq(S)
                                      /\ SubSeq(Append(stream, b), i, j) = SubSeq(stream, i, j)
         /\ SubSeq(Append(stream, b), i, Len(stream) + 1) = Append(SubSeq(stream, i, Len(stream)), b)
<1> DEFINE N == Len(stream)
           longer == Append(stream, b)
           p == N + 1
<1>1. /\ N \in Nat /\ longer \in Seq(S) /\ Len(longer) = p /\ longer[p] = b /\ p = N + 1
      /\ \A k \in 1..N : longer[k] = stream[k] /\ stream[k] \in S
  BY AppendProperties
<1> HIDE DEF longer
<1>2. ASSUME NEW j \in 0..N
      PROVE  SubSeq(stream, i, j) \in Seq(S) /\ SubSeq(longer, i, j) = SubSeq(stream, i, j)
  <2> DEFINE s == SubSeq(stream, i, j)
             t == SubSeq(longer, i, j)
             l == IF i <= j THEN j - i + 1 ELSE 0
  <2>1. \A k \in i..j : k \in 1..N
    BY <1>1
  <2>2. s \in Seq(S) /\ Len(s) = l /\ \A k \in 1..j - i + 1 : s[k] = stream[i + k - 1]
    BY <1>1, <2>1, SubSeqProperties
  <2>3. t \in Seq(S) /\ Len(t) = l /\ \A k \in 1..j - i + 1 : t[k] = longer[i + k - 1]
    BY <1>1, <2>1, SubSeqProperties
  <2>4. \A k \in 1..l : k \in 1..j - i + 1 /\ i + k - 1 \in 1..N
    BY <1>1
  <2> HIDE DEF s, t, l
  <2>5. s = t
    BY <1>1, <2>2, <2>3, <2>4, SeqEqual
  <2> QED
    BY <2>2, <2>5 DEF s, t
<1>3. SubSeq(longer, i, p) = Append(SubSeq(stream, i, N), b)
  <2> DEFINE s == SubSeq(stream, i, N)
             t == SubSeq(longer, i, p)
             u == Append(s, b)
  <2>1. \A k \in i..p : k \in 1..p /\ longer[k] \in S
    BY <1>1
  <2>2. s \in Seq(S) /\ Len(s) = N - i + 1 /\ \A k \in 1..N - i + 1 : s[k] = stream[i + k - 1]
    <3>1. \A k \in i..N : k \in 1..N
      BY <1>1
    <3> QED
      BY <1>1, <3>1, SubSeqProperties
  <2>3. t \in Seq(S) /\ Len(t) = p - i + 1 /\ \A k \in 1..p - i + 1 : t[k] = longer[i + k - 1]
    BY <1>1, <2>1, SubSeqProperties
  <2> HIDE DEF s, t
  <2>4. /\ u \in Seq(S) /\ Len(u) = N - i + 2 /\ u[N - i + 2] = b
        /\ \A k \in 1..N - i + 1 : u[k] = s[k]
    <3>1. u \in Seq(S) /\ Len(u) = Len(s) + 1 /\ u[Len(s) + 1] = b /\ \A k \in 1..Len(s) : u[k] = s[k]
      BY <2>2, AppendProperties
    <3>2. Len(s) + 1 = N - i + 2
      BY <1>1, <2>2
    <3> QED
      BY <2>2, <3>1, <3>2
  <2> HIDE DEF u
  <2>5. ASSUME NEW k \in 1..p - i + 1 PROVE t[k] = u[k]
    <3>1. CASE k = N - i + 2
      <4>1. i + k - 1 = p
        BY <1>1, <3>1
      <4> QED
        BY <1>1, <2>3, <2>4, <3>1, <4>1
    <3>2. CASE k # N - i + 2
      <4>1. k \in 1..N - i + 1 /\ i + k - 1 \in 1..N
        BY <1>1, <3>2
      <4> QED
        BY <1>1, <2>2, <2>3, <2>4, <4>1
    <3> QED
      BY <3>1, <3>2
  <2>6. Len(t) = Len(u)
    BY <1>1, <2>3, <2>4
  <2>7. t = u
    BY <2>3, <2>4, <2>5, <2>6, SeqEqual
  <2> QED
    BY <2>7 DEF t, u, s
<1> QED
  BY <1>2, <1>3 DEF longer

\* A newline ends the last line and begins an empty one; any other byte is added to
\* the last line.
LEMMA RawsAppend ==
  ASSUME NEW stream \in Seq(Bytes), NEW b \in Bytes
  PROVE  LET r == Raws(stream)
             q == Raws(Append(stream, b))
         IN  /\ r \in Seq(Seq(Bytes)) /\ q \in Seq(Seq(Bytes)) /\ Len(r) \in Nat \ {0}
             /\ \A k \in 1..Len(r) - 1 : q[k] = r[k]
             /\ b = "LF" => Len(q) = Len(r) + 1 /\ q[Len(r)] = r[Len(r)] /\ q[Len(r) + 1] = <<>>
             /\ b # "LF" => Len(q) = Len(r) /\ q[Len(r)] = Append(r[Len(r)], b)
<1> DEFINE N == Len(stream)
           longer == Append(stream, b)
           ends == Ends(stream)
           more == Ends(longer)
           E == Len(ends)
           from(e, k) == IF k = 1 THEN 1 ELSE e[k - 1] + 1
           upto(s, e, k) == IF k \in DOMAIN e THEN e[k] - 1 ELSE Len(s)
           piece(k) == SubSeq(stream, from(ends, k), upto(stream, ends, k))
           grown(k) == SubSeq(longer, from(more, k), upto(longer, more, k))
           r == Raws(stream)
           q == Raws(longer)
<1>1. /\ N \in Nat /\ longer \in Seq(Bytes) /\ Len(longer) = N + 1
  BY AppendProperties
<1>2. ends \in Seq(1..N) /\ more = IF b = "LF" THEN Append(ends, N + 1) ELSE ends
  BY EndsAppend
<1>3. r = [k \in 1..E + 1 |-> piece(k)]
  BY DEF Raws
<1>4. q = [k \in 1..Len(more) + 1 |-> grown(k)]
  BY DEF Raws
<1>5. E \in Nat /\ DOMAIN ends = 1..E /\ \A k \in 1..E : ends[k] \in 1..N
  BY <1>2
<1> HIDE DEF r, q, ends, more, longer, N
<1>6. ASSUME NEW k \in 1..E + 1 PROVE from(ends, k) \in 1..N + 1 /\ upto(stream, ends, k) \in 0..N
  <2>1. CASE k = 1
    BY <1>1, <1>5, <2>1 DEF N
  <2>2. CASE k # 1
    <3>1. k - 1 \in 1..E
      BY <1>5, <2>2
    <3>2. ends[k - 1] \in 1..N
      BY <1>5, <3>1
    <3>3. from(ends, k) \in 1..N + 1
      BY <1>1, <2>2, <3>2
    <3> QED
      BY <1>1, <1>5, <3>3 DEF N
  <2> QED
    BY <2>1, <2>2
<1>7. \A k \in 1..E + 1 : r[k] \in Seq(Bytes)
  BY <1>3, <1>6, SubSeqAppend DEF N
<1>8. r \in Seq(Seq(Bytes)) /\ Len(r) = E + 1
  <2>1. E + 1 \in Nat /\ r = [k \in 1..E + 1 |-> r[k]]
    <3> HIDE DEF piece
    <3> QED
      BY <1>3, <1>5
  <2> HIDE DEF E
  <2> QED
    BY <1>7, <2>1
<1> DEFINE Claim ==
             /\ q \in Seq(Seq(Bytes))
             /\ \A k \in 1..Len(r) - 1 : q[k] = r[k]
             /\ b = "LF" => Len(q) = Len(r) + 1 /\ q[Len(r)] = r[Len(r)] /\ q[Len(r) + 1] = <<>>
             /\ b # "LF" => Len(q) = Len(r) /\ q[Len(r)] = Append(r[Len(r)], b)
<1>9. ASSUME b = "LF" PROVE Claim
  <2>1. /\ more \in Seq(Int) /\ Len(more) = E + 1 /\ more[E + 1] = N + 1
        /\ \A k \in 1..E : more[k] = ends[k]
    <3>1. ends \in Seq(Int) /\ N + 1 \in Int
      BY <1>1, <1>2, SeqMonotonic
    <3> QED
      BY <1>2, <1>9, <3>1, AppendProperties
  <2>2. DOMAIN more = 1..E + 1
    BY <2>1
  <2>3. ASSUME NEW k \in 1..E + 1
        PROVE  from(more, k) = from(ends, k) /\ upto(longer, more, k) = upto(stream, ends, k)
    <3>1. k # 1 => k - 1 \in 1..E
      BY <1>5
    <3>2. from(more, k) = from(ends, k)
      BY <2>1, <3>1
    <3>3. CASE k = E + 1
      BY <1>1, <1>5, <2>1, <2>2, <3>2, <3>3 DEF N
    <3>4. CASE k # E + 1
      <4>1. k \in 1..E
        BY <1>5, <3>4
      <4> QED
        BY <1>5, <2>1, <2>2, <3>2, <4>1
    <3> QED
      BY <3>3, <3>4
  <2> DEFINE last == E + 2
  <2>4. from(more, last) = N + 2 /\ upto(longer, more, last) = N + 1
    <3>1. last # 1 /\ last - 1 = E + 1 /\ last \notin 1..E + 1
      BY <1>5
    <3> HIDE DEF last
    <3> QED
      BY <1>1, <2>1, <2>2, <3>1
  <2>5. q = [k \in 1..last |-> grown(k)]
    <3>1. Len(more) + 1 = last
      BY <1>5, <2>1
    <3> QED
      BY <1>4, <3>1
  <2>6. ASSUME NEW k \in 1..E + 1 PROVE q[k] = r[k]
    <3>1. k \in 1..last
      BY <1>5
    <3>2. q[k] = SubSeq(longer, from(ends, k), upto(stream, ends, k))
      <4>1. q[k] = grown(k)
        <5> HIDE DEF grown, last
        <5> QED
          BY <2>5, <3>1
      <4> QED
        BY <2>3, <4>1
    <3>3. r[k] = SubSeq(stream, from(ends, k), upto(stream, ends, k))
      BY <1>3
    <3> HIDE DEF from, upto
    <3> QED
      BY <1>6, <3>2, <3>3, SubSeqAppend, SMTT(30) DEF longer, N
  <2>7. q[last] = <<>>
    <3>1. q[last] = SubSeq(longer, N + 2, N + 1)
      <4>1. last \in 1..last
        BY <1>5
      <4>2. q[last] = grown(last)
        <5> HIDE DEF grown, last
        <5> QED
          BY <2>5, <4>1
      <4> QED
        BY <2>4, <4>2
    <3> QED
      BY <1>1, <3>1, SubSeqEmpty
  <2>8. q \in Seq(Seq(Bytes)) /\ Len(q) = last
    <3>1. \A k \in 1..last : q[k] \in Seq(Bytes)
      <4>1. \A k \in 1..last : k \in 1..E + 1 \/ k = last
        BY <1>5
      <4>2. <<>> \in Seq(Bytes)
        OBVIOUS
      <4> HIDE DEF last, E
      <4> QED
        BY <1>7, <2>6, <2>7, <4>1, <4>2
    <3>2. last \in Nat /\ q = [k \in 1..last |-> q[k]]
      <4>1. last \in Nat
        BY <1>5
      <4> HIDE DEF last, grown
      <4> QED
        BY <2>5, <4>1
    <3> HIDE DEF last
    <3> QED
      BY <3>1, <3>2
  <2>9. Len(r) - 1 = E /\ Len(r) + 1 = last /\ E + 1 \in 1..E + 1 /\ \A k \in 1..E : k \in 1..E + 1
    BY <1>5, <1>8
  <2> HIDE DEF last
  <2>10. Claim
    BY <1>8, <1>9, <2>6, <2>7, <2>8, <2>9
  <2> QED
    BY <2>10
<1>10. ASSUME b # "LF" PROVE Claim
  <2>1. more = ends
    BY <1>2, <1>10
  <2>2. q = [k \in 1..E + 1 |-> SubSeq(longer, from(ends, k), upto(longer, ends, k))]
    BY <1>4, <2>1
  <2>3. ASSUME NEW k \in 1..E PROVE q[k] = r[k]
    <3>1. k \in 1..E + 1
      BY <1>5
    <3>2. upto(longer, ends, k) = upto(stream, ends, k)
      BY <1>5
    <3>3. q[k] = SubSeq(longer, from(ends, k), upto(stream, ends, k))
      BY <2>2, <3>1, <3>2
    <3>4. r[k] = SubSeq(stream, from(ends, k), upto(stream, ends, k))
      BY <1>3, <3>1
    <3>5. from(ends, k) \in 1..N + 1 /\ upto(stream, ends, k) \in 0..N
      BY <1>6, <3>1
    <3>6. \A i \in 1..N + 1, j \in 0..N : SubSeq(longer, i, j) = SubSeq(stream, i, j)
      BY SubSeqAppend DEF longer, N
    <3> HIDE DEF from, upto
    <3> QED
      BY <3>3, <3>4, <3>5, <3>6
  <2> DEFINE last == E + 1
  <2>4. last \in 1..E + 1 /\ last \notin 1..E
    BY <1>5
  <2>5. q[last] = Append(r[last], b)
    <3>1. upto(longer, ends, last) = N + 1 /\ upto(stream, ends, last) = N
      BY <1>1, <1>5, <2>4 DEF N
    <3>2. q[last] = SubSeq(longer, from(ends, last), N + 1)
      BY <2>2, <2>4, <3>1
    <3>3. r[last] = SubSeq(stream, from(ends, last), N)
      BY <1>3, <2>4, <3>1
    <3>4. from(ends, last) \in 1..N + 1
      BY <1>6, <2>4
    <3> HIDE DEF from, upto, last
    <3> QED
      BY <3>2, <3>3, <3>4, SubSeqAppend DEF longer, N
  <2>6. q \in Seq(Seq(Bytes)) /\ Len(q) = last
    <3>1. r[last] \in Seq(Bytes)
      BY <1>7, <2>4
    <3>2. q[last] \in Seq(Bytes)
      BY <2>5, <3>1, AppendProperties
    <3>3. \A k \in 1..last : k \in 1..E \/ k = last
      BY <1>5
    <3>4. \A k \in 1..last : q[k] \in Seq(Bytes)
      BY <1>5, <1>7, <2>3, <3>2, <3>3
    <3>5. last \in Nat /\ q = [k \in 1..last |-> q[k]]
      <4>1. last \in Nat
        BY <1>5
      <4> HIDE DEF from, upto
      <4> QED
        BY <2>2, <4>1
    <3> HIDE DEF last
    <3> QED
      BY <3>4, <3>5
  <2>7. Len(r) - 1 = E /\ Len(r) = last
    BY <1>5, <1>8
  <2> HIDE DEF last
  <2>8. Claim
    BY <1>10, <2>3, <2>5, <2>6, <2>7
  <2> QED
    BY <2>8
<1>11. Claim /\ Len(r) \in Nat \ {0}
  <2>1. Len(r) \in Nat \ {0}
    BY <1>5, <1>8
  <2> QED
    BY <1>9, <1>10, <2>1
<1> QED
  BY <1>8, <1>11 DEF r, q, longer

-----------------------------------------------------------------------------
(* The line splitter.                                                      *)

\* What a splitter holds.
Splitters ==
  [buf : Seq(Bytes), seen_first_line : BOOLEAN, lines : Seq(Seq(Bytes)), failed : BOOLEAN]

\* What finish_line refuses.
Bad(raw) == Len(raw) > MaxLine \/ ~IsText(WithoutCR(raw))

\* What finish_line makes of the k-th line of a stream.
Line(raws, k) == IF k = 1 THEN WithoutMark(WithoutCR(raws[k])) ELSE WithoutCR(raws[k])

\* The good lines before the first bad one.
GoodLines(raws) == {k \in 1..Len(raws) - 1 : \A j \in 1..k : ~Bad(raws[j])}

\* The loop of push over the bytes of a stream: it has failed exactly if a whole
\* line is bad, it has returned the lines before the first such one, and it holds
\* the line that has begun.
SplitSoFar(s, stream) ==
  /\ s \in Splitters
  /\ s.failed <=> \E k \in 1..Len(Raws(stream)) - 1 : Bad(Raws(stream)[k])
  /\ s.lines = LinesOf(stream)
  /\ ~s.failed =>
       /\ s.buf = Raws(stream)[Len(Raws(stream))]
       /\ s.seen_first_line <=> Len(Raws(stream)) > 1

\* The end of a line, and a mark before it, leave bytes.
LEMMA LineType ==
  ASSUME NEW raw \in Seq(Bytes)
  PROVE  WithoutCR(raw) \in Seq(Bytes) /\ WithoutMark(raw) \in Seq(Bytes)
<1>1. Len(raw) \in Nat /\ \A i \in 1..Len(raw) : raw[i] \in Bytes
  OBVIOUS
<1>2. \A i \in 1..Len(raw) - 1 : raw[i] \in Bytes
  BY <1>1
<1>3. \A i \in 3..Len(raw) : raw[i] \in Bytes
  BY <1>1
<1>4. SubSeq(raw, 1, Len(raw) - 1) \in Seq(Bytes) /\ SubSeq(raw, 3, Len(raw)) \in Seq(Bytes)
  <2>1. SubSeq(raw, 1, Len(raw) - 1) \in Seq(Bytes)
    BY <1>1, <1>2, SubSeqProperties
  <2>2. SubSeq(raw, 3, Len(raw)) \in Seq(Bytes)
    BY <1>1, <1>3, SubSeqProperties
  <2> QED
    BY <2>1, <2>2
<1> QED
  BY <1>4 DEF WithoutCR, WithoutMark, Front

\* The lines of a stream depend on its whole lines only.
LEMMA LinesAreGood ==
  ASSUME NEW stream \in Seq(Bytes)
  PROVE  /\ LinesOf(stream) = [k \in GoodLines(Raws(stream)) |-> Line(Raws(stream), k)]
         /\ IsRefused(stream) <=>
              \/ \E k \in 1..Len(Raws(stream)) - 1 : Bad(Raws(stream)[k])
              \/ Len(Raws(stream)[Len(Raws(stream))]) > MaxLine
<1> DEFINE r == Raws(stream)
           good == {k \in 1..Len(r) - 1 : \A j \in 1..k : ~Refused(r, j)}
<1>1. "x" \in Bytes
  BY DEF Bytes
<1>2. r \in Seq(Seq(Bytes)) /\ Len(r) \in Nat \ {0}
  BY <1>1, RawsAppend
<1>3. LinesOf(stream) = [k \in good |-> Line(r, k)]
  BY DEF LinesOf, Line
<1>4. IsRefused(stream) <=> \E k \in DOMAIN r : Refused(r, k)
  BY DEF IsRefused
<1> HIDE DEF r
<1>5. \A k \in 1..Len(r) - 1 : Refused(r, k) <=> Bad(r[k])
  BY <1>2 DEF Refused, Bad
<1>6. \A k \in 1..Len(r) - 1 : \A j \in 1..k : j \in 1..Len(r) - 1
  BY <1>2
<1>7. good = GoodLines(r)
  BY <1>5, <1>6 DEF GoodLines
<1>8. Refused(r, Len(r)) <=> Len(r[Len(r)]) > MaxLine
  BY <1>2 DEF Refused
<1>9. DOMAIN r = 1..Len(r) /\ \A k \in 1..Len(r) : k \in 1..Len(r) - 1 \/ k = Len(r)
  BY <1>2
<1>10. Len(r) \in 1..Len(r) /\ \A k \in 1..Len(r) - 1 : k \in 1..Len(r)
  BY <1>2
<1> QED
  BY <1>3, <1>4, <1>5, <1>7, <1>8, <1>9, <1>10 DEF r

\* A byte of the stream keeps what the loop holds of it.
LEMMA TakeByteKeeps ==
  ASSUME NEW stream \in Seq(Bytes), NEW b \in Bytes, NEW s, SplitSoFar(s, stream)
  PROVE  SplitSoFar(TakeByte(s, b), Append(stream, b))
<1> DEFINE longer == Append(stream, b)
           r == Raws(stream)
           q == Raws(longer)
           L == Len(r)
           t == TakeByte(s, b)
<1>1. longer \in Seq(Bytes)
  BY AppendProperties
<1>2. /\ r \in Seq(Seq(Bytes)) /\ q \in Seq(Seq(Bytes)) /\ L \in Nat \ {0}
      /\ \A k \in 1..L - 1 : q[k] = r[k]
      /\ b = "LF" => Len(q) = L + 1 /\ q[L] = r[L] /\ q[L + 1] = <<>>
      /\ b # "LF" => Len(q) = L /\ q[L] = Append(r[L], b)
  BY RawsAppend
<1>3. LinesOf(stream) = [k \in GoodLines(r) |-> Line(r, k)] /\ LinesOf(longer) = [k \in GoodLines(q) |-> Line(q, k)]
  BY <1>1, LinesAreGood
<1>4. /\ s \in Splitters
      /\ s.failed <=> \E k \in 1..L - 1 : Bad(r[k])
      /\ s.lines = LinesOf(stream)
      /\ ~s.failed => s.buf = r[L] /\ (s.seen_first_line <=> L > 1)
  BY DEF SplitSoFar
<1> DEFINE Claim ==
             /\ t \in Splitters
             /\ t.failed <=> \E k \in 1..Len(q) - 1 : Bad(q[k])
             /\ t.lines = LinesOf(longer)
             /\ ~t.failed => t.buf = q[Len(q)] /\ (t.seen_first_line <=> Len(q) > 1)
<1>5. SUFFICES Claim
  BY DEF SplitSoFar
<1> HIDE DEF longer, r, q
<1>6. \A k \in 1..L - 1 : (Bad(q[k]) <=> Bad(r[k])) /\ Line(q, k) = Line(r, k)
  BY <1>2 DEF Line
<1>7. ASSUME GoodLines(q) = GoodLines(r) PROVE LinesOf(longer) = LinesOf(stream)
  <2>1. \A k \in GoodLines(r) : k \in 1..L - 1
    BY DEF GoodLines
  <2> QED
    BY <1>3, <1>6, <1>7, <2>1
<1>8. ASSUME b # "LF" PROVE Claim
  <2>1. Len(q) = L /\ q[L] = Append(r[L], b) /\ r[L] \in Seq(Bytes)
    BY <1>2, <1>8
  <2>2. GoodLines(q) = GoodLines(r)
    <3>1. \A k \in 1..L - 1 : \A j \in 1..k : j \in 1..L - 1
      BY <1>2
    <3> QED
      BY <1>6, <2>1, <3>1 DEF GoodLines
  <2>3. LinesOf(longer) = LinesOf(stream)
    BY <1>7, <2>2
  <2>4. (\E k \in 1..Len(q) - 1 : Bad(q[k])) <=> (\E k \in 1..L - 1 : Bad(r[k]))
    BY <1>6, <2>1
  <2>5. CASE s.failed
    <3>1. t = s
      BY <1>8, <2>5 DEF TakeByte
    <3> HIDE DEF t
    <3> QED
      BY <1>4, <2>3, <2>4, <2>5, <3>1
  <2>6. CASE ~s.failed
    <3>1. t = [s EXCEPT !.buf = Append(@, b)]
      BY <1>8, <2>6 DEF TakeByte
    <3>2. /\ t = [buf |-> Append(s.buf, b), seen_first_line |-> s.seen_first_line,
                  lines |-> s.lines, failed |-> s.failed]
      <4> HIDE DEF t
      <4> QED
        BY <1>4, <3>1 DEF Splitters
    <3>3. s.buf = r[L] /\ Append(s.buf, b) \in Seq(Bytes)
      BY <1>4, <2>1, <2>6, AppendProperties
    <3> HIDE DEF t
    <3>4. t \in Splitters
      BY <1>4, <3>2, <3>3 DEF Splitters
    <3>5. t.buf = Append(s.buf, b) /\ t.seen_first_line = s.seen_first_line
          /\ t.lines = s.lines /\ t.failed = s.failed
      BY <3>2
    <3> QED
      BY <1>4, <2>1, <2>3, <2>4, <2>6, <3>3, <3>4, <3>5
  <2> QED
    BY <2>5, <2>6
<1>9. ASSUME b = "LF", s.failed PROVE Claim
  <2>1. t = s
    BY <1>9 DEF TakeByte
  <2>2. PICK m \in 1..L - 1 : Bad(r[m])
    BY <1>4, <1>9
  <2>3. Len(q) - 1 = L /\ m \in 1..L /\ Bad(q[m])
    BY <1>2, <1>6, <1>9, <2>2
  <2>4. GoodLines(q) = GoodLines(r)
    <3>1. \A k \in 1..L - 1 : k \in 1..L
      BY <1>2
    <3>0. \A k \in 1..L - 1 : \A j \in 1..k : j \in 1..L - 1
      BY <1>2
    <3>2. \A k \in 1..L : k \in 1..L - 1 \/ m \in 1..k
      BY <1>2, <2>3
    <3> QED
      BY <1>6, <2>3, <3>0, <3>1, <3>2 DEF GoodLines
  <2>5. LinesOf(longer) = LinesOf(stream)
    BY <1>7, <2>4
  <2> HIDE DEF t
  <2> QED
    BY <1>4, <1>9, <2>1, <2>3, <2>5
<1>10. ASSUME b = "LF", ~s.failed, Bad(r[L]) PROVE Claim
  <2>1. s.buf = r[L] /\ Len(q) - 1 = L /\ L \in 1..L /\ Bad(q[L])
    BY <1>2, <1>4, <1>10
  <2>2. t = [s EXCEPT !.failed = TRUE]
    BY <1>10, <2>1 DEF TakeByte, FinishLine, Bad
  <2>3. /\ t = [buf |-> s.buf, seen_first_line |-> s.seen_first_line,
                lines |-> s.lines, failed |-> TRUE]
    <3> HIDE DEF t
    <3> QED
      BY <1>4, <2>2 DEF Splitters
  <2> HIDE DEF t
  <2>4. t \in Splitters /\ t.failed = TRUE /\ t.lines = s.lines
    BY <1>4, <2>3 DEF Splitters
  <2>5. GoodLines(q) = GoodLines(r)
    <3>1. \A k \in 1..L - 1 : k \in 1..L
      BY <1>2
    <3>0. \A k \in 1..L - 1 : \A j \in 1..k : j \in 1..L - 1
      BY <1>2
    <3>2. \A k \in 1..L : k \in 1..L - 1 \/ L \in 1..k
      BY <1>2
    <3> QED
      BY <1>6, <2>1, <3>0, <3>1, <3>2 DEF GoodLines
  <2>6. LinesOf(longer) = LinesOf(stream)
    BY <1>7, <2>5
  <2> QED
    BY <1>4, <2>1, <2>4, <2>6
<1>11. ASSUME b = "LF", ~s.failed, ~Bad(r[L]) PROVE Claim
  <2> DEFINE line == WithoutCR(s.buf)
             x == IF s.seen_first_line THEN line ELSE WithoutMark(line)
  <2>1. /\ s.buf = r[L] /\ (s.seen_first_line <=> L > 1)
        /\ Len(q) = L + 1 /\ q[L] = r[L] /\ q[L + 1] = <<>>
    BY <1>2, <1>4, <1>11
  <2>2. t = [s EXCEPT !.buf = <<>>, !.seen_first_line = TRUE, !.lines = Append(@, x)]
    BY <1>11, <2>1 DEF TakeByte, FinishLine, Bad
  <2>3. x \in Seq(Bytes) /\ x = Line(q, L)
    <3>1. s.buf \in Seq(Bytes)
      BY <1>2, <2>1
    <3>2. line \in Seq(Bytes) /\ WithoutMark(line) \in Seq(Bytes)
      BY <3>1, LineType
    <3>3. L = 1 <=> ~s.seen_first_line
      <4>0. L \in Nat \ {0}
        BY <1>2
      <4>1. L = 1 <=> ~(L > 1)
        <5> HIDE DEF L
        <5> QED
          BY ONLY <4>0
      <4> HIDE DEF L
      <4> QED
        BY <2>1, <4>1
    <3> QED
      BY <2>1, <3>2, <3>3 DEF Line
  <2> HIDE DEF x
  <2>4. /\ t = [buf |-> <<>>, seen_first_line |-> TRUE, lines |-> Append(s.lines, x), failed |-> s.failed]
    <3> HIDE DEF t
    <3> QED
      BY <1>4, <2>2 DEF Splitters
  <2> HIDE DEF t
  <2>5. \A k \in 1..L : ~Bad(q[k])
    <3>1. \A k \in 1..L : k \in 1..L - 1 \/ k = L
      BY <1>2
    <3> QED
      BY <1>4, <1>6, <1>11, <2>1, <3>1
  <2>6. GoodLines(r) = 1..L - 1 /\ GoodLines(q) = 1..L
    <3>1. \A k \in 1..L - 1 : \A j \in 1..k : j \in 1..L - 1
      BY <1>2
    <3>2. \A k \in 1..L : \A j \in 1..k : j \in 1..L
      BY <1>2
    <3>3. Len(q) - 1 = L
      BY <1>2, <2>1
    <3> QED
      BY <1>4, <1>11, <2>5, <3>1, <3>2, <3>3 DEF GoodLines
  <2>7. s.lines \in Seq(Seq(Bytes)) /\ s.lines = [k \in 1..L - 1 |-> Line(r, k)]
    BY <1>3, <1>4, <2>6 DEF Splitters
  <2>8. Len(s.lines) = L - 1
    <3>1. DOMAIN s.lines = 1..Len(s.lines) /\ Len(s.lines) \in Nat
      BY <2>7, LenProperties
    <3>2. L - 1 \in Nat
      BY <1>2
    <3>3. DOMAIN s.lines = 1..L - 1
      <4> HIDE DEF L
      <4> QED
        BY <2>7
    <3> HIDE DEF L
    <3> QED
      BY <3>1, <3>2, <3>3
  <2> DEFINE lines == Append(s.lines, x)
  <2>9. /\ lines \in Seq(Seq(Bytes)) /\ Len(lines) = L /\ lines[L] = x
        /\ \A k \in 1..L - 1 : lines[k] = s.lines[k]
    <3>1. /\ lines \in Seq(Seq(Bytes)) /\ Len(lines) = Len(s.lines) + 1 /\ lines[Len(s.lines) + 1] = x
          /\ \A k \in 1..Len(s.lines) : lines[k] = s.lines[k]
      <4>1. x \in Seq(Bytes) /\ s.lines \in Seq(Seq(Bytes))
        BY <2>3, <2>7
      <4> HIDE DEF L
      <4> QED
        BY ONLY <4>1, AppendProperties DEF lines
    <3>2. Len(s.lines) + 1 = L
      BY <1>2, <2>8
    <3> QED
      BY <2>8, <3>1, <3>2
  <2> HIDE DEF lines
  <2>10. lines = LinesOf(longer)
    <3>1. LinesOf(longer) = [k \in 1..L |-> Line(q, k)]
      BY <1>3, <2>6
    <3>2. \A k \in 1..L : lines[k] = Line(q, k)
      <4>1. \A k \in 1..L : k \in 1..L - 1 \/ k = L
        BY <1>2
      <4>2. \A k \in 1..L - 1 : lines[k] = Line(q, k)
        BY <1>6, <2>7, <2>9
      <4> QED
        BY <2>3, <2>9, <4>1, <4>2
    <3>3. lines = [k \in 1..L |-> lines[k]]
      BY <2>9
    <3> QED
      BY <3>1, <3>2, <3>3
  <2>11. t \in Splitters
    <3>1. s.failed \in BOOLEAN /\ <<>> \in Seq(Bytes)
      BY <1>4 DEF Splitters
    <3> QED
      BY <2>4, <2>9, <3>1 DEF Splitters, lines
  <2>12. t.buf = <<>> /\ t.seen_first_line = TRUE /\ t.lines = lines /\ t.failed = s.failed
    BY <2>4 DEF lines
  <2>13. Len(q) > 1 /\ Len(q) - 1 = L
    BY <1>2, <2>1
  <2> QED
    BY <1>11, <2>1, <2>5, <2>10, <2>11, <2>12, <2>13
<1> QED
  BY <1>8, <1>9, <1>10, <1>11

\* A byte leaves a splitter.
LEMMA TakeByteType ==
  ASSUME NEW s \in Splitters, NEW b \in Bytes
  PROVE  TakeByte(s, b) \in Splitters
<1> DEFINE t == TakeByte(s, b)
           line == WithoutCR(s.buf)
           x == IF s.seen_first_line THEN line ELSE WithoutMark(line)
<1>1. /\ s.buf \in Seq(Bytes) /\ s.lines \in Seq(Seq(Bytes))
      /\ s.seen_first_line \in BOOLEAN /\ s.failed \in BOOLEAN
      /\ s = [buf |-> s.buf, seen_first_line |-> s.seen_first_line, lines |-> s.lines, failed |-> s.failed]
  BY DEF Splitters
<1>2. x \in Seq(Bytes) /\ <<>> \in Seq(Bytes)
  BY <1>1, LineType
<1>3. Append(s.buf, b) \in Seq(Bytes) /\ Append(s.lines, x) \in Seq(Seq(Bytes))
  <2> HIDE DEF x
  <2> QED
    BY <1>1, <1>2, AppendProperties
<1>4. \/ t = s
      \/ t = [s EXCEPT !.buf = Append(@, b)]
      \/ t = [s EXCEPT !.failed = TRUE]
      \/ t = [s EXCEPT !.buf = <<>>, !.seen_first_line = TRUE, !.lines = Append(@, x)]
  BY <1>1 DEF TakeByte, FinishLine
<1> HIDE DEF x, t
<1>5. t \in [buf : {s.buf, <<>>, Append(s.buf, b)}, seen_first_line : BOOLEAN,
             lines : {s.lines, Append(s.lines, x)}, failed : BOOLEAN]
  <2> DEFINE r == [buf |-> s.buf, seen_first_line |-> s.seen_first_line, lines |-> s.lines,
                   failed |-> s.failed]
             longer == Append(s.buf, b)
             more == Append(s.lines, x)
  <2>1. \/ t = r
        \/ t = [r EXCEPT !.buf = longer]
        \/ t = [r EXCEPT !.failed = TRUE]
        \/ t = [r EXCEPT !.buf = <<>>, !.seen_first_line = TRUE, !.lines = more]
    BY <1>1, <1>4
  <2> HIDE DEF longer, more
  <2>2. \/ t = r
        \/ t = [buf |-> longer, seen_first_line |-> s.seen_first_line, lines |-> s.lines, failed |-> s.failed]
        \/ t = [buf |-> s.buf, seen_first_line |-> s.seen_first_line, lines |-> s.lines, failed |-> TRUE]
        \/ t = [buf |-> <<>>, seen_first_line |-> TRUE, lines |-> more, failed |-> s.failed]
    BY <2>1
  <2>3. t \in [buf : {s.buf, <<>>, longer}, seen_first_line : BOOLEAN,
               lines : {s.lines, more}, failed : BOOLEAN]
    <3>1. \A buf \in {s.buf, <<>>, longer}, seen \in BOOLEAN, lines \in {s.lines, more}, failed \in BOOLEAN :
             [buf |-> buf, seen_first_line |-> seen, lines |-> lines, failed |-> failed]
               \in [buf : {s.buf, <<>>, longer}, seen_first_line : BOOLEAN,
                    lines : {s.lines, more}, failed : BOOLEAN]
      OBVIOUS
    <3> DEFINE target == [buf : {s.buf, <<>>, longer}, seen_first_line : BOOLEAN,
                          lines : {s.lines, more}, failed : BOOLEAN]
               kept == [buf |-> longer, seen_first_line |-> s.seen_first_line, lines |-> s.lines, failed |-> s.failed]
               refused == [buf |-> s.buf, seen_first_line |-> s.seen_first_line, lines |-> s.lines, failed |-> TRUE]
               ended == [buf |-> <<>>, seen_first_line |-> TRUE, lines |-> more, failed |-> s.failed]
    <3>2. r \in target
      BY <1>1, <3>1
    <3>3. kept \in target
      BY <1>1, <3>1
    <3>4. refused \in target
      BY <1>1, <3>1
    <3>5. ended \in target
      BY <1>1, <3>1
    <3>6. t = r \/ t = kept \/ t = refused \/ t = ended
      BY <2>2
    <3> HIDE DEF r, kept, refused, ended, target
    <3>7. t \in target
      BY <3>2, <3>3, <3>4, <3>5, <3>6
    <3> QED
      BY <3>7 DEF target
  <2> QED
    BY <2>3 DEF longer, more
<1>6. t \in Splitters
  BY <1>1, <1>2, <1>3, <1>5 DEF Splitters
<1> QED
  BY <1>6 DEF t

\* push hands its bytes on one after the other.
LEMMA TakeBytesValues ==
  ASSUME NEW s \in Splitters, NEW bytes \in Seq(Bytes)
  PROVE  \E f : /\ f[0] = s /\ TakeBytes(s, bytes) = f[Len(bytes)]
                /\ \A n \in 1..Len(bytes) : f[n] = TakeByte(f[n - 1], bytes[n])
<1> DEFINE N == Len(bytes)
           turn(n, x) == TakeByte(x, bytes[n])
           value(n, f) == IF n = 0 THEN s ELSE turn(n, f[n - 1])
           Recurs(f) == f = [n \in 0..N |-> value(n, f)]
           taken == CHOOSE f : Recurs(f)
           step == [n \in 1..N |-> [x \in Splitters |-> turn(n, x)]]
<1>1. N \in Nat
  OBVIOUS
<1>2. TakeBytes(s, bytes) = taken[N]
  BY DEF TakeBytes
<1>3. \A f : /\ value(0, f) = s
             /\ \A n \in 1..N : value(n, f) = turn(n, f[n - 1])
  BY <1>1
<1>4. \A n \in 1..N, x \in Splitters : turn(n, x) \in Splitters
  BY TakeByteType
<1>5. \E f : Recurs(f)
  <2> HIDE DEF N
  <2> HIDE DEF turn, value
  <2>2. step \in [1..N -> [Splitters -> Splitters]]
    BY <1>4
  <2> HIDE DEF step
  <2>3. PICK f : IsLoop(Splitters, s, N, step, f)
    BY <1>1, <2>2, LoopExists, Zenon
  <2>4. /\ f = [n \in 0..N |-> f[n]] /\ f[0] = s
        /\ \A n \in 1..N : f[n] = step[n][f[n - 1]] /\ f[n - 1] \in Splitters
    BY <1>1, <2>3, LoopValues
  <2>5. \A n \in 1..N : f[n] = turn(n, f[n - 1])
    BY <2>4 DEF step
  <2>6. \A n \in 0..N : f[n] = value(n, f)
    <3>1. \A n \in 0..N : n = 0 \/ n \in 1..N
      BY <1>1
    <3> QED
      BY <1>3, <2>4, <2>5, <3>1, Zenon
  <2> QED
    BY <2>4, <2>6
<1>6. Recurs(taken)
  <2> HIDE DEF Recurs
  <2> QED
    BY <1>5
<1> HIDE DEF taken
<1>7. taken[0] = s /\ \A n \in 1..N : taken[n] = turn(n, taken[n - 1])
  <2> HIDE DEF N, turn, value
  <2>1. \A n \in 0..N : taken[n] = value(n, taken)
    BY <1>6
  <2> QED
    BY <1>1, <1>3, <2>1
<1> QED
  BY <1>2, <1>7

\* Before the first byte.
LEMMA NothingSplit == SplitSoFar(NewSplitter, <<>>)
<1> DEFINE none == <<>>
<1>1. none \in Seq(Bytes) /\ Len(none) = 0 /\ none \in Seq(Seq(Bytes))
  OBVIOUS
<1>2. Ends(none) = <<>>
  BY <1>1, EndsExist DEF IsEnds
<1>3. Raws(none) = [k \in 1..1 |-> SubSeq(none, 1, 0)]
  <2>1. Len(<<>>) + 1 = 1 /\ DOMAIN <<>> = {}
    OBVIOUS
  <2>2. \A k \in 1..1 : k = 1 /\ ~ (k \in {})
    OBVIOUS
  <2> HIDE DEF none
  <2> QED
    BY <1>1, <1>2, <2>1, <2>2 DEF Raws
<1>4. SubSeq(none, 1, 0) = <<>>
  BY <1>1, SubSeqEmpty
<1>5. Raws(none) = [k \in 1..1 |-> <<>>]
  BY <1>3, <1>4
<1>6. Len(Raws(none)) = 1 /\ Raws(none)[1] = <<>>
  BY <1>5
<1>7. LinesOf(none) = <<>>
  <2>1. LinesOf(none) = [k \in GoodLines(Raws(none)) |-> Line(Raws(none), k)]
    BY <1>1, LinesAreGood
  <2>2. GoodLines(Raws(none)) = {}
    <3> HIDE DEF none
    <3>1. 1..Len(Raws(none)) - 1 = {}
      BY <1>6
    <3> QED
      BY <3>1 DEF GoodLines
  <2>3. \A F : [k \in {} |-> F[k]] = <<>>
    OBVIOUS
  <2>4. DOMAIN LinesOf(none) = 1..0
    BY <2>1, <2>2
  <2>5. LinesOf(none) = [k \in 1..0 |-> Line(Raws(none), k)]
    BY <2>1, <2>2
  <2> HIDE DEF none
  <2> QED
    BY <2>5
<1>8. NewSplitter \in Splitters
  BY <1>1 DEF NewSplitter, Splitters
<1> HIDE DEF none
<1>9. SplitSoFar(NewSplitter, none)
  BY <1>6, <1>7, <1>8 DEF SplitSoFar, NewSplitter
<1> QED
  BY <1>9 DEF none

\* The bytes of a push keep what the loop holds of the stream.
LEMMA TakeBytesKeep ==
  ASSUME NEW seen \in Seq(Bytes), NEW bytes \in Seq(Bytes), NEW s, SplitSoFar(s, seen)
  PROVE  SplitSoFar(TakeBytes(s, bytes), seen \o bytes)
<1> DEFINE N == Len(bytes)
           upto(n) == seen \o SubSeq(bytes, 1, n)
<1>1. N \in Nat /\ \A i \in 1..N : bytes[i] \in Bytes
  OBVIOUS
<1>2. s \in Splitters
  BY DEF SplitSoFar
<1>3. PICK f : /\ f[0] = s /\ TakeBytes(s, bytes) = f[N]
               /\ \A n \in 1..N : f[n] = TakeByte(f[n - 1], bytes[n])
  BY <1>2, TakeBytesValues
<1>4. upto(0) = seen
  <2>1. SubSeq(bytes, 1, 0) = <<>>
    BY SubSeqEmpty
  <2> QED
    BY <2>1, ConcatEmptySeq
<1>5. upto(N) = seen \o bytes
  BY SubSeqFull
<1>6. \A n \in 0..N : SubSeq(bytes, 1, n) \in Seq(Bytes) /\ upto(n) \in Seq(Bytes)
  <2>1. ASSUME NEW n \in 0..N PROVE SubSeq(bytes, 1, n) \in Seq(Bytes)
    <3>1. \A i \in 1..n : bytes[i] \in Bytes
      BY <1>1
    <3> QED
      BY <1>1, <3>1, SubSeqProperties
  <2> QED
    BY <2>1, ConcatProperties
<1>7. ASSUME NEW n \in 0..N - 1 PROVE upto(n + 1) = Append(upto(n), bytes[n + 1])
  <2> DEFINE k == n + 1
  <2>1. k \in 1..N /\ k - 1 = n /\ k \in Nat /\ n \in 0..N /\ bytes[k] \in Bytes /\ 1 <= k /\ k <= N
    BY <1>1
  <2> HIDE DEF k
  <2>2. SubSeq(bytes, 1, k) = Append(SubSeq(bytes, 1, n), bytes[k])
    BY <1>1, <2>1, SubSeqRecursiveSecond
  <2>3. SubSeq(bytes, 1, n) \in Seq(Bytes)
    BY <1>6, <2>1
  <2>4. \A w \in Seq(Bytes), b \in Bytes : seen \o Append(w, b) = Append(seen \o w, b)
    OBVIOUS
  <2>5. upto(k) = Append(upto(n), bytes[k])
    BY <2>1, <2>2, <2>3, <2>4
  <2> QED
    BY <2>5 DEF k
<1> HIDE DEF upto
<1> DEFINE S == {n \in 0..N : SplitSoFar(f[n], upto(n))}
<1>8. 0 \in S
  BY <1>1, <1>3, <1>4
<1>9. ASSUME NEW n \in 0..N - 1, n \in S PROVE n + 1 \in S
  <2> DEFINE k == n + 1
  <2>1. k \in 1..N /\ k - 1 = n /\ k \in 0..N /\ n \in 0..N /\ bytes[k] \in Bytes
    BY <1>1
  <2>2. upto(k) = Append(upto(n), bytes[k])
    BY <1>7
  <2> HIDE DEF k
  <2>3. f[k] = TakeByte(f[n], bytes[k])
    BY <1>3, <2>1
  <2>4. SplitSoFar(TakeByte(f[n], bytes[k]), Append(upto(n), bytes[k]))
    BY <1>6, <1>9, <2>1, TakeByteKeeps
  <2>5. k \in S
    BY <2>1, <2>2, <2>3, <2>4
  <2> QED
    BY <2>5 DEF k
<1>10. 0..N \subseteq S
  <2> HIDE DEF S, N
  <2> QED
    BY <1>1, <1>8, <1>9, TurnInduction
<1>11. N \in 0..N
  BY <1>1
<1> QED
  BY <1>3, <1>5, <1>10, <1>11

\* What a splitter holds once it has been pushed the bytes of a stream: besides, it
\* refuses a line that has begun and is too long.
HasRead(s, stream) ==
  /\ s \in Splitters
  /\ s.lines = LinesOf(stream)
  /\ s.failed = IsRefused(stream)
  /\ ~s.failed => SplitSoFar(s, stream) /\ Len(s.buf) <= MaxLine

\* A new splitter has read nothing.
LEMMA NothingRead == HasRead(NewSplitter, <<>>)
<1> DEFINE none == <<>>
<1>1. none \in Seq(Bytes) /\ NewSplitter.failed = FALSE /\ NewSplitter.buf = <<>> /\ Len(<<>>) = 0
  BY DEF NewSplitter
<1>2. SplitSoFar(NewSplitter, none) /\ MaxLine \in Nat
  BY NothingSplit, ConstantsAssumption
<1> HIDE DEF none
<1>3. IsRefused(none) <=> \/ \E k \in 1..Len(Raws(none)) - 1 : Bad(Raws(none)[k])
                          \/ Len(Raws(none)[Len(Raws(none))]) > MaxLine
  BY <1>1, LinesAreGood
<1>4. ~IsRefused(none)
  BY <1>1, <1>2, <1>3 DEF SplitSoFar
<1>5. IsRefused(none) = FALSE
  BY <1>4 DEF IsRefused
<1>6. NewSplitter \in Splitters /\ NewSplitter.lines = LinesOf(none)
  BY <1>2 DEF SplitSoFar
<1>7. Len(NewSplitter.buf) <= MaxLine
  BY <1>1, <1>2
<1>8. HasRead(NewSplitter, none)
  BY <1>1, <1>2, <1>5, <1>6, <1>7 DEF HasRead
<1> QED
  BY <1>8 DEF none

\* A push reads on: the lines it returns and what it refuses are those of the stream
\* so far, whatever the cut.
THEOREM PushReadsOn ==
  ASSUME NEW seen \in Seq(Bytes), NEW bytes \in Seq(Bytes), NEW s, HasRead(s, seen), ~s.failed
  PROVE  HasRead(Push(s, bytes), seen \o bytes)
<1> DEFINE done == TakeBytes(s, bytes)
           stream == seen \o bytes
           t == Push(s, bytes)
           late == done.failed \/ Len(done.buf) > MaxLine
<1>1. stream \in Seq(Bytes)
  BY ConcatProperties
<1>2. SplitSoFar(done, stream)
  BY TakeBytesKeep DEF HasRead
<1>3. t = [done EXCEPT !.failed = late]
  BY DEF Push
<1> HIDE DEF done, stream, t
<1>4. IsRefused(stream) <=> \/ \E k \in 1..Len(Raws(stream)) - 1 : Bad(Raws(stream)[k])
                            \/ Len(Raws(stream)[Len(Raws(stream))]) > MaxLine
  BY <1>1, LinesAreGood
<1>5. /\ done \in Splitters /\ done.lines = LinesOf(stream) /\ done.failed \in BOOLEAN
      /\ done.failed <=> \E k \in 1..Len(Raws(stream)) - 1 : Bad(Raws(stream)[k])
      /\ ~done.failed => done.buf = Raws(stream)[Len(Raws(stream))]
      /\ Len(done.buf) \in Nat
  BY <1>2 DEF SplitSoFar, Splitters
<1>6. late <=> IsRefused(stream)
  BY <1>4, <1>5
<1>7. late = IsRefused(stream)
  BY <1>6 DEF IsRefused
<1>8. late \in BOOLEAN /\ (~late => late = done.failed) /\ (~late => Len(done.buf) <= MaxLine)
  BY <1>5, ConstantsAssumption
<1> HIDE DEF late
<1>9. t = [buf |-> done.buf, seen_first_line |-> done.seen_first_line, lines |-> done.lines, failed |-> late]
  BY <1>3, <1>5 DEF Splitters
<1>10. t \in Splitters /\ t.lines = done.lines /\ t.failed = late
  BY <1>5, <1>8, <1>9 DEF Splitters
<1>11. ~late => t = done
  BY <1>5, <1>8, <1>9 DEF Splitters
<1>12. HasRead(t, stream)
  BY <1>2, <1>5, <1>7, <1>8, <1>10, <1>11 DEF HasRead
<1> QED
  BY <1>12 DEF t, stream

-----------------------------------------------------------------------------
(* The bytes on their way.                                                 *)

\* The messages of a channel: only data has bytes.
Kinds == {"data", "success", "failure", "other", "eof"}
Messages == {m \in [kind : Kinds, bytes : Seq(Bytes)] : m.kind # "data" => m.bytes = <<>>}
Channels == Seq(Messages)

\* The bytes of the first n messages of a channel, for every n.
IsBytes(messages, f) ==
  /\ f \in [0..Len(messages) -> Seq(Bytes)] /\ f[0] = <<>>
  /\ \A n \in 1..Len(messages) : f[n] = f[n - 1] \o messages[n].bytes

\* Every channel has its bytes.
LEMMA BytesExist ==
  ASSUME NEW messages \in Channels
  PROVE  \E f : IsBytes(messages, f) /\ BytesOf(messages) = f[Len(messages)]
<1> DEFINE N == Len(messages)
           Values == Seq(Bytes)
           turn(n, x) == x \o messages[n].bytes
           value(n, f) == IF n = 0 THEN <<>> ELSE turn(n, f[n - 1])
           Recurs(f) == f = [n \in 0..N |-> value(n, f)]
           sum == CHOOSE f : Recurs(f)
           step == [n \in 1..N |-> [x \in Values |-> turn(n, x)]]
<1>1. N \in Nat /\ \A n \in 1..N : messages[n].bytes \in Seq(Bytes)
  <2>1. \A n \in 1..N : messages[n] \in Messages
    BY DEF Channels
  <2>2. \A m \in Messages : m.bytes \in Seq(Bytes)
    BY DEF Messages
  <2>3. N \in Nat
    BY DEF Channels
  <2> QED
    BY <2>1, <2>2, <2>3
<1>2. BytesOf(messages) = sum[N]
  BY DEF BytesOf
<1>3. \A f : /\ value(0, f) = <<>>
             /\ \A n \in 1..N : value(n, f) = turn(n, f[n - 1])
  <2> TAKE f
  <2>1. value(0, f) = <<>>
    OBVIOUS
  <2>2. \A n \in 1..N : n # 0
    BY <1>1
  <2>3. \A n \in 1..N : value(n, f) = turn(n, f[n - 1])
    BY <2>2, Zenon
  <2> QED
    BY <2>1, <2>3
<1>4. \A n \in 1..N, x \in Values : turn(n, x) \in Values
  BY <1>1, ConcatProperties
<1>5. \E f : Recurs(f)
  <2> HIDE DEF N
  <2>1. <<>> \in Values
    OBVIOUS
  <2> HIDE DEF turn, Values, value
  <2>2. step \in [1..N -> [Values -> Values]]
    BY <1>4
  <2> HIDE DEF step
  <2>3. PICK f : IsLoop(Values, <<>>, N, step, f)
    BY <1>1, <2>1, <2>2, LoopExists, Zenon
  <2>4. /\ f = [n \in 0..N |-> f[n]] /\ f[0] = <<>>
        /\ \A n \in 1..N : f[n] = step[n][f[n - 1]] /\ f[n - 1] \in Values
    BY <1>1, <2>3, LoopValues
  <2>5. \A n \in 1..N : f[n] = turn(n, f[n - 1])
    BY <2>4 DEF step
  <2>6. \A n \in 0..N : f[n] = value(n, f)
    <3>1. \A n \in 0..N : n = 0 \/ n \in 1..N
      BY <1>1
    <3> QED
      BY <1>3, <2>4, <2>5, <3>1, Zenon
  <2> QED
    BY <2>4, <2>6
<1>6. Recurs(sum)
  <2> HIDE DEF Recurs
  <2> QED
    BY <1>5
<1> HIDE DEF sum
<1>7. /\ sum = [n \in 0..N |-> sum[n]] /\ sum[0] = <<>>
      /\ \A n \in 1..N : sum[n] = turn(n, sum[n - 1])
  <2> HIDE DEF N, turn, value
  <2>1. \A n \in 0..N : sum[n] = value(n, sum)
    BY <1>6
  <2>2. sum = [n \in 0..N |-> sum[n]]
    BY <1>6, <2>1
  <2>3. 0 \in 0..N /\ \A n \in 1..N : n \in 0..N
    BY <1>1
  <2> QED
    BY <1>3, <2>1, <2>2, <2>3, Zenon
<1>8. \A n \in 0..N : sum[n] \in Values
  <2> DEFINE S == {n \in 0..N : sum[n] \in Values}
  <2>1. 0 \in S
    <3>1. 0 \in 0..N /\ <<>> \in Values
      BY <1>1
    <3> HIDE DEF N, Values
    <3> QED
      BY <1>7, <3>1
  <2>2. ASSUME NEW n \in 0..N - 1, n \in S PROVE n + 1 \in S
    <3> DEFINE k == n + 1
    <3>1. k \in 1..N /\ k \in 0..N /\ k - 1 = n
      BY <1>1
    <3> HIDE DEF k, turn, N
    <3>2. sum[k] = turn(k, sum[n])
      BY <1>7, <3>1
    <3>3. k \in S
      BY <1>4, <2>2, <3>1, <3>2
    <3> QED
      BY <3>3 DEF k
  <2>3. 0..N \subseteq S
    <3> HIDE DEF S
    <3> QED
      BY <1>1, <2>1, <2>2, TurnInduction
  <2> QED
    BY <2>3
<1>9. IsBytes(messages, sum)
  <2> HIDE DEF N
  <2>1. sum \in [0..N -> Values]
    BY <1>7, <1>8
  <2> QED
    BY <1>7, <2>1 DEF IsBytes, N
<1> QED
  BY <1>2, <1>9

\* A message sent adds its bytes at the end.
LEMMA BytesAppend ==
  ASSUME NEW messages \in Channels, NEW m \in Messages
  PROVE  /\ Append(messages, m) \in Channels
         /\ BytesOf(Append(messages, m)) = BytesOf(messages) \o m.bytes
         /\ BytesOf(messages) \in Seq(Bytes)
<1> DEFINE N == Len(messages)
           longer == Append(messages, m)
           p == N + 1
<1>1. /\ N \in Nat /\ longer \in Channels
      /\ Len(longer) = p /\ longer[p] = m /\ p \in 1..p /\ p - 1 = N
      /\ \A i \in 1..N : longer[i] = messages[i]
  BY AppendProperties DEF Channels
<1> HIDE DEF longer
<1>3. PICK f : IsBytes(messages, f) /\ BytesOf(messages) = f[N]
  BY BytesExist
<1>4. PICK g : IsBytes(longer, g) /\ BytesOf(longer) = g[p]
  BY <1>1, BytesExist
<1>5. \A n \in 0..N : g[n] = f[n]
  <2> DEFINE S == {n \in 0..N : g[n] = f[n]}
  <2>1. 0 \in S
    BY <1>1, <1>3, <1>4 DEF IsBytes
  <2>2. ASSUME NEW n \in 0..N - 1, n \in S PROVE n + 1 \in S
    <3> DEFINE k == n + 1
    <3>1. k \in 1..N /\ k \in 1..p /\ k \in 0..N /\ k - 1 = n
      BY <1>1
    <3> HIDE DEF k, p, N
    <3>2. f[k] = f[n] \o messages[k].bytes
      BY <1>3, <3>1 DEF IsBytes, N
    <3>3. g[k] = g[n] \o longer[k].bytes
      BY <1>1, <1>4, <3>1 DEF IsBytes
    <3>4. k \in S
      BY <1>1, <2>2, <3>1, <3>2, <3>3
    <3> QED
      BY <3>4 DEF k
  <2>3. 0..N \subseteq S
    <3> HIDE DEF S, N
    <3> QED
      BY <1>1, <2>1, <2>2, TurnInduction
  <2> QED
    BY <2>3
<1>6. g[p] = g[N] \o m.bytes
  <2> HIDE DEF p, N
  <2> QED
    BY <1>1, <1>4 DEF IsBytes
<1>7. BytesOf(messages) \in Seq(Bytes) /\ g[N] = f[N]
  BY <1>1, <1>3, <1>5 DEF IsBytes
<1> QED
  BY <1>1, <1>3, <1>4, <1>6, <1>7 DEF longer

\* A message received takes its bytes from the front.
LEMMA BytesTail ==
  ASSUME NEW messages \in Channels, messages # <<>>
  PROVE  /\ Tail(messages) \in Channels
         /\ Head(messages) \in Messages
         /\ BytesOf(Tail(messages)) \in Seq(Bytes)
         /\ BytesOf(messages) = Head(messages).bytes \o BytesOf(Tail(messages))
<1> DEFINE N == Len(messages)
           rest == Tail(messages)
           first == Head(messages).bytes
           M == Len(rest)
<1>1. N \in Nat \ {0} /\ Head(messages) = messages[1] /\ messages[1] \in Messages
  <2>1. N \in Nat /\ \A i \in 1..N : messages[i] \in Messages
    BY DEF Channels
  <2>2. N # 0
    BY EmptySeq DEF Channels
  <2>3. Head(messages) = messages[1] /\ 1 \in 1..N
    BY <2>1, <2>2
  <2> QED
    BY <2>1, <2>2, <2>3
<1>2. /\ rest \in Channels /\ M = N - 1 /\ \A i \in 1..M : rest[i] = messages[i + 1]
      /\ \A i \in 1..M : rest[i].bytes \in Seq(Bytes)
  <2>1. rest \in Channels /\ M = N - 1 /\ \A i \in 1..M : rest[i] = messages[i + 1]
    BY HeadTailProperties DEF Channels
  <2>2. \A i \in 1..M : rest[i] \in Messages
    BY <2>1 DEF Channels
  <2>3. \A m \in Messages : m.bytes \in Seq(Bytes)
    BY DEF Messages
  <2> HIDE DEF rest
  <2> QED
    BY <2>1, <2>2, <2>3
<1>3. PICK f : IsBytes(messages, f) /\ BytesOf(messages) = f[N]
  BY BytesExist
<1>4. PICK g : IsBytes(rest, g) /\ BytesOf(rest) = g[M]
  BY <1>2, BytesExist
<1>5. first \in Seq(Bytes) /\ first = messages[1].bytes
  BY <1>1 DEF Messages
<1>6. \A n \in 0..M : g[n] \in Seq(Bytes)
  BY <1>4 DEF IsBytes
<1> HIDE DEF rest, first
<1>7. \A n \in 0..M : f[n + 1] = first \o g[n]
  <2> DEFINE S == {n \in 0..M : f[n + 1] = first \o g[n]}
  <2>1. 0 \in S
    <3>0. 1 \in 1..N /\ 1 - 1 = 0
      BY <1>1
    <3>1. f[0] = <<>> /\ g[0] = <<>> /\ f[1] = f[1 - 1] \o messages[1].bytes
      <4> HIDE DEF M
      <4> QED
        BY <1>3, <1>4, <3>0 DEF IsBytes
    <3>2. f[1] = <<>> \o first
      BY <1>5, <3>0, <3>1
    <3>3. <<>> \o first = first /\ first \o <<>> = first
      BY <1>5, ConcatEmptySeq
    <3>4. 0 \in 0..M /\ 0 + 1 = 1
      BY <1>1, <1>2
    <3> HIDE DEF M
    <3> QED
      BY <3>1, <3>2, <3>3, <3>4
  <2>2. ASSUME NEW n \in 0..M - 1, n \in S PROVE n + 1 \in S
    <3> DEFINE k == n + 1
               j == k + 1
    <3>1. k \in 1..M /\ k \in 0..M /\ k - 1 = n /\ j \in 1..N /\ j - 1 = k /\ n \in 0..M
      BY <1>1, <1>2
    <3>2. rest[k] = messages[j]
      BY <1>2, <3>1
    <3>3. f[k] = first \o g[n]
      BY <2>2
    <3> HIDE DEF j, k, M, N
    <3>4. f[j] = f[k] \o messages[j].bytes
      BY <1>3, <3>1 DEF IsBytes, N
    <3>5. g[k] = g[n] \o rest[k].bytes
      BY <1>4, <3>1 DEF IsBytes, M
    <3>6. rest[k].bytes \in Seq(Bytes)
      BY <1>2, <3>1
    <3>7. (first \o g[n]) \o rest[k].bytes = first \o (g[n] \o rest[k].bytes)
      <4>1. g[n] \in Seq(Bytes)
        BY <1>6, <3>1
      <4>2. \A x \in Seq(Bytes), y \in Seq(Bytes), z \in Seq(Bytes) : (x \o y) \o z = x \o (y \o z)
        BY ONLY ConcatAssociative, SMTT(30)
      <4> QED
        BY ONLY <1>5, <3>6, <4>1, <4>2, Zenon
    <3>8. f[j] = first \o g[k]
      BY <3>2, <3>3, <3>4, <3>5, <3>7
    <3> QED
      BY <3>1, <3>8 DEF j, k
  <2>3. 0..M \subseteq S
    <3>1. M \in Nat
      BY <1>1, <1>2
    <3> HIDE DEF S, M
    <3> QED
      BY <2>1, <2>2, <3>1, TurnInduction
  <2> QED
    BY <2>3
<1>8. M \in 0..M /\ M + 1 = N
  BY <1>1, <1>2
<1>9. BytesOf(messages) = first \o BytesOf(rest) /\ BytesOf(rest) \in Seq(Bytes)
  BY <1>3, <1>4, <1>6, <1>7, <1>8
<1> QED
  BY <1>1, <1>2, <1>9 DEF rest, first

\* The output is what has been read, what is kept before the reply and what is on its
\* way, in that order.
Delivers(output, kept, messages, s) ==
  \E seen \in Seq(Bytes) : output = (seen \o kept) \o BytesOf(messages) /\ HasRead(s, seen)

\* Before connect nothing is written, kept or read.
LEMMA NothingDelivered == Delivers(<<>>, <<>>, <<>>, NewSplitter)
<1> DEFINE none == <<>>
<1>1. none \in Seq(Bytes) /\ none \in Channels /\ Len(none) = 0
  BY DEF Channels
<1>2. BytesOf(none) = none
  BY <1>1, BytesExist DEF IsBytes
<1>3. none = (none \o none) \o none
  BY <1>1, ConcatEmptySeq
<1> HIDE DEF none
<1>4. HasRead(NewSplitter, none)
  BY NothingRead DEF none
<1>5. Delivers(none, none, none, NewSplitter)
  BY <1>1, <1>2, <1>3, <1>4 DEF Delivers
<1> QED
  BY <1>5 DEF none

\* What the server says comes last.
LEMMA SentIsLast ==
  ASSUME NEW output \in Seq(Bytes), NEW kept \in Seq(Bytes), NEW messages \in Channels, NEW s,
         NEW m \in Messages, Delivers(output, kept, messages, s)
  PROVE  Delivers(output \o m.bytes, kept, Append(messages, m), s)
<1>1. PICK seen \in Seq(Bytes) : output = (seen \o kept) \o BytesOf(messages) /\ HasRead(s, seen)
  BY DEF Delivers
<1>2. /\ BytesOf(Append(messages, m)) = BytesOf(messages) \o m.bytes
      /\ BytesOf(messages) \in Seq(Bytes) /\ m.bytes \in Seq(Bytes)
  BY BytesAppend DEF Messages
<1>3. seen \o kept \in Seq(Bytes)
  BY ConcatProperties
<1>4. \A x \in Seq(Bytes), y \in Seq(Bytes), z \in Seq(Bytes) : (x \o y) \o z = x \o (y \o z)
  BY ONLY ConcatAssociative, SMTT(30)
<1>5. output \o m.bytes = (seen \o kept) \o BytesOf(Append(messages, m))
  <2>1. ((seen \o kept) \o BytesOf(messages)) \o m.bytes = (seen \o kept) \o (BytesOf(messages) \o m.bytes)
    BY ONLY <1>2, <1>3, <1>4, Zenon
  <2> QED
    BY <1>1, <1>2, <2>1, Zenon
<1> QED
  BY <1>1, <1>5, Zenon DEF Delivers

\* What is received is kept after what was kept.
LEMMA ReceivedIsKept ==
  ASSUME NEW output \in Seq(Bytes), NEW kept \in Seq(Bytes), NEW messages \in Channels, NEW s,
         messages # <<>>, Delivers(output, kept, messages, s)
  PROVE  Delivers(output, kept \o Head(messages).bytes, Tail(messages), s)
<1> DEFINE first == Head(messages).bytes
           rest == BytesOf(Tail(messages))
<1>1. PICK seen \in Seq(Bytes) : output = (seen \o kept) \o BytesOf(messages) /\ HasRead(s, seen)
  BY DEF Delivers
<1>2. BytesOf(messages) = first \o rest /\ rest \in Seq(Bytes) /\ first \in Seq(Bytes)
  BY BytesTail DEF Messages
<1> HIDE DEF first, rest
<1>3. seen \o kept \in Seq(Bytes)
  BY ConcatProperties
<1>4. \A x \in Seq(Bytes), y \in Seq(Bytes), z \in Seq(Bytes) : (x \o y) \o z = x \o (y \o z)
  BY ONLY ConcatAssociative, SMTT(30)
<1>5. output = ((seen \o kept) \o first) \o rest
  <2>1. ((seen \o kept) \o first) \o rest = (seen \o kept) \o (first \o rest)
    BY ONLY <1>2, <1>3, <1>4, Zenon
  <2> QED
    BY <1>1, <1>2, <2>1, Zenon
<1>6. (seen \o kept) \o first = seen \o (kept \o first)
  BY ONLY <1>2, <1>4, seen \in Seq(Bytes), kept \in Seq(Bytes), Zenon
<1> QED
  BY <1>1, <1>5, <1>6, Zenon DEF Delivers, first, rest

\* What was kept is read.
LEMMA KeptIsRead ==
  ASSUME NEW output \in Seq(Bytes), NEW kept \in Seq(Bytes), NEW messages \in Channels, NEW s,
         Delivers(output, kept, messages, s), ~s.failed
  PROVE  /\ Delivers(output, <<>>, messages, Push(s, kept))
         /\ Push(s, kept) \in Splitters
         /\ Len(Push(s, kept).buf) <= MaxLine \/ Push(s, kept).failed
<1>1. PICK seen \in Seq(Bytes) : output = (seen \o kept) \o BytesOf(messages) /\ HasRead(s, seen)
  BY DEF Delivers
<1>2. HasRead(Push(s, kept), seen \o kept)
  BY <1>1, PushReadsOn
<1>3. seen \o kept \in Seq(Bytes)
  BY ConcatProperties
<1>4. (seen \o kept) \o <<>> = seen \o kept
  BY <1>3, ConcatEmptySeq
<1>5. output = ((seen \o kept) \o <<>>) \o BytesOf(messages)
  BY <1>1, <1>4, Zenon
<1>6. Delivers(output, <<>>, messages, Push(s, kept))
  BY <1>2, <1>3, <1>5, Zenon DEF Delivers
<1> QED
  BY <1>2, <1>6, Zenon DEF HasRead

-----------------------------------------------------------------------------
(* The stream.                                                             *)

\* A connect that failed delivers nothing; one that did not has lost and duplicated
\* nothing, and does not read after the splitter failed.
StreamInv ==
  /\ written \in Seq(Bytes) /\ pending \in Seq(Bytes) /\ channel \in Channels
  /\ splitter \in Splitters
  /\ Len(pending) <= MaxLine /\ (Len(splitter.buf) <= MaxLine \/ splitter.failed)
  /\ splitter.failed => read_failed
  /\ pc # "failed" => Delivers(written, pending, channel, splitter)

\* A new session has an empty stream.
LEMMA StreamInvInit == Init => StreamInv
<1> SUFFICES ASSUME Init PROVE StreamInv
  OBVIOUS
<1>1. /\ pc = "new" /\ pending = <<>> /\ channel = <<>> /\ written = <<>>
      /\ splitter = NewSplitter
  BY DEF Init
<1>2. NewSplitter \in Splitters /\ NewSplitter.failed = FALSE /\ Len(NewSplitter.buf) <= MaxLine
  BY NothingRead, ConstantsAssumption DEF HasRead, NewSplitter
<1>3. <<>> \in Seq(Bytes) /\ <<>> \in Channels /\ Len(<<>>) <= MaxLine
  BY ConstantsAssumption DEF Channels
<1> QED
  BY <1>1, <1>2, <1>3, NothingDelivered DEF StreamInv

\* A step that receives a message without bytes and reads nothing.
LEMMA SkippedMessage ==
  ASSUME StreamInv, Received, Head(channel).kind # "data", UNCHANGED <<pending, splitter, written>>,
         read_failed => read_failed', pc' # "failed" => pc # "failed"
  PROVE  StreamInv'
<1>1. channel # <<>> /\ channel' = Tail(channel)
  BY DEF Received
<1>2. Head(channel).bytes = <<>> /\ Tail(channel) \in Channels
  BY <1>1, BytesTail DEF StreamInv, Messages
<1>3. pending \o <<>> = pending
  BY ConcatEmptySeq DEF StreamInv
<1>4. pc # "failed" => Delivers(written, pending, Tail(channel), splitter)
  BY <1>1, <1>2, <1>3, ReceivedIsKept DEF StreamInv
<1> QED
  BY <1>1, <1>2, <1>4 DEF StreamInv

\* A step of the server.
LEMMA SentMessage ==
  ASSUME StreamInv, NEW m \in Messages, channel' = Append(channel, m), written' = written \o m.bytes,
         UNCHANGED <<pc, pending, splitter, read_failed>>
  PROVE  StreamInv'
<1>1. m.bytes \in Seq(Bytes)
  BY DEF Messages
<1>2. written \o m.bytes \in Seq(Bytes) /\ Append(channel, m) \in Channels
  BY <1>1, ConcatProperties, BytesAppend DEF StreamInv
<1>3. pc # "failed" => Delivers(written \o m.bytes, pending, Append(channel, m), splitter)
  BY SentIsLast DEF StreamInv
<1> QED
  BY <1>2, <1>3 DEF StreamInv

\* A step that reads what is kept or what is received.
LEMMA ReadBytes ==
  ASSUME StreamInv, NEW bytes \in Seq(Bytes), NEW messages \in Channels, Process(bytes),
         ~read_failed, Delivers(written, bytes, messages, splitter),
         pending' = <<>>, channel' = messages, UNCHANGED <<pc, written>>
  PROVE  StreamInv'
<1>1. ~splitter.failed /\ written \in Seq(Bytes)
  BY DEF StreamInv
<1>2. /\ Delivers(written, <<>>, messages, Push(splitter, bytes))
      /\ Push(splitter, bytes) \in Splitters
      /\ Len(Push(splitter, bytes).buf) <= MaxLine \/ Push(splitter, bytes).failed
  BY <1>1, KeptIsRead
<1>3. splitter' = Push(splitter, bytes) /\ read_failed' = splitter'.failed
  BY DEF Process
<1>4. <<>> \in Seq(Bytes) /\ Len(<<>>) <= MaxLine
  BY ConstantsAssumption
<1> QED
  BY <1>1, <1>2, <1>3, <1>4 DEF StreamInv

\* No step loses, repeats or moves a byte: what the server writes goes to the channel,
\* what is received before the reply is kept, what is kept is read first.
LEMMA StreamInvNext == StreamInv /\ [Next]_vars => StreamInv'
<1> SUFFICES ASSUME StreamInv, [Next]_vars PROVE StreamInv'
  OBVIOUS
<1>1. ASSUME UNCHANGED <<pending, splitter, read_failed, channel, written>>,
             pc' # "failed" => pc # "failed"
      PROVE  StreamInv'
  BY <1>1 DEF StreamInv
<1>2. CASE ConnectRefused \/ Connect \/ CheckServerKey \/ SendCredentials \/ Authenticated
           \/ ChannelOpened \/ Requested \/ ConnectFails
  <2>1. UNCHANGED <<pending, splitter, read_failed, channel, written>>
    BY <1>2 DEF ConnectRefused, Connect, CheckServerKey, SendCredentials, Authenticated,
                ChannelOpened, Requested, ConnectFails, input, remote
  <2>2. pc' # "failed" => pc # "failed"
    BY <1>2 DEF ConnectRefused, Connect, CheckServerKey, SendCredentials, Authenticated,
                ChannelOpened, Requested, ConnectFails, Fail
  <2> QED
    BY <1>1, <2>1, <2>2
<1>3. ASSUME CloseShell \/ (\E ok \in BOOLEAN : SessionClosed(ok)) \/ Shutdown \/ Disconnected \/ DropClose
      PROVE  StreamInv'
  <2>1. UNCHANGED <<pending, splitter, read_failed, channel, written>>
    BY <1>3 DEF CloseShell, SessionClosed, Shutdown, Disconnected, DropClose, input, remote
  <2>2. pc # "failed"
    BY <1>3 DEF CloseShell, SessionClosed, Shutdown, Disconnected, DropClose
  <2> QED
    BY <1>1, <2>1, <2>2
<1>4. CASE UNCHANGED vars
  BY <1>1, <1>4 DEF vars, client, input, remote
<1>5. ASSUME NEW kind \in {"success", "failure", "eof"}, ReplyArrives(kind) PROVE StreamInv'
  <2>1. /\ Received /\ Head(channel).kind # "data" /\ pc = "replying"
        /\ UNCHANGED <<pending, splitter, read_failed, written>>
    BY <1>5 DEF ReplyArrives, input
  <2> QED
    BY <2>1, SkippedMessage
<1>6. CASE Skip
  <2>1. /\ Received /\ Head(channel).kind # "data"
        /\ UNCHANGED <<pc, pending, splitter, read_failed, written>>
    BY <1>6 DEF Skip, client, input
  <2> QED
    BY <2>1, SkippedMessage
<1>7. CASE ReadEnd
  <2>1. UNCHANGED <<pc, pending, splitter, written>> /\ read_failed' = TRUE
    BY <1>7 DEF ReadEnd, client
  <2>2. CASE Received /\ Head(channel).kind = "eof"
    BY <2>1, <2>2, SkippedMessage
  <2>3. CASE UNCHANGED channel
    BY <2>1, <2>3 DEF StreamInv
  <2> QED
    BY <1>7, <2>2, <2>3 DEF ReadEnd
<1>8. CASE DataBeforeReply
  <2>1. /\ pc = "replying" /\ channel # <<>> /\ channel' = Tail(channel)
        /\ UNCHANGED <<splitter, read_failed, written>>
    BY <1>8 DEF DataBeforeReply, Received
  <2>2. Tail(channel) \in Channels /\ Head(channel).bytes \in Seq(Bytes)
    BY <2>1, BytesTail DEF StreamInv, Messages
  <2>3. CASE pc' = "failed" /\ UNCHANGED pending
    BY <2>1, <2>2, <2>3 DEF StreamInv
  <2>4. ASSUME Len(pending) + Len(Head(channel).bytes) <= MaxLine,
               pending' = pending \o Head(channel).bytes, UNCHANGED pc
        PROVE  StreamInv'
    <3>1. /\ pending \o Head(channel).bytes \in Seq(Bytes)
          /\ Len(pending \o Head(channel).bytes) <= MaxLine
      BY <2>2, <2>4, ConcatProperties DEF StreamInv
    <3>2. Delivers(written, pending \o Head(channel).bytes, Tail(channel), splitter)
      BY <2>1, ReceivedIsKept DEF StreamInv
    <3> QED
      BY <2>1, <2>2, <2>4, <3>1, <3>2 DEF StreamInv
  <2>5. Len(pending) + Len(Head(channel).bytes) \in Nat /\ MaxLine \in Nat
    BY <2>2, ConstantsAssumption DEF StreamInv
  <2>6. \/ pc' = "failed" /\ UNCHANGED pending
        \/ /\ Len(pending) + Len(Head(channel).bytes) <= MaxLine
           /\ pending' = pending \o Head(channel).bytes /\ UNCHANGED pc
    BY <1>8, <2>5 DEF DataBeforeReply, Fail
  <2> QED
    BY <2>3, <2>4, <2>6
<1>9. CASE ReadPending
  <2>1. /\ pc \in {"open", "session"} /\ ~read_failed /\ pending' = <<>> /\ Process(pending)
        /\ UNCHANGED <<pc, channel, written>>
    BY <1>9 DEF ReadPending, Reading, client, remote
  <2>2. Delivers(written, pending, channel, splitter) /\ pending \in Seq(Bytes) /\ channel \in Channels
    BY <2>1 DEF StreamInv
  <2> QED
    BY <2>1, <2>2, ReadBytes
<1>10. CASE ReadData
  <2>1. /\ pc \in {"open", "session"} /\ ~read_failed /\ pending = <<>> /\ pending' = pending
        /\ channel # <<>> /\ channel' = Tail(channel) /\ Process(Head(channel).bytes)
        /\ UNCHANGED <<pc, written>>
    BY <1>10 DEF ReadData, Reading, Received, client
  <2>2. Tail(channel) \in Channels /\ Head(channel).bytes \in Seq(Bytes)
    BY <2>1, BytesTail DEF StreamInv, Messages
  <2>3. <<>> \o Head(channel).bytes = Head(channel).bytes
    BY <2>2, ConcatEmptySeq
  <2>4. Delivers(written, pending \o Head(channel).bytes, Tail(channel), splitter)
    BY <2>1, ReceivedIsKept DEF StreamInv
  <2>5. Delivers(written, Head(channel).bytes, Tail(channel), splitter)
    BY <2>1, <2>3, <2>4
  <2> QED
    BY <2>1, <2>2, <2>5, ReadBytes
<1>11. ASSUME NEW bytes \in Writes, ServerWrites(bytes) PROVE StreamInv'
  <2>1. bytes \in Seq(Bytes)
    BY ConstantsAssumption
  <2>2. Data(bytes) \in Messages /\ Data(bytes).bytes = bytes
    BY <2>1 DEF Data, Messages, Kinds
  <2>3. /\ written' = written \o bytes /\ channel' = Append(channel, Data(bytes))
        /\ UNCHANGED <<pc, pending, splitter, read_failed>>
    BY <1>11 DEF ServerWrites, client, input
  <2> QED
    BY <2>2, <2>3, SentMessage
<1>12. ASSUME NEW kind \in Kinds, channel' = Append(channel, Message(kind)),
              UNCHANGED <<client, input, written>>
       PROVE  StreamInv'
  <2>1. <<>> \in Seq(Bytes)
    OBVIOUS
  <2>2. Message(kind) \in Messages /\ Message(kind).bytes = <<>>
    BY <2>1 DEF Message, Messages
  <2>3. written \o <<>> = written
    BY ConcatEmptySeq DEF StreamInv
  <2>4. UNCHANGED <<pc, pending, splitter, read_failed, written>>
    BY <1>12 DEF client, input
  <2> QED
    BY <1>12, <2>2, <2>3, <2>4, SentMessage
<1>13. ASSUME NEW kind \in {"success", "failure"}, ServerReplies(kind) PROVE StreamInv'
  BY <1>12, <1>13 DEF ServerReplies, Kinds
<1>14. ASSUME NEW kind \in {"other", "eof"}, ServerSaysOther(kind) PROVE StreamInv'
  BY <1>12, <1>14 DEF ServerSaysOther, Kinds
<1> QED
  BY <1>2, <1>3, <1>4, <1>5, <1>6, <1>7, <1>8, <1>9, <1>10, <1>11, <1>13, <1>14
     DEF Next, ConnectSteps, Server

\* What a stream begins with.
LEMMA ConcatBegins ==
  ASSUME NEW S, NEW a \in Seq(S), NEW b \in Seq(S)
  PROVE  SubSeq(a \o b, 1, Len(a)) = a
<1>1. CASE a = <<>>
  BY <1>1, SubSeqEmpty
<1>2. CASE a # <<>>
  <2>1. 1 \in 1..Len(a) /\ Len(a) \in 1..Len(a)
    BY <1>2, EmptySeq
  <2>2. SubSeq(a \o b, 1, Len(a)) = SubSeq(a, 1, Len(a))
    BY <2>1, SubSeqOfConcat1
  <2> QED
    BY <2>2, SubSeqFull
<1> QED
  BY <1>1, <1>2

\* Whatever the cuts of the channel's messages, and wherever the reply stands among
\* them, the lines of the session are those of the output read so far, up to the first
\* line it has to refuse, and what is kept has its limit: for every output and limit.
THEOREM StreamIsSplitIntoLines == Spec => []StreamIsSplit
<1>1. StreamInv => StreamIsSplit
  <2> SUFFICES ASSUME StreamInv, pc \in {"open", "session", "shutdown", "disconnecting", "closed"}
               PROVE  LET seen == SubSeq(written, 1, Len(written) - OnTheWay)
                      IN  splitter.lines = LinesOf(seen) /\ splitter.failed = IsRefused(seen)
    BY DEF StreamIsSplit, StreamInv
  <2>1. PICK read \in Seq(Bytes) :
          written = (read \o pending) \o BytesOf(channel) /\ HasRead(splitter, read)
    BY DEF StreamInv, Delivers
  <2>2. pending \in Seq(Bytes) /\ BytesOf(channel) \in Seq(Bytes)
    <3>1. Data(<<>>) \in Messages /\ channel \in Channels
      BY DEF Data, Messages, Kinds, StreamInv
    <3> QED
      BY <3>1, BytesAppend DEF StreamInv
  <2> DEFINE later == pending \o BytesOf(channel)
  <2>3. later \in Seq(Bytes) /\ Len(later) = OnTheWay
    BY <2>2, ConcatProperties DEF OnTheWay
  <2>4. written = read \o later
    BY <2>1, <2>2, ConcatAssociative
  <2> HIDE DEF later
  <2>5. Len(written) = Len(read) + OnTheWay /\ Len(read) \in Nat /\ OnTheWay \in Nat
    <3>1. Len(read \o later) = Len(read) + Len(later) /\ Len(read) \in Nat /\ Len(later) \in Nat
      <4>1. \A x \in Seq(Bytes), y \in Seq(Bytes) :
               Len(x \o y) = Len(x) + Len(y) /\ Len(x) \in Nat /\ Len(y) \in Nat
        OBVIOUS
      <4> QED
        BY ONLY <2>3, <4>1, read \in Seq(Bytes), Zenon
    <3> HIDE DEF OnTheWay
    <3> QED
      BY <2>3, <2>4, <3>1
  <2>6. Len(written) - OnTheWay = Len(read)
    <3> HIDE DEF OnTheWay
    <3> QED
      BY <2>5
  <2>7. SubSeq(written, 1, Len(written) - OnTheWay) = read
    BY <2>3, <2>4, <2>6, ConcatBegins
  <2> QED
    BY <2>1, <2>7 DEF HasRead
<1> QED
  BY <1>1, StreamInvInit, StreamInvNext, PTL DEF Spec

===============================================================================
