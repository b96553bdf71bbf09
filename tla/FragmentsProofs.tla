---------------------------- MODULE FragmentsProofs ----------------------------
(***************************************************************************)
(* Proofs about the fragment layer, for messages of any length, any        *)
(* payload, any number of objects and of faults.                           *)
(*                                                                         *)
(* The argument: what is in the buffer and on the wire is, cell by cell, a *)
(* sequence F of whole fragments of the messages that were sent (Laid).    *)
(* Counted along F, the fragments of a message that no fault touched have  *)
(* the ids that follow those already taken (InOrder), and the last ones    *)
(* the places that follow those already returned (Delivered).  A turn of   *)
(* feed's loop takes the head of F and keeps all of this; the loop ends    *)
(* because a turn shortens the buffer.                                     *)
(***************************************************************************)
EXTENDS Fragments, SequenceTheorems, WellFoundedInduction, TLAPS

\* The bytes of messages.
MsgBytes == Objects \X Nat
\* What a fragment can be (struct Fragment).
FragSet  == [object : Objects, id : Nat, start : BOOLEAN, end : BOOLEAN, blob : Seq(MsgBytes)]
\* A byte on the stream: its fragment, and its place in it.
CellSet  == [fragment : FragSet, at : Nat]

\* The fragments there can be of messages of the given lengths.
Parts(len) ==
  {f \in FragSet : /\ len[f.object] \in Nat /\ f.id + 1 \in 1..Count(len[f.object])
                   /\ f = Split(f.object, len[f.object])[f.id + 1]}

-----------------------------------------------------------------------------
(* What split_message makes of a message.                                  *)

\* A prefix that ends where the next part starts.
LEMMA Joined ==
  ASSUME NEW S, NEW s \in Seq(S), NEW a \in 0..Len(s), NEW b \in a..Len(s)
  PROVE  SubSeq(s, 1, a) \o SubSeq(s, a + 1, b) = SubSeq(s, 1, b)
<1>1. Len(s) \in Nat /\ a \in Nat /\ b \in Nat /\ a <= b /\ b <= Len(s)
  OBVIOUS
<1> DEFINE l == SubSeq(s, 1, a)
           r == SubSeq(s, a + 1, b)
<1>2. l \in Seq(S) /\ Len(l) = a /\ \A i \in 1..a : l[i] = s[i]
  BY <1>1
<1>3. r \in Seq(S) /\ Len(r) = b - a /\ \A i \in 1..(b - a) : r[i] = s[a + i]
  BY <1>1
<1>4. l \o r \in Seq(S) /\ Len(l \o r) = b
  BY <1>1, <1>2, <1>3
<1>5. \A i \in 1..b : (l \o r)[i] = s[i]
  BY <1>1, <1>2, <1>3
<1>6. SubSeq(s, 1, b) \in Seq(S) /\ Len(SubSeq(s, 1, b)) = b /\ \A i \in 1..b : SubSeq(s, 1, b)[i] = s[i]
  BY <1>1
<1> HIDE DEF l, r
<1> QED
  BY <1>4, <1>5, <1>6, SeqEqual DEF l, r

\* The number of fragments, and where each ends.
LEMMA CountBounds ==
  ASSUME NEW n \in Nat
  PROVE  /\ Count(n) \in Nat \ {0}
         /\ \A i \in 1..Count(n) : /\ (i - 1) * MaxPayload \in 0..n
                                   /\ i < Count(n) => i * MaxPayload < n
         /\ Count(n) * MaxPayload >= n
<1> DEFINE m == MaxPayload
           q == (n + m - 1) \div m
<1>1. m \in Nat \ {0}
  BY ConstantsAssumption
<1>2. n + m - 1 \in Nat
  BY <1>1
<1>3. q \in Nat /\ q * m <= n + m - 1 /\ n + m - 1 < (q + 1) * m
  BY <1>1, <1>2, SMT
<1> HIDE DEF q
<1>4. (q + 1) * m = q * m + m /\ q * m \in Nat
  BY <1>1, <1>3, SMT
<1> HIDE DEF m
<1>5. CASE n = 0
  BY <1>1, <1>5 DEF Count, m
<1>6. CASE n > 0
  <2>1. Count(n) = q
    BY <1>6 DEF Count, q, m
  <2>2. q > 0
    BY <1>1, <1>3, <1>4, <1>6, SMT
  <2>3. ASSUME NEW i \in Nat, i < q PROVE i * m \in Nat /\ i * m < n
    <3>1. (i + 1) * m <= q * m
      BY <1>1, <1>3, <2>3, SMT
    <3>2. (i + 1) * m = i * m + m /\ i * m \in Nat
      BY <1>1, SMT
    <3> QED
      BY <1>1, <1>3, <3>1, <3>2, SMT
  <2>4. q * m >= n
    BY <1>1, <1>3, <1>4
  <2>5. \A i \in 1..q : i - 1 \in Nat /\ i - 1 < q /\ i \in Nat
    BY <1>3
  <2>6. \A i \in 1..q : (i - 1) * m \in 0..n /\ (i < q => i * m < n)
    BY <2>3, <2>5
  <2> QED
    BY <1>3, <2>1, <2>2, <2>4, <2>6 DEF m
<1> QED
  BY <1>5, <1>6

\* The fields of a fragment.
LEMMA SplitFields ==
  ASSUME NEW o, NEW n \in Nat, NEW i \in 1..Count(n)
  PROVE  LET f == Split(o, n)[i]
             a == (i - 1) * MaxPayload
             b == IF i * MaxPayload < n THEN i * MaxPayload ELSE n
         IN  /\ f.object = o /\ f.id = i - 1
             /\ f.start = (i = 1) /\ f.end = (i = Count(n))
             /\ f.blob = SubSeq(Message(o, n), a + 1, b)
             /\ Split(o, n) = [k \in 1..Count(n) |-> Split(o, n)[k]]
  BY DEF Split

\* Each fragment, and the bytes that are there once it is joined to those before.
LEMMA PartIs ==
  ASSUME NEW len, NEW f \in Parts(len)
  PROVE  LET n == len[f.object]
             m == Message(f.object, n)
         IN  /\ n \in Nat /\ f.id + 1 \in 1..Count(n) /\ f.id \in Nat /\ f.object \in Objects
             /\ f.start <=> f.id = 0
             /\ f.end <=> f.id + 1 = Count(n)
             /\ SubSeq(m, 1, f.id * MaxPayload) \o f.blob
                  = IF f.end THEN m ELSE SubSeq(m, 1, (f.id + 1) * MaxPayload)
             /\ Size(f) \in Nat \ {0}
<1> DEFINE o == f.object
           n == len[o]
           m == Message(o, n)
           i == f.id + 1
           a == (i - 1) * MaxPayload
           b == IF i * MaxPayload < n THEN i * MaxPayload ELSE n
<1>1. f \in FragSet /\ n \in Nat /\ i \in 1..Count(n) /\ f = Split(o, n)[i]
  BY DEF Parts
<1>2. f.id \in Nat /\ o \in Objects /\ Len(f.blob) \in Nat /\ i - 1 = f.id
  BY <1>1 DEF FragSet
<1>3. f.start = (i = 1) /\ f.end = (i = Count(n)) /\ f.blob = SubSeq(m, a + 1, b)
  <2> DEFINE g(k) == Split(o, n)[k]
  <2>1. f = g(i)
    BY <1>1
  <2>2. g(i).start = (i = 1) /\ g(i).end = (i = Count(n)) /\ g(i).blob = SubSeq(m, a + 1, b)
    BY <1>1, SplitFields
  <2> HIDE DEF g, i, n, m, a, b
  <2> QED
    BY <2>1, <2>2
<1>4. Size(f) \in Nat \ {0}
  BY <1>2, ConstantsAssumption DEF Size
<1>5. m \in Seq(MsgBytes) /\ Len(m) = n
  BY <1>1, <1>2 DEF Message, MsgBytes
<1>6. a \in 0..n /\ (i < Count(n) => i * MaxPayload < n) /\ Count(n) * MaxPayload >= n /\ Count(n) \in Nat
  BY <1>1, CountBounds
<1>7. i * MaxPayload \in Nat /\ a <= i * MaxPayload
  <2>1. i \in Nat /\ MaxPayload \in Nat
    BY <1>2, ConstantsAssumption
  <2>2. i * MaxPayload = a + MaxPayload
    BY <2>1, SMT
  <2>3. i * MaxPayload \in Nat
    BY <2>1, SMT
  <2> QED
    BY <2>1, <2>2, <2>3, <1>6
<1> HIDE DEF a, m, n, i
<1>8. b \in a..n
  BY <1>1, <1>6, <1>7
<1>9. SubSeq(m, 1, a) \o f.blob = SubSeq(m, 1, b)
  BY <1>3, <1>5, <1>6, <1>8, Joined
<1>10. IF i = Count(n) THEN b = n ELSE b = i * MaxPayload
  BY <1>1, <1>6, <1>7
<1>11. SubSeq(m, 1, n) = m
  <2>1. n \in Nat /\ SubSeq(m, 1, n) \in Seq(MsgBytes) /\ Len(SubSeq(m, 1, n)) = n
        /\ \A k \in 1..n : SubSeq(m, 1, n)[k] = m[k]
    BY <1>1, <1>5
  <2> QED
    BY <1>5, <2>1, SeqEqual
<1>12. f.end => SubSeq(m, 1, a) \o f.blob = m
  BY <1>3, <1>9, <1>10, <1>11
<1>13. ~f.end => SubSeq(m, 1, a) \o f.blob = SubSeq(m, 1, i * MaxPayload)
  BY <1>3, <1>9, <1>10
<1>14. i - 1 = f.id /\ a = f.id * MaxPayload
  BY <1>2 DEF a, i
<1>15. /\ f.start <=> f.id = 0
       /\ f.end <=> i = Count(n)
  <2>1. i = 1 <=> f.id = 0
    BY <1>2 DEF i
  <2> QED
    BY <1>3, <2>1, Zenon
<1>16. SubSeq(m, 1, f.id * MaxPayload) \o f.blob = IF f.end THEN m ELSE SubSeq(m, 1, i * MaxPayload)
  BY <1>12, <1>13, <1>14
<1> QED
  BY <1>1, <1>2, <1>4, <1>15, <1>16 DEF m, n, i

-----------------------------------------------------------------------------
(* The stream: cells that are whole fragments, one after the other.        *)

\* The fragments F lie on the stream one after the other, the j-th after at[j] cells.
Lies(cells, F, at) ==
  /\ at \in [1..Len(F) + 1 -> 0..Len(cells)]
  /\ at[1] = 0 /\ at[Len(F) + 1] = Len(cells)
  /\ \A i, j \in 1..Len(F) + 1 : i <= j => at[i] <= at[j]
  /\ \A j \in 1..Len(F) :
       /\ at[j + 1] = at[j] + Size(F[j])
       /\ \A k \in 1..Size(F[j]) : cells[at[j] + k] = [fragment |-> F[j], at |-> k]

\* The stream is the fragments F and nothing else.
Laid(cells, F) == \E at : Lies(cells, F, at)

\* A fragment takes its header and its blob: at least one cell (Fragment::encode).
LEMMA SizeIs ==
  ASSUME NEW f \in FragSet
  PROVE  /\ Size(f) \in Nat \ {0} /\ Len(Encode(f)) = Size(f) /\ Encode(f) \in Seq(CellSet)
         /\ \A k \in 1..Size(f) : Encode(f)[k] = [fragment |-> f, at |-> k]
<1>1. f.blob \in Seq(MsgBytes)
  BY DEF FragSet
<1>2. Size(f) \in Nat \ {0}
  BY <1>1, ConstantsAssumption DEF Size
<1>3. \A k \in Nat : [fragment |-> f, at |-> k] \in CellSet
  BY DEF CellSet
<1> DEFINE e == [k \in 1..Size(f) |-> [fragment |-> f, at |-> k]]
<1>4. e \in Seq(CellSet) /\ Len(e) = Size(f)
  BY <1>2, <1>3
<1>5. \A k \in 1..Size(f) : e[k] = [fragment |-> f, at |-> k]
  OBVIOUS
<1> QED
  BY <1>2, <1>4, <1>5 DEF Encode

\* An empty stream is no fragment.
LEMMA LaidEmpty == Laid(<<>>, <<>>)
<1> DEFINE at == [j \in 1..1 |-> 0]
<1>1. Len(<<>>) = 0
  OBVIOUS
<1>2. Lies(<<>>, <<>>, at)
  BY <1>1 DEF Lies
<1> QED
  BY <1>2 DEF Laid

\* What is written at the end of the stream lies after the others (encode_message).
LEMMA LaidAppend ==
  ASSUME NEW cells \in Seq(CellSet), NEW F \in Seq(FragSet), NEW f \in FragSet, Laid(cells, F)
  PROVE  Laid(cells \o Encode(f), Append(F, f))
<1>1. PICK at : Lies(cells, F, at)
  BY DEF Laid
<1> DEFINE n == Len(F)
           l == Len(cells)
           z == Size(f)
           G == Append(F, f)
           all == cells \o Encode(f)
           at2 == [j \in 1..n + 2 |-> IF j = n + 2 THEN l + z ELSE at[j]]
<1>2. n \in Nat /\ l \in Nat /\ z \in Nat /\ z > 0
  BY SizeIs
<1>3. Len(G) = n + 1 /\ G[n + 1] = f /\ \A j \in 1..n : G[j] = F[j]
  OBVIOUS
<1>4. /\ Len(all) = l + z /\ \A k \in 1..l : all[k] = cells[k]
      /\ \A k \in 1..z : all[l + k] = [fragment |-> f, at |-> k]
  <2> DEFINE e == Encode(f)
  <2>1. e \in Seq(CellSet) /\ Len(e) = z /\ \A k \in 1..z : e[k] = [fragment |-> f, at |-> k]
    BY SizeIs
  <2> HIDE DEF z, e
  <2>2. Len(cells \o e) = l + z
    BY <2>1, ConcatProperties
  <2>3. \A k \in 1..l + z : (cells \o e)[k] = IF k <= l THEN cells[k] ELSE e[k - l]
    BY <2>1, ConcatProperties
  <2>4. \A k \in 1..l : (cells \o e)[k] = cells[k]
    BY <1>2, <2>3
  <2>5. ASSUME NEW k \in 1..z PROVE (cells \o e)[l + k] = e[k]
    <3> DEFINE p == l + k
    <3>1. p \in 1..l + z /\ ~(p <= l) /\ p - l = k
      BY <1>2
    <3> HIDE DEF p
    <3>2. (cells \o e)[p] = e[p - l]
      BY <2>3, <3>1
    <3> QED
      BY <3>1, <3>2 DEF p
  <2> QED
    BY <2>1, <2>2, <2>4, <2>5 DEF e
<1>5. /\ at \in [1..n + 1 -> 0..l] /\ at[1] = 0 /\ at[n + 1] = l
      /\ \A i, j \in 1..n + 1 : i <= j => at[i] <= at[j]
      /\ \A j \in 1..n : /\ at[j + 1] = at[j] + Size(F[j])
                         /\ \A k \in 1..Size(F[j]) : cells[at[j] + k] = [fragment |-> F[j], at |-> k]
  BY <1>1 DEF Lies
<1>6. \A j \in 1..n : F[j] \in FragSet /\ Size(F[j]) \in Nat
  BY SizeIs
<1> HIDE DEF n, l, z, G, all
<1>7. /\ at2[n + 2] = l + z /\ \A j \in 1..n + 1 : at2[j] = at[j]
      /\ \A j \in 1..n + 2 : j = n + 2 \/ j \in 1..n + 1
  BY <1>2
<1>8. at2 \in [1..n + 2 -> 0..l + z] /\ at2[1] = 0
  BY <1>2, <1>5
<1>9. \A i, j \in 1..n + 2 : i <= j => at2[i] <= at2[j]
  BY <1>2, <1>5, <1>7, <1>8
<1> HIDE DEF at2
<1>10. ASSUME NEW j \in 1..n + 1
       PROVE  /\ at2[j + 1] = at2[j] + Size(G[j])
              /\ \A k \in 1..Size(G[j]) : all[at2[j] + k] = [fragment |-> G[j], at |-> k]
  <2>1. CASE j = n + 1
    <3>1. j + 1 = n + 2 /\ at2[j] = l /\ G[j] = f
      BY <1>2, <1>3, <1>5, <1>7, <2>1
    <3> QED
      BY <1>4, <1>7, <3>1 DEF z
  <2>2. CASE j \in 1..n
    <3>1. j + 1 \in 1..n + 1 /\ j \in 1..n + 1
      BY <1>2, <2>2
    <3>2. at2[j + 1] = at[j + 1] /\ at2[j] = at[j] /\ G[j] = F[j]
      BY <1>3, <1>7, <2>2, <3>1
    <3>3. ASSUME NEW k \in 1..Size(F[j]) PROVE at[j] + k \in 1..l
      BY <1>2, <1>5, <1>6, <2>2, <3>1
    <3> QED
      BY <1>4, <1>5, <2>2, <3>2, <3>3
  <2> QED
    BY <1>2, <2>1, <2>2
<1>11. n + 1 + 1 = n + 2
  BY <1>2
<1>12. Lies(all, G, at2)
  BY <1>3, <1>4, <1>7, <1>8, <1>9, <1>10, <1>11 DEF Lies
<1> QED
  BY <1>12 DEF Laid, G, all

\* The first cells of a stream are its first fragment, and what is left once they are
\* drained is the stream of the others (decode_one, buffer.drain).
LEMMA LaidHead ==
  ASSUME NEW cells \in Seq(CellSet), NEW F \in Seq(FragSet), Laid(cells, F)
  PROVE  /\ cells = <<>> <=> F = <<>>
         /\ F # <<>> => /\ Head(cells) = [fragment |-> F[1], at |-> 1]
                        /\ Size(F[1]) <= Len(cells)
                        /\ Laid(Rest(cells, F[1]), Tail(F))
<1>1. PICK at : Lies(cells, F, at)
  BY DEF Laid
<1> DEFINE n == Len(F)
           l == Len(cells)
<1>2. n \in Nat /\ l \in Nat
  OBVIOUS
<1>3. /\ at \in [1..n + 1 -> 0..l] /\ at[1] = 0 /\ at[n + 1] = l
      /\ \A i, j \in 1..n + 1 : i <= j => at[i] <= at[j]
      /\ \A j \in 1..n : /\ at[j + 1] = at[j] + Size(F[j])
                         /\ \A k \in 1..Size(F[j]) : cells[at[j] + k] = [fragment |-> F[j], at |-> k]
  BY <1>1 DEF Lies
<1>4. F = <<>> => cells = <<>>
  <2> SUFFICES ASSUME F = <<>> PROVE cells = <<>>
    OBVIOUS
  <2>1. n = 0
    OBVIOUS
  <2>2. l = 0
    BY <1>3, <2>1
  <2> QED
    BY <2>2
<1> SUFFICES ASSUME F # <<>>
             PROVE  /\ cells # <<>> /\ Head(cells) = [fragment |-> F[1], at |-> 1]
                    /\ Size(F[1]) <= Len(cells) /\ Laid(Rest(cells, F[1]), Tail(F))
  BY <1>4
<1> DEFINE z == Size(F[1])
           G == Tail(F)
           rest == Rest(cells, F[1])
           at2 == [j \in 1..n |-> at[j + 1] - z]
<1>5. n >= 1 /\ F[1] \in FragSet /\ z \in Nat /\ z > 0
  <2>1. n >= 1 /\ F[1] \in FragSet
    BY <1>2
  <2> QED
    BY <2>1, SizeIs
<1>6. Len(G) = n - 1 /\ \A j \in 1..n - 1 : G[j] = F[j + 1]
  BY <1>5
<1>7. \A j \in 1..n : F[j] \in FragSet /\ Size(F[j]) \in Nat
  BY SizeIs
<1> HIDE DEF n, l, z, G
<1>8. 1 \in 1..n /\ 1 + 1 = 2 /\ 2 \in 1..n + 1 /\ n + 1 \in 1..n + 1
  BY <1>2, <1>5
<1>9. at[2] = z /\ z <= l
  <2>1. at[2] = at[1] + Size(F[1])
    BY <1>3, <1>8
  <2>2. at[2] \in 0..l
    BY <1>3, <1>8
  <2> QED
    BY <1>2, <1>3, <1>5, <2>1, <2>2 DEF z
<1>10. Head(cells) = [fragment |-> F[1], at |-> 1] /\ cells # <<>>
  <2>1. cells[0 + 1] = [fragment |-> F[1], at |-> 1]
    BY <1>3, <1>5, <1>8 DEF z
  <2>2. cells # <<>>
    BY <1>2, <1>5, <1>9 DEF l
  <2> QED
    BY <2>1, <2>2
<1>11. Len(rest) = l - z /\ \A k \in 1..l - z : rest[k] = cells[z + k]
  BY <1>2, <1>5, <1>9 DEF Rest, l, z
<1> HIDE DEF rest
<1>12. \A j \in 1..n : j + 1 \in 1..n + 1 /\ at[j + 1] \in z..l
  <2> SUFFICES ASSUME NEW j \in 1..n PROVE j + 1 \in 1..n + 1 /\ at[j + 1] \in z..l
    OBVIOUS
  <2>1. j + 1 \in 1..n + 1 /\ 2 <= j + 1
    BY <1>2, <1>5
  <2>2. at[2] <= at[j + 1] /\ at[j + 1] \in 0..l
    BY <1>3, <1>8, <2>1
  <2> QED
    BY <1>2, <1>5, <1>9, <2>1, <2>2
<1>13. at2 \in [1..n -> 0..l - z]
  BY <1>2, <1>5, <1>9, <1>12
<1>14. at2[1] = 0 /\ at2[n] = l - z
  BY <1>2, <1>3, <1>5, <1>8, <1>9
<1>15. \A i, j \in 1..n : i <= j => at2[i] <= at2[j]
  <2> SUFFICES ASSUME NEW i \in 1..n, NEW j \in 1..n, i <= j PROVE at2[i] <= at2[j]
    OBVIOUS
  <2>1. i + 1 \in 1..n + 1 /\ j + 1 \in 1..n + 1 /\ i + 1 <= j + 1
    BY <1>2
  <2>2. at[i + 1] <= at[j + 1]
    BY <1>3, <2>1
  <2> QED
    BY <1>2, <1>5, <1>12, <2>2
<1>16. \A j \in 1..n : at2[j] = at[j + 1] - z
  OBVIOUS
<1> HIDE DEF at2
<1>17. ASSUME NEW j \in 1..n - 1
       PROVE  /\ at2[j + 1] = at2[j] + Size(G[j])
              /\ \A k \in 1..Size(G[j]) : rest[at2[j] + k] = [fragment |-> G[j], at |-> k]
  <2>1. j + 1 \in 1..n /\ j \in 1..n /\ G[j] = F[j + 1] /\ Size(G[j]) \in Nat
    BY <1>2, <1>5, <1>6, <1>7
  <2>2. at[j + 1 + 1] = at[j + 1] + Size(F[j + 1])
    BY <1>3, <2>1
  <2>3. at[j + 1] \in z..l /\ at[j + 1 + 1] \in z..l
    BY <1>12, <2>1
  <2>4. at2[j + 1] = at2[j] + Size(G[j])
    BY <1>2, <1>5, <1>16, <2>1, <2>2, <2>3
  <2>5. ASSUME NEW k \in 1..Size(G[j]) PROVE rest[at2[j] + k] = [fragment |-> G[j], at |-> k]
    <3>1. at2[j] + k \in 1..l - z /\ z + (at2[j] + k) = at[j + 1] + k
      <4>1. at2[j] \in 0..l - z /\ at2[j + 1] \in 0..l - z
        BY <1>13, <2>1
      <4>2. at2[j] = at[j + 1] - z
        BY <1>16, <2>1
      <4>3. at[j + 1] \in Nat /\ at2[j] \in Int /\ at2[j + 1] \in Int /\ at2[j] >= 0 /\ at2[j + 1] <= l - z
        BY <1>2, <1>5, <1>9, <2>3, <4>1
      <4>4. k \in Nat /\ k >= 1 /\ k <= Size(G[j])
        BY <2>1
      <4>5. at2[j] + Size(G[j]) <= l - z
        BY <2>4, <4>3
      <4>6. l \in Nat /\ z \in Nat /\ Size(G[j]) \in Nat
        BY <1>2, <1>5, <2>1
      <4>7. at2[j] + k \in 1..l - z
        BY <4>3, <4>4, <4>5, <4>6
      <4> QED
        BY <4>2, <4>3, <4>4, <4>6, <4>7
    <3>2. cells[at[j + 1] + k] = [fragment |-> F[j + 1], at |-> k]
      BY <1>3, <2>1
    <3> QED
      BY <1>11, <2>1, <3>1, <3>2
  <2> QED
    BY <2>4, <2>5
<1>18. Lies(rest, G, at2)
  <2>1. n - 1 + 1 = n
    BY <1>2
  <2> QED
    BY <1>6, <1>11, <1>13, <1>14, <1>15, <1>17, <2>1 DEF Lies
<1> QED
  BY <1>9, <1>10, <1>18 DEF Laid, rest, G, l, z

\* What is left of a sequence without its first z elements.
LEMMA AfterFirst ==
  ASSUME NEW S, NEW s \in Seq(S), NEW z \in 0..Len(s)
  PROVE  LET r == SubSeq(s, z + 1, Len(s))
         IN  /\ r \in Seq(S) /\ Len(r) = Len(s) - z
             /\ \A i \in 1..Len(s) - z : r[i] = s[z + i]
  OBVIOUS

\* decode_one finds the first fragment in the buffer once all of it is there, and
\* drains it and nothing else, whatever is still on its way.
LEMMA LaidDrain ==
  ASSUME NEW b \in Seq(CellSet), NEW w \in Seq(CellSet), NEW F \in Seq(FragSet),
         Laid(b \o w, F), Whole(b)
  PROVE  /\ F # <<>> /\ F[1] \in FragSet /\ Head(b).fragment = F[1]
         /\ Rest(b, F[1]) \in Seq(CellSet) /\ Len(Rest(b, F[1])) < Len(b)
         /\ Laid(Rest(b, F[1]) \o w, Tail(F))
<1> DEFINE all == b \o w
           z == Size(F[1])
           lb == Len(b)
           lw == Len(w)
<1>1. all \in Seq(CellSet) /\ b # <<>> /\ all # <<>> /\ Head(all) = Head(b)
  BY DEF Whole
<1>2. F # <<>>
  BY <1>1, LaidHead
<1>3. F[1] \in FragSet
  BY <1>2
<1>4. Head(b) = [fragment |-> F[1], at |-> 1] /\ Laid(Rest(all, F[1]), Tail(F))
  <2> HIDE DEF all
  <2> QED
    BY <1>1, <1>2, LaidHead DEF all
<1>5. Head(b).fragment = F[1]
  BY <1>4
<1>6. lb \in Nat /\ lw \in Nat /\ z \in Nat /\ z > 0 /\ z <= lb
  BY <1>3, <1>5, SizeIs DEF Whole
<1>7. /\ Len(all) = lb + lw
      /\ \A i \in 1..lb + lw : all[i] = IF i <= lb THEN b[i] ELSE w[i - lb]
  BY ConcatProperties
<1> DEFINE r == Rest(b, F[1])
           ra == Rest(all, F[1])
<1>0. lb = Len(b) /\ lw = Len(w) /\ z = Size(F[1])
  OBVIOUS
<1> HIDE DEF all, z, lb, lw
<1>8. r \in Seq(CellSet) /\ Len(r) = lb - z /\ \A i \in 1..lb - z : r[i] = b[z + i]
  BY <1>0, <1>6, AfterFirst DEF Rest
<1>9. ra \in Seq(CellSet) /\ Len(ra) = lb + lw - z /\ \A i \in 1..lb + lw - z : ra[i] = all[z + i]
  <2>1. z \in 0..Len(all)
    BY <1>6, <1>7
  <2>2. ra = SubSeq(all, z + 1, Len(all))
    BY <1>0 DEF Rest
  <2> HIDE DEF ra
  <2>3. /\ ra \in Seq(CellSet) /\ Len(ra) = Len(all) - z
        /\ \A i \in 1..Len(all) - z : ra[i] = all[z + i]
    BY <1>1, <2>1, <2>2, AfterFirst
  <2>4. Len(all) - z = lb + lw - z
    <3>1. Len(all) = lb + lw
      BY <1>7
    <3> QED
      BY <1>6, <3>1
  <2> QED
    BY <2>3, <2>4, Zenon
<1> HIDE DEF r, ra
<1>10. /\ r \o w \in Seq(CellSet) /\ Len(r \o w) = lb - z + lw
       /\ \A i \in 1..lb - z + lw : (r \o w)[i] = IF i <= lb - z THEN r[i] ELSE w[i - (lb - z)]
  <2>1. /\ r \o w \in Seq(CellSet) /\ Len(r \o w) = Len(r) + Len(w)
        /\ \A i \in 1..Len(r) + Len(w) : (r \o w)[i] = IF i <= Len(r) THEN r[i] ELSE w[i - Len(r)]
    BY <1>8, ConcatProperties
  <2>2. Len(r) = lb - z /\ Len(w) = lw
    BY <1>0, <1>8
  <2> QED
    BY <2>1, <2>2
<1>11. ASSUME NEW i \in 1..lb - z + lw PROVE (r \o w)[i] = ra[i]
  <2> DEFINE p == z + i
             q == i - (lb - z)
  <2>1. /\ i \in 1..lb + lw - z /\ p \in 1..lb + lw /\ p - lb = q
        /\ (p <= lb <=> i <= lb - z) /\ (i <= lb - z => i \in 1..lb - z)
    BY <1>6
  <2>2. ra[i] = all[p]
    BY <1>9, <2>1
  <2>3. i <= lb - z => r[i] = b[p]
    BY <1>8, <2>1
  <2>4. (r \o w)[i] = IF i <= lb - z THEN r[i] ELSE w[q]
    BY <1>10
  <2> HIDE DEF p, q
  <2>5. all[p] = IF p <= lb THEN b[p] ELSE w[p - lb]
    BY <1>7, <2>1
  <2> QED
    BY <2>1, <2>2, <2>3, <2>4, <2>5
<1>12. r \o w = ra
  <2>1. lb - z + lw = lb + lw - z
    BY <1>6
  <2> QED
    BY <1>9, <1>10, <1>11, <2>1, SeqEqual
<1>13. Len(r) < lb
  BY <1>6, <1>8
<1> QED
  BY <1>2, <1>3, <1>4, <1>5, <1>8, <1>12, <1>13 DEF r, ra, lb

\* A buffer that is a stream of fragments, one at least, begins with a whole one:
\* feed waits for more only when nothing is left.
LEMMA LaidWhole ==
  ASSUME NEW b \in Seq(CellSet), NEW F \in Seq(FragSet), Laid(b, F), F # <<>>
  PROVE  Whole(b)
<1>1. Head(b) = [fragment |-> F[1], at |-> 1] /\ Size(F[1]) <= Len(b) /\ b # <<>>
  BY LaidHead
<1>2. F[1] \in FragSet
  OBVIOUS
<1>3. Size(F[1]) \in Nat /\ Len(b) \in Nat
  BY <1>2, SizeIs
<1> QED
  BY <1>1, <1>3 DEF Whole

-----------------------------------------------------------------------------
(* The numbers of fragments along the stream.                              *)

\* The fragments of F that are in W are numbered from a + 1 to b, each by a number
\* that R allows: c[j] are those before the j-th.
Numbers(F, W, R, a, b, c) ==
  /\ c \in [1..Len(F) + 1 -> 0..b]
  /\ c[1] = a /\ c[Len(F) + 1] = b
  /\ \A j \in 1..Len(F) :
       IF F[j] \in W THEN c[j + 1] = c[j] + 1 /\ <<F[j], c[j + 1]>> \in R ELSE c[j + 1] = c[j]

\* There are such numbers.
Numbered(F, W, R, a, b) == \E c : Numbers(F, W, R, a, b, c)

\* On an empty stream the numbering ends where it starts.
LEMMA NumberedEmpty ==
  ASSUME NEW W, NEW R, NEW a \in Nat
  PROVE  Numbered(<<>>, W, R, a, a) /\ \A b : Numbered(<<>>, W, R, a, b) => a = b
<1>1. Len(<<>>) = 0
  OBVIOUS
<1>2. Numbers(<<>>, W, R, a, a, [j \in 1..1 |-> a])
  BY <1>1 DEF Numbers
<1>3. ASSUME NEW b, Numbered(<<>>, W, R, a, b) PROVE a = b
  <2>1. PICK c : Numbers(<<>>, W, R, a, b, c)
    BY <1>3 DEF Numbered
  <2>2. Len(<<>>) + 1 = 1
    BY <1>1
  <2> QED
    BY <2>1, <2>2 DEF Numbers
<1> QED
  BY <1>2, <1>3 DEF Numbered

\* The numbering stays when more numbers are allowed.
LEMMA NumberedAgain ==
  ASSUME NEW F \in Seq(FragSet), NEW W, NEW R, NEW Q, NEW a, NEW b, Numbered(F, W, R, a, b),
         \A f \in W, i \in 0..b : <<f, i>> \in R => <<f, i>> \in Q
  PROVE  Numbered(F, W, Q, a, b)
<1>1. PICK c : Numbers(F, W, R, a, b, c)
  BY DEF Numbered
<1>2. \A j \in 1..Len(F) : j + 1 \in 1..Len(F) + 1
  OBVIOUS
<1>3. Numbers(F, W, Q, a, b, c)
  BY <1>1, <1>2 DEF Numbers
<1> QED
  BY <1>3 DEF Numbered

\* A fragment that is written has the next number.
LEMMA NumberedAppend ==
  ASSUME NEW F \in Seq(FragSet), NEW W, NEW R, NEW a, NEW b \in Nat, Numbered(F, W, R, a, b),
         NEW f \in FragSet, f \in W => <<f, b + 1>> \in R
  PROVE  Numbered(Append(F, f), W, R, a, IF f \in W THEN b + 1 ELSE b)
<1>1. PICK c : Numbers(F, W, R, a, b, c)
  BY DEF Numbered
<1> DEFINE n == Len(F)
           d == IF f \in W THEN b + 1 ELSE b
           G == Append(F, f)
           c2 == [j \in 1..n + 2 |-> IF j = n + 2 THEN d ELSE c[j]]
<1>2. n \in Nat /\ Len(G) = n + 1 /\ G[n + 1] = f /\ \A j \in 1..n : G[j] = F[j]
  OBVIOUS
<1>3. /\ c \in [1..n + 1 -> 0..b] /\ c[1] = a /\ c[n + 1] = b
      /\ \A j \in 1..n : IF F[j] \in W THEN c[j + 1] = c[j] + 1 /\ <<F[j], c[j + 1]>> \in R
                         ELSE c[j + 1] = c[j]
  BY <1>1 DEF Numbers
<1>4. d \in Nat /\ b <= d
  OBVIOUS
<1> HIDE DEF n, G
<1>5. c2 \in [1..n + 2 -> 0..d] /\ c2[1] = a /\ c2[n + 2] = d /\ \A j \in 1..n + 1 : c2[j] = c[j]
  BY <1>2, <1>3, <1>4
<1> HIDE DEF c2
<1>6. ASSUME NEW j \in 1..n + 1
      PROVE  IF G[j] \in W THEN c2[j + 1] = c2[j] + 1 /\ <<G[j], c2[j + 1]>> \in R
             ELSE c2[j + 1] = c2[j]
  <2>1. CASE j = n + 1
    <3>1. j + 1 = n + 2 /\ c2[j] = b /\ G[j] = f
      BY <1>2, <1>3, <1>5, <2>1
    <3> QED
      BY <1>5, <3>1
  <2>2. CASE j \in 1..n
    <3>1. j + 1 \in 1..n + 1 /\ j \in 1..n + 1
      BY <1>2, <2>2
    <3>2. c2[j + 1] = c[j + 1] /\ c2[j] = c[j] /\ G[j] = F[j]
      BY <1>2, <1>5, <2>2, <3>1
    <3> QED
      BY <1>3, <2>2, <3>2
  <2> QED
    BY <1>2, <2>1, <2>2
<1>7. n + 1 + 1 = n + 2
  BY <1>2
<1>8. Numbers(G, W, R, a, d, c2)
  BY <1>2, <1>5, <1>6, <1>7 DEF Numbers
<1> QED
  BY <1>8 DEF Numbered, G

\* A fragment that is taken had the first number.
LEMMA NumberedTail ==
  ASSUME NEW F \in Seq(FragSet), F # <<>>, NEW W, NEW R, NEW a \in Nat, NEW b \in Nat,
         Numbered(F, W, R, a, b)
  PROVE  /\ Numbered(Tail(F), W, R, IF F[1] \in W THEN a + 1 ELSE a, b)
         /\ F[1] \in W => a + 1 <= b /\ <<F[1], a + 1>> \in R
<1>1. PICK c : Numbers(F, W, R, a, b, c)
  BY DEF Numbered
<1> DEFINE n == Len(F)
           G == Tail(F)
           d == IF F[1] \in W THEN a + 1 ELSE a
           c2 == [j \in 1..n |-> c[j + 1]]
<1>2. n \in Nat /\ n >= 1 /\ Len(G) = n - 1 /\ \A j \in 1..n - 1 : G[j] = F[j + 1]
  OBVIOUS
<1>3. /\ c \in [1..n + 1 -> 0..b] /\ c[1] = a /\ c[n + 1] = b
      /\ \A j \in 1..n : IF F[j] \in W THEN c[j + 1] = c[j] + 1 /\ <<F[j], c[j + 1]>> \in R
                         ELSE c[j + 1] = c[j]
  BY <1>1 DEF Numbers
<1> HIDE DEF n, G
<1>4. 1 \in 1..n /\ 1 + 1 = 2 /\ 2 \in 1..n + 1 /\ n - 1 + 1 = n /\ n \in 1..n
  BY <1>2
<1>5. c[2] = d /\ c[2] \in 0..b /\ (F[1] \in W => <<F[1], c[2]>> \in R)
  BY <1>3, <1>4
<1>6. c2 \in [1..n -> 0..b] /\ c2[1] = d /\ c2[n] = b /\ \A j \in 1..n : c2[j] = c[j + 1]
  <2>1. \A j \in 1..n : j + 1 \in 1..n + 1
    BY <1>2
  <2> QED
    BY <1>3, <1>4, <1>5, <2>1
<1> HIDE DEF c2
<1>7. ASSUME NEW j \in 1..n - 1
      PROVE  IF G[j] \in W THEN c2[j + 1] = c2[j] + 1 /\ <<G[j], c2[j + 1]>> \in R
             ELSE c2[j + 1] = c2[j]
  <2>1. j + 1 \in 1..n /\ j \in 1..n /\ G[j] = F[j + 1]
    BY <1>2
  <2> QED
    BY <1>3, <1>6, <2>1
<1>8. Numbers(G, W, R, d, b, c2)
  BY <1>2, <1>4, <1>6, <1>7 DEF Numbers
<1> QED
  BY <1>5, <1>8 DEF Numbered, G

-----------------------------------------------------------------------------
(* What is in flight.                                                      *)

\* InFlight: the bytes joined so far and the id that comes next.
EntrySet == [buf : Seq(MsgBytes), next : Nat, started : BOOLEAN]

\* An entry has joined the first fragments of its message, not yet all.
Grown(e, o, n) ==
  /\ e \in EntrySet /\ n \in Nat /\ e.next < Count(n)
  /\ e.buf = SubSeq(Message(o, n), 1, e.next * MaxPayload)
  /\ e.started <=> e.next > 0

\* in_flight: an entry for some of the messages, each with the first of their bytes.
IsFlight(flight, len) ==
  /\ flight = [o \in DOMAIN flight |-> flight[o]] /\ DOMAIN flight \subseteq Objects
  /\ \A o \in DOMAIN flight : Grown(flight[o], o, len[o])

\* A message has the bytes it was sent with.
LEMMA MessageIs ==
  ASSUME NEW o \in Objects, NEW n \in Nat
  PROVE  Message(o, n) \in Seq(MsgBytes) /\ Len(Message(o, n)) = n
  BY DEF Message, MsgBytes

\* The entry a fragment meets; that its start and its id agree comes down to the id:
\* feed refuses a fragment exactly when it is not the next one.
LEMMA EntryIs ==
  ASSUME NEW len, NEW f \in Parts(len), NEW flight, IsFlight(flight, len)
  PROVE  /\ Grown(Entry(flight, f), f.object, len[f.object])
         /\ Refuses(flight, f) <=> f.id # Entry(flight, f).next
<1> DEFINE o == f.object
           n == len[o]
           e == Entry(flight, f)
<1>1. n \in Nat /\ o \in Objects /\ f.id \in Nat /\ (f.start <=> f.id = 0) /\ f.start \in BOOLEAN
  BY PartIs DEF Parts, FragSet
<1>2. Count(n) \in Nat \ {0}
  BY <1>1, CountBounds
<1>3. Grown(e, o, n) /\ (Started(flight, f) <=> e.next > 0)
  <2>1. CASE o \in DOMAIN flight
    <3>1. e = flight[o] /\ Grown(flight[o], o, n)
      BY <2>1 DEF Entry, IsFlight
    <3>2. Started(flight, f) <=> e.started
      BY <2>1, <3>1 DEF Started
    <3> QED
      BY <3>1, <3>2 DEF Grown
  <2>2. CASE o \notin DOMAIN flight
    <3>1. e = [buf |-> <<>>, next |-> 0, started |-> FALSE]
      BY <2>2 DEF Entry
    <3>2. e \in EntrySet /\ e.next = 0 /\ e.buf = <<>> /\ e.started = FALSE
      BY <3>1 DEF EntrySet
    <3>3. SubSeq(Message(o, n), 1, 0) = <<>>
      BY <1>1, MessageIs
    <3>4. 0 * MaxPayload = 0
      BY ConstantsAssumption, SMT
    <3>5. ~Started(flight, f)
      BY <2>2 DEF Started
    <3>6. e.next < Count(n) /\ ~(e.next > 0) /\ e.next * MaxPayload = 0
      BY <1>2, <3>2, <3>4
    <3> HIDE DEF e
    <3> QED
      BY <1>1, <3>2, <3>3, <3>5, <3>6 DEF Grown
  <2> QED
    BY <2>1, <2>2
<1>4. e.next \in Nat
  BY <1>3 DEF Grown, EntrySet
<1>5. Started(flight, f) \in BOOLEAN
  BY <1>3, <1>4 DEF Started, IsFlight, Grown, EntrySet
<1>6. CASE f.id = e.next
  <2>1. f.start <=> ~Started(flight, f)
    BY <1>1, <1>3, <1>4, <1>6
  <2>2. ~(f.start = Started(flight, f))
    BY <1>1, <1>5, <2>1
  <2> QED
    BY <1>3, <1>6, <2>2 DEF Refuses
<1>7. CASE f.id # e.next
  BY <1>3, <1>7 DEF Refuses
<1> QED
  BY <1>6, <1>7

\* What a fragment that is refused leaves.
LEMMA RefusedFlight ==
  ASSUME NEW len, NEW f \in Parts(len), NEW flight, IsFlight(flight, len)
  PROVE  IsFlight(Put(flight, f.object, Entry(flight, f)), len)
<1>1. Grown(Entry(flight, f), f.object, len[f.object]) /\ f.object \in Objects
  BY EntryIs, PartIs
<1> QED
  BY <1>1 DEF IsFlight, Put

\* What the entry of a message becomes with its next fragment.
LEMMA AcceptedIs ==
  ASSUME NEW len, NEW f \in Parts(len), NEW flight, IsFlight(flight, len), ~Refuses(flight, f)
  PROVE  LET o   == f.object
             buf == Entry(flight, f).buf \o f.blob
         IN  /\ f.end => buf = Message(o, len[o])
             /\ ~f.end => Grown([buf |-> buf, next |-> f.id + 1, started |-> TRUE], o, len[o])
<1> DEFINE o == f.object
           n == len[o]
           m == Message(o, n)
           e == Entry(flight, f)
           buf == e.buf \o f.blob
           k == (f.id + 1) * MaxPayload
<1>1. Grown(e, o, n) /\ f.id = e.next
  BY EntryIs
<1>2. /\ n \in Nat /\ f.id + 1 \in 1..Count(n) /\ f.id \in Nat /\ o \in Objects
      /\ f.end <=> f.id + 1 = Count(n)
      /\ SubSeq(m, 1, f.id * MaxPayload) \o f.blob = IF f.end THEN m ELSE SubSeq(m, 1, k)
  BY PartIs
<1>3. buf = IF f.end THEN m ELSE SubSeq(m, 1, k)
  BY <1>1, <1>2 DEF Grown
<1>4. m \in Seq(MsgBytes) /\ Len(m) = n
  BY <1>2, MessageIs
<1>5. Count(n) \in Nat /\ \A i \in 1..Count(n) : i < Count(n) => i * MaxPayload < n
  BY <1>2, CountBounds
<1>6. k \in Nat
  <2>1. f.id + 1 \in Nat /\ MaxPayload \in Nat
    BY <1>2, ConstantsAssumption
  <2> QED
    BY <2>1, SMT
<1> HIDE DEF m, n, k
<1>7. ASSUME ~f.end PROVE Grown([buf |-> buf, next |-> f.id + 1, started |-> TRUE], o, n)
  <2>1. f.id + 1 < Count(n)
    BY <1>2, <1>5, <1>7
  <2>2. k < n
    BY <1>2, <1>5, <2>1 DEF k
  <2>3. buf = SubSeq(m, 1, k) /\ buf \in Seq(MsgBytes)
    BY <1>2, <1>3, <1>4, <1>6, <1>7, <2>2
  <2> DEFINE g == [buf |-> buf, next |-> f.id + 1, started |-> TRUE]
  <2>4. g \in EntrySet /\ g.buf = SubSeq(m, 1, k) /\ g.next = f.id + 1 /\ g.started
    BY <1>2, <2>3 DEF EntrySet
  <2>5. f.id + 1 > 0
    BY <1>2
  <2> HIDE DEF g
  <2>6. Grown(g, o, n)
    BY <1>2, <2>1, <2>4, <2>5 DEF Grown, m, k
  <2> QED
    BY <2>6 DEF g
<1> QED
  BY <1>3, <1>7 DEF m, n

\* What remains in flight after a fragment was accepted: nothing of its message if it
\* was the last, else one fragment more.
LEMMA AcceptedFlight ==
  ASSUME NEW len, NEW f \in Parts(len), NEW flight, IsFlight(flight, len), ~Refuses(flight, f)
  PROVE  LET o == f.object
             e == [buf |-> Entry(flight, f).buf \o f.blob, next |-> f.id + 1, started |-> TRUE]
         IN  /\ IsFlight([x \in DOMAIN flight \ {o} |-> flight[x]], len)
             /\ ~f.end => IsFlight(Put(flight, o, e), len)
<1>1. f.object \in Objects
  BY PartIs
<1> QED
  BY <1>1, AcceptedIs DEF IsFlight, Put

-----------------------------------------------------------------------------
(* Messages that no fault touched, and messages that were finished.        *)

\* The fragments of a message, none before it is sent.
Total(len, o) == IF len[o] = -1 THEN 0 ELSE Count(len[o])

\* The fragments of one message, each numbered one above its id.
Own(o)  == {f \in FragSet : f.object = o}
\* A number for each fragment, one above its id.
Ids     == {r \in FragSet \X Nat : r[2] = r[1].id + 1}
\* The last fragments, each numbered by its place in finished.
Last    == {f \in FragSet : f.end}
\* A number for each fragment whose message finished there.
Ends(fin) == {r \in FragSet \X Nat : r[2] \in 1..Len(fin) /\ fin[r[2]] = r[1].object}

\* Where a message is: a of its fragments were taken, b were written.
Reached(o, total, flight, msgs, a) ==
  /\ o \in DOMAIN flight <=> 0 < a /\ a < total
  /\ o \in DOMAIN flight => flight[o].next = a
  /\ \A i \in DOMAIN msgs : msgs[i][1] = o => a = total
  /\ \A i, j \in DOMAIN msgs : msgs[i][1] = o /\ msgs[j][1] = o => i = j

\* The fragments that are yet to be written follow in the order of their ids.
Unwritten(box, b) == \A k \in 1..Len(box) : box[k].id = b + k - 1

\* A message that no fault touched: its fragments on the stream follow in the order
\* of their ids those that were taken, and are followed by those still to be written.
InOrder(F, o, total, box, flight, msgs) ==
  /\ total - Len(box) \in Nat /\ Unwritten(box, total - Len(box))
  /\ \E a \in 0..total : /\ Numbered(F, Own(o), Ids, a, total - Len(box))
                         /\ Reached(o, total, flight, msgs, a)

\* The messages that were returned are the first that were finished.
Delivered(F, fin, msgs) ==
  /\ Len(msgs) <= Len(fin) /\ \A i \in 1..Len(msgs) : msgs[i][1] = fin[i]
  /\ Numbered(F, Last, Ends(fin), Len(msgs), Len(fin))

\* Messages, each as it was sent.
WholeMsgs(msgs, len) ==
  /\ msgs \in Seq(Objects \X Seq(MsgBytes))
  /\ \A i \in 1..Len(msgs) : LET o == msgs[i][1] IN len[o] \in Nat /\ msgs[i][2] = Message(o, len[o])

\* No fragment of a message that no fault touched is refused.
LEMMA InOrderAccepted ==
  ASSUME NEW len, NEW f \in Parts(len), NEW F \in Seq(FragSet), F # <<>>, F[1] = f,
         NEW flight, IsFlight(flight, len), NEW box, NEW msgs,
         NEW total \in Nat, InOrder(F, f.object, total, box, flight, msgs)
  PROVE  ~Refuses(flight, f)
<1> DEFINE o == f.object
           b == total - Len(box)
<1>1. b \in Nat /\ f \in Own(o) /\ f.id \in Nat
  BY PartIs DEF InOrder, Own, Parts
<1>2. PICK a \in 0..total : Numbered(F, Own(o), Ids, a, b) /\ Reached(o, total, flight, msgs, a)
  BY DEF InOrder
<1> HIDE DEF b
<1>3. a + 1 <= b /\ <<f, a + 1>> \in Ids
  BY <1>1, <1>2, NumberedTail
<1>4. f.id = a
  BY <1>1, <1>2, <1>3 DEF Ids
<1>5. b <= total
  BY <1>1 DEF InOrder, b
<1>6. Entry(flight, f).next = a
  <2>1. CASE o \in DOMAIN flight
    BY <1>2, <2>1 DEF Entry, Reached
  <2>2. CASE o \notin DOMAIN flight
    <3>1. a = 0
      BY <1>1, <1>2, <1>3, <1>5, <2>2 DEF Reached
    <3> QED
      BY <2>2, <3>1 DEF Entry
  <2> QED
    BY <2>1, <2>2
<1> QED
  BY <1>4, <1>6, EntryIs

\* A fragment is taken from the stream.
LEMMA InOrderTaken ==
  ASSUME NEW F \in Seq(FragSet), F # <<>>, NEW o, NEW total \in Nat, NEW box,
         NEW flight, NEW msgs, InOrder(F, o, total, box, flight, msgs), NEW flight2, NEW msgs2,
         F[1].object # o =>
           \A a \in Nat : Reached(o, total, flight, msgs, a) => Reached(o, total, flight2, msgs2, a),
         F[1].object = o =>
           \A a \in Nat : Reached(o, total, flight, msgs, a) /\ F[1].id = a /\ a < total
                            => Reached(o, total, flight2, msgs2, a + 1)
  PROVE  InOrder(Tail(F), o, total, box, flight2, msgs2)
<1> DEFINE b == total - Len(box)
           f == F[1]
<1>1. b \in Nat /\ Unwritten(box, b) /\ b <= total
  BY DEF InOrder
<1>2. PICK a \in 0..total : Numbered(F, Own(o), Ids, a, b) /\ Reached(o, total, flight, msgs, a)
  BY DEF InOrder
<1>3. f \in FragSet /\ f.id \in Nat /\ (f \in Own(o) <=> f.object = o)
  <2>1. f \in FragSet
    OBVIOUS
  <2> HIDE DEF f
  <2> QED
    BY <2>1 DEF Own, FragSet
<1>7. a \in Nat
  OBVIOUS
<1> HIDE DEF b
<1>4. /\ Numbered(Tail(F), Own(o), Ids, IF f \in Own(o) THEN a + 1 ELSE a, b)
      /\ f \in Own(o) => a + 1 <= b /\ <<f, a + 1>> \in Ids
  <2> DEFINE W == Own(o)
  <2> HIDE DEF W
  <2>1. Numbered(F, W, Ids, a, b)
    BY <1>2 DEF W
  <2>2. /\ Numbered(Tail(F), W, Ids, IF F[1] \in W THEN a + 1 ELSE a, b)
        /\ F[1] \in W => a + 1 <= b /\ <<F[1], a + 1>> \in Ids
    BY <1>1, <1>7, <2>1, NumberedTail
  <2> QED
    BY <2>2 DEF W
<1>5. CASE f.object # o
  <2>1. Numbered(Tail(F), Own(o), Ids, a, b) /\ Reached(o, total, flight2, msgs2, a)
    BY <1>2, <1>3, <1>4, <1>5
  <2> QED
    BY <1>1, <2>1 DEF InOrder, b
<1>6. CASE f.object = o
  <2>1. a + 1 <= b /\ f.id = a /\ a < total /\ a + 1 \in 0..total
    BY <1>1, <1>2, <1>3, <1>4, <1>6 DEF Ids
  <2>2. Numbered(Tail(F), Own(o), Ids, a + 1, b) /\ Reached(o, total, flight2, msgs2, a + 1)
    BY <1>2, <1>3, <1>4, <1>6, <2>1
  <2> QED
    BY <1>1, <2>1, <2>2 DEF InOrder, b
<1> QED
  BY <1>5, <1>6

\* A turn that takes a fragment of another message, and may complete that one.
LEMMA OtherReached ==
  ASSUME NEW o, NEW total, NEW flight, NEW msgs, NEW T, msgs \in Seq(T), NEW a, Reached(o, total, flight, msgs, a),
         NEW flight2, o \in DOMAIN flight2 <=> o \in DOMAIN flight,
         o \in DOMAIN flight => flight2[o] = flight[o],
         NEW msgs2, NEW m, m[1] # o, msgs2 \in {msgs, Append(msgs, m)}
  PROVE  Reached(o, total, flight2, msgs2, a)
<1>1. \A i \in DOMAIN msgs2 : msgs2[i][1] = o => i \in DOMAIN msgs /\ msgs2[i] = msgs[i]
  <2>1. msgs \in Seq(T)
    OBVIOUS
  <2>2. CASE msgs2 = Append(msgs, m)
    <3>1. /\ DOMAIN msgs2 = 1..Len(msgs) + 1 /\ DOMAIN msgs = 1..Len(msgs) /\ Len(msgs) \in Nat
          /\ msgs2[Len(msgs) + 1] = m /\ \A i \in 1..Len(msgs) : msgs2[i] = msgs[i]
      BY <2>1, <2>2
    <3>2. \A i \in DOMAIN msgs2 : i \in DOMAIN msgs \/ i = Len(msgs) + 1
      BY <3>1
    <3> QED
      BY <3>1, <3>2
  <2> QED
    BY <2>2
<1> QED
  BY <1>1 DEF Reached

\* The next fragment of the message itself.
LEMMA OwnReached ==
  ASSUME NEW o, NEW total \in Nat, NEW flight, NEW msgs, NEW T, msgs \in Seq(T), NEW a \in Nat,
         Reached(o, total, flight, msgs, a), a < total,
         NEW flight2, NEW msgs2, NEW m,
         IF a + 1 = total THEN o \notin DOMAIN flight2 /\ msgs2 = Append(msgs, m)
         ELSE o \in DOMAIN flight2 /\ flight2[o].next = a + 1 /\ msgs2 = msgs
  PROVE  Reached(o, total, flight2, msgs2, a + 1)
<1>1. \A i \in DOMAIN msgs : msgs[i][1] # o
  BY DEF Reached
<1>2. CASE a + 1 = total
  <2>1. msgs \in Seq(T)
    OBVIOUS
  <2>2. /\ DOMAIN msgs2 = 1..Len(msgs) + 1 /\ DOMAIN msgs = 1..Len(msgs) /\ Len(msgs) \in Nat
        /\ \A i \in 1..Len(msgs) : msgs2[i] = msgs[i]
    BY <1>2, <2>1
  <2>3. \A i \in DOMAIN msgs2 : i \in DOMAIN msgs \/ i = Len(msgs) + 1
    BY <2>2
  <2>4. \A i \in DOMAIN msgs2 : msgs2[i][1] = o => i = Len(msgs) + 1
    BY <1>1, <2>2, <2>3
  <2>5. ~(a + 1 < total) /\ o \notin DOMAIN flight2
    BY <1>2
  <2> QED
    BY <1>2, <2>4, <2>5 DEF Reached
<1>3. CASE a + 1 # total
  BY <1>1, <1>3 DEF Reached
<1> QED
  BY <1>2, <1>3

\* When a last fragment is taken its message is the one that finished next.
LEMMA DeliveredTaken ==
  ASSUME NEW F \in Seq(FragSet), F # <<>>, NEW fin \in Seq(Objects), NEW T, NEW msgs \in Seq(T),
         Delivered(F, fin, msgs), NEW m \in T, m[1] = F[1].object
  PROVE  IF F[1].end THEN Delivered(Tail(F), fin, Append(msgs, m)) ELSE Delivered(Tail(F), fin, msgs)
<1> DEFINE a == Len(msgs)
           b == Len(fin)
           R == Ends(fin)
<1>1. a \in Nat /\ b \in Nat /\ a <= b /\ Numbered(F, Last, R, a, b)
      /\ \A i \in 1..a : msgs[i][1] = fin[i]
  BY DEF Delivered
<1>2. F[1] \in FragSet
  OBVIOUS
<1>3. F[1] \in Last <=> F[1].end
  BY <1>2 DEF Last
<1>4. /\ Len(Append(msgs, m)) = a + 1 /\ Append(msgs, m)[a + 1] = m
      /\ \A i \in 1..a : Append(msgs, m)[i] = msgs[i]
  OBVIOUS
<1> HIDE DEF a, b, R
<1>5. /\ Numbered(Tail(F), Last, R, IF F[1] \in Last THEN a + 1 ELSE a, b)
      /\ F[1] \in Last => a + 1 <= b /\ <<F[1], a + 1>> \in R
  BY <1>1, NumberedTail
<1>6. CASE F[1].end
  <2>1. Numbered(Tail(F), Last, R, a + 1, b) /\ a + 1 <= b /\ <<F[1], a + 1>> \in R
    BY <1>3, <1>5, <1>6
  <2>2. fin[a + 1] = F[1].object
    BY <2>1 DEF R, Ends
  <2>3. \A i \in 1..a + 1 : Append(msgs, m)[i][1] = fin[i]
    <3>1. \A i \in 1..a + 1 : i \in 1..a \/ i = a + 1
      BY <1>1
    <3> QED
      BY <1>1, <1>4, <2>2, <3>1
  <2>4. Delivered(Tail(F), fin, Append(msgs, m))
    BY <1>4, <2>1, <2>3 DEF Delivered, b, R
  <2> QED
    BY <1>6, <2>4
<1>7. CASE ~F[1].end
  <2>1. Numbered(Tail(F), Last, R, a, b)
    BY <1>3, <1>5, <1>7
  <2>2. Delivered(Tail(F), fin, msgs)
    BY <1>1, <2>1 DEF Delivered, a, b, R
  <2> QED
    BY <1>7, <2>2
<1> QED
  BY <1>6, <1>7

\* A whole message more.
LEMMA WholeMore ==
  ASSUME NEW len, NEW msgs, WholeMsgs(msgs, len), NEW o \in Objects, len[o] \in Nat
  PROVE  WholeMsgs(Append(msgs, <<o, Message(o, len[o])>>), len)
<1> DEFINE m == <<o, Message(o, len[o])>>
           all == Append(msgs, m)
           T == Objects \X Seq(MsgBytes)
<1>1. m \in T /\ m[1] = o /\ m[2] = Message(o, len[o])
  BY MessageIs
<1>2. msgs \in Seq(T) /\ \A i \in 1..Len(msgs) : len[msgs[i][1]] \in Nat /\ msgs[i][2] = Message(msgs[i][1], len[msgs[i][1]])
  BY DEF WholeMsgs
<1> HIDE DEF m, T
<1>3. /\ all \in Seq(T) /\ Len(all) = Len(msgs) + 1 /\ Len(msgs) \in Nat /\ all[Len(msgs) + 1] = m
      /\ \A i \in 1..Len(msgs) : all[i] = msgs[i]
  BY <1>1, <1>2
<1> HIDE DEF all
<1>4. \A i \in 1..Len(all) : i \in 1..Len(msgs) \/ i = Len(msgs) + 1
  BY <1>3
<1>5. \A i \in 1..Len(all) : len[all[i][1]] \in Nat /\ all[i][2] = Message(all[i][1], len[all[i][1]])
  BY <1>1, <1>2, <1>3, <1>4
<1> QED
  BY <1>3, <1>5 DEF WholeMsgs, all, m, T

-----------------------------------------------------------------------------
(* One turn of feed's loop.                                                *)

\* The peer has the fragments of each message in its own outbox.
PeerInv ==
  /\ length \in [Objects -> Nat \cup {-1}]
  /\ outbox \in [Objects -> Seq(Parts(length))]
  /\ \A o \in Objects : \A k \in 1..Len(outbox[o]) : outbox[o][k].object = o
  /\ finished \in Seq(Objects)

\* What holds at each turn of feed's loop, with w still on the wire.
StreamInv(F, cells, flight, msgs, ok) ==
  /\ Laid(cells, F)
  /\ ok => Delivered(F, finished, msgs)
  /\ \A o \in Objects \ hurt : InOrder(F, o, Total(length, o), outbox[o], flight, msgs)

\* The invariant of the loop: the entries in flight and the completed messages are
\* what the fragments make of them, only a fault fails it, and what is left in the
\* buffer and on the wire is a stream.
LoopInv(loop, w) ==
  /\ loop.buffer \in Seq(CellSet) /\ loop.failed \in BOOLEAN
  /\ IsFlight(loop.flight, length) /\ WholeMsgs(loop.completed, length)
  /\ loop.failed => hurt # {}
  /\ \E F \in Seq(Parts(length)) :
       StreamInv(F, loop.buffer \o w, loop.flight, returned \o loop.completed, ~failed /\ ~loop.failed)

\* feed's loop stops at an error, or when no fragment in the buffer is whole.
Stopped(loop) == loop.failed \/ ~Whole(loop.buffer)

\* The number of fragments is a number.
LEMMA TotalIs ==
  ASSUME PeerInv, NEW o \in Objects
  PROVE  Total(length, o) \in Nat
  BY CountBounds DEF PeerInv, Total

\* A turn that refuses a fragment: it is of a message that a fault touched, and of
\* the others nothing changes but their place on the stream.
LEMMA RefuseKeeps ==
  ASSUME PeerInv, WholeMsgs(returned, length), NEW w \in Seq(CellSet), NEW loop, LoopInv(loop, w),
         ~Stopped(loop), NEW f, f = Head(loop.buffer).fragment, Refuses(loop.flight, f)
  PROVE  LoopInv(Refuse(loop, f), w) /\ Len(Refuse(loop, f).buffer) < Len(loop.buffer)
<1> DEFINE msgs == returned \o loop.completed
           next == Refuse(loop, f)
           T == Objects \X Seq(MsgBytes)
<1>1. PICK F \in Seq(Parts(length)) : StreamInv(F, loop.buffer \o w, loop.flight, msgs, ~failed /\ ~loop.failed)
  BY DEF LoopInv
<1>2. loop.buffer \in Seq(CellSet) /\ IsFlight(loop.flight, length) /\ WholeMsgs(loop.completed, length)
  BY DEF LoopInv
<1>4. Whole(loop.buffer)
  BY DEF Stopped
<1>5. /\ F # <<>> /\ f = F[1] /\ f \in Parts(length) /\ F \in Seq(FragSet)
      /\ Rest(loop.buffer, f) \in Seq(CellSet) /\ Len(Rest(loop.buffer, f)) < Len(loop.buffer)
      /\ Laid(Rest(loop.buffer, f) \o w, Tail(F))
  <2>1. F \in Seq(FragSet)
    BY DEF Parts
  <2>2. Laid(loop.buffer \o w, F)
    BY <1>1 DEF StreamInv
  <2>3. /\ F # <<>> /\ f = F[1] /\ Rest(loop.buffer, F[1]) \in Seq(CellSet)
        /\ Len(Rest(loop.buffer, F[1])) < Len(loop.buffer)
        /\ Laid(Rest(loop.buffer, F[1]) \o w, Tail(F))
    BY <1>2, <1>4, <2>1, <2>2, LaidDrain
  <2>4. F[1] \in Parts(length)
    BY <2>3
  <2> QED
    BY <2>1, <2>3, <2>4
<1>6. f.object \in Objects
  BY <1>5, PartIs
<1>7. f.object \in hurt
  <2> SUFFICES ASSUME f.object \notin hurt PROVE FALSE
    OBVIOUS
  <2>1. InOrder(F, f.object, Total(length, f.object), outbox[f.object], loop.flight, msgs)
    BY <1>1, <1>6 DEF StreamInv
  <2> QED
    BY <1>2, <1>5, <1>6, <2>1, TotalIs, InOrderAccepted
<1>8. /\ next.buffer = Rest(loop.buffer, f) /\ next.completed = loop.completed /\ next.failed = TRUE
      /\ next.flight = Put(loop.flight, f.object, Entry(loop.flight, f))
  BY DEF Refuse
<1> HIDE DEF next
<1>9. IsFlight(next.flight, length)
  BY <1>2, <1>5, <1>8, RefusedFlight
<1>10. \A o \in Objects \ hurt : /\ o \in DOMAIN next.flight <=> o \in DOMAIN loop.flight
                                 /\ o \in DOMAIN loop.flight => next.flight[o] = loop.flight[o]
  BY <1>7, <1>8 DEF Put
<1>11. msgs \in Seq(T)
  BY <1>2, ConcatProperties DEF WholeMsgs
<1> HIDE DEF msgs, T
<1>12. ASSUME NEW o \in Objects \ hurt
       PROVE  InOrder(Tail(F), o, Total(length, o), outbox[o], next.flight, msgs)
  <2>1. InOrder(F, o, Total(length, o), outbox[o], loop.flight, msgs) /\ f.object # o
    BY <1>1, <1>7 DEF StreamInv
  <2>2. <<f.object>>[1] # o
    BY <2>1
  <2>3. ASSUME NEW a \in Nat, Reached(o, Total(length, o), loop.flight, msgs, a)
        PROVE  Reached(o, Total(length, o), next.flight, msgs, a)
    BY <1>10, <1>11, <2>2, <2>3, OtherReached
  <2>4. Total(length, o) \in Nat
    BY TotalIs
  <2> QED
    BY <1>5, <2>1, <2>3, <2>4, InOrderTaken
<1>13. StreamInv(Tail(F), next.buffer \o w, next.flight, returned \o next.completed, FALSE)
  BY <1>5, <1>8, <1>12 DEF StreamInv, msgs
<1>14. Tail(F) \in Seq(Parts(length))
  BY <1>5
<1> QED
  BY <1>2, <1>5, <1>7, <1>8, <1>9, <1>13, <1>14 DEF LoopInv, next

\* One more at the end of two sequences.
LEMMA AppendedLast ==
  ASSUME NEW S, NEW s \in Seq(S), NEW t \in Seq(S), NEW m \in S
  PROVE  s \o Append(t, m) = Append(s \o t, m)
<1>1. Append(t, m) = t \o <<m>> /\ <<m>> \in Seq(S)
  BY AppendIsConcat
<1>2. s \o t \in Seq(S)
  BY ConcatProperties
<1>3. Append(s \o t, m) = (s \o t) \o <<m>>
  BY <1>2, AppendIsConcat
<1>4. (s \o t) \o <<m>> = s \o (t \o <<m>>)
  BY <1>1, ConcatAssociative
<1> QED
  BY <1>1, <1>3, <1>4

\* A turn that accepts a fragment: its message grows, or is complete and next in
\* turn.
LEMMA AcceptKeeps ==
  ASSUME PeerInv, WholeMsgs(returned, length), NEW w \in Seq(CellSet), NEW loop, LoopInv(loop, w),
         ~Stopped(loop), NEW f, f = Head(loop.buffer).fragment, ~Refuses(loop.flight, f)
  PROVE  LoopInv(Accept(loop, f), w) /\ Len(Accept(loop, f).buffer) < Len(loop.buffer)
<1> DEFINE msgs == returned \o loop.completed
           next == Accept(loop, f)
           T == Objects \X Seq(MsgBytes)
           buf == Entry(loop.flight, f).buf \o f.blob
           e == [buf |-> buf, next |-> f.id + 1, started |-> TRUE]
           m == <<f.object, buf>>
           msgs2 == returned \o next.completed
<1>1. PICK F \in Seq(Parts(length)) : StreamInv(F, loop.buffer \o w, loop.flight, msgs, ~failed /\ ~loop.failed)
  BY DEF LoopInv
<1>2. loop.buffer \in Seq(CellSet) /\ IsFlight(loop.flight, length) /\ WholeMsgs(loop.completed, length)
  BY DEF LoopInv
<1>4. Whole(loop.buffer) /\ ~loop.failed
  BY DEF Stopped
<1>5. /\ F # <<>> /\ f = F[1] /\ f \in Parts(length) /\ F \in Seq(FragSet)
      /\ Rest(loop.buffer, f) \in Seq(CellSet) /\ Len(Rest(loop.buffer, f)) < Len(loop.buffer)
      /\ Laid(Rest(loop.buffer, f) \o w, Tail(F))
  <2>1. F \in Seq(FragSet)
    BY DEF Parts
  <2>2. Laid(loop.buffer \o w, F)
    BY <1>1 DEF StreamInv
  <2>3. /\ F # <<>> /\ f = F[1] /\ Rest(loop.buffer, F[1]) \in Seq(CellSet)
        /\ Len(Rest(loop.buffer, F[1])) < Len(loop.buffer)
        /\ Laid(Rest(loop.buffer, F[1]) \o w, Tail(F))
    BY <1>2, <1>4, <2>1, <2>2, LaidDrain
  <2>4. F[1] \in Parts(length)
    BY <2>3
  <2> QED
    BY <2>1, <2>3, <2>4
<1>6. /\ f.object \in Objects /\ length[f.object] \in Nat /\ f.id \in Nat
      /\ f.id + 1 \in 1..Count(length[f.object])
      /\ f.end <=> f.id + 1 = Count(length[f.object])
  BY <1>5, PartIs
<1>7. /\ next.buffer = Rest(loop.buffer, f) /\ next.failed = FALSE
      /\ f.end => /\ next.flight = [x \in DOMAIN loop.flight \ {f.object} |-> loop.flight[x]]
                  /\ next.completed = Append(loop.completed, m)
      /\ ~f.end => next.flight = Put(loop.flight, f.object, e) /\ next.completed = loop.completed
  BY DEF Accept
<1> HIDE DEF next
<1>8. /\ f.end => buf = Message(f.object, length[f.object])
      /\ IsFlight(next.flight, length)
  <2>1. f.end => buf = Message(f.object, length[f.object])
    BY <1>2, <1>5, AcceptedIs
  <2>2. /\ IsFlight([x \in DOMAIN loop.flight \ {f.object} |-> loop.flight[x]], length)
        /\ ~f.end => IsFlight(Put(loop.flight, f.object, e), length)
    BY <1>2, <1>5, AcceptedFlight
  <2> HIDE DEF buf, e
  <2> QED
    BY <1>7, <2>1, <2>2
<1>9. WholeMsgs(next.completed, length)
  <2>1. CASE f.end
    <3>1. next.completed = Append(loop.completed, <<f.object, Message(f.object, length[f.object])>>)
      BY <1>7, <1>8, <2>1
    <3> QED
      BY <1>2, <1>6, <3>1, WholeMore
  <2>2. CASE ~f.end
    BY <1>2, <1>7, <2>2
  <2> QED
    BY <2>1, <2>2
<1>10. /\ \A o \in Objects \ {f.object} : /\ o \in DOMAIN next.flight <=> o \in DOMAIN loop.flight
                                          /\ o \in DOMAIN loop.flight => next.flight[o] = loop.flight[o]
       /\ f.end => f.object \notin DOMAIN next.flight
       /\ ~f.end => f.object \in DOMAIN next.flight /\ next.flight[f.object].next = f.id + 1
  <2>1. CASE f.end
    <3>1. next.flight = [x \in DOMAIN loop.flight \ {f.object} |-> loop.flight[x]]
      BY <1>7, <2>1
    <3> QED
      BY <2>1, <3>1
  <2>2. CASE ~f.end
    <3>1. next.flight = Put(loop.flight, f.object, e) /\ e.next = f.id + 1
      BY <1>7, <2>2
    <3> HIDE DEF e
    <3> QED
      BY <2>2, <3>1 DEF Put
  <2> QED
    BY <2>1, <2>2
<1>11. msgs \in Seq(T) /\ loop.completed \in Seq(T) /\ returned \in Seq(T)
  BY <1>2, ConcatProperties DEF WholeMsgs
<1>12. msgs2 = IF f.end THEN Append(msgs, m) ELSE msgs
  <2>1. ASSUME f.end PROVE msgs2 = Append(msgs, m)
    <3>1. m \in T
      BY <1>6, <1>8, <2>1, MessageIs
    <3> HIDE DEF m, T
    <3>2. returned \o Append(loop.completed, m) = Append(returned \o loop.completed, m)
      BY <1>11, <3>1, AppendedLast
    <3> QED
      BY <1>7, <2>1, <3>2 DEF m
  <2> QED
    BY <1>7, <2>1
<1>13. f.end => m \in T
  BY <1>6, <1>8, MessageIs
<1>14. m[1] = f.object
  OBVIOUS
<1> HIDE DEF msgs, T, m, msgs2
<1>15. ASSUME NEW o \in Objects \ hurt
       PROVE  InOrder(Tail(F), o, Total(length, o), outbox[o], next.flight, msgs2)
  <2>1. InOrder(F, o, Total(length, o), outbox[o], loop.flight, msgs) /\ Total(length, o) \in Nat
    BY <1>1, TotalIs DEF StreamInv
  <2>2. ASSUME f.object # o, NEW a \in Nat, Reached(o, Total(length, o), loop.flight, msgs, a)
        PROVE  Reached(o, Total(length, o), next.flight, msgs2, a)
    BY <1>10, <1>11, <1>12, <1>14, <2>2, OtherReached
  <2>3. ASSUME f.object = o, NEW a \in Nat, Reached(o, Total(length, o), loop.flight, msgs, a),
               f.id = a, a < Total(length, o)
        PROVE  Reached(o, Total(length, o), next.flight, msgs2, a + 1)
    <3>1. Total(length, o) = Count(length[o])
      BY <1>6, <2>3 DEF Total
    <3>2. IF a + 1 = Total(length, o) THEN o \notin DOMAIN next.flight /\ msgs2 = Append(msgs, m)
          ELSE o \in DOMAIN next.flight /\ next.flight[o].next = a + 1 /\ msgs2 = msgs
      BY <1>6, <1>10, <1>12, <2>3, <3>1
    <3> QED
      BY <1>11, <2>1, <2>3, <3>2, OwnReached
  <2> QED
    BY <1>5, <2>1, <2>2, <2>3, InOrderTaken
<1>16. ASSUME ~failed PROVE Delivered(Tail(F), finished, msgs2)
  <2>1. Delivered(F, finished, msgs) /\ finished \in Seq(Objects)
    BY <1>1, <1>4, <1>16 DEF StreamInv, PeerInv
  <2>2. CASE f.end
    <3>1. IF F[1].end THEN Delivered(Tail(F), finished, Append(msgs, m)) ELSE Delivered(Tail(F), finished, msgs)
      BY <1>5, <1>11, <1>13, <1>14, <2>1, <2>2, DeliveredTaken
    <3> QED
      BY <1>5, <1>12, <2>2, <3>1
  <2>3. CASE ~f.end
    <3>1. \E x : x \in Objects \X {1} /\ x[1] = F[1].object
      <4>1. <<f.object, 1>> \in Objects \X {1} /\ <<f.object, 1>>[1] = F[1].object
        BY <1>5, <1>6
      <4> QED
        BY <4>1
    <3>2. msgs \in Seq(T \cup (Objects \X {1}))
      BY <1>11
    <3>3. IF F[1].end THEN TRUE ELSE Delivered(Tail(F), finished, msgs)
      BY <1>5, <2>1, <3>1, <3>2, DeliveredTaken
    <3> QED
      BY <1>5, <1>12, <2>3, <3>3
  <2> QED
    BY <2>2, <2>3
<1>17. StreamInv(Tail(F), next.buffer \o w, next.flight, msgs2, ~failed)
  BY <1>5, <1>7, <1>15, <1>16 DEF StreamInv
<1>18. Tail(F) \in Seq(Parts(length))
  BY <1>5
<1> QED
  BY <1>5, <1>7, <1>8, <1>9, <1>17, <1>18 DEF LoopInv, next, msgs2

-----------------------------------------------------------------------------
(* The loop of feed: induction over its turns.                             *)

\* Induction over the natural numbers, for a set of them.
LEMMA SetInduction ==
  ASSUME NEW S, 0 \in S, \A n \in Nat : n \in S => n + 1 \in S
  PROVE  Nat \subseteq S
<1> DEFINE T == Nat \ S
<1>1. SUFFICES ASSUME T # {} PROVE FALSE
  OBVIOUS
<1>2. \E x \in T : \A y \in T : ~ (<<y, x>> \in OpToRel(<, Nat))
  <2>1. T \subseteq Nat
    OBVIOUS
  <2> HIDE DEF T
  <2> QED
    BY <1>1, <2>1, NatLessThanWellFounded, WFMin
<1>3. ASSUME NEW x \in T PROVE x - 1 \in T /\ x - 1 < x /\ x - 1 \in Nat
  OBVIOUS
<1>4. ASSUME NEW x \in T PROVE <<x - 1, x>> \in OpToRel(<, Nat)
  BY <1>3 DEF OpToRel
<1> QED
  BY <1>2, <1>3, <1>4, Zenon

\* The first n turns.
Run(start, n, h) ==
  h = [k \in 0..n |-> h[k]] /\ h[0] = start /\ \A k \in 1..n : h[k] = Turn(h[k - 1])

\* Every number of turns can be taken.
LEMMA RunExists ==
  ASSUME NEW start
  PROVE  \A n \in Nat : \E h : Run(start, n, h)
<1> DEFINE S == {n \in Nat : \E h : Run(start, n, h)}
<1>1. 0 \in S
  <2>1. Run(start, 0, [k \in 0..0 |-> start])
    BY DEF Run
  <2> QED
    BY <2>1
<1>2. ASSUME NEW n \in Nat, n \in S PROVE n + 1 \in S
  <2>1. PICK h : Run(start, n, h)
    BY <1>2
  <2> DEFINE g == [k \in 0..n + 1 |-> IF k = n + 1 THEN Turn(h[n]) ELSE h[k]]
  <2>2. g[0] = start
    BY <2>1 DEF Run
  <2>3. ASSUME NEW k \in 1..n + 1 PROVE g[k] = Turn(g[k - 1])
    <3>1. CASE k = n + 1
      <4>1. g[k] = Turn(h[n]) /\ k - 1 = n /\ g[n] = h[n]
        BY <3>1
      <4> QED
        BY <4>1, Zenon
    <3>2. CASE k # n + 1
      <4>1. k \in 1..n /\ k - 1 \in 0..n /\ k - 1 # n + 1
        BY <3>2
      <4>2. g[k] = h[k] /\ g[k - 1] = h[k - 1]
        BY <4>1
      <4>3. h[k] = Turn(h[k - 1])
        BY <2>1, <4>1 DEF Run
      <4> QED
        BY <4>2, <4>3, Zenon
    <3> QED
      BY <3>1, <3>2
  <2>4. g = [k \in 0..n + 1 |-> g[k]]
    OBVIOUS
  <2> HIDE DEF g
  <2>5. Run(start, n + 1, g)
    BY <2>2, <2>3, <2>4 DEF Run
  <2> QED
    BY <2>5
<1> HIDE DEF S
<1>3. Nat \subseteq S
  BY <1>1, <1>2, SetInduction
<1> QED
  BY <1>3 DEF S

\* One turn more changes none of those before.
LEMMA RunsAgree ==
  ASSUME NEW start, NEW n \in Nat, NEW g, Run(start, n, g), NEW h, Run(start, n + 1, h)
  PROVE  g[n] = h[n]
<1> DEFINE S == {k \in Nat : k <= n => g[k] = h[k]}
<1>1. 0 \in S
  BY DEF Run
<1>2. ASSUME NEW k \in Nat, k \in S PROVE k + 1 \in S
  <2> SUFFICES ASSUME k + 1 <= n PROVE g[k + 1] = h[k + 1]
    OBVIOUS
  <2>1. k + 1 \in 1..n /\ k + 1 \in 1..n + 1 /\ k + 1 - 1 = k /\ g[k] = h[k]
    BY <1>2
  <2>2. g[k + 1] = Turn(g[k]) /\ h[k + 1] = Turn(h[k])
    <3> DEFINE p == k + 1
    <3>1. p \in 1..n /\ p \in 1..n + 1 /\ p - 1 = k
      BY <2>1
    <3> HIDE DEF p
    <3>2. g[p] = Turn(g[p - 1]) /\ h[p] = Turn(h[p - 1])
      BY <3>1 DEF Run
    <3>3. g[p] = Turn(g[k]) /\ h[p] = Turn(h[k])
      BY <3>1, <3>2
    <3> QED
      BY <3>3 DEF p
  <2> QED
    BY <2>1, <2>2, Zenon
<1> HIDE DEF S
<1>3. n \in S
  BY <1>1, <1>2, SetInduction
<1> QED
  BY <1>3 DEF S

\* The turns of feed's loop, one after the other from the start.
LEMMA TurnsAre ==
  ASSUME NEW start
  PROVE  /\ Turns(start)[0] = start
         /\ \A n \in Nat : Turns(start)[n + 1] = Turn(Turns(start)[n])
<1> DEFINE H(n) == CHOOSE h : Run(start, n, h)
           g == [n \in Nat |-> H(n)[n]]
           Recurs(f) == f = [k \in Nat |-> IF k = 0 THEN start ELSE Turn(f[k - 1])]
<1>1. \A n \in Nat : Run(start, n, H(n))
  BY RunExists
<1> HIDE DEF H
<1>2. g[0] = start
  BY <1>1 DEF Run
<1>3. ASSUME NEW n \in Nat PROVE g[n + 1] = Turn(g[n])
  <2>1. Run(start, n, H(n)) /\ Run(start, n + 1, H(n + 1))
    BY <1>1
  <2>2. H(n + 1)[n + 1] = Turn(H(n + 1)[n])
    <3>1. n + 1 \in 1..n + 1 /\ n + 1 - 1 = n
      OBVIOUS
    <3> QED
      BY <2>1, <3>1 DEF Run
  <2>3. H(n)[n] = H(n + 1)[n]
    BY <2>1, RunsAgree
  <2>4. g[n] = H(n)[n] /\ g[n + 1] = H(n + 1)[n + 1]
    OBVIOUS
  <2> QED
    BY <2>2, <2>3, <2>4, Zenon
<1>4. Recurs(g)
  <2>1. g = [k \in Nat |-> g[k]]
    OBVIOUS
  <2> HIDE DEF g
  <2>2. \A k \in Nat : g[k] = IF k = 0 THEN start ELSE Turn(g[k - 1])
    <3> SUFFICES ASSUME NEW k \in Nat, k # 0 PROVE g[k] = Turn(g[k - 1])
      BY <1>2
    <3>1. k - 1 \in Nat /\ k - 1 + 1 = k
      OBVIOUS
    <3> QED
      BY <1>3, <3>1
  <2> QED
    BY <2>1, <2>2
<1>5. Recurs(Turns(start))
  <2>1. Turns(start) = CHOOSE f : Recurs(f)
    BY DEF Turns
  <2> HIDE DEF Recurs
  <2> QED
    BY <1>4, <2>1
<1>6. \A k \in Nat : Turns(start)[k] = IF k = 0 THEN start ELSE Turn(Turns(start)[k - 1])
  BY <1>5
<1>7. ASSUME NEW n \in Nat PROVE Turns(start)[n + 1] = Turn(Turns(start)[n])
  <2>1. n + 1 \in Nat /\ n + 1 # 0 /\ n + 1 - 1 = n
    OBVIOUS
  <2> QED
    BY <1>6, <2>1
<1> QED
  BY <1>6, <1>7

\* Whatever a turn does, it keeps the loop's invariant, and drains the buffer unless
\* the loop has stopped.
LEMMA TurnKeeps ==
  ASSUME PeerInv, WholeMsgs(returned, length), NEW w \in Seq(CellSet), NEW loop, LoopInv(loop, w)
  PROVE  /\ LoopInv(Turn(loop), w)
         /\ Stopped(loop) => Turn(loop) = loop
         /\ ~Stopped(loop) => Len(Turn(loop).buffer) < Len(loop.buffer)
<1> DEFINE f == Head(loop.buffer).fragment
<1>1. CASE Stopped(loop)
  <2>1. Turn(loop) = loop
    BY <1>1 DEF Turn, Stopped
  <2> QED
    BY <1>1, <2>1
<1>2. CASE ~Stopped(loop) /\ Refuses(loop.flight, f)
  <2>1. Turn(loop) = Refuse(loop, f)
    BY <1>2 DEF Turn, Stopped
  <2> QED
    BY <1>2, <2>1, RefuseKeeps
<1>3. CASE ~Stopped(loop) /\ ~Refuses(loop.flight, f)
  <2>1. Turn(loop) = Accept(loop, f)
    BY <1>3 DEF Turn, Stopped
  <2> QED
    BY <1>3, <2>1, AcceptKeeps
<1> QED
  BY <1>1, <1>2, <1>3

\* As many turns as there are cells are enough.
LEMMA LoopEnds ==
  ASSUME PeerInv, WholeMsgs(returned, length), NEW w \in Seq(CellSet), NEW start, LoopInv(start, w)
  PROVE  LET end == Turns(start)[Len(start.buffer)] IN LoopInv(end, w) /\ Stopped(end)
<1> DEFINE run(n) == Turns(start)[n]
           l == Len(start.buffer)
           S == {n \in Nat : /\ LoopInv(run(n), w)
                             /\ Stopped(run(n)) \/ Len(run(n).buffer) + n <= l}
<1>1. run(0) = start /\ \A n \in Nat : run(n + 1) = Turn(run(n))
  BY TurnsAre
<1>2. l \in Nat
  BY DEF LoopInv
<1> HIDE DEF run, l
<1>3. 0 \in S
  BY <1>1, <1>2 DEF l
<1>4. ASSUME NEW n \in Nat, n \in S PROVE n + 1 \in S
  <2>1. LoopInv(run(n), w) /\ (Stopped(run(n)) \/ Len(run(n).buffer) + n <= l)
    BY <1>4
  <2>2. run(n + 1) = Turn(run(n))
    BY <1>1
  <2>3. /\ LoopInv(run(n + 1), w) /\ (Stopped(run(n)) => run(n + 1) = run(n))
        /\ ~Stopped(run(n)) => Len(run(n + 1).buffer) < Len(run(n).buffer)
    BY <2>1, <2>2, TurnKeeps
  <2>4. Len(run(n).buffer) \in Nat /\ Len(run(n + 1).buffer) \in Nat
    BY <2>1, <2>3 DEF LoopInv
  <2>5. Stopped(run(n + 1)) \/ Len(run(n + 1).buffer) + (n + 1) <= l
    <3>1. CASE Stopped(run(n))
      <4>1. run(n + 1) = run(n)
        BY <2>3, <3>1
      <4> QED
        BY <3>1, <4>1
    <3>2. CASE ~Stopped(run(n))
      <4> DEFINE x == Len(run(n).buffer)
                 y == Len(run(n + 1).buffer)
      <4>1. x + n <= l /\ y < x /\ x \in Nat /\ y \in Nat
        BY <2>1, <2>3, <2>4, <3>2
      <4> HIDE DEF x, y
      <4>2. y + (n + 1) <= l
        BY <1>2, <4>1
      <4> QED
        BY <4>2 DEF y
    <3> QED
      BY <3>1, <3>2
  <2>6. n + 1 \in Nat
    OBVIOUS
  <2> DEFINE p == n + 1
  <2> HIDE DEF p
  <2>7. LoopInv(run(p), w) /\ (Stopped(run(p)) \/ Len(run(p).buffer) + p <= l) /\ p \in Nat
    BY <2>3, <2>5, <2>6 DEF p
  <2>8. p \in S
    BY <2>7
  <2> QED
    BY <2>8 DEF p
<1> HIDE DEF S
<1>5. l \in S
  BY <1>2, <1>3, <1>4, SetInduction
<1>6. LoopInv(run(l), w) /\ (Stopped(run(l)) \/ Len(run(l).buffer) + l <= l)
  BY <1>5 DEF S
<1>7. Stopped(run(l))
  <2> SUFFICES ASSUME Len(run(l).buffer) + l <= l PROVE Stopped(run(l))
    BY <1>6
  <2>1. run(l).buffer \in Seq(CellSet)
    BY <1>6 DEF LoopInv
  <2>2. run(l).buffer = <<>>
    BY <1>2, <2>1
  <2> QED
    BY <2>2 DEF Stopped, Whole
<1> QED
  BY <1>6, <1>7 DEF run, l

-----------------------------------------------------------------------------
(* feed.                                                                   *)

\* The invariant of the whole: what is in the buffer and on its way is a sequence of
\* whole fragments of the messages that were sent; between two feeds none of it waits
\* whole.
FeedInv ==
  /\ PeerInv
  /\ wire \in Seq(CellSet) /\ buffer \in Seq(CellSet)
  /\ IsFlight(in_flight, length) /\ WholeMsgs(returned, length)
  /\ failed \in BOOLEAN /\ (failed => hurt # {}) /\ (~failed => ~Whole(buffer))
  /\ \E F \in Seq(Parts(length)) : StreamInv(F, buffer \o wire, in_flight, returned, ~failed)

\* What holds of more messages holds of the first of them.
LEMMA InOrderFewer ==
  ASSUME NEW F, NEW o, NEW total, NEW box, NEW flight, NEW T, NEW r \in Seq(T), NEW c \in Seq(T),
         InOrder(F, o, total, box, flight, r \o c)
  PROVE  InOrder(F, o, total, box, flight, r)
<1>1. \A i \in DOMAIN r : i \in DOMAIN (r \o c) /\ (r \o c)[i] = r[i]
  OBVIOUS
<1>2. \A a : Reached(o, total, flight, r \o c, a) => Reached(o, total, flight, r, a)
  BY <1>1 DEF Reached
<1> QED
  BY <1>2 DEF InOrder

\* However the stream is cut, buffer and wire together are the same stream.
LEMMA CutAndJoined ==
  ASSUME NEW S, NEW b \in Seq(S), NEW w \in Seq(S), NEW n \in 1..Len(w)
  PROVE  LET x == SubSeq(w, 1, n)
             y == SubSeq(w, n + 1, Len(w))
         IN  x \in Seq(S) /\ y \in Seq(S) /\ (b \o x) \o y = b \o w
<1> DEFINE x == SubSeq(w, 1, n)
           y == SubSeq(w, n + 1, Len(w))
<1>1. Len(w) \in Nat /\ n \in 0..Len(w) /\ Len(w) \in n..Len(w)
  OBVIOUS
<1>2. x \in Seq(S) /\ y \in Seq(S)
  BY <1>1
<1>3. x \o y = SubSeq(w, 1, Len(w))
  BY <1>1, Joined
<1>4. SubSeq(w, 1, Len(w)) = w
  <2>1. SubSeq(w, 1, Len(w)) \in Seq(S) /\ Len(SubSeq(w, 1, Len(w))) = Len(w)
        /\ \A k \in 1..Len(w) : SubSeq(w, 1, Len(w))[k] = w[k]
    OBVIOUS
  <2> QED
    BY <2>1, SeqEqual
<1> HIDE DEF x, y
<1>5. (b \o x) \o y = b \o (x \o y)
  BY <1>2, ConcatAssociative
<1> QED
  BY <1>2, <1>3, <1>4, <1>5 DEF x, y

\* feed, with any number of the bytes on their way: it runs to the end of its loop.
LEMMA FeedKeeps ==
  ASSUME FeedInv, NEW n \in 1..Len(wire), Feed(n)
  PROVE  FeedInv'
<1> DEFINE cells == buffer \o SubSeq(wire, 1, n)
           w == SubSeq(wire, n + 1, Len(wire))
           start == [buffer |-> cells, flight |-> in_flight, completed |-> <<>>, failed |-> FALSE]
           done == Turns(start)[Len(cells)]
           T == Objects \X Seq(MsgBytes)
<1>1. PICK F \in Seq(Parts(length)) : StreamInv(F, buffer \o wire, in_flight, returned, ~failed)
  BY DEF FeedInv
<1>2. PeerInv /\ WholeMsgs(returned, length) /\ wire \in Seq(CellSet) /\ buffer \in Seq(CellSet)
  BY DEF FeedInv
<1>3. /\ wire' = w /\ buffer' = done.buffer /\ in_flight' = done.flight
      /\ returned' = (IF done.failed THEN returned ELSE returned \o done.completed)
      /\ failed' = (failed \/ done.failed)
      /\ UNCHANGED <<length, outbox, finished, hurt>>
  BY DEF Feed, peer
<1>4. w \in Seq(CellSet) /\ cells \in Seq(CellSet) /\ cells \o w = buffer \o wire
  <2>1. SubSeq(wire, 1, n) \in Seq(CellSet) /\ w \in Seq(CellSet) /\ cells \o w = buffer \o wire
    BY <1>2, CutAndJoined
  <2> QED
    BY <1>2, <2>1, ConcatProperties
<1>5. start.buffer = cells /\ start.flight = in_flight /\ start.completed = <<>> /\ start.failed = FALSE
  OBVIOUS
<1>6. returned \o <<>> = returned
  BY <1>2, ConcatEmptySeq DEF WholeMsgs
<1>7. WholeMsgs(<<>>, length)
  BY DEF WholeMsgs
<1> HIDE DEF cells, w, start
<1>8. LoopInv(start, w)
  BY <1>1, <1>4, <1>5, <1>6, <1>7 DEF LoopInv, FeedInv
<1>9. LoopInv(done, w) /\ Stopped(done)
  BY <1>2, <1>4, <1>5, <1>8, LoopEnds
<1> HIDE DEF done
<1>10. /\ done.buffer \in Seq(CellSet) /\ done.failed \in BOOLEAN /\ IsFlight(done.flight, length)
       /\ WholeMsgs(done.completed, length) /\ (done.failed => hurt # {})
  BY <1>9 DEF LoopInv
<1>11. returned \in Seq(T) /\ done.completed \in Seq(T)
  BY <1>2, <1>10 DEF WholeMsgs
<1>12. WholeMsgs(returned \o done.completed, length)
  <2> DEFINE all == returned \o done.completed
  <2>1. /\ all \in Seq(T) /\ Len(all) = Len(returned) + Len(done.completed)
        /\ \A i \in 1..Len(all) : all[i] = IF i <= Len(returned) THEN returned[i]
                                           ELSE done.completed[i - Len(returned)]
    BY <1>11, ConcatProperties
  <2> HIDE DEF all, T
  <2>2. Len(returned) \in Nat /\ Len(done.completed) \in Nat
    BY <1>11
  <2>3. ASSUME NEW i \in 1..Len(all) PROVE length[all[i][1]] \in Nat /\ all[i][2] = Message(all[i][1], length[all[i][1]])
    <3>1. CASE i <= Len(returned)
      <4>1. i \in 1..Len(returned) /\ all[i] = returned[i]
        BY <2>1, <2>2, <3>1
      <4> QED
        BY <1>2, <4>1 DEF WholeMsgs
    <3>2. CASE ~(i <= Len(returned))
      <4> DEFINE j == i - Len(returned)
      <4>1. j \in 1..Len(done.completed) /\ all[i] = done.completed[j]
        BY <2>1, <2>2, <3>2
      <4> HIDE DEF j
      <4> QED
        BY <1>10, <4>1 DEF WholeMsgs
    <3> QED
      BY <3>1, <3>2
  <2> QED
    BY <2>1, <2>3 DEF WholeMsgs, all, T
<1>13. WholeMsgs(returned', length)
  BY <1>2, <1>3, <1>12
<1>14. PICK G \in Seq(Parts(length)) :
         StreamInv(G, done.buffer \o w, done.flight, returned \o done.completed, ~failed /\ ~done.failed)
  BY <1>9 DEF LoopInv
<1>15. \A o \in Objects \ hurt : InOrder(G, o, Total(length, o), outbox[o], done.flight, returned')
  BY <1>3, <1>11, <1>14, InOrderFewer DEF StreamInv
<1>16. StreamInv(G, buffer \o wire, in_flight, returned, ~failed)'
  <2>2. Laid(buffer' \o wire', G)
    BY <1>3, <1>14 DEF StreamInv
  <2>3. ~failed' => Delivered(G, finished', returned')
    <3> SUFFICES ASSUME ~failed' PROVE Delivered(G, finished', returned')
      OBVIOUS
    <3>1. ~failed /\ ~done.failed /\ returned' = returned \o done.completed /\ finished' = finished
      BY <1>3
    <3> QED
      BY <1>14, <3>1 DEF StreamInv
  <2>4. \A o \in Objects \ hurt' : InOrder(G, o, Total(length', o), outbox'[o], in_flight', returned')
    BY <1>3, <1>15
  <2> QED
    BY <2>2, <2>3, <2>4 DEF StreamInv
<1>17. PeerInv'
  BY <1>2, <1>3 DEF PeerInv
<1>18. (~failed' => ~Whole(buffer')) /\ failed' \in BOOLEAN /\ (failed' => hurt' # {})
  BY <1>3, <1>9, <1>10 DEF Stopped, FeedInv
<1> QED
  BY <1>2, <1>3, <1>4, <1>10, <1>13, <1>14, <1>16, <1>17, <1>18 DEF FeedInv

-----------------------------------------------------------------------------
(* The peer.                                                               *)

\* Nothing was sent yet.
LEMMA InitFeeds == Init => FeedInv
<1> SUFFICES ASSUME Init PROVE FeedInv
  OBVIOUS
<1>1. PeerInv
  BY DEF Init, PeerInv
<1>2. IsFlight(in_flight, length)
  BY DEF Init, IsFlight
<1>3. WholeMsgs(returned, length)
  BY DEF Init, WholeMsgs
<1>4. buffer \o wire = <<>> /\ wire \in Seq(CellSet) /\ buffer \in Seq(CellSet) /\ ~Whole(buffer)
  BY DEF Init, Whole
<1>5. \A W, R : Numbered(<<>>, W, R, 0, 0)
  BY NumberedEmpty
<1>6. Delivered(<<>>, finished, returned)
  BY <1>5 DEF Init, Delivered
<1>7. ASSUME NEW o \in Objects PROVE InOrder(<<>>, o, Total(length, o), outbox[o], in_flight, returned)
  <2>1. Total(length, o) = 0 /\ Len(outbox[o]) = 0 /\ DOMAIN in_flight = {} /\ returned = <<>>
    BY DEF Init, Total
  <2> DEFINE box == outbox[o]
  <2> HIDE DEF box
  <2>2. Reached(o, 0, in_flight, returned, 0)
    BY <2>1 DEF Reached
  <2>3. 0 - Len(box) = 0 /\ Unwritten(box, 0)
    BY <2>1 DEF Unwritten, box
  <2>4. InOrder(<<>>, o, 0, box, in_flight, returned)
    BY <1>5, <2>2, <2>3 DEF InOrder
  <2> QED
    BY <2>1, <2>4 DEF box
<1>8. StreamInv(<<>>, buffer \o wire, in_flight, returned, ~failed)
  BY <1>4, <1>6, <1>7, LaidEmpty DEF StreamInv
<1>9. <<>> \in Seq(Parts(length))
  OBVIOUS
<1>10. failed = FALSE
  BY DEF Init
<1> QED
  BY <1>1, <1>2, <1>3, <1>4, <1>8, <1>9, <1>10 DEF FeedInv

\* What was said of the messages that were sent stays true when another is.
LEMMA LengthGrows ==
  ASSUME NEW len, NEW len2, \A o \in Objects : len[o] \in Nat => len2[o] = len[o]
  PROVE  /\ Parts(len) \subseteq Parts(len2)
         /\ \A flight : IsFlight(flight, len) => IsFlight(flight, len2)
         /\ \A msgs : WholeMsgs(msgs, len) => WholeMsgs(msgs, len2)
<1>1. ASSUME NEW f \in Parts(len) PROVE f \in Parts(len2)
  <2>1. f.object \in Objects /\ len[f.object] \in Nat
    BY PartIs
  <2>2. len2[f.object] = len[f.object]
    BY <2>1
  <2> QED
    BY <2>2 DEF Parts
<1>2. ASSUME NEW flight, IsFlight(flight, len) PROVE IsFlight(flight, len2)
  BY <1>2 DEF IsFlight, Grown
<1>3. ASSUME NEW msgs, WholeMsgs(msgs, len) PROVE WholeMsgs(msgs, len2)
  <2>1. \A i \in 1..Len(msgs) : msgs[i][1] \in Objects
    BY <1>3 DEF WholeMsgs
  <2> QED
    BY <1>3, <2>1 DEF WholeMsgs
<1> QED
  BY <1>1, <1>2, <1>3

\* A message that no fault touched is sent: none of it was written before.
LEMMA InOrderSent ==
  ASSUME NEW F, NEW o, NEW box, NEW flight, NEW msgs,
         InOrder(F, o, 0, box, flight, msgs), Len(box) \in Nat,
         \A i \in DOMAIN msgs : msgs[i][1] # o, NEW n \in Nat
  PROVE  InOrder(F, o, Count(n), Split(o, n), flight, msgs)
<1>1. Len(box) = 0 /\ 0 - Len(box) = 0
  <2> DEFINE x == Len(box)
  <2>1. 0 - x \in Nat /\ x \in Nat
    BY DEF InOrder
  <2> HIDE DEF x
  <2>2. x = 0
    BY <2>1
  <2> QED
    BY <2>2 DEF x
<1>2. Numbered(F, Own(o), Ids, 0, 0) /\ Reached(o, 0, flight, msgs, 0)
  BY <1>1 DEF InOrder
<1>3. Count(n) \in Nat \ {0}
  BY CountBounds
<1>4. Len(Split(o, n)) = Count(n)
  BY <1>3 DEF Split
<1>5. Unwritten(Split(o, n), 0)
  <2> SUFFICES ASSUME NEW k \in 1..Count(n) PROVE Split(o, n)[k].id = 0 + k - 1
    BY <1>4 DEF Unwritten
  <2>1. Split(o, n)[k].id = k - 1
    BY SplitFields
  <2>2. 0 + k - 1 = k - 1
    BY <1>3
  <2> QED
    BY <2>1, <2>2
<1>6. Reached(o, Count(n), flight, msgs, 0)
  BY <1>2 DEF Reached
<1> DEFINE t == Count(n)
           b == Split(o, n)
<1>7. t - Len(b) = 0 /\ 0 \in 0..t
  BY <1>3, <1>4
<1> HIDE DEF t, b
<1> QED
  BY <1>2, <1>5, <1>6, <1>7 DEF InOrder, t, b

\* A message is sent: it is cut into fragments that wait to be written.
LEMMA SendKeeps ==
  ASSUME FeedInv, NEW o \in Objects, NEW n \in Nat, SendMessage(o, n)
  PROVE  FeedInv'
<1>1. /\ length[o] = -1 /\ length' = [length EXCEPT ![o] = n] /\ outbox' = [outbox EXCEPT ![o] = Split(o, n)]
      /\ UNCHANGED <<finished, hurt, wire, buffer, in_flight, returned, failed>>
  BY DEF SendMessage, reassembler
<1>2. /\ length \in [Objects -> Nat \cup {-1}] /\ outbox \in [Objects -> Seq(Parts(length))]
      /\ \A p \in Objects : \A k \in 1..Len(outbox[p]) : outbox[p][k].object = p
      /\ finished \in Seq(Objects)
  BY DEF FeedInv, PeerInv
<1>3. /\ length'[o] = n /\ outbox'[o] = Split(o, n)
      /\ \A p \in Objects \ {o} : length'[p] = length[p] /\ outbox'[p] = outbox[p]
  BY <1>1, <1>2
<1>4. \A p \in Objects : length[p] \in Nat => length'[p] = length[p]
  BY <1>1, <1>3
<1>5. Parts(length) \subseteq Parts(length') /\ IsFlight(in_flight, length') /\ WholeMsgs(returned, length')
  <2> DEFINE len2 == length'
  <2>1. \A p \in Objects : length[p] \in Nat => len2[p] = length[p]
    BY <1>4
  <2> HIDE DEF len2
  <2>2. Parts(length) \subseteq Parts(len2) /\ IsFlight(in_flight, len2) /\ WholeMsgs(returned, len2)
    BY <2>1, LengthGrows DEF FeedInv
  <2> QED
    BY <2>2 DEF len2
<1>6. Split(o, n) \in Seq(Parts(length')) /\ \A k \in 1..Len(Split(o, n)) : Split(o, n)[k].object = o
  <2> DEFINE s == Split(o, n)
             c == Count(n)
             len2 == length'
  <2>0. len2[o] = n
    BY <1>3
  <2>1. c \in Nat /\ s = [k \in 1..c |-> s[k]] /\ Len(s) = c
    BY CountBounds DEF Split
  <2> HIDE DEF len2
  <2>2. ASSUME NEW k \in 1..c PROVE s[k] \in Parts(len2) /\ s[k].object = o
    <3>1. s[k].object = o /\ s[k].id = k - 1 /\ k - 1 + 1 = k /\ k - 1 \in Nat
      BY <2>1, SplitFields
    <3>2. s[k] \in FragSet
      <4>1. Message(o, n) \in Seq(MsgBytes) /\ Len(Message(o, n)) = n
        BY MessageIs
      <4> DEFINE x == (k - 1) * MaxPayload
                 y == IF k * MaxPayload < n THEN k * MaxPayload ELSE n
      <4>2. x \in Nat /\ x <= n
        BY CountBounds
      <4>3. y \in Nat /\ y <= n
        <5>1. k * MaxPayload \in Nat
          <6>1. k \in Nat /\ MaxPayload \in Nat
            BY <2>1, ConstantsAssumption
          <6> QED
            BY <6>1, SMT
        <5> QED
          BY <5>1
      <4> HIDE DEF x, y
      <4>4. SubSeq(Message(o, n), x + 1, y) \in Seq(MsgBytes)
        BY <4>1, <4>2, <4>3
      <4>5. s[k] = [object |-> o, id |-> k - 1, start |-> k = 1, end |-> k = Count(n),
                    blob |-> SubSeq(Message(o, n), x + 1, y)]
        BY DEF Split, x, y
      <4> QED
        BY <3>1, <4>4, <4>5 DEF FragSet
    <3> HIDE DEF s
    <3>3. s[k].id + 1 = k /\ s[k] = Split(o, n)[s[k].id + 1]
      BY <3>1 DEF s
    <3> QED
      BY <2>0, <3>1, <3>2, <3>3 DEF Parts, c
  <2> HIDE DEF s, c
  <2>3. s \in Seq(Parts(len2)) /\ \A k \in 1..Len(s) : s[k].object = o
    BY <2>1, <2>2
  <2> QED
    BY <2>3 DEF s, len2
<1>7. PeerInv'
  <2>1. length' \in [Objects -> Nat \cup {-1}]
    BY <1>1, <1>2
  <2>2. \A p \in Objects : outbox'[p] \in Seq(Parts(length'))
    <3>1. \A q \in Seq(Parts(length)) : q \in Seq(Parts(length'))
      BY <1>5
    <3>2. \A p \in Objects : outbox[p] \in Seq(Parts(length))
      BY <1>2
    <3> QED
      BY <1>3, <1>6, <3>1, <3>2
  <2>3. outbox' \in [Objects -> Seq(Parts(length'))]
    BY <1>1, <1>2, <2>2
  <2>4. \A p \in Objects : \A k \in 1..Len(outbox'[p]) : outbox'[p][k].object = p
    BY <1>2, <1>3, <1>6
  <2> QED
    BY <1>1, <1>2, <2>1, <2>3, <2>4 DEF PeerInv
<1>8. PICK F \in Seq(Parts(length)) : StreamInv(F, buffer \o wire, in_flight, returned, ~failed)
  BY DEF FeedInv
<1>9. ASSUME NEW p \in Objects \ hurt
      PROVE  InOrder(F, p, Total(length', p), outbox'[p], in_flight, returned)
  <2>1. InOrder(F, p, Total(length, p), outbox[p], in_flight, returned)
    BY <1>8 DEF StreamInv
  <2>2. CASE p # o
    <3>1. Total(length', p) = Total(length, p) /\ outbox'[p] = outbox[p]
      BY <1>3, <2>2 DEF Total
    <3> QED
      BY <2>1, <3>1
  <2>3. CASE p = o
    <3>1. Total(length, o) = 0 /\ Total(length', o) = Count(n) /\ outbox'[o] = Split(o, n)
      BY <1>1, <1>3 DEF Total
    <3>2. \A i \in DOMAIN returned : returned[i][1] # o
      <4>1. returned \in Seq(Objects \X Seq(MsgBytes)) /\ \A i \in 1..Len(returned) : length[returned[i][1]] \in Nat
        BY DEF FeedInv, WholeMsgs
      <4>2. DOMAIN returned = 1..Len(returned) /\ -1 \notin Nat
        BY <4>1
      <4>3. ASSUME NEW i \in DOMAIN returned, returned[i][1] = o PROVE FALSE
        <5>1. length[o] \in Nat
          BY <4>1, <4>2, <4>3
        <5> QED
          BY <1>1, <4>2, <5>1
      <4> QED
        BY <4>3
    <3>3. Len(outbox[o]) \in Nat
      BY <1>2
    <3>4. InOrder(F, o, Count(n), Split(o, n), in_flight, returned)
      BY <2>1, <2>3, <3>1, <3>2, <3>3, InOrderSent
    <3> QED
      BY <2>3, <3>1, <3>4
  <2> QED
    BY <2>2, <2>3
<1>10. StreamInv(F, buffer \o wire, in_flight, returned, ~failed)'
  <2>1. Laid(buffer \o wire, F) /\ (~failed => Delivered(F, finished, returned))
    BY <1>8 DEF StreamInv
  <2> QED
    BY <1>1, <1>9, <2>1 DEF StreamInv
<1>11. F \in Seq(Parts(length'))
  BY <1>5
<1> QED
  BY <1>1, <1>5, <1>7, <1>10, <1>11 DEF FeedInv

\* A fragment of another message is written.
LEMMA OtherWritten ==
  ASSUME NEW F \in Seq(FragSet), NEW f \in FragSet, NEW o, f.object # o, NEW total, NEW box, NEW flight,
         NEW msgs, InOrder(F, o, total, box, flight, msgs)
  PROVE  InOrder(Append(F, f), o, total, box, flight, msgs)
<1> DEFINE b == total - Len(box)
<1>1. b \in Nat /\ Unwritten(box, b) /\ f \notin Own(o)
  BY DEF InOrder, Own
<1>2. PICK a \in 0..total : Numbered(F, Own(o), Ids, a, b) /\ Reached(o, total, flight, msgs, a)
  BY DEF InOrder
<1> HIDE DEF b
<1>3. Numbered(Append(F, f), Own(o), Ids, a, b)
  <2> DEFINE W == Own(o)
  <2>1. f \notin W /\ Numbered(F, W, Ids, a, b)
    BY <1>1, <1>2
  <2> HIDE DEF W
  <2>2. Numbered(Append(F, f), W, Ids, a, IF f \in W THEN b + 1 ELSE b)
    BY <1>1, <2>1, NumberedAppend
  <2> QED
    BY <2>1, <2>2 DEF W
<1> QED
  BY <1>1, <1>2, <1>3 DEF InOrder, b

\* The next fragment of the message itself.
LEMMA OwnWritten ==
  ASSUME NEW F \in Seq(FragSet), NEW o, NEW total \in Nat, NEW box \in Seq(FragSet), box # <<>>,
         box[1].object = o, NEW flight, NEW msgs, InOrder(F, o, total, box, flight, msgs)
  PROVE  InOrder(Append(F, box[1]), o, total, Tail(box), flight, msgs)
<1> DEFINE b == total - Len(box)
           f == box[1]
           rest == Tail(box)
<1>1. f \in FragSet /\ f \in Own(o) /\ f.id \in Nat
  <2>1. f \in FragSet /\ f.object = o
    OBVIOUS
  <2> HIDE DEF f
  <2> QED
    BY <2>1 DEF Own, FragSet
<1>2. Len(box) \in Nat \ {0} /\ Len(rest) = Len(box) - 1 /\ \A k \in 1..Len(box) - 1 : rest[k] = box[k + 1]
  OBVIOUS
<1>3. b \in Nat /\ total - Len(rest) = b + 1
  <2>1. b \in Nat
    BY DEF InOrder
  <2> QED
    BY <1>2, <2>1
<1>4. f.id = b
  <2>1. box[1].id = b + 1 - 1
    <3>1. 1 \in 1..Len(box)
      BY <1>2
    <3> QED
      BY <3>1 DEF InOrder, Unwritten
  <2> QED
    BY <1>3, <2>1
<1>5. Unwritten(rest, b + 1)
  <2> SUFFICES ASSUME NEW k \in 1..Len(rest) PROVE rest[k].id = b + 1 + k - 1
    BY DEF Unwritten
  <2> DEFINE p == k + 1
  <2>1. p \in 1..Len(box) /\ rest[k] = box[p] /\ b + p - 1 = b + 1 + k - 1
    BY <1>2, <1>3
  <2> HIDE DEF p, rest, b
  <2>2. box[p].id = b + p - 1
    BY <2>1 DEF InOrder, Unwritten, b
  <2> QED
    BY <2>1, <2>2
<1>6. PICK a \in 0..total : Numbered(F, Own(o), Ids, a, b) /\ Reached(o, total, flight, msgs, a)
  BY DEF InOrder
<1>7. <<f, b + 1>> \in Ids
  BY <1>1, <1>3, <1>4 DEF Ids
<1> HIDE DEF b, f, rest
<1>8. Numbered(Append(F, f), Own(o), Ids, a, b + 1)
  <2> DEFINE W == Own(o)
             R == Ids
  <2>1. f \in W /\ Numbered(F, W, R, a, b) /\ <<f, b + 1>> \in R
    BY <1>1, <1>6, <1>7
  <2> HIDE DEF W, R
  <2>2. Numbered(Append(F, f), W, R, a, IF f \in W THEN b + 1 ELSE b)
    BY <1>1, <1>3, <2>1, NumberedAppend
  <2> QED
    BY <2>1, <2>2 DEF W, R
<1>9. InOrder(Append(F, f), o, total, rest, flight, msgs)
  <2> DEFINE c == total - Len(rest)
  <2>1. c = b + 1 /\ c \in Nat
    BY <1>3
  <2> HIDE DEF c
  <2>2. Unwritten(rest, c) /\ Numbered(Append(F, f), Own(o), Ids, a, c)
    BY <1>5, <1>8, <2>1
  <2> QED
    BY <1>6, <2>1, <2>2 DEF InOrder, c
<1> QED
  BY <1>9 DEF f, rest

\* A last fragment that is written finishes its message.
LEMMA DeliveredWritten ==
  ASSUME NEW F \in Seq(FragSet), NEW f \in FragSet, NEW fin \in Seq(Objects), f.object \in Objects,
         NEW T, NEW msgs \in Seq(T), Delivered(F, fin, msgs)
  PROVE  Delivered(Append(F, f), IF f.end THEN Append(fin, f.object) ELSE fin, msgs)
<1> DEFINE a == Len(msgs)
           b == Len(fin)
           G == Append(F, f)
<1>1. a \in Nat /\ b \in Nat /\ a <= b /\ Numbered(F, Last, Ends(fin), a, b)
      /\ \A i \in 1..a : msgs[i][1] = fin[i]
  BY DEF Delivered
<1>2. f \in Last <=> f.end
  BY DEF Last
<1> HIDE DEF a, b
<1>3. CASE ~f.end
  <2> DEFINE R == Ends(fin)
  <2> HIDE DEF R
  <2>0. Numbered(F, Last, R, a, b)
    BY <1>1 DEF R
  <2>1. Numbered(G, Last, R, a, IF f \in Last THEN b + 1 ELSE b)
    BY <1>1, <1>2, <1>3, <2>0, NumberedAppend
  <2>2. Numbered(G, Last, R, a, b)
    BY <1>2, <1>3, <2>1
  <2> HIDE DEF G
  <2>3. Delivered(G, fin, msgs)
    BY <1>1, <2>2 DEF Delivered, a, b, R
  <2> QED
    BY <1>3, <2>3 DEF G
<1>4. CASE f.end
  <2> DEFINE fin2 == Append(fin, f.object)
             R == Ends(fin2)
  <2>1. Len(fin2) = b + 1 /\ fin2[b + 1] = f.object /\ \A i \in 1..b : fin2[i] = fin[i]
    BY DEF b
  <2> HIDE DEF fin2
  <2>2. \A g \in Last, i \in 0..b : <<g, i>> \in Ends(fin) => <<g, i>> \in R
    <3> SUFFICES ASSUME NEW g \in Last, NEW i \in 0..b, <<g, i>> \in Ends(fin) PROVE <<g, i>> \in R
      OBVIOUS
    <3>1. i \in 1..b /\ fin[i] = g.object /\ g \in FragSet /\ i \in Nat
      BY DEF Ends, b
    <3>2. i \in 1..b + 1 /\ fin2[i] = g.object
      BY <1>1, <2>1, <3>1
    <3> QED
      BY <2>1, <3>1, <3>2 DEF Ends
  <2>3. <<f, b + 1>> \in R
    BY <1>1, <2>1 DEF Ends
  <2> HIDE DEF R
  <2>4. Numbered(F, Last, R, a, b)
    BY <1>1, <2>2, NumberedAgain
  <2>5. Numbered(G, Last, R, a, IF f \in Last THEN b + 1 ELSE b)
    BY <1>1, <2>3, <2>4, NumberedAppend
  <2>6. Numbered(G, Last, R, a, b + 1)
    BY <1>2, <1>4, <2>5
  <2>7. a <= b + 1 /\ \A i \in 1..a : msgs[i][1] = fin2[i]
    BY <1>1, <2>1
  <2> HIDE DEF G
  <2>8. Delivered(G, fin2, msgs)
    BY <2>1, <2>6, <2>7 DEF Delivered, a, R
  <2> QED
    BY <1>4, <2>8 DEF G, fin2
<1> QED
  BY <1>3, <1>4

\* What the peer writes is laid on the stream, and finishes its message with the last.
LEMMA WriteKeeps ==
  ASSUME FeedInv, NEW o \in Objects, outbox[o] # <<>>, Write(Head(outbox[o])),
         NEW F \in Seq(Parts(length)), StreamInv(F, buffer \o wire, in_flight, returned, ~failed)
  PROVE  LET f == outbox[o][1]
             G == Append(F, f)
         IN  /\ f \in Parts(length) /\ f.object = o /\ F \in Seq(FragSet)
             /\ wire' \in Seq(CellSet) /\ finished' \in Seq(Objects)
             /\ G \in Seq(Parts(length)) /\ Laid(buffer \o wire', G)
             /\ ~failed => Delivered(G, finished', returned)
             /\ \A p \in Objects \ (hurt \cup {o}) :
                  InOrder(G, p, Total(length, p), outbox[p], in_flight, returned)
<1> DEFINE f == outbox[o][1]
           G == Append(F, f)
<1>1. /\ outbox[o] \in Seq(Parts(length)) /\ \A k \in 1..Len(outbox[o]) : outbox[o][k].object = o
      /\ finished \in Seq(Objects)
  BY DEF FeedInv, PeerInv
<1>2. f \in Parts(length) /\ f.object = o /\ Head(outbox[o]) = f
  BY <1>1
<1>3. wire' = wire \o Encode(f) /\ finished' = IF f.end THEN Append(finished, o) ELSE finished
  BY <1>2 DEF Write
<1>4. f \in FragSet /\ F \in Seq(FragSet)
  BY <1>2 DEF Parts
<1> HIDE DEF f
<1>5. Encode(f) \in Seq(CellSet) /\ wire \in Seq(CellSet) /\ buffer \in Seq(CellSet)
  BY <1>4, SizeIs DEF FeedInv
<1>6. wire' \in Seq(CellSet)
  BY <1>3, <1>5, ConcatProperties
<1>7. finished' \in Seq(Objects)
  BY <1>1, <1>3
<1>8. G \in Seq(Parts(length))
  BY <1>2
<1>9. Laid(buffer \o wire', G)
  <2>1. buffer \o wire \in Seq(CellSet)
    BY <1>5, ConcatProperties
  <2>2. Laid((buffer \o wire) \o Encode(f), G)
    BY <1>4, <2>1, LaidAppend DEF StreamInv
  <2>3. (buffer \o wire) \o Encode(f) = buffer \o (wire \o Encode(f))
    BY <1>5, ConcatAssociative
  <2> QED
    BY <1>3, <2>2, <2>3
<1>10. ASSUME ~failed PROVE Delivered(G, finished', returned)
  <2>1. returned \in Seq(Objects \X Seq(MsgBytes))
    BY DEF FeedInv, WholeMsgs
  <2>2. Delivered(F, finished, returned)
    BY <1>10 DEF StreamInv
  <2> QED
    BY <1>1, <1>2, <1>3, <1>4, <2>1, <2>2, DeliveredWritten
<1>11. ASSUME NEW p \in Objects \ (hurt \cup {o})
       PROVE  InOrder(G, p, Total(length, p), outbox[p], in_flight, returned)
  <2>1. InOrder(F, p, Total(length, p), outbox[p], in_flight, returned)
    BY DEF StreamInv
  <2> QED
    BY <1>2, <1>4, <2>1, OtherWritten
<1> QED
  BY <1>2, <1>4, <1>6, <1>7, <1>8, <1>9, <1>10, <1>11 DEF f

\* The next fragment of a message is written.
LEMMA TransmitKeeps ==
  ASSUME FeedInv, NEW o \in Objects, Transmit(o)
  PROVE  FeedInv'
<1> DEFINE f == outbox[o][1]
           box == Tail(outbox[o])
<1>1. /\ outbox[o] # <<>> /\ Write(Head(outbox[o])) /\ outbox' = [outbox EXCEPT ![o] = box]
      /\ UNCHANGED <<length, hurt, buffer, in_flight, returned, failed>>
  BY DEF Transmit, reassembler
<1>2. PICK F \in Seq(Parts(length)) : StreamInv(F, buffer \o wire, in_flight, returned, ~failed)
  BY DEF FeedInv
<1> DEFINE G == Append(F, f)
<1>3. /\ f \in Parts(length) /\ f.object = o /\ F \in Seq(FragSet)
      /\ wire' \in Seq(CellSet) /\ finished' \in Seq(Objects)
      /\ G \in Seq(Parts(length)) /\ Laid(buffer \o wire', G)
      /\ ~failed => Delivered(G, finished', returned)
      /\ \A p \in Objects \ (hurt \cup {o}) :
           InOrder(G, p, Total(length, p), outbox[p], in_flight, returned)
  BY <1>1, <1>2, WriteKeeps
<1>4. PeerInv
  BY DEF FeedInv
<1>5. /\ outbox \in [Objects -> Seq(Parts(length))] /\ outbox[o] \in Seq(Parts(length))
      /\ \A p \in Objects : \A k \in 1..Len(outbox[p]) : outbox[p][k].object = p
  BY <1>4 DEF PeerInv
<1>6. box \in Seq(Parts(length)) /\ \A k \in 1..Len(box) : box[k].object = o
  <2>1. /\ box \in Seq(Parts(length)) /\ Len(box) = Len(outbox[o]) - 1
        /\ \A k \in 1..Len(box) : k + 1 \in 1..Len(outbox[o]) /\ box[k] = outbox[o][k + 1]
    BY <1>1, <1>5
  <2> QED
    BY <1>5, <2>1
<1>7. outbox'[o] = box /\ \A p \in Objects \ {o} : outbox'[p] = outbox[p]
  BY <1>1, <1>5
<1>8. PeerInv'
  <2>1. outbox' \in [Objects -> Seq(Parts(length))]
    BY <1>1, <1>5, <1>6
  <2>2. \A p \in Objects : \A k \in 1..Len(outbox'[p]) : outbox'[p][k].object = p
    BY <1>5, <1>6, <1>7
  <2> QED
    BY <1>1, <1>3, <1>4, <2>1, <2>2 DEF PeerInv
<1>9. ASSUME NEW p \in Objects \ hurt
      PROVE  InOrder(G, p, Total(length, p), outbox'[p], in_flight, returned)
  <2>1. CASE p # o
    BY <1>3, <1>7, <2>1
  <2>2. CASE p = o
    <3>1. InOrder(F, o, Total(length, o), outbox[o], in_flight, returned) /\ Total(length, o) \in Nat
      BY <1>2, <1>4, <2>2, TotalIs DEF StreamInv
    <3>2. outbox[o] \in Seq(FragSet)
      <4>1. \A q \in Seq(Parts(length)) : q \in Seq(FragSet)
        BY DEF Parts
      <4> QED
        BY <1>5, <4>1
    <3>3. InOrder(G, o, Total(length, o), box, in_flight, returned)
      BY <1>1, <1>3, <3>1, <3>2, OwnWritten
    <3> QED
      BY <1>7, <2>2, <3>3
  <2> QED
    BY <2>1, <2>2
<1>10. PICK H \in Seq(Parts(length)) :
         /\ Laid(buffer \o wire', H) /\ (~failed => Delivered(H, finished', returned))
         /\ \A p \in Objects \ hurt : InOrder(H, p, Total(length, p), outbox'[p], in_flight, returned)
  BY <1>3, <1>9
<1>11. StreamInv(H, buffer \o wire, in_flight, returned, ~failed)'
  BY <1>1, <1>10 DEF StreamInv
<1> QED
  BY <1>1, <1>3, <1>8, <1>11 DEF FeedInv

\* A fault touches the message whose fragments it loses, repeats or swaps: of the
\* others all stays as it was.
LEMMA FaultKeeps ==
  ASSUME FeedInv, NEW o \in Objects, Fault(o),
         NEW box \in Seq(Parts(length)), \A k \in 1..Len(box) : box[k].object = o,
         outbox' = [outbox EXCEPT ![o] = box],
         UNCHANGED <<wire, finished>> \/ Write(Head(outbox[o]))
  PROVE  FeedInv'
<1>1. outbox[o] # <<>> /\ hurt' = hurt \cup {o} /\ UNCHANGED <<length, buffer, in_flight, returned, failed>>
  BY DEF Fault, reassembler
<1>2. PICK F \in Seq(Parts(length)) : StreamInv(F, buffer \o wire, in_flight, returned, ~failed)
  BY DEF FeedInv
<1>3. PeerInv
  BY DEF FeedInv
<1>4. \E G \in Seq(Parts(length)) :
        /\ wire' \in Seq(CellSet) /\ finished' \in Seq(Objects) /\ Laid(buffer \o wire', G)
        /\ ~failed => Delivered(G, finished', returned)
        /\ \A p \in Objects \ (hurt \cup {o}) :
             InOrder(G, p, Total(length, p), outbox[p], in_flight, returned)
  <2>1. CASE UNCHANGED <<wire, finished>>
    <3>1. wire \in Seq(CellSet) /\ finished \in Seq(Objects)
      BY DEF FeedInv, PeerInv
    <3> QED
      BY <1>2, <2>1, <3>1 DEF StreamInv
  <2>2. CASE Write(Head(outbox[o]))
    BY <1>1, <1>2, <2>2, WriteKeeps
  <2> QED
    BY <2>1, <2>2
<1>5. PICK G \in Seq(Parts(length)) :
        /\ wire' \in Seq(CellSet) /\ finished' \in Seq(Objects) /\ Laid(buffer \o wire', G)
        /\ ~failed => Delivered(G, finished', returned)
        /\ \A p \in Objects \ (hurt \cup {o}) :
             InOrder(G, p, Total(length, p), outbox[p], in_flight, returned)
  BY <1>4
<1>6. /\ outbox \in [Objects -> Seq(Parts(length))]
      /\ \A p \in Objects : \A k \in 1..Len(outbox[p]) : outbox[p][k].object = p
  BY <1>3 DEF PeerInv
<1>7. outbox'[o] = box /\ \A p \in Objects \ {o} : outbox'[p] = outbox[p]
  BY <1>6
<1>8. PeerInv'
  <2>1. outbox' \in [Objects -> Seq(Parts(length))]
    BY <1>6
  <2>2. \A p \in Objects : \A k \in 1..Len(outbox'[p]) : outbox'[p][k].object = p
    BY <1>6, <1>7
  <2> QED
    BY <1>1, <1>3, <1>5, <2>1, <2>2 DEF PeerInv
<1>9. \A p \in Objects \ hurt' : InOrder(G, p, Total(length, p), outbox'[p], in_flight, returned)
  BY <1>1, <1>5, <1>7
<1>10. StreamInv(G, buffer \o wire, in_flight, returned, ~failed)'
  BY <1>1, <1>5, <1>9 DEF StreamInv
<1>11. hurt' # {}
  BY <1>1
<1> QED
  BY <1>1, <1>5, <1>8, <1>10, <1>11 DEF FeedInv

\* Fragments are lost, repeated or swapped, and feed must tell.
LEMMA LosesKeep ==
  ASSUME FeedInv, NEW o \in Objects, Lose(o) \/ Repeat(o) \/ Swap(o)
  PROVE  FeedInv'
<1> DEFINE old == outbox[o]
           parts == Parts(length)
<1>1. /\ outbox \in [Objects -> Seq(parts)] /\ old \in Seq(parts)
      /\ \A k \in 1..Len(old) : old[k].object = o
  BY DEF FeedInv, PeerInv
<1>2. Fault(o) /\ old # <<>>
  BY DEF Lose, Repeat, Swap, Fault
<1>3. CASE Lose(o)
  <2> DEFINE box == Tail(old)
  <2> HIDE DEF old, parts
  <2>1. /\ box \in Seq(parts) /\ Len(box) = Len(old) - 1
        /\ \A k \in 1..Len(box) : k + 1 \in 1..Len(old) /\ box[k] = old[k + 1]
    BY <1>1, <1>2
  <2>2. \A k \in 1..Len(box) : box[k].object = o
    BY <1>1, <2>1
  <2>3. outbox' = [outbox EXCEPT ![o] = box] /\ UNCHANGED <<wire, finished>>
    BY <1>3 DEF Lose, old
  <2> HIDE DEF box
  <2> QED
    BY <1>2, <2>1, <2>2, <2>3, FaultKeeps DEF parts
<1>4. CASE Repeat(o)
  <2>1. outbox' = [outbox EXCEPT ![o] = old] /\ Write(Head(outbox[o]))
    BY <1>1, <1>4 DEF Repeat
  <2> QED
    BY <1>1, <1>2, <2>1, FaultKeeps
<1>5. CASE Swap(o)
  <2> DEFINE two == <<old[2], old[1]>>
             rest == SubSeq(old, 3, Len(old))
             box == two \o rest
  <2>1. Len(old) >= 2 /\ outbox' = [outbox EXCEPT ![o] = box] /\ UNCHANGED <<wire, finished>>
    BY <1>1, <1>5 DEF Swap
  <2> HIDE DEF old, parts
  <2>2. two \in Seq(parts) /\ Len(two) = 2 /\ \A k \in 1..2 : two[k].object = o
    <3>1. old[1] \in parts /\ old[2] \in parts /\ old[1].object = o /\ old[2].object = o
      BY <1>1, <2>1
    <3> QED
      BY <3>1
  <2>3. rest \in Seq(parts) /\ \A k \in 1..Len(rest) : rest[k].object = o
    <3>1. /\ rest \in Seq(parts) /\ Len(rest) = Len(old) - 2
          /\ \A k \in 1..Len(rest) : k + 2 \in 1..Len(old) /\ rest[k] = old[k + 2]
      <4>1. 2 \in 0..Len(old) /\ 2 + 1 = 3
        BY <1>1, <2>1
      <4>2. /\ rest \in Seq(parts) /\ Len(rest) = Len(old) - 2
            /\ \A k \in 1..Len(old) - 2 : rest[k] = old[2 + k]
        BY <1>1, <4>1, AfterFirst
      <4>3. Len(old) \in Nat
        BY <1>1
      <4> HIDE DEF rest
      <4> QED
        BY <4>2, <4>3
    <3> QED
      BY <1>1, <3>1
  <2> HIDE DEF two, rest
  <2>4. /\ box \in Seq(parts) /\ Len(box) = Len(two) + Len(rest)
        /\ \A k \in 1..Len(two) + Len(rest) : box[k] = IF k <= Len(two) THEN two[k] ELSE rest[k - Len(two)]
    BY <2>2, <2>3, ConcatProperties
  <2>5. Len(rest) \in Nat
    BY <2>3
  <2> HIDE DEF box
  <2>6. ASSUME NEW k \in 1..Len(box) PROVE box[k].object = o
    <3>1. CASE k <= 2
      <4>1. k \in 1..2 /\ box[k] = two[k]
        BY <2>2, <2>4, <2>5, <3>1
      <4> QED
        BY <2>2, <4>1
    <3>2. CASE ~(k <= 2)
      <4> DEFINE j == k - 2
      <4>1. j \in 1..Len(rest) /\ box[k] = rest[j]
        BY <2>2, <2>4, <2>5, <3>2
      <4> HIDE DEF j
      <4> QED
        BY <2>3, <4>1
    <3> QED
      BY <3>1, <3>2
  <2> QED
    BY <1>2, <2>1, <2>4, <2>6, FaultKeeps DEF parts
<1> QED
  BY <1>3, <1>4, <1>5

\* The invariant holds from the start and through every step of the peer and of feed.
THEOREM FeedsAreSound == Spec => []FeedInv
<1>1. FeedInv /\ [Next]_vars => FeedInv'
  <2> SUFFICES ASSUME FeedInv, [Next]_vars PROVE FeedInv'
    OBVIOUS
  <2>1. ASSUME NEW o \in Objects, NEW n \in 0..MaxLen, SendMessage(o, n) PROVE FeedInv'
    <3>1. n \in Nat
      OBVIOUS
    <3> QED
      BY <2>1, <3>1, SendKeeps
  <2>2. ASSUME NEW o \in Objects, Transmit(o) PROVE FeedInv'
    BY <2>2, TransmitKeeps
  <2>3. ASSUME NEW o \in Objects, Lose(o) \/ Repeat(o) \/ Swap(o) PROVE FeedInv'
    BY <2>3, LosesKeep
  <2>4. ASSUME NEW n \in 1..Len(wire), Feed(n) PROVE FeedInv'
    BY <2>4, FeedKeeps
  <2>5. CASE UNCHANGED vars
    BY <2>5 DEF FeedInv, PeerInv, StreamInv, vars, peer, reassembler
  <2> QED
    BY <2>1, <2>2, <2>3, <2>4, <2>5 DEF Next
<1> QED
  BY <1>1, InitFeeds, PTL DEF Spec

\* Whatever fragments were lost, repeated or swapped, of however many messages of any
\* length, and however their bytes were cut, feed returns a message only as it was sent:
\* the checks of start and id make any gap, repetition or exchange an error.
THEOREM MessagesAreWhole == Spec => []ReturnedWhole
<1>1. FeedInv => ReturnedWhole
  <2> SUFFICES ASSUME FeedInv, NEW i \in DOMAIN returned
               PROVE  returned[i][2] = Message(returned[i][1], length[returned[i][1]])
    BY DEF ReturnedWhole
  <2>1. returned \in Seq(Objects \X Seq(MsgBytes)) /\ WholeMsgs(returned, length)
    BY DEF FeedInv, WholeMsgs
  <2>2. i \in 1..Len(returned)
    BY <2>1
  <2> QED
    BY <2>1, <2>2 DEF WholeMsgs
<1> QED
  BY <1>1, FeedsAreSound, PTL

\* For any cut of the bytes, feed returns the messages in the order in which their last
\* fragments were written, all of them once the bytes arrived, and leaves no whole
\* fragment waiting; it refuses a fragment only after a fault, and returns no message
\* that was spared twice.
THEOREM MessagesAreInOrder == Spec => []ReturnedInOrder
<1>1. FeedInv => ReturnedInOrder
  <2> SUFFICES ASSUME FeedInv PROVE ReturnedInOrder
    OBVIOUS
  <2>1. PICK F \in Seq(Parts(length)) : StreamInv(F, buffer \o wire, in_flight, returned, ~failed)
    BY DEF FeedInv
  <2>2. /\ returned \in Seq(Objects \X Seq(MsgBytes)) /\ finished \in Seq(Objects)
        /\ buffer \in Seq(CellSet) /\ F \in Seq(FragSet)
    <3>1. \A q \in Seq(Parts(length)) : q \in Seq(FragSet)
      BY DEF Parts
    <3> QED
      BY <3>1 DEF FeedInv, PeerInv, WholeMsgs
  <2>3. DOMAIN returned = 1..Len(returned) /\ Len(returned) \in Nat /\ Len(finished) \in Nat
    BY <2>2
  <2>4. ASSUME ~failed
        PROVE  /\ ~Whole(buffer) /\ Len(returned) <= Len(finished)
               /\ \A i \in DOMAIN returned : Object(i) = finished[i]
               /\ wire = <<>> => Len(returned) = Len(finished)
    <3>1. Delivered(F, finished, returned) /\ ~Whole(buffer)
      BY <2>1, <2>4 DEF StreamInv, FeedInv
    <3>2. ASSUME wire = <<>> PROVE Len(returned) = Len(finished)
      <4>1. Laid(buffer, F)
        <5>1. buffer \o <<>> = buffer
          BY <2>2, ConcatEmptySeq
        <5> QED
          BY <2>1, <3>2, <5>1 DEF StreamInv
      <4>2. F = <<>>
        BY <2>2, <3>1, <4>1, LaidWhole
      <4>3. Numbered(<<>>, Last, Ends(finished), Len(returned), Len(finished))
        BY <3>1, <4>2 DEF Delivered
      <4> QED
        BY <2>3, <4>3, NumberedEmpty
    <3> QED
      BY <2>3, <3>1, <3>2 DEF Delivered, Object
  <2>5. ASSUME NEW i \in DOMAIN returned, NEW j \in DOMAIN returned, Object(i) = Object(j), Object(i) \notin hurt
        PROVE  i = j
    <3> DEFINE o == Object(i)
    <3>1. o \in Objects \ hurt /\ returned[i][1] = o /\ returned[j][1] = o
      BY <2>2, <2>3, <2>5 DEF Object
    <3>2. InOrder(F, o, Total(length, o), outbox[o], in_flight, returned)
      BY <2>1, <3>1 DEF StreamInv
    <3> HIDE DEF o
    <3> QED
      BY <3>1, <3>2 DEF InOrder, Reached
  <2> QED
    BY <2>4, <2>5 DEF ReturnedInOrder, FeedInv
<1> QED
  BY <1>1, FeedsAreSound, PTL
===============================================================================
