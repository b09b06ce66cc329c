----------------------------- MODULE FilesProofs ----------------------------
(* For any deployment, files, chunk sizes and bounds, and any order of floods, *)
(* requests, answers, losses and restarts: the cache's byte counter is what    *)
(* it stores and stays within the budget, queues and tables stay within their  *)
(* bounds, and the chunks a node stores reach its neighbours.                  *)
(* Sums and what a cache takes of a file are defined by recursion: what they   *)
(* are is shown here by least counterexample, over finite sets of chunks and   *)
(* over indices.                                                               *)
EXTENDS Files, FiniteSetTheorems, SequenceTheorems, WellFoundedInduction, TLAPS

----------------------------------------------------------------------------
\* A set of finite sets of chunks has a least one.
LEMMA LeastSet ==
    ASSUME NEW X, X \subseteq FiniteSubsetsOf(Chunk), X # {}
    PROVE  \E A \in X : \A B \in X : ~ (B \subseteq A /\ B # A)
<1>1. \E A \in X : \A B \in X : ~ (<<B, A>> \in StrictSubsetOrdering(Chunk))
      BY FS_StrictSubsetOrderingWellFounded, WFMin
<1>2. \A A \in X : A \in SUBSET Chunk BY DEF FiniteSubsetsOf
<1> QED BY <1>1, <1>2 DEF StrictSubsetOrdering

\* What a sum over the subsets of S is.
First(s) == CHOOSE x \in s : TRUE
Summing(S, g) ==
    g = [s \in SUBSET S |-> IF s = {} THEN 0 ELSE SizeOf(First(s)) + g[s \ {First(s)}]]

FiniteChunks == {S \in SUBSET Chunk : IsFiniteSet(S)}

LEMMA FirstIn == ASSUME NEW s, s # {} PROVE First(s) \in s
BY DEF First

LEMMA SummingUnique ==
    ASSUME NEW S, NEW T, NEW g, NEW h, Summing(S, g), Summing(T, h)
    PROVE  \A U \in FiniteChunks : U \subseteq S /\ U \subseteq T => g[U] = h[U] /\ g[U] \in Nat
<1> DEFINE X == {U \in FiniteChunks : U \subseteq S /\ U \subseteq T /\ ~ (g[U] = h[U] /\ g[U] \in Nat)}
<1> SUFFICES ASSUME X # {} PROVE FALSE
    OBVIOUS
<1>1. X \subseteq FiniteSubsetsOf(Chunk) BY DEF FiniteSubsetsOf, FiniteChunks
<1> HIDE DEF X
<1>2. PICK U \in X : \A V \in X : ~ (V \subseteq U /\ V # U) BY <1>1, LeastSet
<1> USE DEF X
<1>3. /\ g[U] = IF U = {} THEN 0 ELSE SizeOf(First(U)) + g[U \ {First(U)}]
      /\ h[U] = IF U = {} THEN 0 ELSE SizeOf(First(U)) + h[U \ {First(U)}]
      BY DEF Summing
<1>4. CASE U = {} BY <1>3, <1>4
<1>5. CASE U # {}
  <2> DEFINE V == U \ {First(U)}
  <2>1. First(U) \in U /\ First(U) \in Chunk BY <1>5, FirstIn DEF FiniteChunks
  <2>2. V \in FiniteChunks BY FS_RemoveElement DEF FiniteChunks
  <2>3. V \notin X BY <1>2, <2>1
  <2>4. g[V] = h[V] /\ g[V] \in Nat BY <2>2, <2>3
  <2>5. SizeOf(First(U)) \in Nat BY <2>1, SizeAssumption
  <2>6. g[U] = SizeOf(First(U)) + g[V] /\ h[U] = SizeOf(First(U)) + h[V] BY <1>3, <1>5
  <2> HIDE DEF V
  <2> QED BY <2>4, <2>5, <2>6
<1> QED BY <1>4, <1>5

LEMMA SummingExists == ASSUME NEW S \in FiniteChunks PROVE \E g : Summing(S, g)
<1> DEFINE X == {U \in FiniteChunks : ~ \E g : Summing(U, g)}
<1> SUFFICES ASSUME X # {} PROVE FALSE
    OBVIOUS
<1>1. X \subseteq FiniteSubsetsOf(Chunk) BY DEF FiniteSubsetsOf, FiniteChunks
<1> HIDE DEF X
<1>2. PICK U \in X : \A V \in X : ~ (V \subseteq U /\ V # U) BY <1>1, LeastSet
<1> USE DEF X
<1> DEFINE part(V) == CHOOSE g : Summing(V, g)
           g == [s \in SUBSET U |->
                    IF s = {} THEN 0 ELSE SizeOf(First(s)) + part(s \ {First(s)})[s \ {First(s)}]]
<1>3. ASSUME NEW V \in SUBSET U, V # U PROVE Summing(V, part(V)) /\ V \in FiniteChunks
  <2>1. V \in FiniteChunks BY FS_Subset DEF FiniteChunks
  <2>2. \E h : Summing(V, h) BY <1>2, <1>3, <2>1
  <2> QED BY <2>1, <2>2
<1>4. ASSUME NEW s \in SUBSET U, s # U PROVE part(s)[s] = g[s]
  <2>1. CASE s = {}
    <3>1. Summing(s, part(s)) BY <1>3, <1>4
    <3> HIDE DEF part
    <3> QED BY <2>1, <3>1 DEF Summing
  <2>2. CASE s # {}
    <3> DEFINE r == s \ {First(s)}
    <3>1. First(s) \in s BY <2>2, FirstIn
    <3>2. r \in SUBSET s /\ r \in SUBSET U /\ r # U BY <1>4, <3>1
    <3>3. Summing(s, part(s)) /\ Summing(r, part(r)) /\ r \in FiniteChunks BY <1>3, <1>4, <3>2
    <3> HIDE DEF r, part
    <3>4. part(s)[r] = part(r)[r] BY <3>2, <3>3, SummingUnique
    <3>5. part(s)[s] = SizeOf(First(s)) + part(s)[s \ {First(s)}] BY <2>2, <3>3 DEF Summing
    <3> QED BY <2>2, <3>4, <3>5 DEF r
  <2> QED BY <2>1, <2>2
<1> HIDE DEF part
<1>5. ASSUME NEW s \in SUBSET U, s # {}
      PROVE  g[s] = SizeOf(First(s)) + g[s \ {First(s)}]
  <2>1. First(s) \in s BY <1>5, FirstIn
  <2>2. s \ {First(s)} \in SUBSET U /\ s \ {First(s)} # U BY <2>1
  <2>3. part(s \ {First(s)})[s \ {First(s)}] = g[s \ {First(s)}] BY <1>4, <2>2
  <2>4. g[s] = SizeOf(First(s)) + part(s \ {First(s)})[s \ {First(s)}] BY <1>5
  <2> HIDE DEF g
  <2> QED BY <2>3, <2>4
<1>6. g[{}] = 0 OBVIOUS
<1>7. g = [s \in SUBSET U |-> g[s]] OBVIOUS
<1> HIDE DEF g
<1>8. Summing(U, g)
  <2>1. [s \in SUBSET U |-> g[s]] = [s \in SUBSET U |-> IF s = {} THEN 0 ELSE SizeOf(First(s)) + g[s \ {First(s)}]]
        BY <1>5, <1>6
  <2> QED BY <1>7, <2>1 DEF Summing
<1> QED BY <1>2, <1>8

LEMMA BytesIs == ASSUME NEW S \in FiniteChunks PROVE \E g : Summing(S, g) /\ Bytes(S) = g[S]
<1> DEFINE iter == CHOOSE g : g = [s \in SUBSET S |-> IF s = {} THEN 0
                       ELSE SizeOf(CHOOSE x \in s : TRUE) + g[s \ {CHOOSE x \in s : TRUE}]]
<1>1. Bytes(S) = iter[S] BY DEF Bytes, MapThenSumSet, MapThenFoldSet
<1>2. Summing(S, iter) BY SummingExists DEF Summing, First
<1> QED BY <1>1, <1>2

\* The bytes of some chunks, summed up in any order.
LEMMA BytesFirst ==
    ASSUME NEW S \in FiniteChunks
    PROVE  /\ Bytes(S) \in Nat
           /\ S = {} => Bytes(S) = 0
           /\ S # {} => Bytes(S) = SizeOf(First(S)) + Bytes(S \ {First(S)})
<1>1. PICK g : Summing(S, g) /\ Bytes(S) = g[S] BY BytesIs
<1>2. Bytes(S) \in Nat BY <1>1, SummingUnique
<1>3. S = {} => Bytes(S) = 0 BY <1>1 DEF Summing
<1>4. ASSUME S # {} PROVE Bytes(S) = SizeOf(First(S)) + Bytes(S \ {First(S)})
  <2>1. PICK R : R = S \ {First(S)} OBVIOUS
  <2>2. R \in FiniteChunks BY <2>1, FS_RemoveElement DEF FiniteChunks
  <2>3. PICK h : Summing(R, h) /\ Bytes(R) = h[R] BY <2>2, BytesIs
  <2>4. g[R] = h[R] BY <1>1, <2>1, <2>2, <2>3, SummingUnique
  <2>5. g[S] = SizeOf(First(S)) + g[S \ {First(S)}] BY <1>1, <1>4 DEF Summing
  <2> QED BY <1>1, <2>1, <2>3, <2>4, <2>5
<1> QED BY <1>2, <1>3, <1>4

LEMMA BytesRemove ==
    ASSUME NEW S \in FiniteChunks, NEW x \in S PROVE Bytes(S) = SizeOf(x) + Bytes(S \ {x})
<1> DEFINE X == {U \in FiniteChunks : \E y \in U : Bytes(U) # SizeOf(y) + Bytes(U \ {y})}
<1> SUFFICES ASSUME X # {} PROVE FALSE
    OBVIOUS
<1>1. X \subseteq FiniteSubsetsOf(Chunk) BY DEF FiniteSubsetsOf, FiniteChunks
<1> HIDE DEF X
<1>2. PICK U \in X : \A V \in X : ~ (V \subseteq U /\ V # U) BY <1>1, LeastSet
<1> USE DEF X
<1>3. PICK y \in U : Bytes(U) # SizeOf(y) + Bytes(U \ {y}) OBVIOUS
<1>4. PICK z : z = First(U) OBVIOUS
<1>5. z \in U /\ Bytes(U) = SizeOf(z) + Bytes(U \ {z}) BY <1>3, <1>4, FirstIn, BytesFirst
<1>6. z # y BY <1>3, <1>5
<1>7. PICK V, W, R : V = U \ {z} /\ W = U \ {y} /\ R = (U \ {z}) \ {y} OBVIOUS
<1>8. V \in FiniteChunks /\ W \in FiniteChunks /\ R \in FiniteChunks
      BY <1>7, FS_RemoveElement DEF FiniteChunks
<1>9. V \notin X /\ W \notin X BY <1>2, <1>3, <1>5, <1>7
<1>10. Bytes(V) = SizeOf(y) + Bytes(V \ {y}) BY <1>3, <1>6, <1>7, <1>8, <1>9
<1>11. Bytes(W) = SizeOf(z) + Bytes(W \ {z}) BY <1>5, <1>6, <1>7, <1>8, <1>9
<1>12. V \ {y} = R /\ W \ {z} = R BY <1>7
<1>13. SizeOf(y) \in Nat /\ SizeOf(z) \in Nat /\ Bytes(R) \in Nat
       BY <1>3, <1>5, <1>8, BytesFirst, SizeAssumption DEF FiniteChunks
<1>14. Bytes(U) = SizeOf(z) + (SizeOf(y) + Bytes(R)) BY <1>5, <1>7, <1>10, <1>12
<1>15. Bytes(U \ {y}) = SizeOf(z) + Bytes(R) BY <1>7, <1>11, <1>12
<1> QED BY <1>3, <1>13, <1>14, <1>15

LEMMA BytesAdd ==
    ASSUME NEW S \in FiniteChunks, NEW x \in Chunk, x \notin S
    PROVE  S \cup {x} \in FiniteChunks /\ Bytes(S \cup {x}) = Bytes(S) + SizeOf(x)
<1>1. PICK T : T = S \cup {x} OBVIOUS
<1>2. T \in FiniteChunks BY <1>1, FS_AddElement DEF FiniteChunks
<1>3. T \ {x} = S BY <1>1
<1>4. Bytes(T) = SizeOf(x) + Bytes(S) BY <1>1, <1>2, <1>3, BytesRemove
<1>5. SizeOf(x) \in Nat /\ Bytes(S) \in Nat BY BytesFirst, SizeAssumption
<1> QED BY <1>1, <1>2, <1>4, <1>5

LEMMA BytesUnion ==
    ASSUME NEW A \in FiniteChunks, NEW B \in FiniteChunks, A \cap B = {}
    PROVE  A \cup B \in FiniteChunks /\ Bytes(A \cup B) = Bytes(A) + Bytes(B)
<1> DEFINE X == {U \in FiniteChunks : U \cap A = {} /\ ~ (A \cup U \in FiniteChunks /\ Bytes(A \cup U) = Bytes(A) + Bytes(U))}
<1> SUFFICES ASSUME X # {} PROVE FALSE
    OBVIOUS
<1>1. X \subseteq FiniteSubsetsOf(Chunk) BY DEF FiniteSubsetsOf, FiniteChunks
<1> HIDE DEF X
<1>2. PICK U \in X : \A V \in X : ~ (V \subseteq U /\ V # U) BY <1>1, LeastSet
<1> USE DEF X
<1>3. Bytes(A) \in Nat BY BytesFirst
<1>4. CASE U = {}
  <2>1. Bytes(U) = 0 /\ A \cup U = A BY <1>4, BytesFirst
  <2>2. Bytes(A \cup U) = Bytes(A) BY <2>1
  <2>3. Bytes(A) + Bytes(U) = Bytes(A) BY <1>3, <2>1
  <2> QED BY <2>1, <2>2, <2>3
<1>5. CASE U # {}
  <2>1. PICK x \in U : TRUE BY <1>5
  <2>2. PICK V, W : V = U \ {x} /\ W = A \cup V OBVIOUS
  <2>3. V \in FiniteChunks /\ V \cap A = {} /\ V # U /\ V \subseteq U
        BY <2>1, <2>2, FS_RemoveElement DEF FiniteChunks
  <2>4. V \notin X BY <1>2, <2>3
  <2>5. W \in FiniteChunks /\ Bytes(W) = Bytes(A) + Bytes(V) BY <2>2, <2>3, <2>4
  <2>6. x \in Chunk /\ x \notin W /\ W \cup {x} = A \cup U /\ x \notin V /\ V \cup {x} = U
        BY <2>1, <2>2 DEF FiniteChunks
  <2>7. A \cup U \in FiniteChunks /\ Bytes(A \cup U) = Bytes(W) + SizeOf(x) BY <2>5, <2>6, BytesAdd
  <2>8. Bytes(U) = Bytes(V) + SizeOf(x) BY <2>3, <2>6, BytesAdd
  <2>9. Bytes(V) \in Nat /\ SizeOf(x) \in Nat BY <2>3, <2>6, BytesFirst, SizeAssumption
  <2> QED BY <1>3, <2>5, <2>7, <2>8, <2>9
<1> QED BY <1>4, <1>5

LEMMA BytesSubset ==
    ASSUME NEW B \in FiniteChunks, NEW A, A \subseteq B
    PROVE  A \in FiniteChunks /\ Bytes(A) <= Bytes(B)
<1>1. PICK C : C = B \ A OBVIOUS
<1>2. A \in FiniteChunks /\ C \in FiniteChunks BY <1>1, FS_Subset DEF FiniteChunks
<1>3. A \cap C = {} /\ A \cup C = B BY <1>1
<1>4. Bytes(B) = Bytes(A) + Bytes(C) BY <1>2, <1>3, BytesUnion
<1>5. Bytes(A) \in Nat /\ Bytes(C) \in Nat BY <1>2, BytesFirst
<1> QED BY <1>2, <1>4, <1>5

----------------------------------------------------------------------------
\* A set of indices has a least one.
LEMMA LeastIndex ==
    ASSUME NEW X, X \subseteq Nat, X # {} PROVE \E i \in X : \A j \in X : i <= j
<1> DEFINE R == OpToRel(<, Nat)
<1>1. \A i, j \in X : <<j, i>> \in R <=> j < i BY DEF OpToRel
<1>2. IsWellFoundedOn(R, Nat) BY NatLessThanWellFounded
<1> HIDE DEF R
<1>3. \E i \in X : \A j \in X : ~ (<<j, i>> \in R) BY <1>2, WFMin
<1>4. PICK i \in X : \A j \in X : ~ (<<j, i>> \in R) BY <1>3
<1>5. \A j \in X : ~ (j < i) BY <1>1, <1>4
<1>6. \A j \in X : i <= j BY <1>5
<1> QED BY <1>6

\* How the cache takes the chunks of f, up to the i-th.
TakingTo(n, f, k, t) ==
    t = [i \in 0..k |->
            IF i = 0 THEN {}
            ELSE IF f.chunks[i] \notin cache[n] \cup t[i - 1]
                      /\ used[n] + Bytes(t[i - 1]) + SizeOf(f.chunks[i]) <= net.budget[n]
                 THEN t[i - 1] \cup {f.chunks[i]} ELSE t[i - 1]]

Taking(n, f, t) == TakingTo(n, f, Len(f.chunks), t)

LEMMA TakingExists == ASSUME NEW n, NEW f \in File PROVE \E t : Taking(n, f, t)
<1> DEFINE X == {k \in Nat : ~ \E t : TakingTo(n, f, k, t)}
<1>1. Len(f.chunks) \in Nat BY FileAssumption, LenProperties
<1> SUFFICES ASSUME X # {} PROVE FALSE
    BY <1>1 DEF Taking
<1>2. X \subseteq Nat OBVIOUS
<1> HIDE DEF X
<1>3. PICK k \in X : \A j \in X : k <= j BY <1>2, LeastIndex
<1> USE DEF X
<1>4. CASE k = 0
  <2> DEFINE t == [i \in 0..k |-> {}]
  <2>1. \A i \in 0..k : i = 0 BY <1>4
  <2>2. TakingTo(n, f, k, t) BY <2>1 DEF TakingTo
  <2> QED BY <2>2
<1>5. CASE k # 0
  <2>1. k - 1 \in Nat /\ k - 1 \notin X BY <1>3, <1>5
  <2>2. PICK u : TakingTo(n, f, k - 1, u) BY <2>1
  <2> DEFINE add(i) == IF f.chunks[i] \notin cache[n] \cup u[i - 1]
                            /\ used[n] + Bytes(u[i - 1]) + SizeOf(f.chunks[i]) <= net.budget[n]
                       THEN u[i - 1] \cup {f.chunks[i]} ELSE u[i - 1]
             t == [i \in 0..k |-> IF i = k THEN add(k) ELSE u[i]]
  <2>3. \A i \in 0..(k - 1) : u[i] = IF i = 0 THEN {} ELSE add(i) BY <2>2 DEF TakingTo
  <2>4. k \in Nat /\ k # 0 BY <1>5
  <2>5. \A i \in 0..k : i = k \/ i \in 0..(k - 1) BY <2>4
  <2>6. k \in 0..k /\ t[k] = add(k) BY <2>4
  <2>7. \A i \in 0..(k - 1) : i \in 0..k /\ t[i] = u[i] BY <2>4
  <2>8. \A i \in 1..k : i - 1 \in 0..(k - 1) /\ t[i - 1] = u[i - 1] BY <2>4, <2>7
  <2>9. t = [i \in 0..k |-> t[i]] OBVIOUS
  <2> HIDE DEF t
  <2>10. \A i \in 0..k : t[i] = IF i = 0 THEN {} ELSE add(i)
    <3> HIDE DEF add
    <3> QED BY <2>3, <2>4, <2>5, <2>6, <2>7
  <2>11. \A i \in 1..k : add(i) =
            IF f.chunks[i] \notin cache[n] \cup t[i - 1]
                 /\ used[n] + Bytes(t[i - 1]) + SizeOf(f.chunks[i]) <= net.budget[n]
            THEN t[i - 1] \cup {f.chunks[i]} ELSE t[i - 1]
        BY <2>8
  <2>12. \A i \in 0..k : i = 0 \/ i \in 1..k BY <2>4
  <2> HIDE DEF add
  <2>13. [i \in 0..k |-> t[i]] = [i \in 0..k |->
            IF i = 0 THEN {}
            ELSE IF f.chunks[i] \notin cache[n] \cup t[i - 1]
                      /\ used[n] + Bytes(t[i - 1]) + SizeOf(f.chunks[i]) <= net.budget[n]
                 THEN t[i - 1] \cup {f.chunks[i]} ELSE t[i - 1]]
        BY <2>10, <2>11, <2>12
  <2>14. TakingTo(n, f, k, t) BY <2>9, <2>13 DEF TakingTo
  <2> QED BY <2>14
<1> QED BY <1>4, <1>5

LEMMA StoredIs == ASSUME NEW n, NEW f \in File PROVE \E t : Taking(n, f, t) /\ Stored(n, f) = t[Len(f.chunks)]
<1> DEFINE u == CHOOSE t : Taking(n, f, t)
<1>1. Taking(n, f, u) BY TakingExists
<1>2. Stored(n, f) = u[Len(f.chunks)] BY DEF Stored, Taking, TakingTo
<1> QED BY <1>1, <1>2

\* What is stored of f is new, of f, and within the budget; what is not has no room.
LEMMA StoredFacts ==
    ASSUME NEW n, NEW f \in File, used[n] \in Nat, net.budget[n] \in Nat, used[n] <= net.budget[n]
    PROVE  /\ Stored(n, f) \in FiniteChunks /\ Stored(n, f) \subseteq ChunksOf(f) \ cache[n]
           /\ used[n] + Bytes(Stored(n, f)) <= net.budget[n]
           /\ \A c \in ChunksOf(f) \ (cache[n] \cup Stored(n, f)) :
                  used[n] + Bytes(Stored(n, f)) + SizeOf(c) > net.budget[n]
<1> DEFINE N == Len(f.chunks)
<1>1. PICK t : Taking(n, f, t) /\ Stored(n, f) = t[N] BY StoredIs
<1>2. N \in Nat /\ DOMAIN f.chunks = 1..N /\ \A i \in 1..N : f.chunks[i] \in Chunk
      BY FileAssumption, LenProperties
<1>3. ChunksOf(f) = {f.chunks[i] : i \in 1..N} BY <1>2 DEF ChunksOf, ToSet
<1> HIDE DEF N
<1> DEFINE c(i) == f.chunks[i]
           Fine(i) == /\ t[i] \in FiniteChunks /\ t[i] \subseteq ChunksOf(f) \ cache[n]
                      /\ used[n] + Bytes(t[i]) <= net.budget[n]
                      /\ \A j \in 1..i : c(j) \in cache[n] \cup t[i] \/ used[n] + Bytes(t[i]) + SizeOf(c(j)) > net.budget[n]
           X == {i \in Nat : i <= N /\ ~ Fine(i)}
<1>4. ASSUME X # {} PROVE FALSE
  <2>1. X \subseteq Nat OBVIOUS
  <2> HIDE DEF X
  <2>2. PICK k \in X : \A j \in X : k <= j BY <1>4, <2>1, LeastIndex
  <2> USE DEF X
  <2> HIDE DEF Fine
  <2>3. k \in 0..N /\ ~ Fine(k) BY <1>2
  <2>4. CASE k = 0
    <3>1. t[0] = {} BY <1>1, <1>2 DEF Taking, TakingTo, N
    <3>2. {} \in FiniteChunks BY FS_EmptySet DEF FiniteChunks
    <3>3. Bytes({}) = 0 BY <3>2, BytesFirst
    <3> QED BY <2>3, <2>4, <3>1, <3>2, <3>3 DEF Fine
  <2>5. CASE k # 0
    <3>1. k - 1 \in Nat /\ k - 1 \notin X BY <2>2, <2>5
    <3>2. Fine(k - 1) BY <1>2, <2>3, <3>1
    <3>3. PICK old, ck : old = t[k - 1] /\ ck = c(k) OBVIOUS
    <3>4. t[k] = IF ck \notin cache[n] \cup old /\ used[n] + Bytes(old) + SizeOf(ck) <= net.budget[n]
                 THEN old \cup {ck} ELSE old
          BY <1>1, <2>3, <2>5, <3>3 DEF Taking, TakingTo, N
    <3>5. ck \in Chunk /\ ck \in ChunksOf(f) /\ SizeOf(ck) \in Nat BY <1>2, <1>3, <2>3, <2>5, <3>3, SizeAssumption
    <3>6. /\ old \in FiniteChunks /\ old \subseteq ChunksOf(f) \ cache[n] /\ used[n] + Bytes(old) <= net.budget[n]
          /\ \A j \in 1..(k - 1) : c(j) \in cache[n] \cup old \/ used[n] + Bytes(old) + SizeOf(c(j)) > net.budget[n]
          BY <3>2, <3>3 DEF Fine
    <3>7. Bytes(old) \in Nat BY <3>6, BytesFirst
    <3>8. \A j \in 1..k : j = k \/ j \in 1..(k - 1) BY <2>3
    <3>9. CASE ck \notin cache[n] \cup old /\ used[n] + Bytes(old) + SizeOf(ck) <= net.budget[n]
      <4>1. t[k] = old \cup {ck} BY <3>4, <3>9
      <4>2. t[k] \in FiniteChunks /\ Bytes(t[k]) = Bytes(old) + SizeOf(ck) BY <3>5, <3>6, <3>9, <4>1, BytesAdd
      <4>3. \A j \in 1..k : c(j) \in Chunk /\ SizeOf(c(j)) \in Nat BY <1>2, <2>3, SizeAssumption
      <4>4. ASSUME NEW j \in 1..k
            PROVE  c(j) \in cache[n] \cup t[k] \/ used[n] + Bytes(t[k]) + SizeOf(c(j)) > net.budget[n]
        <5>1. CASE j = k BY <3>3, <4>1, <5>1
        <5>2. CASE j \in 1..(k - 1)
          <6>1. CASE c(j) \in cache[n] \cup old BY <4>1, <6>1
          <6>2. CASE used[n] + Bytes(old) + SizeOf(c(j)) > net.budget[n]
            <7> HIDE DEF c
            <7> QED BY <3>5, <3>7, <4>2, <4>3, <6>2
          <6> QED BY <3>6, <5>2, <6>1, <6>2
        <5> QED BY <3>8, <5>1, <5>2
      <4>5. used[n] + Bytes(t[k]) <= net.budget[n] BY <3>5, <3>7, <3>9, <4>2
      <4>6. t[k] \subseteq ChunksOf(f) \ cache[n] BY <3>5, <3>6, <3>9, <4>1
      <4> QED BY <2>3, <4>2, <4>4, <4>5, <4>6 DEF Fine
    <3>10. CASE ~ (ck \notin cache[n] \cup old /\ used[n] + Bytes(old) + SizeOf(ck) <= net.budget[n])
      <4>1. t[k] = old BY <3>4, <3>10
      <4>2. ck \in cache[n] \cup t[k] \/ used[n] + Bytes(t[k]) + SizeOf(ck) > net.budget[n]
            BY <3>5, <3>7, <3>10, <4>1
      <4>3. \A j \in 1..k : c(j) \in cache[n] \cup t[k] \/ used[n] + Bytes(t[k]) + SizeOf(c(j)) > net.budget[n]
            BY <3>3, <3>6, <3>8, <4>1, <4>2
      <4> QED BY <2>3, <3>6, <4>1, <4>3 DEF Fine
    <3> QED BY <3>9, <3>10
  <2> QED BY <2>4, <2>5
<1>5. Fine(N)
  <2> HIDE DEF Fine
  <2> QED BY <1>2, <1>4
<1>6. \A x \in ChunksOf(f) \ (cache[n] \cup t[N]) : used[n] + Bytes(t[N]) + SizeOf(x) > net.budget[n]
      BY <1>2, <1>3, <1>5
<1> QED BY <1>1, <1>5, <1>6

----------------------------------------------------------------------------
\* What is queued stays queued, and is followed by what has room.
LEMMA TrySendFacts ==
    ASSUME NEW M, NEW q \in Seq(M), Len(q) <= QueueCap, NEW ms \in Seq(M)
    PROVE  /\ TrySend(q, ms) \in Seq(M) /\ Len(TrySend(q, ms)) <= QueueCap
           /\ ToSet(q) \subseteq ToSet(TrySend(q, ms))
           /\ ToSet(TrySend(q, ms)) \subseteq ToSet(q) \cup ToSet(ms)
           /\ \A i \in DOMAIN ms : ms[i] \in ToSet(TrySend(q, ms)) \/ Len(q) + i > QueueCap
<1>1. PICK all, r : all = q \o ms /\ r = TrySend(q, ms) OBVIOUS
<1>2. Len(q) \in Nat /\ Len(ms) \in Nat /\ DOMAIN q = 1..Len(q) /\ DOMAIN ms = 1..Len(ms) /\ QueueCap \in Nat
      BY LenProperties, BoundsAssumption
<1>3. /\ all \in Seq(M) /\ Len(all) = Len(q) + Len(ms)
      /\ \A i \in 1..(Len(q) + Len(ms)) : all[i] = IF i <= Len(q) THEN q[i] ELSE ms[i - Len(q)]
      BY <1>1, ConcatProperties
<1>4. /\ r \in Seq(M) /\ Len(r) <= QueueCap /\ Len(r) <= Len(all) /\ (Len(r) = Len(all) \/ Len(r) = QueueCap)
      /\ \A i \in 1..Len(r) : r[i] = all[i]
  <2>1. CASE Len(all) <= QueueCap
    <3>1. r = all BY <1>1, <2>1 DEF TrySend
    <3> QED BY <1>2, <1>3, <2>1, <3>1
  <2>2. CASE Len(all) > QueueCap
    <3>1. r = SubSeq(all, 1, QueueCap) BY <1>1, <1>2, <1>3, <2>2 DEF TrySend
    <3>2. \A i \in 1..QueueCap : all[i] \in M
      <4>1. all \in [1..Len(all) -> M] BY <1>3, LenProperties
      <4> QED BY <1>2, <1>3, <2>2, <4>1
    <3>3. /\ r \in Seq(M) /\ Len(r) = IF 1 <= QueueCap THEN QueueCap - 1 + 1 ELSE 0
          /\ \A i \in 1..(QueueCap - 1 + 1) : r[i] = all[1 + i - 1]
          BY <1>2, <3>1, <3>2, SubSeqProperties
    <3>4. Len(r) = QueueCap BY <1>2, <3>3
    <3> QED BY <1>2, <1>3, <2>2, <3>3, <3>4
  <2> QED BY <1>2, <1>3, <2>1, <2>2
<1>5. Len(r) \in Nat /\ DOMAIN r = 1..Len(r) BY <1>4, LenProperties
<1>6. ToSet(q) = {q[i] : i \in 1..Len(q)} /\ ToSet(ms) = {ms[i] : i \in 1..Len(ms)} /\ ToSet(r) = {r[i] : i \in 1..Len(r)}
      BY <1>2, <1>5 DEF ToSet
<1>7. Len(q) <= Len(r) /\ Len(r) <= Len(q) + Len(ms)
  <2>1. Len(q) <= Len(all) /\ Len(r) \in Nat BY <1>2, <1>3, <1>5
  <2> QED BY <1>2, <1>3, <1>4, <2>1
<1>8. ASSUME NEW i \in 1..Len(q) PROVE i \in 1..Len(r) /\ r[i] = q[i]
  <2>1. i \in 1..Len(r) /\ i <= Len(q) /\ i \in 1..(Len(q) + Len(ms)) BY <1>2, <1>5, <1>7
  <2> QED BY <1>3, <1>4, <2>1
<1>9. ASSUME NEW i \in 1..Len(r) PROVE r[i] \in ToSet(q) \cup ToSet(ms)
  <2>1. r[i] = all[i] BY <1>4
  <2>2. i \in Nat /\ 1 <= i /\ i <= Len(r) BY <1>5
  <2>3. i <= Len(q) + Len(ms) BY <1>2, <1>5, <1>7, <2>2
  <2>4. r[i] = all[i] /\ i \in 1..(Len(q) + Len(ms)) BY <1>2, <2>1, <2>2, <2>3
  <2>5. CASE i <= Len(q)
    <3>1. i \in 1..Len(q) /\ r[i] = q[i] BY <1>3, <2>4, <2>5
    <3> QED BY <1>6, <3>1
  <2>6. CASE ~ (i <= Len(q))
    <3>1. i - Len(q) \in 1..Len(ms) BY <1>2, <2>4, <2>6
    <3>2. r[i] = ms[i - Len(q)] BY <1>3, <2>4, <2>6
    <3> QED BY <1>6, <3>1, <3>2
  <2> QED BY <2>5, <2>6
<1>10. ASSUME NEW i \in 1..Len(ms), ~ (Len(q) + i > QueueCap) PROVE ms[i] \in ToSet(r)
  <2>1. PICK j : j = Len(q) + i OBVIOUS
  <2>2. j \in 1..Len(r) /\ j \in 1..(Len(q) + Len(ms))
    <3>1. Len(q) + i <= QueueCap /\ Len(q) + i <= Len(all) BY <1>2, <1>3, <1>10
    <3>2. Len(q) + i <= Len(r) BY <1>4, <3>1
    <3> QED BY <1>2, <1>5, <2>1, <3>2
  <2>3. j - Len(q) = i /\ ~ (j <= Len(q)) BY <1>2, <2>1
  <2>4. all[j] = ms[j - Len(q)] BY <1>3, <2>2, <2>3
  <2>5. r[j] = ms[i] BY <1>4, <2>2, <2>3, <2>4
  <2> QED BY <1>6, <2>2, <2>5
<1>11. r \in Seq(M) /\ Len(r) <= QueueCap BY <1>4
<1>12. ToSet(q) \subseteq ToSet(r) BY <1>6, <1>8
<1>13. ToSet(r) \subseteq ToSet(q) \cup ToSet(ms) BY <1>6, <1>9
<1>14. \A i \in DOMAIN ms : ms[i] \in ToSet(r) \/ Len(q) + i > QueueCap BY <1>2, <1>10
<1> QED BY <1>1, <1>11, <1>12, <1>13, <1>14

QueuesOK(q) == q \in [Pair -> Seq(Message)] /\ \A p \in Pair : Len(q[p]) <= QueueCap

LEMMA SendEachFacts ==
    ASSUME NEW q, QueuesOK(q), NEW n, NEW ms, \A m \in Node : ms[m] \in Seq(Message)
    PROVE  /\ QueuesOK(SendEach(q, n, ms))
           /\ \A p \in Pair : /\ ToSet(q[p]) \subseteq ToSet(SendEach(q, n, ms)[p])
                              /\ \A m \in ToSet(SendEach(q, n, ms)[p]) :
                                     m \in ToSet(q[p]) \/ (p[1] = n /\ m \in ToSet(ms[p[2]]))
                              /\ p[1] = n => SendEach(q, n, ms)[p] = TrySend(q[p], ms[p[2]])
<1> DEFINE r == SendEach(q, n, ms)
<1>1. r = [p \in Pair |-> IF p[1] = n THEN TrySend(q[p], ms[p[2]]) ELSE q[p]] BY DEF SendEach
<1> HIDE DEF r
<1>2. ASSUME NEW p \in Pair
      PROVE  /\ r[p] \in Seq(Message) /\ Len(r[p]) <= QueueCap
             /\ ToSet(q[p]) \subseteq ToSet(r[p])
             /\ \A m \in ToSet(r[p]) : m \in ToSet(q[p]) \/ (p[1] = n /\ m \in ToSet(ms[p[2]]))
             /\ p[1] = n => r[p] = TrySend(q[p], ms[p[2]])
  <2>1. q[p] \in Seq(Message) /\ Len(q[p]) <= QueueCap /\ p[2] \in Node BY DEF QueuesOK, Pair
  <2>2. CASE p[1] = n
    <3>1. r[p] = TrySend(q[p], ms[p[2]]) BY <1>1, <2>2
    <3>2. ms[p[2]] \in Seq(Message) BY <2>1
    <3>3. /\ TrySend(q[p], ms[p[2]]) \in Seq(Message) /\ Len(TrySend(q[p], ms[p[2]])) <= QueueCap
          /\ ToSet(q[p]) \subseteq ToSet(TrySend(q[p], ms[p[2]]))
          /\ ToSet(TrySend(q[p], ms[p[2]])) \subseteq ToSet(q[p]) \cup ToSet(ms[p[2]])
          BY <2>1, <3>2, TrySendFacts
    <3> QED BY <2>2, <3>1, <3>3
  <2>3. CASE p[1] # n BY <1>1, <2>1, <2>3
  <2> QED BY <2>2, <2>3
<1>3. QueuesOK(r) BY <1>1, <1>2 DEF QueuesOK
<1> QED BY <1>2, <1>3 DEF r

LEMMA SendAllFacts ==
    ASSUME NEW q, QueuesOK(q), NEW n, NEW P, NEW ms \in Seq(Message)
    PROVE  /\ QueuesOK(SendAll(q, n, P, ms))
           /\ \A p \in Pair : /\ ToSet(q[p]) \subseteq ToSet(SendAll(q, n, P, ms)[p])
                              /\ \A m \in ToSet(SendAll(q, n, P, ms)[p]) :
                                     m \in ToSet(q[p]) \/ (p[1] = n /\ p[2] \in P /\ m \in ToSet(ms))
                              /\ p[1] = n /\ p[2] \in P =>
                                    \A i \in DOMAIN ms : ms[i] \in ToSet(SendAll(q, n, P, ms)[p]) \/ Len(q[p]) + i > QueueCap
<1> DEFINE t == [m \in Node |-> IF m \in P THEN ms ELSE <<>>]
           r == SendEach(q, n, t)
<1>1. \A m \in Node : t[m] \in Seq(Message) BY EmptySeq
<1>2. \A m \in Node : (m \in P => t[m] = ms) /\ (m \notin P => ToSet(t[m]) = {}) BY DEF ToSet
<1>3. SendAll(q, n, P, ms) = r BY DEF SendAll
<1> HIDE DEF t
<1>4. /\ QueuesOK(r)
      /\ \A p \in Pair : /\ ToSet(q[p]) \subseteq ToSet(r[p])
                         /\ \A m \in ToSet(r[p]) : m \in ToSet(q[p]) \/ (p[1] = n /\ m \in ToSet(t[p[2]]))
                         /\ p[1] = n => r[p] = TrySend(q[p], t[p[2]])
  <2>1. QueuesOK(SendEach(q, n, t)) BY <1>1, SendEachFacts
  <2>2. ASSUME NEW p \in Pair
        PROVE  /\ ToSet(q[p]) \subseteq ToSet(SendEach(q, n, t)[p])
               /\ \A m \in ToSet(SendEach(q, n, t)[p]) : m \in ToSet(q[p]) \/ (p[1] = n /\ m \in ToSet(t[p[2]]))
               /\ p[1] = n => SendEach(q, n, t)[p] = TrySend(q[p], t[p[2]])
    <3>1. ToSet(q[p]) \subseteq ToSet(SendEach(q, n, t)[p]) BY <1>1, SendEachFacts
    <3>2. p[1] = n => SendEach(q, n, t)[p] = TrySend(q[p], t[p[2]]) BY <1>1, SendEachFacts
    <3>3. \A m \in ToSet(SendEach(q, n, t)[p]) : m \in ToSet(q[p]) \/ (p[1] = n /\ m \in ToSet(t[p[2]]))
          BY <1>1, SendEachFacts
    <3> QED BY <3>1, <3>2, <3>3
  <2> QED BY <2>1, <2>2
<1> HIDE DEF r
<1>5. ASSUME NEW p \in Pair
      PROVE  /\ \A m \in ToSet(r[p]) : m \in ToSet(q[p]) \/ (p[1] = n /\ p[2] \in P /\ m \in ToSet(ms))
             /\ p[1] = n /\ p[2] \in P => \A i \in DOMAIN ms : ms[i] \in ToSet(r[p]) \/ Len(q[p]) + i > QueueCap
  <2>1. p[2] \in Node /\ q[p] \in Seq(Message) /\ Len(q[p]) <= QueueCap BY DEF Pair, QueuesOK
  <2>2. \A m \in ToSet(r[p]) : m \in ToSet(q[p]) \/ (p[1] = n /\ p[2] \in P /\ m \in ToSet(ms))
        BY <1>2, <1>4, <2>1
  <2>3. p[1] = n /\ p[2] \in P => r[p] = TrySend(q[p], ms) BY <1>2, <1>4, <2>1
  <2>4. \A i \in DOMAIN ms : ms[i] \in ToSet(TrySend(q[p], ms)) \/ Len(q[p]) + i > QueueCap
        BY <2>1, TrySendFacts
  <2> QED BY <2>2, <2>3, <2>4
<1> QED BY <1>3, <1>4, <1>5

LEMMA DroppedFacts ==
    ASSUME NEW q, QueuesOK(q), NEW n, NEW P, NEW ms \in Seq(Message), NEW p \in Pair, p[1] = n, p[2] \in P,
           NEW c, FileChunk(c) \in ToSet(ms), \A i \in DOMAIN ms : ms[i] = FileChunk(ms[i].hash)
    PROVE  FileChunk(c) \in ToSet(SendAll(q, n, P, ms)[p]) \/ <<p[2], c>> \in Dropped(q, n, P, ms)
<1>1. p = <<n, p[2]>> BY DEF Pair
<1>2. PICK i \in DOMAIN ms : ms[i] = FileChunk(c) BY DEF ToSet
<1>3. ms[i].hash = c BY <1>2 DEF FileChunk
<1>4. \A j \in DOMAIN ms : ms[j].hash = c => ms[j] = FileChunk(c) OBVIOUS
<1>5. \A j \in DOMAIN ms : ms[j] \in ToSet(SendAll(q, n, P, ms)[p]) \/ Len(q[p]) + j > QueueCap
      BY SendAllFacts
<1> SUFFICES ASSUME FileChunk(c) \notin ToSet(SendAll(q, n, P, ms)[p]) PROVE <<p[2], c>> \in Dropped(q, n, P, ms)
    OBVIOUS
<1>6. \A j \in DOMAIN ms : ms[j].hash = c => Len(q[<<n, p[2]>>]) + j > QueueCap BY <1>1, <1>4, <1>5
<1>7. c \in {ms[j].hash : j \in DOMAIN ms} BY <1>3
<1> QED BY <1>1, <1>6, <1>7 DEF Dropped

LEMMA ImageFinite == ASSUME NEW f, IsFiniteSet(DOMAIN f) PROVE IsFiniteSet({f[x] : x \in DOMAIN f})
<1> DEFINE T == {f[x] : x \in DOMAIN f}  g == [x \in DOMAIN f |-> f[x]]
<1>1. g \in Surjection(DOMAIN f, T) BY DEF Surjection
<1> QED BY <1>1, FS_Surjection

\* The chunks of a file are finitely many; they are flooded as they are.
LEMMA FileFacts ==
    ASSUME NEW f \in File
    PROVE  /\ ChunksOf(f) \in FiniteChunks /\ f.owner \in Node
           /\ BuildChunks(f) \in Seq(Message) /\ ToSet(BuildChunks(f)) = {FileChunk(c) : c \in ChunksOf(f)}
           /\ \A i \in DOMAIN BuildChunks(f) : /\ BuildChunks(f)[i] = FileChunk(BuildChunks(f)[i].hash)
                                               /\ BuildChunks(f)[i].hash \in ChunksOf(f)
<1>1. f.chunks \in Seq(Chunk) /\ f.owner \in Node BY FileAssumption
<1>2. Len(f.chunks) \in Nat /\ DOMAIN f.chunks = 1..Len(f.chunks) /\ \A i \in DOMAIN f.chunks : f.chunks[i] \in Chunk
      BY <1>1, LenProperties
<1>3. ChunksOf(f) \in FiniteChunks
  <2>1. IsFiniteSet(DOMAIN f.chunks) BY <1>2, FS_Interval
  <2>2. IsFiniteSet(ChunksOf(f)) BY <2>1, ImageFinite DEF ChunksOf, ToSet
  <2> QED BY <1>2, <2>2 DEF ChunksOf, ToSet, FiniteChunks
<1>4. \A c \in Chunk : FileChunk(c) \in Message BY DEF Message
<1>5. BuildChunks(f) \in Seq(Message) BY <1>2, <1>4, SeqDef DEF BuildChunks
<1>6. \A i \in DOMAIN f.chunks : BuildChunks(f)[i] = FileChunk(f.chunks[i]) BY DEF BuildChunks
<1>7. DOMAIN BuildChunks(f) = DOMAIN f.chunks BY DEF BuildChunks
<1>8. \A c : FileChunk(c).hash = c BY DEF FileChunk
<1> HIDE DEF BuildChunks, FileChunk
<1>9. ToSet(BuildChunks(f)) = {FileChunk(c) : c \in ChunksOf(f)} BY <1>6, <1>7 DEF ToSet, ChunksOf
<1>10. \A i \in DOMAIN f.chunks : f.chunks[i] \in ChunksOf(f) BY DEF ChunksOf, ToSet
<1> QED BY <1>1, <1>3, <1>5, <1>6, <1>7, <1>8, <1>9, <1>10

LEMMA SetToSeqFacts == ASSUME NEW S, IsFiniteSet(S) PROVE SetToSeq(S) \in Seq(S) /\ ToSet(SetToSeq(S)) \subseteq S
<1>1. Cardinality(S) \in Nat /\ ExistsBijection(1..Cardinality(S), S) BY FS_CardinalityType
<1>2. PICK g : g \in [1..Cardinality(S) -> S] /\ IsInjective(g)
      BY <1>1 DEF ExistsBijection, Bijection, Injection
<1>3. SetToSeq(S) \in [1..Cardinality(S) -> S] BY <1>2 DEF SetToSeq
<1>4. SetToSeq(S) \in Seq(S) BY <1>1, <1>3, SeqDef
<1>5. DOMAIN SetToSeq(S) = 1..Cardinality(S) /\ \A i \in 1..Cardinality(S) : SetToSeq(S)[i] \in S BY <1>3
<1> QED BY <1>4, <1>5 DEF ToSet

\* What an end of a session reads.
LEMMA RestFacts ==
    ASSUME QueuesOK(queue), NEW a, NEW b, NEW t, Reads(a, b, t)
    PROVE  /\ <<a, b>> \in Pair /\ a \in Node /\ b \in Node
           /\ Head(queue[<<a, b>>]) \in Message /\ Head(queue[<<a, b>>]).type = t
           /\ QueuesOK(Rest(a, b))
           /\ \A p \in Pair : /\ ToSet(Rest(a, b)[p]) \subseteq ToSet(queue[p])
                              /\ \A m \in ToSet(queue[p]) :
                                     m \in ToSet(Rest(a, b)[p]) \/ (p = <<a, b>> /\ m = Head(queue[<<a, b>>]))
           /\ Head(queue[<<a, b>>]) \in ToSet(queue[<<a, b>>])
<1>1. <<a, b>> \in Pair /\ a \in Node /\ b \in Node /\ queue[<<a, b>>] # <<>> /\ Head(queue[<<a, b>>]).type = t
      BY DEF Reads, IsConnected, Pair
<1>2. PICK q, r : q = queue[<<a, b>>] /\ r = Tail(q) OBVIOUS
<1>3. q \in Seq(Message) /\ q # <<>> /\ Len(q) <= QueueCap BY <1>1, <1>2 DEF QueuesOK
<1>4. /\ Head(q) \in Message /\ r \in Seq(Message) /\ Len(r) = Len(q) - 1 /\ Len(q) \in Nat /\ Len(q) # 0
      /\ Head(q) = q[1] /\ \A i \in 1..Len(r) : r[i] = q[i + 1]
      BY <1>2, <1>3, HeadTailProperties, LenProperties, EmptySeq
<1>5. DOMAIN q = 1..Len(q) /\ DOMAIN r = 1..Len(r) BY <1>3, <1>4, LenProperties
<1>6. ToSet(q) = {q[i] : i \in 1..Len(q)} /\ ToSet(r) = {r[i] : i \in 1..Len(r)} BY <1>5 DEF ToSet
<1>7. \A i \in 1..Len(r) : i + 1 \in 1..Len(q) BY <1>4
<1>8. \A i \in 1..Len(q) : i = 1 \/ (i - 1 \in 1..Len(r) /\ r[i - 1] = q[i]) BY <1>4
<1>9. ToSet(r) \subseteq ToSet(q) BY <1>4, <1>6, <1>7
<1>10. \A m \in ToSet(q) : m \in ToSet(r) \/ m = Head(q) BY <1>4, <1>6, <1>8
<1>11. 1 \in 1..Len(q) BY <1>4
<1>12. Head(q) \in ToSet(q) BY <1>4, <1>6, <1>11
<1>13. Rest(a, b) = [p \in Pair |-> IF p = <<a, b>> THEN r ELSE queue[p]]
       BY <1>1, <1>2 DEF Rest, QueuesOK
<1>14. Len(r) <= QueueCap BY <1>3, <1>4, BoundsAssumption
<1>15. QueuesOK(Rest(a, b)) BY <1>4, <1>13, <1>14 DEF QueuesOK
<1>16. \A p \in Pair : Rest(a, b)[p] = IF p = <<a, b>> THEN r ELSE queue[p] BY <1>13
<1> QED BY <1>1, <1>2, <1>4, <1>9, <1>10, <1>12, <1>15, <1>16

\* What a message is, by its type.
LEMMA MessageFacts ==
    ASSUME NEW m \in Message
    PROVE  /\ m.type = "chunk" => m.hash \in Chunk /\ m = FileChunk(m.hash)
           /\ m.type = "request" => m.hash \in Chunk /\ m.requester \in Node /\ m.ttl \in 0..MaxTtl
                                    /\ m = ChunkRequest(m.requester, m.hash, m.ttl)
           /\ m.type = "manifest" => m.file \in File /\ m = FileManifest(m.file)
<1>1. CASE \E c \in Chunk : m = FileChunk(c) BY <1>1 DEF FileChunk
<1>2. CASE \E f \in File : m = FileManifest(f) BY <1>2 DEF FileManifest
<1>3. CASE \E n \in Node, c \in Chunk, t \in 0..MaxTtl : m = ChunkRequest(n, c, t)
      BY <1>3 DEF ChunkRequest
<1> QED BY <1>1, <1>2, <1>3 DEF Message

\* Asking for finitely many chunks queues requests only.
LEMMA AskFacts ==
    ASSUME QueuesOK(queue), net' = net, NEW n \in Node, NEW C \in FiniteChunks, Ask(n, C)
    PROVE  /\ QueuesOK(queue')
           /\ \A p \in Pair : /\ ToSet(queue[p]) \subseteq ToSet(queue'[p])
                              /\ \A m \in ToSet(queue'[p]) : m \in ToSet(queue[p]) \/ m.type = "request"
<1> DEFINE Want(m) == {c \in C : m \in Targets(n, c)}
           S(m) == {ChunkRequest(n, c, MaxTtl) : c \in Want(m)}
           ms == [m \in Node |-> SetToSeq(S(m))]
<1>1. ASSUME NEW m \in Node PROVE ms[m] \in Seq(Message) /\ \A x \in ToSet(ms[m]) : x.type = "request"
  <2> DEFINE g == [c \in Want(m) |-> ChunkRequest(n, c, MaxTtl)]
  <2>1. IsFiniteSet(Want(m)) BY FS_Subset DEF FiniteChunks
  <2>2. S(m) = {g[c] : c \in DOMAIN g} /\ DOMAIN g = Want(m) OBVIOUS
  <2> HIDE DEF g
  <2>3. IsFiniteSet(S(m)) BY <2>1, <2>2, ImageFinite
  <2>4. S(m) \subseteq Message BY BoundsAssumption DEF FiniteChunks, Message
  <2>5. \A x \in S(m) : x.type = "request" BY DEF ChunkRequest
  <2>6. ms[m] = SetToSeq(S(m)) OBVIOUS
  <2> HIDE DEF S, ms
  <2>7. ms[m] \in Seq(S(m)) /\ ToSet(ms[m]) \subseteq S(m) BY <2>3, <2>6, SetToSeqFacts
  <2>8. ms[m] \in Seq(Message) BY <2>4, <2>7, SeqDef
  <2> QED BY <2>5, <2>7, <2>8
<1>2. queue' = SendEach(queue, n, ms) BY DEF Ask
<1> HIDE DEF ms
<1>3. \A m \in Node : ms[m] \in Seq(Message) BY <1>1
<1>4. QueuesOK(SendEach(queue, n, ms)) BY <1>3, SendEachFacts
<1>5. ASSUME NEW p \in Pair
      PROVE  /\ ToSet(queue[p]) \subseteq ToSet(queue'[p])
             /\ \A m \in ToSet(queue'[p]) : m \in ToSet(queue[p]) \/ m.type = "request"
  <2>1. ToSet(queue[p]) \subseteq ToSet(SendEach(queue, n, ms)[p]) BY <1>3, SendEachFacts
  <2>2. \A m \in ToSet(SendEach(queue, n, ms)[p]) : m \in ToSet(queue[p]) \/ (p[1] = n /\ m \in ToSet(ms[p[2]]))
        BY <1>3, SendEachFacts
  <2>3. p[2] \in Node BY DEF Pair
  <2> QED BY <1>1, <1>2, <2>1, <2>2, <2>3
<1>6. QueuesOK(queue') BY <1>2, <1>4
<1> QED BY <1>5, <1>6

----------------------------------------------------------------------------
Route == [hash : Chunk, requester : Node, via : Node]
Fetching == {Idle} \cup [file : File, missing : FiniteChunks]

StoreOK ==
    /\ net \in Network /\ restarted \subseteq net.restarting /\ manifests \in [Node -> SUBSET File]
    /\ cache \in [Node -> FiniteChunks] /\ used \in [Node -> Nat]
    /\ \A n \in Node : used[n] = Bytes(cache[n]) /\ used[n] <= net.budget[n]

RoutesOK ==
    /\ routes \in [Node -> SUBSET Route] /\ seen \in [Node -> SUBSET (Chunk \X Node)]
    /\ \A n \in Node : IsFiniteSet(routes[n])
    /\ \A n \in Node : \A c \in Chunk : Cardinality({r \in routes[n] : r.hash = c}) <= MaxRoutes

FetchOK ==
    /\ fetch \in [Node -> Fetching]
    /\ \A n \in Node : fetch[n] = Idle \/ ManifestStored(n, fetch[n].file)

\* Every counter, queue and table as it should be; sets and sums are finite.
TypeInv == StoreOK /\ QueuesOK(queue) /\ RoutesOK /\ FetchOK

LEMMA NetFacts ==
    ASSUME net \in Network
    PROVE  /\ net.budget \in [Node -> Nat] /\ net.file \subseteq File
           /\ \A p \in Pair : p[1] \in Node /\ p[2] \in Node /\ p = <<p[1], p[2]>> /\ <<p[2], p[1]>> \in Pair
<1>1. net \in Deployment BY NetworkAssumption
<1>2. net.budget \in [Node -> Nat] /\ net.file \subseteq File BY <1>1 DEF Deployment
<1>3. ASSUME NEW p \in Pair
      PROVE  p[1] \in Node /\ p[2] \in Node /\ p = <<p[1], p[2]>> /\ <<p[2], p[1]>> \in Pair
  <2>1. p \in Node \X Node /\ {p[1], p[2]} \in net.link BY DEF Pair
  <2>2. p[1] \in Node /\ p[2] \in Node /\ p = <<p[1], p[2]>> BY <2>1
  <2>3. PICK a, b : a = p[1] /\ b = p[2] OBVIOUS
  <2>4. {b, a} = {a, b} OBVIOUS
  <2>5. {b, a} \in net.link /\ <<b, a>> \in Node \X Node BY <2>1, <2>2, <2>3, <2>4
  <2>6. <<b, a>> \in Pair BY <2>5 DEF Pair
  <2> QED BY <2>2, <2>3, <2>6
<1> QED BY <1>2, <1>3

\* The frames dropped over the limit stay within their bound.
ShedOK == net \in Network /\ shed \in 0..net.maxShed

LEMMA ShedStep == ASSUME ShedOK, [Next]_vars PROVE ShedOK'
<1>1. net.maxShed \in Nat
  <2>1. net \in Deployment BY NetworkAssumption DEF ShedOK
  <2> QED BY <2>1 DEF Deployment
<1>2. CASE UNCHANGED <<net, shed>> BY <1>2 DEF ShedOK
<1>3. ASSUME NEW a, NEW b, OverLimit(a, b) PROVE ShedOK' BY <1>1, <1>3 DEF OverLimit, ShedOK
<1>4. ASSUME NEW a, NEW b, Receive(a, b) PROVE ShedOK'
      BY <1>2, <1>3, <1>4
      DEF Receive, DropFileChunk, HandleFileChunk, HandleChunkRequest, HandleManifest
<1>5. ASSUME NEW n, NEW f, PublishFile(f) \/ StartFetch(n, f) PROVE ShedOK'
      BY <1>2, <1>5 DEF PublishFile, StartFetch
<1>6. ASSUME NEW n, NEW s, Assemble(n) \/ Retry(n) \/ TimeOut(n) \/ Restart(n) \/ Expire(n, s) PROVE ShedOK'
      BY <1>2, <1>6 DEF Assemble, Retry, TimeOut, Restart, Expire
<1>7. CASE UNCHANGED vars BY <1>2, <1>7 DEF vars
<1> QED BY <1>4, <1>5, <1>6, <1>7 DEF Next

LEMMA FilesShed == Spec => []ShedOK
<1>1. Init => ShedOK
  <2> SUFFICES ASSUME Init PROVE ShedOK
      OBVIOUS
  <2>1. net \in Deployment /\ net \in Network BY NetworkAssumption DEF Init
  <2> QED BY <2>1 DEF Init, Deployment, ShedOK
<1>2. ShedOK /\ [Next]_vars => ShedOK' BY ShedStep
<1> QED BY <1>1, <1>2, PTL DEF Spec

LEMMA TypeInvTypeOK == TypeInv /\ ShedOK => TypeOK
<1> SUFFICES ASSUME TypeInv, ShedOK PROVE TypeOK
    OBVIOUS
<1>1. ASSUME NEW p \in Pair PROVE Len(queue[p]) <= QueueCap /\ ToSet(queue[p]) \subseteq Message
  <2>1. queue[p] \in Seq(Message) /\ Len(queue[p]) <= QueueCap BY DEF TypeInv, QueuesOK
  <2>2. queue[p] \in [1..Len(queue[p]) -> Message] BY <2>1, LenProperties
  <2> QED BY <2>1, <2>2 DEF ToSet
<1>2. cache \in [Node -> SUBSET Chunk] BY DEF TypeInv, StoreOK, FiniteChunks
<1> QED BY <1>1, <1>2 DEF TypeInv, TypeOK, StoreOK, RoutesOK, FetchOK, ShedOK

LEMMA TypeInit == Init => TypeInv
<1> SUFFICES ASSUME Init PROVE TypeInv
    OBVIOUS
<1>1. {} \in FiniteChunks /\ IsFiniteSet({}) /\ Cardinality({}) = 0 BY FS_EmptySet DEF FiniteChunks
<1>2. Bytes({}) = 0 BY <1>1, BytesFirst
<1>3. net.budget \in [Node -> Nat] BY NetFacts DEF Init
<1>4. StoreOK BY <1>1, <1>2, <1>3 DEF Init, StoreOK
<1>5. <<>> \in Seq(Message) /\ Len(<<>>) = 0 /\ 0 <= QueueCap BY EmptySeq, BoundsAssumption
<1>6. QueuesOK(queue) BY <1>5 DEF Init, QueuesOK
<1>7. RoutesOK
  <2>1. \A n \in Node : \A c \in Chunk : {r \in routes[n] : r.hash = c} = {} BY DEF Init
  <2> QED BY <1>1, <2>1, BoundsAssumption DEF Init, RoutesOK
<1>8. FetchOK BY DEF Init, FetchOK, Fetching
<1> QED BY <1>4, <1>6, <1>7, <1>8 DEF TypeInv

\* Fewer routes are still fine.
LEMMA FewerRoutes ==
    ASSUME RoutesOK, NEW n \in Node, NEW R, R \subseteq routes[n],
           seen' \in [Node -> SUBSET (Chunk \X Node)], routes' = [routes EXCEPT ![n] = R]
    PROVE  RoutesOK'
<1>1. \A m \in Node : routes'[m] \subseteq routes[m] BY DEF RoutesOK
<1>2. ASSUME NEW m \in Node
      PROVE  /\ IsFiniteSet(routes'[m])
             /\ \A c \in Chunk : Cardinality({r \in routes'[m] : r.hash = c}) <= MaxRoutes
  <2>1. IsFiniteSet(routes[m]) /\ IsFiniteSet(routes'[m]) BY <1>1, FS_Subset DEF RoutesOK
  <2>2. ASSUME NEW c \in Chunk PROVE Cardinality({r \in routes'[m] : r.hash = c}) <= MaxRoutes
    <3>1. PICK A, B : A = {r \in routes[m] : r.hash = c} /\ B = {r \in routes'[m] : r.hash = c} OBVIOUS
    <3>2. IsFiniteSet(A) /\ B \subseteq A BY <1>1, <2>1, <3>1, FS_Subset
    <3>3. Cardinality(B) <= Cardinality(A) /\ Cardinality(A) \in Nat /\ Cardinality(B) \in Nat
          BY <3>2, FS_Subset, FS_CardinalityType
    <3>4. Cardinality(A) <= MaxRoutes BY <3>1 DEF RoutesOK
    <3> QED BY <3>1, <3>3, <3>4, BoundsAssumption
  <2> QED BY <2>1, <2>2
<1>3. routes' \in [Node -> SUBSET Route] BY <1>1 DEF RoutesOK
<1> QED BY <1>2, <1>3 DEF RoutesOK

\* What is inserted is new and has room.
LEMMA InsertFacts ==
    ASSUME StoreOK, NEW n \in Node, NEW C \in FiniteChunks, C \cap cache[n] = {},
           used[n] + Bytes(C) <= net.budget[n], Insert(n, C), net' = net, restarted' = restarted,
           manifests' \in [Node -> SUBSET File]
    PROVE  /\ StoreOK'
           /\ \A m \in Node : cache[m] \subseteq cache'[m] /\ used[m] <= used'[m]
           /\ \A m \in Node : \A c \in cache'[m] : c \in cache[m] \/ (m = n /\ c \in C)
           /\ cache'[n] = cache[n] \cup C /\ used'[n] = used[n] + Bytes(C)
<1>1. PICK A : A = cache[n] OBVIOUS
<1>2. A \in FiniteChunks /\ A \cap C = {} BY <1>1 DEF StoreOK
<1>3. A \cup C \in FiniteChunks /\ Bytes(A \cup C) = Bytes(A) + Bytes(C) BY <1>2, BytesUnion
<1>4. Bytes(A) \in Nat /\ Bytes(C) \in Nat BY <1>2, BytesFirst
<1>5. /\ cache' = [cache EXCEPT ![n] = A \cup C] /\ used' = [used EXCEPT ![n] = used[n] + Bytes(C)]
      BY <1>1 DEF Insert
<1>6. \A m \in Node : /\ cache'[m] = IF m = n THEN A \cup C ELSE cache[m]
                      /\ used'[m] = IF m = n THEN used[n] + Bytes(C) ELSE used[m]
      BY <1>5 DEF StoreOK
<1>7. used[n] = Bytes(A) /\ \A m \in Node : used[m] \in Nat BY <1>1 DEF StoreOK
<1>8. \A m \in Node : used'[m] \in Nat /\ used[m] <= used'[m] BY <1>4, <1>6, <1>7
<1>9. ASSUME NEW m \in Node PROVE used'[m] = Bytes(cache'[m]) /\ used'[m] <= net.budget[m]
  <2>1. CASE m = n BY <1>3, <1>6, <1>7, <2>1
  <2>2. CASE m # n BY <1>6, <2>2 DEF StoreOK
  <2> QED BY <2>1, <2>2
<1>10. cache' \in [Node -> FiniteChunks] BY <1>3, <1>5 DEF StoreOK
<1>11. used' \in [Node -> Nat] BY <1>5, <1>8 DEF StoreOK
<1>12. StoreOK' BY <1>9, <1>10, <1>11 DEF StoreOK
<1> QED BY <1>1, <1>6, <1>8, <1>12

LEMMA QueuesFrame == ASSUME net' = net, QueuesOK(queue') PROVE QueuesOK(queue)'
BY DEF QueuesOK, Pair

LEMMA StoreFrame ==
    ASSUME StoreOK, net' = net, cache' = cache, used' = used,
           restarted' \subseteq net.restarting, manifests' \in [Node -> SUBSET File]
    PROVE  StoreOK'
BY DEF StoreOK

LEMMA RoutesFrame == ASSUME RoutesOK, routes' = routes, seen' = seen PROVE RoutesOK'
BY DEF RoutesOK

LEMMA FetchFrame ==
    ASSUME FetchOK, fetch' = fetch, \A n \in Node : manifests[n] \subseteq manifests'[n] PROVE FetchOK'
BY DEF FetchOK, ManifestStored

LEMMA OneMore ==
    ASSUME NEW n \in Node, NEW f \in File, manifests \in [Node -> SUBSET File],
           manifests' = [manifests EXCEPT ![n] = @ \cup {f}]
    PROVE  manifests' \in [Node -> SUBSET File] /\ \A m \in Node : manifests[m] \subseteq manifests'[m]
OBVIOUS

\* A node that publishes a file has flooded it, or noted what found a queue full.
LEMMA PublishFacts ==
    ASSUME TypeInv, NEW f \in net.file, PublishFile(f)
    PROVE  /\ TypeInv' /\ net' = net /\ lost \subseteq lost'
           /\ f.owner \in Node
           /\ \A n \in Node : cache[n] \subseteq cache'[n] /\ used[n] <= used'[n]
           /\ \A n \in Node : \A c \in cache'[n] : c \in cache[n] \/ (n = f.owner /\ c \in ChunksOf(f))
           /\ \A c \in ChunksOf(f) : c \in cache'[f.owner] \/ ~ Fits(f.owner, c)'
           /\ \A p \in Pair : /\ ToSet(queue[p]) \subseteq ToSet(queue'[p])
                              /\ \A m \in ToSet(queue'[p]) :
                                    \/ m \in ToSet(queue[p]) \/ m.type = "manifest"
                                    \/ p[1] = f.owner /\ m \in {FileChunk(c) : c \in ChunksOf(f)}
                              /\ p[1] = f.owner => \A c \in ChunksOf(f) :
                                    FileChunk(c) \in ToSet(queue'[p]) \/ <<p[2], c>> \in lost'
<1> DEFINE n == f.owner
           C == Stored(n, f)
           chunks == BuildChunks(f)
           flooded == SendAll(queue, n, Peers(n), chunks)
           hop == IF f.to = NoNode THEN NoNode ELSE net.hop[n][f.to]
           last == <<FileManifest(f)>>
<1>1. f \in File /\ net.budget \in [Node -> Nat] BY NetFacts DEF TypeInv, StoreOK
<1>2. /\ ChunksOf(f) \in FiniteChunks /\ n \in Node
      /\ chunks \in Seq(Message) /\ ToSet(chunks) = {FileChunk(c) : c \in ChunksOf(f)}
      /\ \A i \in DOMAIN chunks : chunks[i] = FileChunk(chunks[i].hash)
      BY <1>1, FileFacts
<1>3. /\ Insert(n, C) /\ manifests' = [manifests EXCEPT ![n] = @ \cup {f}]
      /\ lost' = lost \cup Dropped(queue, n, Peers(n), chunks)
      /\ queue' = IF hop = NoNode THEN flooded ELSE Send(flooded, n, hop, FileManifest(f))
      /\ net' = net /\ routes' = routes /\ seen' = seen /\ fetch' = fetch /\ restarted' = restarted
      BY DEF PublishFile
<1>4. used[n] \in Nat /\ net.budget[n] \in Nat /\ used[n] <= net.budget[n] BY <1>1, <1>2 DEF TypeInv, StoreOK
<1>5. /\ C \in FiniteChunks /\ C \subseteq ChunksOf(f) \ cache[n] /\ used[n] + Bytes(C) <= net.budget[n]
      /\ \A c \in ChunksOf(f) \ (cache[n] \cup C) : used[n] + Bytes(C) + SizeOf(c) > net.budget[n]
      BY <1>1, <1>4, StoredFacts
<1> HIDE DEF C, chunks, n
<1>6. /\ manifests' \in [Node -> SUBSET File] /\ \A m \in Node : manifests[m] \subseteq manifests'[m]
      BY <1>1, <1>2, <1>3, OneMore DEF TypeInv, StoreOK
<1>7. /\ StoreOK'
      /\ \A m \in Node : cache[m] \subseteq cache'[m] /\ used[m] <= used'[m]
      /\ \A m \in Node : \A c \in cache'[m] : c \in cache[m] \/ (m = n /\ c \in C)
      /\ cache'[n] = cache[n] \cup C /\ used'[n] = used[n] + Bytes(C)
      BY <1>2, <1>3, <1>5, <1>6, InsertFacts DEF TypeInv
<1>8. \A c \in ChunksOf(f) : c \in cache'[n] \/ ~ Fits(n, c)'
  <2> SUFFICES ASSUME NEW c \in ChunksOf(f), c \notin cache'[n] PROVE ~ Fits(n, c)'
      BY DEF n
  <2>1. used'[n] + SizeOf(c) > net.budget[n] BY <1>5, <1>7
  <2>2. used'[n] \in Nat /\ SizeOf(c) \in Nat
        BY <1>2, <1>7, SizeAssumption DEF FiniteChunks, StoreOK
  <2> QED BY <1>3, <1>4, <2>1, <2>2 DEF Fits, n
<1>9. QueuesOK(queue) BY DEF TypeInv
<1>10. /\ QueuesOK(flooded)
       /\ \A p \in Pair : /\ ToSet(queue[p]) \subseteq ToSet(flooded[p])
                          /\ \A m \in ToSet(flooded[p]) : m \in ToSet(queue[p]) \/ (p[1] = n /\ m \in ToSet(chunks))
  <2>1. QueuesOK(flooded) BY <1>2, <1>9, SendAllFacts
  <2>2. \A p \in Pair : ToSet(queue[p]) \subseteq ToSet(flooded[p]) BY <1>2, <1>9, SendAllFacts
  <2>3. \A p \in Pair : \A m \in ToSet(flooded[p]) : m \in ToSet(queue[p]) \/ (p[1] = n /\ m \in ToSet(chunks))
        BY <1>2, <1>9, SendAllFacts
  <2> QED BY <2>1, <2>2, <2>3
<1>11. \A p \in Pair : p[1] = n => \A c \in ChunksOf(f) : FileChunk(c) \in ToSet(flooded[p]) \/ <<p[2], c>> \in lost'
  <2> SUFFICES ASSUME NEW p \in Pair, p[1] = n, NEW c \in ChunksOf(f)
               PROVE  FileChunk(c) \in ToSet(flooded[p]) \/ <<p[2], c>> \in lost'
      OBVIOUS
  <2>1. p[2] \in Peers(n) BY NetFacts DEF Peers, TypeInv, StoreOK
  <2>2. FileChunk(c) \in ToSet(chunks) BY <1>2
  <2>3. FileChunk(c) \in ToSet(flooded[p]) \/ <<p[2], c>> \in Dropped(queue, n, Peers(n), chunks)
        BY <1>2, <1>9, <2>1, <2>2, DroppedFacts
  <2> QED BY <1>3, <2>3
<1> HIDE DEF flooded
<1>12. FileManifest(f) \in Message /\ last \in Seq(Message) /\ ToSet(last) = {FileManifest(f)}
       /\ FileManifest(f).type = "manifest"
  <2>1. FileManifest(f) \in Message BY <1>1 DEF Message
  <2>2. last \in Seq(Message) BY <2>1, SeqDef
  <2>3. ToSet(last) = {FileManifest(f)} BY DEF ToSet
  <2> QED BY <2>1, <2>2, <2>3 DEF FileManifest
<1> HIDE DEF last
<1>13. /\ QueuesOK(queue')
       /\ \A p \in Pair : /\ ToSet(flooded[p]) \subseteq ToSet(queue'[p])
                          /\ \A m \in ToSet(queue'[p]) : m \in ToSet(flooded[p]) \/ m.type = "manifest"
  <2>1. CASE hop = NoNode BY <1>3, <1>10, <2>1
  <2>2. CASE hop # NoNode
    <3>1. queue' = SendAll(flooded, n, {hop}, last) BY <1>3, <2>2 DEF Send, last
    <3>2. QueuesOK(queue') BY <1>10, <1>12, <3>1, SendAllFacts
    <3>3. \A p \in Pair : ToSet(flooded[p]) \subseteq ToSet(queue'[p]) BY <1>10, <1>12, <3>1, SendAllFacts
    <3>4. \A p \in Pair : \A m \in ToSet(queue'[p]) : m \in ToSet(flooded[p]) \/ m \in ToSet(last)
          BY <1>10, <1>12, <3>1, SendAllFacts
    <3> QED BY <1>12, <3>2, <3>3, <3>4
  <2> QED BY <2>1, <2>2
<1>14. TypeInv'
  <2>1. QueuesOK(queue)' BY <1>3, <1>13, QueuesFrame
  <2>2. RoutesOK' BY <1>3, RoutesFrame DEF TypeInv
  <2>3. FetchOK' BY <1>3, <1>6, FetchFrame DEF TypeInv
  <2> QED BY <1>7, <2>1, <2>2, <2>3 DEF TypeInv
<1>15. ASSUME NEW p \in Pair
       PROVE  /\ ToSet(queue[p]) \subseteq ToSet(queue'[p])
              /\ \A m \in ToSet(queue'[p]) :
                    \/ m \in ToSet(queue[p]) \/ m.type = "manifest"
                    \/ p[1] = n /\ m \in {FileChunk(c) : c \in ChunksOf(f)}
              /\ p[1] = n => \A c \in ChunksOf(f) : FileChunk(c) \in ToSet(queue'[p]) \/ <<p[2], c>> \in lost'
       BY <1>2, <1>10, <1>11, <1>13
<1>16. /\ \A m \in Node : \A c \in cache'[m] : c \in cache[m] \/ (m = n /\ c \in ChunksOf(f))
       /\ net' = net /\ lost \subseteq lost'
       BY <1>3, <1>5, <1>7
<1> QED BY <1>2, <1>7, <1>8, <1>14, <1>15, <1>16 DEF n

\* One chunk weighs what its bytes are.
LEMMA OneChunk == ASSUME NEW c \in Chunk PROVE {c} \in FiniteChunks /\ Bytes({c}) = SizeOf(c)
<1>1. {} \in FiniteChunks /\ IsFiniteSet({}) BY FS_EmptySet DEF FiniteChunks
<1>2. {} \cup {c} \in FiniteChunks /\ Bytes({} \cup {c}) = Bytes({}) + SizeOf(c) BY <1>1, BytesAdd
<1>3. Bytes({}) = 0 /\ {} \cup {c} = {c} /\ SizeOf(c) \in Nat BY <1>1, BytesFirst, SizeAssumption
<1> QED BY <1>2, <1>3

\* A node that reads a chunk has it then, or no room; a chunk that was new is
\* passed on to all its peers but the sender, or noted where a queue is full.
LEMMA ChunkFacts ==
    ASSUME TypeInv, NEW a, NEW b, HandleFileChunk(a, b),
           NEW c, c = Head(queue[<<a, b>>]).hash
    PROVE  /\ TypeInv' /\ net' = net /\ lost \subseteq lost'
           /\ <<a, b>> \in Pair /\ c \in Chunk /\ FileChunk(c) \in ToSet(queue[<<a, b>>])
           /\ \A n \in Node : cache[n] \subseteq cache'[n] /\ used[n] <= used'[n]
           /\ \A n \in Node : \A x \in cache'[n] : x \in cache[n] \/ (n = b /\ x = c)
           /\ c \in cache'[b] \/ ~ Fits(b, c)'
           /\ \A p \in Pair :
                 /\ \A m \in ToSet(queue'[p]) : m \in ToSet(queue[p]) \/ (p[1] = b /\ m = FileChunk(c))
                 /\ \A m \in ToSet(queue[p]) : m \in ToSet(queue'[p]) \/ (p = <<a, b>> /\ m = FileChunk(c))
                 /\ p[1] = b /\ p[2] # a /\ c \notin cache[b] /\ c \in cache'[b] =>
                       FileChunk(c) \in ToSet(queue'[p]) \/ <<p[2], c>> \in lost'
<1> DEFINE m == Head(queue[<<a, b>>])
           stored == StoredNow(b, m.hash)
           asking == {r \in routes[b] :
                        /\ r.hash = m.hash /\ r.requester # b
                        /\ NextOnPath(b, r) # a \/ ~ IsConnected(b, r.requester)}
           Answers(n) == {r \in asking : NextOnPath(b, r) = n}
           flood == PassOn(b, m.hash, stored) \ {a}
           rest == Rest(a, b)
           one == <<m>>
           flooded == SendAll(rest, b, flood, one)
           ms == [n \in Node |-> [i \in 1..Cardinality(Answers(n)) |-> m]]
<1>1. /\ Reads(a, b, "chunk")
      /\ IF stored THEN Insert(b, {m.hash}) ELSE UNCHANGED <<cache, used>>
      /\ queue' = SendEach(flooded, b, ms)
      /\ lost' = lost \cup Dropped(rest, b, flood, one)
      /\ routes' = [routes EXCEPT ![b] = {r \in @ : r.hash # m.hash}]
      /\ net' = net /\ manifests' = manifests /\ seen' = seen /\ fetch' = fetch /\ restarted' = restarted
      BY DEF HandleFileChunk
<1>2. /\ <<a, b>> \in Pair /\ a \in Node /\ b \in Node /\ m \in Message /\ m.type = "chunk"
      /\ QueuesOK(rest) /\ m \in ToSet(queue[<<a, b>>])
      /\ \A p \in Pair : /\ ToSet(rest[p]) \subseteq ToSet(queue[p])
                         /\ \A x \in ToSet(queue[p]) : x \in ToSet(rest[p]) \/ (p = <<a, b>> /\ x = m)
      BY <1>1, RestFacts DEF TypeInv
<1>3. c \in Chunk /\ m = FileChunk(c) /\ m.hash = c BY <1>2, MessageFacts
<1>4. stored <=> (c \notin cache[b] /\ Fits(b, c)) BY <1>3 DEF StoredNow
<1>5. flood = IF stored THEN Peers(b) \ {a} ELSE {} BY DEF PassOn
<1>6. ASSUME NEW n \in Node PROVE Cardinality(Answers(n)) \in Nat
  <2>1. IsFiniteSet(routes[b]) /\ Answers(n) \subseteq routes[b] BY <1>2 DEF TypeInv, RoutesOK
  <2>2. IsFiniteSet(Answers(n)) BY <2>1, FS_Subset
  <2> QED BY <2>2, FS_CardinalityType
<1>7. ASSUME NEW n \in Node PROVE ms[n] \in Seq(Message) /\ ToSet(ms[n]) \subseteq {m}
  <2>1. PICK k : k = Cardinality(Answers(n)) OBVIOUS
  <2>2. k \in Nat /\ ms[n] = [i \in 1..k |-> m] BY <1>6, <2>1
  <2>3. ms[n] \in [1..k -> Message] BY <1>2, <2>2
  <2> QED BY <2>2, <2>3, SeqDef DEF ToSet
<1>8. routes' = [routes EXCEPT ![b] = {r \in routes[b] : r.hash # m.hash}] BY <1>1
<1> HIDE DEF m, stored, asking, Answers, flood, rest, ms
<1>9. one \in Seq(Message) /\ ToSet(one) = {m} /\ (\A i \in DOMAIN one : one[i] = FileChunk(one[i].hash))
  <2>1. one \in Seq(Message) BY <1>2, SeqDef
  <2>2. DOMAIN one = {1} /\ one[1] = m OBVIOUS
  <2> QED BY <1>3, <2>1, <2>2 DEF ToSet
<1> HIDE DEF one
<1>10. /\ QueuesOK(flooded)
       /\ \A p \in Pair : /\ ToSet(rest[p]) \subseteq ToSet(flooded[p])
                          /\ \A x \in ToSet(flooded[p]) : x \in ToSet(rest[p]) \/ (p[1] = b /\ x = m)
  <2>1. QueuesOK(flooded) BY <1>2, <1>9, SendAllFacts
  <2>2. \A p \in Pair : ToSet(rest[p]) \subseteq ToSet(flooded[p]) BY <1>2, <1>9, SendAllFacts
  <2>3. \A p \in Pair : \A x \in ToSet(flooded[p]) : x \in ToSet(rest[p]) \/ (p[1] = b /\ x \in ToSet(one))
        BY <1>2, <1>9, SendAllFacts
  <2> QED BY <1>9, <2>1, <2>2, <2>3
<1>11. ASSUME NEW p \in Pair, p[1] = b, p[2] # a, stored
       PROVE  FileChunk(c) \in ToSet(flooded[p]) \/ <<p[2], c>> \in lost'
  <2>1. p[2] \in flood BY <1>5, <1>11, NetFacts DEF Peers, TypeInv, StoreOK
  <2>2. FileChunk(c) \in ToSet(one) BY <1>3, <1>9
  <2>3. FileChunk(c) \in ToSet(flooded[p]) \/ <<p[2], c>> \in Dropped(rest, b, flood, one)
        BY <1>2, <1>9, <1>11, <2>1, <2>2, DroppedFacts
  <2> QED BY <1>1, <2>3
<1> HIDE DEF flooded
<1>12. /\ QueuesOK(queue')
       /\ \A p \in Pair : /\ ToSet(flooded[p]) \subseteq ToSet(queue'[p])
                          /\ \A x \in ToSet(queue'[p]) : x \in ToSet(flooded[p]) \/ (p[1] = b /\ x = m)
  <2>1. QueuesOK(queue') BY <1>1, <1>7, <1>10, SendEachFacts
  <2>2. \A p \in Pair : ToSet(flooded[p]) \subseteq ToSet(queue'[p]) BY <1>1, <1>7, <1>10, SendEachFacts
  <2>3. \A p \in Pair : \A x \in ToSet(queue'[p]) : x \in ToSet(flooded[p]) \/ (p[1] = b /\ x \in ToSet(ms[p[2]]))
        BY <1>1, <1>7, <1>10, SendEachFacts
  <2>4. \A p \in Pair : p[2] \in Node BY NetFacts DEF TypeInv, StoreOK
  <2> QED BY <1>7, <2>1, <2>2, <2>3, <2>4
<1>13. /\ StoreOK'
       /\ \A n \in Node : cache[n] \subseteq cache'[n] /\ used[n] <= used'[n]
       /\ \A n \in Node : \A x \in cache'[n] : x \in cache[n] \/ (n = b /\ x = c)
       /\ c \in cache'[b] \/ ~ Fits(b, c)'
       /\ c \notin cache[b] /\ c \in cache'[b] => stored
  <2>1. CASE stored
    <3>1. Insert(b, {c}) /\ {c} \cap cache[b] = {} BY <1>1, <1>3, <1>4, <2>1
    <3>2. {c} \in FiniteChunks /\ used[b] + Bytes({c}) <= net.budget[b]
          BY <1>3, <1>4, <2>1, OneChunk DEF Fits
    <3>3. manifests' \in [Node -> SUBSET File] BY <1>1 DEF TypeInv, StoreOK
    <3>4. /\ StoreOK'
          /\ \A n \in Node : cache[n] \subseteq cache'[n] /\ used[n] <= used'[n]
          /\ \A n \in Node : \A x \in cache'[n] : x \in cache[n] \/ (n = b /\ x \in {c})
          /\ cache'[b] = cache[b] \cup {c}
          BY <1>1, <1>2, <3>1, <3>2, <3>3, InsertFacts DEF TypeInv
    <3> QED BY <2>1, <3>4
  <2>2. CASE ~ stored
    <3>1. cache' = cache /\ used' = used BY <1>1, <2>2
    <3>2. StoreOK' BY <1>1, <3>1, StoreFrame DEF TypeInv, StoreOK
    <3>3. \A n \in Node : used[n] \in Nat BY DEF TypeInv, StoreOK
    <3>4. c \in cache'[b] \/ ~ Fits(b, c)' BY <1>1, <1>4, <2>2, <3>1 DEF Fits
    <3> QED BY <3>1, <3>2, <3>3, <3>4
  <2> QED BY <2>1, <2>2
<1>14. TypeInv'
  <2>1. QueuesOK(queue)' BY <1>1, <1>12, QueuesFrame
  <2>2. seen' \in [Node -> SUBSET (Chunk \X Node)] BY <1>1 DEF TypeInv, RoutesOK
  <2>3. {r \in routes[b] : r.hash # m.hash} \subseteq routes[b] OBVIOUS
  <2>4. RoutesOK' BY <1>2, <1>8, <2>2, <2>3, FewerRoutes DEF TypeInv
  <2>5. FetchOK' BY <1>1, FetchFrame DEF TypeInv
  <2> QED BY <1>13, <2>1, <2>4, <2>5 DEF TypeInv
<1>15. ASSUME NEW p \in Pair
       PROVE  /\ \A x \in ToSet(queue'[p]) : x \in ToSet(queue[p]) \/ (p[1] = b /\ x = FileChunk(c))
              /\ \A x \in ToSet(queue[p]) : x \in ToSet(queue'[p]) \/ (p = <<a, b>> /\ x = FileChunk(c))
              /\ p[1] = b /\ p[2] # a /\ c \notin cache[b] /\ c \in cache'[b] =>
                    FileChunk(c) \in ToSet(queue'[p]) \/ <<p[2], c>> \in lost'
       BY <1>2, <1>3, <1>10, <1>11, <1>12, <1>13
<1> QED BY <1>1, <1>2, <1>3, <1>13, <1>14, <1>15

\* What the steps that store nothing do to chunks under way: they are sent from
\* the cache, and leave a queue unread, for an unknown owner, or lost.
Kept ==
    /\ net' = net /\ cache' = cache /\ used' = used /\ lost \subseteq lost'
    /\ \A p \in Pair :
          /\ \A x \in ToSet(queue'[p]) :
                \/ x \in ToSet(queue[p]) \/ x.type # "chunk"
                \/ x.hash \in cache[p[1]]
          /\ \A x \in ToSet(queue[p]) : x.type = "chunk" =>
                \/ x \in ToSet(queue'[p])
                \/ ~ Verifies(p[1], p[2], OwnerOf(x.hash))
                \/ <<p[2], x.hash>> \in lost'

LEMMA DropKeeps ==
    ASSUME TypeInv, NEW a, NEW b, DropFileChunk(a, b) PROVE TypeInv' /\ Kept
<1> DEFINE m == Head(queue[<<a, b>>])
<1>1. /\ Reads(a, b, "chunk") /\ ~ Verifies(a, b, OwnerOf(m.hash)) /\ queue' = Rest(a, b)
      /\ net' = net /\ cache' = cache /\ used' = used /\ manifests' = manifests /\ routes' = routes
      /\ seen' = seen /\ fetch' = fetch /\ restarted' = restarted /\ lost' = lost
      BY DEF DropFileChunk
<1> HIDE DEF m
<1>2. /\ <<a, b>> \in Pair /\ QueuesOK(queue')
      /\ \A p \in Pair : /\ ToSet(queue'[p]) \subseteq ToSet(queue[p])
                         /\ \A x \in ToSet(queue[p]) : x \in ToSet(queue'[p]) \/ (p = <<a, b>> /\ x = m)
      BY <1>1, RestFacts DEF TypeInv, m
<1>3. Kept BY <1>1, <1>2 DEF Kept
<1>4. QueuesOK(queue)' BY <1>1, <1>2, QueuesFrame
<1>5. StoreOK' BY <1>1, StoreFrame DEF TypeInv, StoreOK
<1>6. RoutesOK' /\ FetchOK' BY <1>1, RoutesFrame, FetchFrame DEF TypeInv
<1> QED BY <1>3, <1>4, <1>5, <1>6 DEF TypeInv

\* A frame over the limit: a chunk it carried counts as lost.
LEMMA OverLimitKeeps ==
    ASSUME TypeInv, NEW a, NEW b, OverLimit(a, b) PROVE TypeInv' /\ Kept
<1> DEFINE m == Head(queue[<<a, b>>])
<1>1. /\ Reads(a, b, m.type) /\ queue' = Rest(a, b)
      /\ lost' = IF m.type = "chunk" THEN lost \cup {<<b, m.hash>>} ELSE lost
      /\ net' = net /\ cache' = cache /\ used' = used /\ manifests' = manifests /\ routes' = routes
      /\ seen' = seen /\ fetch' = fetch /\ restarted' = restarted
      BY DEF OverLimit
<1> HIDE DEF m
<1>2. /\ <<a, b>> \in Pair /\ QueuesOK(queue')
      /\ \A p \in Pair : /\ ToSet(queue'[p]) \subseteq ToSet(queue[p])
                         /\ \A x \in ToSet(queue[p]) : x \in ToSet(queue'[p]) \/ (p = <<a, b>> /\ x = m)
      BY <1>1, RestFacts DEF TypeInv, m
<1>3. Kept BY <1>1, <1>2 DEF Kept
<1>4. QueuesOK(queue)' BY <1>1, <1>2, QueuesFrame
<1>5. StoreOK' BY <1>1, StoreFrame DEF TypeInv, StoreOK
<1>6. RoutesOK' /\ FetchOK' BY <1>1, RoutesFrame, FetchFrame DEF TypeInv
<1> QED BY <1>3, <1>4, <1>5, <1>6 DEF TypeInv

\* One more route where there are fewer than MaxRoutes.
LEMMA OneMoreRoute ==
    ASSUME RoutesOK, NEW b \in Node, NEW a \in Node, NEW r, r.hash \in Chunk, r.requester \in Node,
           RememberRoute(b, r, a), seen' \in [Node -> SUBSET (Chunk \X Node)]
    PROVE  RoutesOK'
<1> DEFINE For(R, c) == {s \in R : s.hash = c}
           new == [hash |-> r.hash, requester |-> r.requester, via |-> a]
<1>1. PICK old : old = routes[b] OBVIOUS
<1>2. IsFiniteSet(old) /\ old \subseteq Route /\ (\A c \in Chunk : Cardinality(For(old, c)) <= MaxRoutes)
      BY <1>1 DEF RoutesOK
<1>3. CASE Cardinality(For(old, r.hash)) < MaxRoutes
  <2>1. routes' = [routes EXCEPT ![b] = old \cup {new}] BY <1>1, <1>3 DEF RememberRoute
  <2>2. new \in Route /\ new.hash = r.hash BY DEF Route
  <2> HIDE DEF new
  <2>3. IsFiniteSet(old \cup {new}) BY <1>2, FS_AddElement
  <2>4. ASSUME NEW c \in Chunk PROVE Cardinality(For(old \cup {new}, c)) <= MaxRoutes
    <3>1. IsFiniteSet(For(old, c)) BY <1>2, FS_Subset
    <3>2. CASE c # r.hash
      <4>1. For(old \cup {new}, c) = For(old, c) BY <2>2, <3>2
      <4> QED BY <1>2, <4>1
    <3>3. CASE c = r.hash
      <4>1. For(old \cup {new}, c) = For(old, c) \cup {new} BY <2>2, <3>3
      <4>2. \/ Cardinality(For(old, c) \cup {new}) = Cardinality(For(old, c))
            \/ Cardinality(For(old, c) \cup {new}) = Cardinality(For(old, c)) + 1
            BY <3>1, FS_AddElement
      <4>3. Cardinality(For(old, c)) \in Nat BY <3>1, FS_CardinalityType
      <4>4. PICK k, l : k = Cardinality(For(old, c)) /\ l = Cardinality(For(old, c) \cup {new}) OBVIOUS
      <4>5. k < MaxRoutes BY <1>3, <3>3, <4>4
      <4>6. l <= MaxRoutes BY <4>2, <4>3, <4>4, <4>5, BoundsAssumption
      <4> QED BY <4>1, <4>4, <4>6
    <3> QED BY <3>2, <3>3
  <2>5. routes' \in [Node -> SUBSET Route] BY <1>2, <2>1, <2>2 DEF RoutesOK
  <2>6. \A n \in Node : routes'[n] = IF n = b THEN old \cup {new} ELSE routes[n] BY <2>1 DEF RoutesOK
  <2> QED BY <2>3, <2>4, <2>5, <2>6 DEF RoutesOK
<1>4. CASE ~ (Cardinality(For(old, r.hash)) < MaxRoutes)
  <2>1. routes' = [routes EXCEPT ![b] = old] BY <1>1, <1>4 DEF RememberRoute
  <2>2. routes' = routes BY <1>1, <2>1 DEF RoutesOK
  <2> QED BY <2>2 DEF RoutesOK
<1> QED BY <1>3, <1>4

\* The request one hop on is a request.
LEMMA ForwardedFacts ==
    ASSUME NEW m \in Message, m.type = "request"
    PROVE  Forwarded(m) \in Seq(Message) /\ \A x \in ToSet(Forwarded(m)) : x.type = "request"
<1>1. /\ m.hash \in Chunk /\ m.requester \in Node /\ m.ttl \in 0..MaxTtl
      /\ m = ChunkRequest(m.requester, m.hash, m.ttl)
      BY MessageFacts
<1>2. CASE m.ttl = 0
  <2>1. Forwarded(m) = <<>> BY <1>2 DEF Forwarded
  <2> QED BY <2>1, EmptySeq DEF ToSet
<1>3. CASE m.ttl # 0
  <2> DEFINE x == ChunkRequest(m.requester, m.hash, m.ttl - 1)
  <2>1. [m EXCEPT !.ttl = @ - 1] = x BY <1>1 DEF ChunkRequest
  <2>2. m.ttl - 1 \in 0..MaxTtl BY <1>1, <1>3, BoundsAssumption
  <2>3. x \in Message BY <1>1, <2>2 DEF Message
  <2>4. x.type = "request" BY DEF ChunkRequest
  <2> HIDE DEF x
  <2>5. Forwarded(m) = <<x>> BY <1>3, <2>1 DEF Forwarded
  <2>6. <<x>> \in Seq(Message) BY <2>3, SeqDef
  <2>7. ToSet(<<x>>) = {x} BY DEF ToSet
  <2> QED BY <2>4, <2>5, <2>6, <2>7
<1> QED BY <1>2, <1>3

\* Sending ms to the nodes in P after one message has been read.
LEMMA AnswerFacts ==
    ASSUME TypeInv, NEW a, NEW b, NEW t, Reads(a, b, t), NEW P, NEW ms \in Seq(Message),
           net' = net, queue' = SendAll(Rest(a, b), b, P, ms)
    PROVE  /\ QueuesOK(queue')
           /\ \A p \in Pair :
                 /\ \A x \in ToSet(queue'[p]) : x \in ToSet(queue[p]) \/ (p[1] = b /\ x \in ToSet(ms))
                 /\ \A x \in ToSet(queue[p]) : x \in ToSet(queue'[p]) \/ x.type = t
<1>1. /\ QueuesOK(Rest(a, b)) /\ Head(queue[<<a, b>>]).type = t
      /\ \A p \in Pair : /\ ToSet(Rest(a, b)[p]) \subseteq ToSet(queue[p])
                         /\ \A x \in ToSet(queue[p]) :
                                x \in ToSet(Rest(a, b)[p]) \/ (p = <<a, b>> /\ x = Head(queue[<<a, b>>]))
      BY RestFacts DEF TypeInv
<1>2. QueuesOK(queue') BY <1>1, SendAllFacts
<1>3. \A p \in Pair : ToSet(Rest(a, b)[p]) \subseteq ToSet(queue'[p]) BY <1>1, SendAllFacts
<1>4. \A p \in Pair : \A x \in ToSet(queue'[p]) :
          x \in ToSet(Rest(a, b)[p]) \/ (p[1] = b /\ x \in ToSet(ms))
      BY <1>1, SendAllFacts
<1> QED BY <1>1, <1>2, <1>3, <1>4

LEMMA RequestKeeps ==
    ASSUME TypeInv, NEW a, NEW b, HandleChunkRequest(a, b) PROVE TypeInv' /\ Kept
<1>1. PICK m : m = Head(queue[<<a, b>>]) OBVIOUS
<1>2. /\ Reads(a, b, "request")
      /\ net' = net /\ cache' = cache /\ used' = used /\ manifests' = manifests
      /\ fetch' = fetch /\ restarted' = restarted /\ lost' = lost
      BY DEF HandleChunkRequest
<1>3. /\ <<a, b>> \in Pair /\ a \in Node /\ b \in Node /\ m \in Message /\ m.type = "request"
      /\ QueuesOK(Rest(a, b))
      /\ \A p \in Pair : /\ ToSet(Rest(a, b)[p]) \subseteq ToSet(queue[p])
                         /\ \A x \in ToSet(queue[p]) : x \in ToSet(Rest(a, b)[p]) \/ x.type = "request"
      BY <1>1, <1>2, RestFacts DEF TypeInv
<1>4. m.hash \in Chunk /\ m.requester \in Node BY <1>3, MessageFacts
<1>5. StoreOK' /\ FetchOK' BY <1>2, StoreFrame, FetchFrame DEF TypeInv, StoreOK
<1>6. CASE m.hash \in cache[b]
  <2> DEFINE answer == <<FileChunk(m.hash)>>
  <2>1. PICK P : P = {a} OBVIOUS
  <2>2. queue' = SendAll(Rest(a, b), b, P, answer) /\ routes' = routes /\ seen' = seen
        BY <1>1, <1>6, <2>1 DEF HandleChunkRequest, Send
  <2>3. FileChunk(m.hash) \in Message /\ FileChunk(m.hash).hash = m.hash BY <1>4 DEF Message, FileChunk
  <2>4. answer \in Seq(Message) BY <2>3, SeqDef
  <2>5. ToSet(answer) = {FileChunk(m.hash)} BY DEF ToSet
  <2> HIDE DEF answer
  <2>6. QueuesOK(queue') BY <1>2, <2>2, <2>4, AnswerFacts
  <2>7. \A p \in Pair :
            /\ \A x \in ToSet(queue'[p]) : x \in ToSet(queue[p]) \/ (p[1] = b /\ x \in ToSet(answer))
            /\ \A x \in ToSet(queue[p]) : x \in ToSet(queue'[p]) \/ x.type = "request"
        BY <1>2, <2>2, <2>4, AnswerFacts
  <2>8. Kept BY <1>2, <1>6, <2>3, <2>5, <2>7 DEF Kept
  <2>9. QueuesOK(queue)' /\ RoutesOK' BY <1>2, <2>2, <2>6, QueuesFrame, RoutesFrame DEF TypeInv
  <2> QED BY <1>5, <2>8, <2>9 DEF TypeInv
<1>7. CASE m.hash \notin cache[b] /\ (m.requester = b \/ SeenRequest(b, m))
  <2>1. queue' = Rest(a, b) /\ routes' = routes /\ seen' = seen BY <1>1, <1>7 DEF HandleChunkRequest
  <2>2. Kept BY <1>2, <1>3, <2>1 DEF Kept
  <2>3. QueuesOK(queue)' /\ RoutesOK' BY <1>2, <1>3, <2>1, QueuesFrame, RoutesFrame DEF TypeInv
  <2> QED BY <1>5, <2>2, <2>3 DEF TypeInv
<1>8. CASE m.hash \notin cache[b] /\ ~ (m.requester = b \/ SeenRequest(b, m))
  <2> DEFINE P == ClosestPeers(b, m.hash) \ {a}
  <2>1. /\ seen' = [seen EXCEPT ![b] = @ \cup {<<m.hash, m.requester>>}]
        /\ RememberRoute(b, m, a)
        /\ queue' = SendAll(Rest(a, b), b, P, Forwarded(m))
        BY <1>1, <1>8 DEF HandleChunkRequest
  <2>2. Forwarded(m) \in Seq(Message) /\ \A x \in ToSet(Forwarded(m)) : x.type = "request"
        BY <1>3, ForwardedFacts
  <2> HIDE DEF P
  <2>3. QueuesOK(queue') BY <1>2, <2>1, <2>2, AnswerFacts
  <2>4. \A p \in Pair :
            /\ \A x \in ToSet(queue'[p]) : x \in ToSet(queue[p]) \/ (p[1] = b /\ x \in ToSet(Forwarded(m)))
            /\ \A x \in ToSet(queue[p]) : x \in ToSet(queue'[p]) \/ x.type = "request"
        BY <1>2, <2>1, <2>2, AnswerFacts
  <2>6. Kept BY <1>2, <2>2, <2>4 DEF Kept
  <2>7. seen' \in [Node -> SUBSET (Chunk \X Node)]
    <3>1. PICK S : S = seen[b] \cup {<<m.hash, m.requester>>} OBVIOUS
    <3>2. seen' = [seen EXCEPT ![b] = S] BY <2>1, <3>1
    <3>3. S \subseteq Chunk \X Node BY <1>3, <1>4, <3>1 DEF TypeInv, RoutesOK
    <3> QED BY <3>2, <3>3 DEF TypeInv, RoutesOK
  <2>8. RoutesOK' BY <1>3, <1>4, <2>1, <2>7, OneMoreRoute DEF TypeInv
  <2>9. QueuesOK(queue)' BY <1>2, <2>3, QueuesFrame
  <2> QED BY <1>5, <2>6, <2>8, <2>9 DEF TypeInv
<1> QED BY <1>6, <1>7, <1>8

LEMMA ManifestKeeps ==
    ASSUME TypeInv, NEW a, NEW b, HandleManifest(a, b) PROVE TypeInv' /\ Kept
<1>1. PICK m : m = Head(queue[<<a, b>>]) OBVIOUS
<1>2. PICK P : P = {net.hop[b][m.file.to]} OBVIOUS
<1>3. /\ Reads(a, b, "manifest")
      /\ net' = net /\ cache' = cache /\ used' = used /\ routes' = routes /\ seen' = seen
      /\ fetch' = fetch /\ restarted' = restarted /\ lost' = lost
      /\ \/ /\ manifests' = manifests \/ manifests' = [manifests EXCEPT ![b] = @ \cup {m.file}]
            /\ queue' = Rest(a, b)
         \/ manifests' = manifests /\ queue' = SendAll(Rest(a, b), b, P, <<m>>)
      BY <1>1, <1>2 DEF HandleManifest, Send
<1>4. /\ b \in Node /\ m \in Message /\ m.type = "manifest"
      /\ QueuesOK(Rest(a, b))
      /\ \A p \in Pair : /\ ToSet(Rest(a, b)[p]) \subseteq ToSet(queue[p])
                         /\ \A x \in ToSet(queue[p]) : x \in ToSet(Rest(a, b)[p]) \/ x.type = "manifest"
      BY <1>1, <1>3, RestFacts DEF TypeInv
<1>5. m.file \in File BY <1>4, MessageFacts
<1>6. /\ manifests' \in [Node -> SUBSET File]
      /\ \A n \in Node : manifests[n] \subseteq manifests'[n]
  <2>1. CASE manifests' = manifests BY <2>1 DEF TypeInv, StoreOK
  <2>2. CASE manifests' = [manifests EXCEPT ![b] = @ \cup {m.file}]
        BY <1>4, <1>5, <2>2, OneMore DEF TypeInv, StoreOK
  <2> QED BY <1>3, <2>1, <2>2
<1>7. StoreOK' /\ FetchOK' /\ RoutesOK'
  <2>1. StoreOK' BY <1>3, <1>6, StoreFrame DEF TypeInv, StoreOK
  <2>2. FetchOK' BY <1>3, <1>6, FetchFrame DEF TypeInv
  <2>3. RoutesOK' BY <1>3, RoutesFrame DEF TypeInv
  <2> QED BY <2>1, <2>2, <2>3
<1>8. CASE queue' = Rest(a, b)
  <2>1. Kept BY <1>3, <1>4, <1>8 DEF Kept
  <2>2. QueuesOK(queue)' BY <1>3, <1>4, <1>8, QueuesFrame
  <2> QED BY <1>7, <2>1, <2>2 DEF TypeInv
<1>9. CASE queue' = SendAll(Rest(a, b), b, P, <<m>>)
  <2> DEFINE one == <<m>>
  <2>1. one \in Seq(Message) /\ queue' = SendAll(Rest(a, b), b, P, one) BY <1>4, <1>9, SeqDef
  <2>2. ToSet(one) = {m} BY DEF ToSet
  <2> HIDE DEF one
  <2>3. QueuesOK(queue') BY <1>3, <2>1, AnswerFacts
  <2>4. \A p \in Pair :
            /\ \A x \in ToSet(queue'[p]) : x \in ToSet(queue[p]) \/ (p[1] = b /\ x \in ToSet(one))
            /\ \A x \in ToSet(queue[p]) : x \in ToSet(queue'[p]) \/ x.type = "manifest"
        BY <1>3, <2>1, AnswerFacts
  <2>6. Kept BY <1>3, <1>4, <2>2, <2>4 DEF Kept
  <2>7. QueuesOK(queue)' BY <1>3, <2>3, QueuesFrame
  <2> QED BY <1>7, <2>6, <2>7 DEF TypeInv
<1> QED BY <1>3, <1>8, <1>9

LEMMA AskKeeps ==
    ASSUME TypeInv, NEW n \in Node, NEW C \in FiniteChunks, Ask(n, C),
           net' = net, cache' = cache, used' = used, lost' = lost
    PROVE  QueuesOK(queue)' /\ Kept
<1>1. QueuesOK(queue) BY DEF TypeInv
<1>2. /\ QueuesOK(queue')
      /\ \A p \in Pair : /\ ToSet(queue[p]) \subseteq ToSet(queue'[p])
                         /\ \A x \in ToSet(queue'[p]) : x \in ToSet(queue[p]) \/ x.type = "request"
      BY <1>1, AskFacts
<1> QED BY <1>2, QueuesFrame DEF Kept

LEMMA StartKeeps ==
    ASSUME TypeInv, NEW n \in Node, NEW f \in net.file, StartFetch(n, f) PROVE TypeInv' /\ Kept
<1>1. PICK C : C = ChunksOf(f) \ cache[n] OBVIOUS
<1>2. /\ f \in manifests[n] /\ Ask(n, C)
      /\ fetch' = fetch \/ fetch' = [fetch EXCEPT ![n] = [file |-> f, missing |-> C]]
      /\ net' = net /\ cache' = cache /\ used' = used /\ manifests' = manifests /\ routes' = routes
      /\ seen' = seen /\ restarted' = restarted /\ lost' = lost
      BY <1>1 DEF StartFetch, ManifestStored
<1>3. f \in File BY NetFacts DEF TypeInv, StoreOK
<1>4. C \in FiniteChunks
  <2>1. ChunksOf(f) \in FiniteChunks BY <1>3, FileFacts
  <2>2. C \subseteq ChunksOf(f) BY <1>1
  <2> QED BY <2>1, <2>2, BytesSubset
<1>5. QueuesOK(queue)' /\ Kept BY <1>2, <1>4, AskKeeps
<1>6. StoreOK' BY <1>2, StoreFrame DEF TypeInv, StoreOK
<1>7. RoutesOK' BY <1>2, RoutesFrame DEF TypeInv
<1>8. FetchOK'
  <2>1. CASE fetch' = fetch BY <1>2, <2>1, FetchFrame DEF TypeInv
  <2>2. CASE fetch' = [fetch EXCEPT ![n] = [file |-> f, missing |-> C]]
    <3>1. PICK new : new = [file |-> f, missing |-> C] OBVIOUS
    <3>2. new \in Fetching /\ new.file = f BY <1>3, <1>4, <3>1 DEF Fetching
    <3>3. \A m \in Node : fetch'[m] = IF m = n THEN new ELSE fetch[m] BY <2>2, <3>1 DEF TypeInv, FetchOK
    <3>4. fetch' \in [Node -> Fetching] BY <2>2, <3>1, <3>2 DEF TypeInv, FetchOK
    <3> QED BY <1>2, <3>2, <3>3, <3>4 DEF TypeInv, FetchOK, ManifestStored
  <2> QED BY <1>2, <2>1, <2>2
<1> QED BY <1>5, <1>6, <1>7, <1>8 DEF TypeInv

\* A fetch under way knows the file, and misses finitely many chunks.
LEMMA FetchFacts ==
    ASSUME TypeInv, NEW n \in Node, fetch[n] # Idle
    PROVE  /\ fetch[n] \in [file : File, missing : FiniteChunks] /\ fetch[n].file \in manifests[n]
           /\ StillMissing(n) \in FiniteChunks
<1>1. fetch[n] \in [file : File, missing : FiniteChunks] BY DEF TypeInv, FetchOK, Fetching
<1>2. fetch[n].file \in manifests[n] BY DEF TypeInv, FetchOK, ManifestStored
<1>3. fetch[n].missing \in FiniteChunks /\ StillMissing(n) \subseteq fetch[n].missing BY <1>1 DEF StillMissing
<1>4. StillMissing(n) \in FiniteChunks BY <1>3, BytesSubset
<1> QED BY <1>1, <1>2, <1>4

LEMMA RetryKeeps ==
    ASSUME TypeInv, NEW n \in Node, Retry(n) PROVE TypeInv' /\ Kept
<1>1. PICK C : C = StillMissing(n) OBVIOUS
<1>2. /\ fetch[n] # Idle /\ Ask(n, C) /\ fetch' = [fetch EXCEPT ![n].missing = C]
      /\ net' = net /\ cache' = cache /\ used' = used /\ manifests' = manifests /\ routes' = routes
      /\ seen' = seen /\ restarted' = restarted /\ lost' = lost
      BY <1>1 DEF Retry
<1>3. /\ fetch[n] \in [file : File, missing : FiniteChunks] /\ fetch[n].file \in manifests[n]
      /\ C \in FiniteChunks
      BY <1>1, <1>2, FetchFacts
<1>4. QueuesOK(queue)' /\ Kept BY <1>2, <1>3, AskKeeps
<1>5. StoreOK' BY <1>2, StoreFrame DEF TypeInv, StoreOK
<1>6. RoutesOK' BY <1>2, RoutesFrame DEF TypeInv
<1>7. FetchOK'
  <2>1. PICK new : new = [fetch[n] EXCEPT !.missing = C] OBVIOUS
  <2>2. fetch' = [fetch EXCEPT ![n] = new] BY <1>2, <2>1
  <2>3. new \in [file : File, missing : FiniteChunks] /\ new.file = fetch[n].file BY <1>3, <2>1
  <2>4. \A m \in Node : fetch'[m] = IF m = n THEN new ELSE fetch[m] BY <2>2 DEF TypeInv, FetchOK
  <2>5. fetch' \in [Node -> Fetching] BY <2>2, <2>3 DEF TypeInv, FetchOK, Fetching
  <2> QED BY <1>2, <1>3, <2>3, <2>4, <2>5 DEF TypeInv, FetchOK, ManifestStored
<1> QED BY <1>4, <1>5, <1>6, <1>7 DEF TypeInv

\* A fetch that ends, in success or not.
LEMMA EndKeeps ==
    ASSUME TypeInv, NEW n \in Node, Assemble(n) \/ TimeOut(n) PROVE TypeInv' /\ Kept
<1>1. /\ fetch' = [fetch EXCEPT ![n] = Idle]
      /\ net' = net /\ cache' = cache /\ used' = used /\ manifests' = manifests /\ queue' = queue
      /\ routes' = routes /\ seen' = seen /\ restarted' = restarted /\ lost' = lost
      BY DEF Assemble, TimeOut
<1>2. Kept BY <1>1 DEF Kept
<1>3. StoreOK' /\ RoutesOK' BY <1>1, StoreFrame, RoutesFrame DEF TypeInv, StoreOK
<1>4. QueuesOK(queue)' BY <1>1, QueuesFrame DEF TypeInv
<1>5. FetchOK' BY <1>1 DEF TypeInv, FetchOK, Fetching, ManifestStored
<1> QED BY <1>2, <1>3, <1>4, <1>5 DEF TypeInv

LEMMA ExpireKeeps ==
    ASSUME TypeInv, NEW n \in Node, NEW s \in seen[n], Expire(n, s) PROVE TypeInv' /\ Kept
<1>1. PICK R : R = {r \in routes[n] : <<r.hash, r.requester>> # s} OBVIOUS
<1>2. /\ seen' = [seen EXCEPT ![n] = @ \ {s}] /\ routes' = [routes EXCEPT ![n] = R]
      /\ net' = net /\ cache' = cache /\ used' = used /\ manifests' = manifests /\ queue' = queue
      /\ fetch' = fetch /\ restarted' = restarted /\ lost' = lost
      BY <1>1 DEF Expire
<1>3. Kept BY <1>2 DEF Kept
<1>4. StoreOK' /\ FetchOK' BY <1>2, StoreFrame, FetchFrame DEF TypeInv, StoreOK
<1>5. QueuesOK(queue)' BY <1>2, QueuesFrame DEF TypeInv
<1>6. R \subseteq routes[n] BY <1>1
<1>7. seen' \in [Node -> SUBSET (Chunk \X Node)] BY <1>2 DEF TypeInv, RoutesOK
<1>8. RoutesOK' BY <1>2, <1>6, <1>7, FewerRoutes DEF TypeInv
<1> QED BY <1>3, <1>4, <1>5, <1>8 DEF TypeInv

LEMMA RestartKeeps ==
    ASSUME TypeInv, NEW n \in Node, Restart(n) PROVE TypeInv' /\ Kept
<1>1. /\ n \in net.restarting /\ restarted' = restarted \cup {n}
      /\ routes' = [routes EXCEPT ![n] = {}] /\ seen' = [seen EXCEPT ![n] = {}]
      /\ fetch' = [fetch EXCEPT ![n] = Idle]
      /\ queue' = [p \in Pair |-> IF n \in {p[1], p[2]} THEN <<>> ELSE queue[p]]
      /\ lost' = lost \cup UNION {{<<p[2], queue[p][i].hash>> :
                    i \in {j \in DOMAIN queue[p] : queue[p][j].type = "chunk"}} :
                    p \in {x \in Pair : n \in {x[1], x[2]}}}
      /\ net' = net /\ cache' = cache /\ used' = used /\ manifests' = manifests
      BY DEF Restart
<1>2. Kept
  <2>1. ASSUME NEW p \in Pair, NEW x \in ToSet(queue[p]), x.type = "chunk", x \notin ToSet(queue'[p])
        PROVE  <<p[2], x.hash>> \in lost'
    <3>1. PICK i \in DOMAIN queue[p] : x = queue[p][i] BY <2>1 DEF ToSet
    <3>2. n \in {p[1], p[2]} BY <1>1, <2>1
    <3>3. <<p[2], x.hash>> \in {<<p[2], queue[p][j].hash>> :
                                   j \in {k \in DOMAIN queue[p] : queue[p][k].type = "chunk"}}
          BY <2>1, <3>1
    <3>4. p \in {y \in Pair : n \in {y[1], y[2]}} BY <3>2
    <3>5. <<p[2], x.hash>> \in UNION {{<<y[2], queue[y][j].hash>> :
                    j \in {k \in DOMAIN queue[y] : queue[y][k].type = "chunk"}} :
                    y \in {z \in Pair : n \in {z[1], z[2]}}}
          BY <3>3, <3>4
    <3> QED BY <1>1, <3>5
  <2>2. ASSUME NEW p \in Pair PROVE \A x \in ToSet(queue'[p]) : x \in ToSet(queue[p])
    <3>1. queue'[p] = <<>> \/ queue'[p] = queue[p] BY <1>1
    <3> QED BY <3>1 DEF ToSet
  <2> QED BY <1>1, <2>1, <2>2 DEF Kept
<1>3. StoreOK' BY <1>1, StoreFrame DEF TypeInv, StoreOK
<1>4. QueuesOK(queue)'
  <2>1. <<>> \in Seq(Message) /\ Len(<<>>) = 0 /\ 0 <= QueueCap BY EmptySeq, BoundsAssumption
  <2>2. QueuesOK(queue) BY DEF TypeInv
  <2>3. QueuesOK(queue') BY <1>1, <2>1, <2>2 DEF QueuesOK
  <2> QED BY <1>1, <2>3, QueuesFrame
<1>5. RoutesOK'
  <2>1. seen' \in [Node -> SUBSET (Chunk \X Node)] BY <1>1 DEF TypeInv, RoutesOK
  <2>2. PICK R : R = {} OBVIOUS
  <2>3. R \subseteq routes[n] /\ routes' = [routes EXCEPT ![n] = R] BY <1>1, <2>2
  <2> QED BY <2>1, <2>3, FewerRoutes DEF TypeInv
<1>6. FetchOK' BY <1>1 DEF TypeInv, FetchOK, Fetching, ManifestStored
<1> QED BY <1>2, <1>3, <1>4, <1>5, <1>6 DEF TypeInv

\* Every step but the two that store something keeps the chunks as they are.
LEMMA OthersKeep ==
    ASSUME TypeInv, Next
    PROVE  \/ TypeInv' /\ Kept
           \/ \E f \in net.file : PublishFile(f)
           \/ \E a, b \in Node : HandleFileChunk(a, b)
<1>1. CASE \E f \in net.file : PublishFile(f) BY <1>1
<1>2. ASSUME NEW p \in Pair, Receive(p[1], p[2])
      PROVE  (TypeInv' /\ Kept) \/ \E a, b \in Node : HandleFileChunk(a, b)
  <2>1. p[1] \in Node /\ p[2] \in Node BY DEF Pair
  <2>2. CASE DropFileChunk(p[1], p[2]) BY <2>2, DropKeeps
  <2>3. CASE HandleFileChunk(p[1], p[2]) BY <2>1, <2>3
  <2>4. CASE HandleChunkRequest(p[1], p[2]) BY <2>4, RequestKeeps
  <2>5. CASE HandleManifest(p[1], p[2]) BY <2>5, ManifestKeeps
  <2>6. CASE OverLimit(p[1], p[2]) BY <2>6, OverLimitKeeps
  <2> QED BY <1>2, <2>2, <2>3, <2>4, <2>5, <2>6 DEF Receive
<1>3. ASSUME NEW n \in Node, NEW f \in net.file, StartFetch(n, f) PROVE TypeInv' /\ Kept
      BY <1>3, StartKeeps
<1>4. ASSUME NEW n \in Node, Assemble(n) \/ Retry(n) \/ TimeOut(n) \/ Restart(n) PROVE TypeInv' /\ Kept
      BY <1>4, EndKeeps, RetryKeeps, RestartKeeps
<1>5. ASSUME NEW n \in Node, NEW s \in seen[n], Expire(n, s) PROVE TypeInv' /\ Kept
      BY <1>5, ExpireKeeps
<1> QED BY <1>1, <1>2, <1>3, <1>4, <1>5 DEF Next

LEMMA TypeStutter == ASSUME TypeInv, UNCHANGED vars PROVE TypeInv'
<1>1. /\ net' = net /\ cache' = cache /\ used' = used /\ manifests' = manifests /\ queue' = queue
      /\ routes' = routes /\ seen' = seen /\ fetch' = fetch /\ restarted' = restarted
      BY DEF vars
<1>2. StoreOK' /\ RoutesOK' /\ FetchOK' BY <1>1, StoreFrame, RoutesFrame, FetchFrame DEF TypeInv, StoreOK
<1>3. QueuesOK(queue)' BY <1>1, QueuesFrame DEF TypeInv
<1> QED BY <1>2, <1>3 DEF TypeInv

LEMMA TypeStep == ASSUME TypeInv, [Next]_vars PROVE TypeInv'
<1>1. CASE UNCHANGED vars BY <1>1, TypeStutter
<1>2. ASSUME NEW f \in net.file, PublishFile(f) PROVE TypeInv' BY <1>2, PublishFacts
<1>3. ASSUME NEW a, NEW b, HandleFileChunk(a, b) PROVE TypeInv' BY <1>3, ChunkFacts
<1>4. CASE Next BY <1>2, <1>3, <1>4, OthersKeep
<1> QED BY <1>1, <1>4

LEMMA FilesTyped == Spec => []TypeInv
<1>1. Init => TypeInv BY TypeInit
<1>2. TypeInv /\ [Next]_vars => TypeInv' BY TypeStep
<1> QED BY <1>1, <1>2, PTL DEF Spec

\* Whatever is published, fetched, lost or restarted, for every network: the
\* cache's byte counter is the sum of what it stores and stays within the budget,
\* no writer queue and no table of reverse paths outgrows its bound, and a fetch
\* is of a file whose manifest is stored (cache.rs insert, pool.rs, state.rs).
THEOREM FilesTypes == Spec => []TypeOK
<1>1. TypeInv /\ ShedOK => TypeOK BY TypeInvTypeOK
<1> QED BY <1>1, FilesTyped, FilesShed, PTL

----------------------------------------------------------------------------
\* What p[1] knows of c, it has passed on to p[2], or has a reason not to.
Done(p, c) ==
    \/ c \in cache[p[2]] \/ FileChunk(c) \in ToSet(queue[p])
    \/ ~ Fits(p[2], c) \/ ~ Verifies(p[1], p[2], OwnerOf(c)) \/ <<p[2], c>> \in lost

\* Whoever sends a chunk has it, or has no room for it: the one that sent it need
\* not be sent it back.
SendersHave ==
    \A p \in Pair : \A c \in Chunk : FileChunk(c) \in ToSet(queue[p]) => c \in cache[p[1]] \/ ~ Fits(p[1], c)

Replication == SendersHave /\ \A p \in Pair : \A c \in cache[p[1]] : Done(p, c)

\* What a step has to keep to for Replication to survive it.
Moves ==
    /\ net' = net /\ lost \subseteq lost'
    /\ \A n \in Node : cache[n] \subseteq cache'[n] /\ used[n] <= used'[n]
    /\ \A p \in Pair, c \in Chunk : FileChunk(c) \in ToSet(queue'[p]) =>
          FileChunk(c) \in ToSet(queue[p]) \/ c \in cache'[p[1]] \/ ~ Fits(p[1], c)'
    /\ \A p \in Pair, c \in Chunk : FileChunk(c) \in ToSet(queue[p]) => FileChunk(c) \in ToSet(queue'[p]) \/ Done(p, c)'
    /\ \A p \in Pair, c \in Chunk : c \in cache'[p[1]] => c \in cache[p[1]] \/ Done(p, c)'

LEMMA MovesReplicate == ASSUME TypeInv, TypeInv', Replication, Moves PROVE Replication'
<1>1. Pair' = Pair BY DEF Moves, Pair
<1>2. ASSUME NEW n \in Node, NEW c \in Chunk, ~ Fits(n, c) PROVE ~ Fits(n, c)'
  <2>1. /\ used[n] \in Nat /\ used'[n] \in Nat /\ used[n] <= used'[n] /\ SizeOf(c) \in Nat
        /\ net' = net /\ net.budget[n] \in Nat
        BY NetFacts, SizeAssumption DEF TypeInv, StoreOK, Moves
  <2> QED BY <1>2, <2>1 DEF Fits
<1>3. ASSUME NEW p \in Pair PROVE p[1] \in Node /\ p[2] \in Node BY DEF Pair
<1>4. SendersHave'
  <2> SUFFICES ASSUME NEW p \in Pair, NEW c \in Chunk, FileChunk(c) \in ToSet(queue'[p])
               PROVE  c \in cache'[p[1]] \/ ~ Fits(p[1], c)'
      BY <1>1 DEF SendersHave
  <2>1. \/ c \in cache[p[1]] \/ ~ Fits(p[1], c)
        \/ c \in cache'[p[1]] \/ ~ Fits(p[1], c)'
        BY DEF Moves, Replication, SendersHave
  <2> QED BY <1>2, <1>3, <2>1 DEF Moves
<1>5. ASSUME NEW p \in Pair, NEW c \in cache'[p[1]] PROVE Done(p, c)'
  <2>1. c \in Chunk BY <1>3 DEF TypeInv, StoreOK, FiniteChunks
  <2>2. CASE c \in cache[p[1]]
    <3>1. Done(p, c) BY <2>2 DEF Replication
    <3>2. CASE FileChunk(c) \in ToSet(queue[p]) BY <2>1, <3>2 DEF Moves, Done
    <3>3. CASE c \in cache[p[2]] BY <1>3, <3>3 DEF Moves, Done
    <3>4. CASE ~ Fits(p[2], c) BY <1>2, <1>3, <2>1, <3>4 DEF Done
    <3>5. CASE ~ Verifies(p[1], p[2], OwnerOf(c)) BY <3>5 DEF Moves, Done, Verifies
    <3>6. CASE <<p[2], c>> \in lost BY <3>6 DEF Moves, Done
    <3> QED BY <3>1, <3>2, <3>3, <3>4, <3>5, <3>6 DEF Done
  <2>3. CASE c \notin cache[p[1]] BY <1>5, <2>1, <2>3 DEF Moves
  <2> QED BY <2>2, <2>3
<1> QED BY <1>1, <1>4, <1>5 DEF Replication

LEMMA KeptMoves == ASSUME TypeInv, Kept PROVE Moves
<1>1. /\ net' = net /\ cache' = cache /\ used' = used /\ lost \subseteq lost'
      /\ \A n \in Node : used[n] \in Nat
      BY DEF Kept, TypeInv, StoreOK
<1>2. ASSUME NEW c PROVE FileChunk(c).type = "chunk" /\ FileChunk(c).hash = c BY DEF FileChunk
<1>3. ASSUME NEW p \in Pair, NEW c \in Chunk, FileChunk(c) \in ToSet(queue'[p])
      PROVE  FileChunk(c) \in ToSet(queue[p]) \/ c \in cache'[p[1]]
      BY <1>1, <1>2, <1>3 DEF Kept
<1>4. ASSUME NEW p \in Pair, NEW c \in Chunk, FileChunk(c) \in ToSet(queue[p])
      PROVE  FileChunk(c) \in ToSet(queue'[p]) \/ Done(p, c)'
  <2>1. \/ FileChunk(c) \in ToSet(queue'[p]) \/ ~ Verifies(p[1], p[2], OwnerOf(c))
        \/ <<p[2], c>> \in lost'
        BY <1>2, <1>4 DEF Kept
  <2>2. Verifies(p[1], p[2], OwnerOf(c))' = Verifies(p[1], p[2], OwnerOf(c)) BY <1>1 DEF Verifies
  <2> QED BY <2>1, <2>2 DEF Done
<1> QED BY <1>1, <1>3, <1>4 DEF Moves

\* The owner floods what it stores, and all it floods it stores or has no room for.
LEMMA PublishMoves ==
    ASSUME TypeInv, NEW f \in net.file, PublishFile(f) PROVE Moves
<1>1. /\ net' = net /\ lost \subseteq lost' /\ f.owner \in Node
      /\ \A n \in Node : cache[n] \subseteq cache'[n] /\ used[n] <= used'[n]
      /\ \A n \in Node : \A c \in cache'[n] : c \in cache[n] \/ (n = f.owner /\ c \in ChunksOf(f))
      /\ \A c \in ChunksOf(f) : c \in cache'[f.owner] \/ ~ Fits(f.owner, c)'
      BY PublishFacts
<1>2. \A p \in Pair : /\ ToSet(queue[p]) \subseteq ToSet(queue'[p])
                      /\ \A m \in ToSet(queue'[p]) :
                            \/ m \in ToSet(queue[p]) \/ m.type = "manifest"
                            \/ p[1] = f.owner /\ m \in {FileChunk(c) : c \in ChunksOf(f)}
                      /\ p[1] = f.owner => \A c \in ChunksOf(f) :
                            FileChunk(c) \in ToSet(queue'[p]) \/ <<p[2], c>> \in lost'
      BY PublishFacts
<1>3. ASSUME NEW c, NEW d PROVE FileChunk(c).type = "chunk" /\ (FileChunk(c) = FileChunk(d) => c = d)
      BY DEF FileChunk
<1>4. ASSUME NEW p \in Pair, NEW c \in Chunk, FileChunk(c) \in ToSet(queue'[p]), FileChunk(c) \notin ToSet(queue[p])
      PROVE  c \in cache'[p[1]] \/ ~ Fits(p[1], c)'
  <2>1. p[1] = f.owner /\ FileChunk(c) \in {FileChunk(d) : d \in ChunksOf(f)} BY <1>2, <1>3, <1>4
  <2>2. c \in ChunksOf(f) BY <1>3, <2>1
  <2> QED BY <1>1, <2>1, <2>2
<1>5. ASSUME NEW p \in Pair, NEW c \in Chunk, c \in cache'[p[1]], c \notin cache[p[1]] PROVE Done(p, c)'
  <2>1. p[1] \in Node BY DEF Pair
  <2>2. p[1] = f.owner /\ c \in ChunksOf(f) BY <1>1, <1>5, <2>1
  <2> QED BY <1>2, <2>2 DEF Done
<1> QED BY <1>1, <1>2, <1>4, <1>5 DEF Moves

\* Who stores a chunk passes it on to all but the sender, and that one has it.
LEMMA ChunkMoves ==
    ASSUME TypeInv, SendersHave, NEW a, NEW b, HandleFileChunk(a, b) PROVE Moves
<1>1. PICK c : c = Head(queue[<<a, b>>]).hash OBVIOUS
<1>2. /\ net' = net /\ lost \subseteq lost' /\ TypeInv'
      /\ <<a, b>> \in Pair /\ c \in Chunk /\ FileChunk(c) \in ToSet(queue[<<a, b>>])
      /\ \A n \in Node : cache[n] \subseteq cache'[n] /\ used[n] <= used'[n]
      /\ \A n \in Node : \A x \in cache'[n] : x \in cache[n] \/ (n = b /\ x = c)
      /\ c \in cache'[b] \/ ~ Fits(b, c)'
      BY <1>1, ChunkFacts
<1>3. \A p \in Pair :
         /\ \A m \in ToSet(queue'[p]) : m \in ToSet(queue[p]) \/ (p[1] = b /\ m = FileChunk(c))
         /\ \A m \in ToSet(queue[p]) : m \in ToSet(queue'[p]) \/ (p = <<a, b>> /\ m = FileChunk(c))
         /\ p[1] = b /\ p[2] # a /\ c \notin cache[b] /\ c \in cache'[b] =>
               FileChunk(c) \in ToSet(queue'[p]) \/ <<p[2], c>> \in lost'
      BY <1>1, ChunkFacts
<1>4. ASSUME NEW x, FileChunk(x) = FileChunk(c) PROVE x = c BY <1>4 DEF FileChunk
<1>5. ASSUME NEW p \in Pair, NEW x \in Chunk, FileChunk(x) \in ToSet(queue'[p]), FileChunk(x) \notin ToSet(queue[p])
      PROVE  x \in cache'[p[1]] \/ ~ Fits(p[1], x)'
  <2>1. p[1] = b /\ FileChunk(x) = FileChunk(c) BY <1>3, <1>5
  <2> QED BY <1>2, <1>4, <2>1
<1>6. ASSUME NEW p \in Pair, NEW x \in Chunk, FileChunk(x) \in ToSet(queue[p]), FileChunk(x) \notin ToSet(queue'[p])
      PROVE  Done(p, x)'
  <2>1. p = <<a, b>> /\ FileChunk(x) = FileChunk(c) BY <1>3, <1>6
  <2>2. p[2] = b /\ x = c BY <1>4, <2>1
  <2> QED BY <1>2, <2>2 DEF Done
<1>7. c \in cache'[a] \/ ~ Fits(a, c)'
  <2>1. a \in Node /\ <<a, b>>[1] = a BY <1>2 DEF Pair
  <2>2. c \in cache[a] \/ ~ Fits(a, c) BY <1>2, <2>1 DEF SendersHave
  <2>3. /\ used[a] \in Nat /\ used'[a] \in Nat /\ used[a] <= used'[a] /\ SizeOf(c) \in Nat
        /\ net.budget[a] \in Nat
        BY <1>2, <2>1, NetFacts, SizeAssumption DEF TypeInv, StoreOK
  <2> QED BY <1>2, <2>1, <2>2, <2>3 DEF Fits
<1>8. ASSUME NEW p \in Pair, NEW x \in Chunk, x \in cache'[p[1]], x \notin cache[p[1]] PROVE Done(p, x)'
  <2>1. p[1] \in Node /\ p[2] \in Node BY DEF Pair
  <2>2. p[1] = b /\ x = c BY <1>2, <1>8, <2>1
  <2>3. CASE p[2] = a BY <1>7, <2>2, <2>3 DEF Done
  <2>4. CASE p[2] # a BY <1>3, <1>8, <2>2, <2>4 DEF Done
  <2> QED BY <2>3, <2>4
<1> QED BY <1>2, <1>5, <1>6, <1>8 DEF Moves

LEMMA ReplicationInit == Init => Replication
<1> SUFFICES ASSUME Init PROVE Replication
    OBVIOUS
<1>1. \A p \in Pair : p[1] \in Node /\ queue[p] = <<>> BY DEF Init, Pair
<1>2. SendersHave BY <1>1 DEF SendersHave, ToSet
<1>3. \A p \in Pair : cache[p[1]] = {} BY <1>1 DEF Init
<1> QED BY <1>2, <1>3 DEF Replication

LEMMA ReplicationStep == ASSUME TypeInv, TypeInv', Replication, [Next]_vars PROVE Replication'
<1>1. CASE UNCHANGED vars BY <1>1 DEF vars, Replication, SendersHave, Done, Pair, Fits, Verifies
<1>2. ASSUME NEW f \in net.file, PublishFile(f) PROVE Moves BY <1>2, PublishMoves
<1>3. ASSUME NEW a, NEW b, HandleFileChunk(a, b) PROVE Moves BY <1>3, ChunkMoves DEF Replication
<1>4. CASE Next
  <2>1. Moves BY <1>2, <1>3, <1>4, OthersKeep, KeptMoves
  <2> QED BY <2>1, MovesReplicate
<1> QED BY <1>1, <1>4

\* For every network, every files and every order of floods, requests, losses and
\* restarts: a neighbour of a node that stores a chunk stores it, is about to, has
\* no room, does not know its owner or lost it on the way or to its limit (files.rs:
\* flood when stored).  Chunks that cross on a session, and the sender left out of the flood,
\* are why SendersHave is needed.
THEOREM NeighboursGetChunks == Spec => []NeighboursReplicate
<1>1. TypeInv /\ Replication => NeighboursReplicate BY DEF Replication, Done, NeighboursReplicate, UnderWay
<1>2. Init => Replication BY ReplicationInit
<1>3. TypeInv /\ TypeInv' /\ Replication /\ [Next]_vars => Replication' BY ReplicationStep
<1> QED BY <1>1, <1>2, <1>3, FilesTyped, PTL DEF Spec
=============================================================================
