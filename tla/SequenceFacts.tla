---------------------------- MODULE SequenceFacts ----------------------------
(***************************************************************************)
(* Facts about numbers and sequences the proofs of several modules rest    *)
(* on: every set of naturals has a least member, and what concatenating,   *)
(* mapping and flattening sequences keeps of their elements.               *)
(***************************************************************************)
EXTENDS Integers, SequencesExt, SequenceTheorems, WellFoundedInduction, TLAPS

(* A set of naturals that is not empty has a least member.                 *)
LEMMA LeastExists ==
  ASSUME NEW S \in SUBSET Nat, S # {}
  PROVE  \E n \in S : \A m \in S : n <= m
<1>1. IsWellFoundedOn(OpToRel(<, Nat), Nat)
  BY NatLessThanWellFounded
<1>2. PICK n \in S : \A m \in S : ~ (<<m, n>> \in OpToRel(<, Nat))
  BY <1>1, WFMin
<1>3. \A m \in S : ~ (m < n)
  BY <1>2 DEF OpToRel
<1>4. QED
  BY <1>3

(* Flattening a sequence of sequences.                                     *)

IsFlattening(f, seqs, N) ==
  f = [i \in 1..N |-> IF i = 1 THEN seqs[i] ELSE f[i - 1] \o seqs[i]]

LEMMA FlatteningExists ==
  ASSUME NEW seqs
  PROVE  \A N \in Nat : \E f : IsFlattening(f, seqs, N)
<1> DEFINE S == {N \in Nat : ~ \E f : IsFlattening(f, seqs, N)}
<1> SUFFICES ASSUME S # {} PROVE FALSE
  OBVIOUS
<1>1. PICK N \in S : \A M \in S : N <= M
  BY LeastExists
<1>2. CASE N = 0
  <2>1. PICK f : f = [i \in 1..N |-> 0]
    OBVIOUS
  <2>2. 1..N = {}
    BY <1>2
  <2>3. IsFlattening(f, seqs, N)
    BY <2>1, <2>2 DEF IsFlattening
  <2>4. QED
    BY <1>1, <2>3
<1>3. CASE N # 0
  <2>1. N \in Nat /\ N - 1 \in Nat /\ N - 1 \notin S
    BY <1>1, <1>3
  <2>2. PICK f : IsFlattening(f, seqs, N - 1)
    BY <2>1
  <2>3. \A i \in 1..(N - 1) : f[i] = IF i = 1 THEN seqs[i] ELSE f[i - 1] \o seqs[i]
    BY <2>2, Zenon DEF IsFlattening
  <2> DEFINE last == IF N = 1 THEN seqs[N] ELSE f[N - 1] \o seqs[N]
  <2>4. PICK g : g = [i \in 1..N |-> IF i = N THEN last ELSE f[i]]
    OBVIOUS
  <2> HIDE DEF last
  <2>5. \A i \in 1..N : i # N => i \in 1..(N - 1) /\ g[i] = f[i]
    BY <2>1, <2>4
  <2>6. \A i \in 1..N : i # 1 => i - 1 \in 1..N /\ g[i - 1] = f[i - 1]
    BY <2>1, <2>5
  <2>7. N \in 1..N /\ g[N] = last
    BY <1>3, <2>1, <2>4
  <2>8. \A i \in 1..N : g[i] = IF i = 1 THEN seqs[i] ELSE g[i - 1] \o seqs[i]
    <3> TAKE i \in 1..N
    <3>1. CASE i = N
      BY <2>6, <2>7, <3>1 DEF last
    <3>2. CASE i # N
      BY <2>3, <2>5, <2>6, <3>2
    <3>3. QED
      BY <3>1, <3>2
  <2>9. IsFlattening(g, seqs, N)
    BY <2>4, <2>8 DEF IsFlattening
  <2>10. QED
    BY <1>1, <2>9
<1>4. QED
  BY <1>2, <1>3

(* The elements of a sequence.                                              *)
LEMMA RangeIs ==
  ASSUME NEW S, NEW s \in Seq(S)
  PROVE  /\ Range(s) = {s[i] : i \in 1..Len(s)} /\ Range(s) \subseteq S
         /\ \A i \in 1..Len(s) : s[i] \in Range(s)
<1>1. DOMAIN s = 1..Len(s)
  OBVIOUS
<1>2. Range(s) = {s[i] : i \in 1..Len(s)}
  BY <1>1 DEF Range
<1>3. QED
  BY <1>2

LEMMA RangeOfConcat ==
  ASSUME NEW S, NEW s \in Seq(S), NEW t \in Seq(S)
  PROVE  s \o t \in Seq(S) /\ Range(s \o t) = Range(s) \cup Range(t)
<1>1. s \o t \in Seq(S) /\ Len(s \o t) = Len(s) + Len(t) /\ Len(s) \in Nat /\ Len(t) \in Nat
  OBVIOUS
<1>2. \A i \in 1..Len(s) : (s \o t)[i] = s[i] /\ i \in 1..Len(s \o t)
  BY <1>1
<1>3. \A i \in 1..Len(t) : (s \o t)[Len(s) + i] = t[i] /\ Len(s) + i \in 1..Len(s \o t)
  BY <1>1
<1>4. \A i \in 1..Len(s \o t) : i \in 1..Len(s) \/ i - Len(s) \in 1..Len(t)
  BY <1>1
<1>5. \A i \in 1..Len(s \o t) : (s \o t)[i] \in Range(s) \cup Range(t)
  <2> TAKE i \in 1..Len(s \o t)
  <2>1. CASE i \in 1..Len(s)
    BY <1>2, <2>1, RangeIs
  <2>2. CASE i \notin 1..Len(s)
    <3>1. PICK j \in 1..Len(t) : j = i - Len(s)
      BY <1>4, <2>2
    <3>2. (s \o t)[i] = t[j]
      BY <1>1, <1>3, <3>1
    <3>3. QED
      BY <3>2, RangeIs
  <2>3. QED
    BY <2>1, <2>2
<1> DEFINE u == s \o t
<1>a. u \in Seq(S)
  BY <1>1
<1> HIDE DEF u
<1>b. Range(s) = {s[i] : i \in 1..Len(s)}
  BY RangeIs
<1>c. Range(t) = {t[i] : i \in 1..Len(t)}
  BY RangeIs
<1>d. Range(u) = {u[i] : i \in 1..Len(u)} /\ \A i \in 1..Len(u) : u[i] \in Range(u)
  BY <1>a, RangeIs
<1>6. \A x \in Range(s) : x \in Range(s \o t)
  <2> SUFFICES ASSUME NEW i \in 1..Len(s) PROVE s[i] \in Range(u)
    BY <1>b DEF u
  <2>1. u[i] = s[i] /\ i \in 1..Len(u)
    BY <1>2 DEF u
  <2>2. QED
    BY <1>d, <2>1
<1>7. \A x \in Range(t) : x \in Range(s \o t)
  <2> SUFFICES ASSUME NEW i \in 1..Len(t) PROVE t[i] \in Range(u)
    BY <1>c DEF u
  <2>1. PICK j \in 1..Len(u) : u[j] = t[i]
    BY <1>3 DEF u
  <2>2. QED
    BY <1>d, <2>1
<1>8. \A x \in Range(s \o t) : x \in Range(s) \cup Range(t)
  <2>1. \A i \in 1..Len(u) : u[i] \in Range(s) \cup Range(t)
    BY <1>5 DEF u
  <2>2. \A x \in Range(u) : x \in Range(s) \cup Range(t)
    BY <1>d, <2>1
  <2>3. QED
    BY <2>2 DEF u
<1>9. QED
  BY <1>1, <1>6, <1>7, <1>8

(* Flattening keeps every element of every sequence.                       *)
LEMMA FlattenKeeps ==
  ASSUME NEW S, NEW seqs \in Seq(Seq(S))
  PROVE  /\ FlattenSeq(seqs) \in Seq(S)
         /\ \A i \in 1..Len(seqs) : Range(seqs[i]) \subseteq Range(FlattenSeq(seqs))
<1> DEFINE N == Len(seqs)
<1>1. N \in Nat /\ \A i \in 1..N : seqs[i] \in Seq(S)
  OBVIOUS
<1>2. CASE N = 0
  <2>1. seqs = <<>> /\ 1..N = {}
    BY <1>2
  <2>2. FlattenSeq(seqs) = <<>>
    BY <1>2, <2>1 DEF FlattenSeq
  <2>3. <<>> \in Seq(S)
    OBVIOUS
  <2>4. QED
    BY <2>1, <2>2, <2>3
<1>3. CASE N # 0
  <2> DEFINE f == CHOOSE g : IsFlattening(g, seqs, N)
  <2>1. FlattenSeq(seqs) = f[N]
    BY <1>3, Zenon DEF FlattenSeq, IsFlattening
  <2>2. IsFlattening(f, seqs, N)
    BY <1>1, FlatteningExists, Zenon
  <2> HIDE DEF f
  <2>3. \A i \in 1..N : f[i] = IF i = 1 THEN seqs[i] ELSE f[i - 1] \o seqs[i]
    BY <2>2, Zenon DEF IsFlattening
  <2> HIDE DEF N
  <2> DEFINE Good(i) == f[i] \in Seq(S) /\ \A j \in 1..i : Range(seqs[j]) \subseteq Range(f[i])
             Bad == {i \in 1..N : ~ Good(i)}
  <2>4. Bad = {}
    <3> SUFFICES ASSUME Bad # {} PROVE FALSE
      OBVIOUS
    <3>1. Bad \in SUBSET Nat
      BY <1>1
    <3>2. PICK i \in Bad : \A m \in Bad : i <= m
      BY <3>1, LeastExists
    <3>3. i \in 1..N /\ seqs[i] \in Seq(S)
      BY <1>1, <3>2
    <3>4. CASE i = 1
      <4>1. f[i] = seqs[i] /\ \A j \in 1..i : j = i
        BY <2>3, <3>3, <3>4
      <4>2. Good(i)
        BY <3>3, <4>1
      <4>3. QED
        BY <3>2, <4>2
    <3>5. CASE i # 1
      <4>0. i - 1 \in 1..N /\ ~ (i <= i - 1) /\ i \in Nat
        BY <1>1, <3>3, <3>5
      <4>a. i - 1 \notin Bad
        BY <3>2, <4>0, Zenon
      <4>b. f[i] = f[i - 1] \o seqs[i]
        BY <2>3, <3>3, <3>5
      <4>1. i - 1 \in 1..N /\ i - 1 \notin Bad /\ f[i] = f[i - 1] \o seqs[i]
        BY <4>0, <4>a, <4>b, Zenon
      <4>2. Good(i - 1)
        BY <4>1
      <4>3. f[i] \in Seq(S) /\ Range(f[i]) = Range(f[i - 1]) \cup Range(seqs[i])
        BY <3>3, <4>1, <4>2, RangeOfConcat
      <4>4. \A j \in 1..i : j \in 1..(i - 1) \/ j = i
        BY <1>1, <3>3
      <4>5. Good(i)
        BY <4>2, <4>3, <4>4
      <4>6. QED
        BY <3>2, <4>5
    <3>6. QED
      BY <3>4, <3>5
  <2>5. N \in 1..N
    BY <1>1, <1>3
  <2>6. Good(N)
    BY <2>4, <2>5
  <2>7. QED
    BY <2>1, <2>6 DEF N
<1>4. QED
  BY <1>2, <1>3

(* A function on 1..N is a sequence of length N.                            *)
LEMMA MapIsSequence ==
  ASSUME NEW T, NEW N \in Nat, NEW f \in [1..N -> T]
  PROVE  f \in Seq(T) /\ Len(f) = N
<1>1. f \in Seq(T)
  BY SeqDef
<1>2. DOMAIN f = 1..N /\ DOMAIN f = 1..Len(f) /\ Len(f) \in Nat
  BY <1>1
<1>3. QED
  BY <1>1, <1>2

LEMMA SequenceOfItsRange ==
  ASSUME NEW S, NEW s \in Seq(S), NEW T, Range(s) \subseteq T
  PROVE  s \in Seq(T)
<1>1. Len(s) \in Nat /\ DOMAIN s = 1..Len(s) /\ s = [i \in 1..Len(s) |-> s[i]]
  OBVIOUS
<1>2. \A i \in 1..Len(s) : s[i] \in T
  BY RangeIs
<1>3. s \in [1..Len(s) -> T]
  BY <1>1, <1>2
<1>4. QED
  BY <1>1, <1>3, MapIsSequence
===============================================================================
