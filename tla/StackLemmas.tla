---------------------------- MODULE StackLemmas ----------------------------
(***************************************************************************)
(* Facts about sequences that are used as stacks, whatever their elements  *)
(* are, and about the indices of a sequence.                               *)
(***************************************************************************)
EXTENDS Stacks, TLAPS, SequenceTheorems, WellFoundedInduction

(* Sequences as functions on 1 .. Len(s), of whatever elements. *)

LEMMA SequenceIsSeq ==
    ASSUME NEW s, IsSequence(s), NEW T, \A i \in 1 .. Len(s) : s[i] \in T
    PROVE  s \in Seq(T)
<1>1. s \in [1 .. Len(s) -> T]
  BY DEF IsSequence
<1> QED
  BY <1>1, SeqDef DEF IsSequence

LEMMA SeqIsSequence ==
    ASSUME NEW T, NEW s \in Seq(T)
    PROVE  IsSequence(s)
<1>1. Len(s) \in Nat /\ s \in [1 .. Len(s) -> T]
  BY LenProperties
<1> QED
  BY <1>1 DEF IsSequence

(* What pushing, replacing and popping the last element do. *)
LEMMA PushFrame ==
    ASSUME NEW s, IsSequence(s), NEW x
    PROVE  /\ IsSequence(Append(s, x))
           /\ Len(Append(s, x)) = Len(s) + 1
           /\ \A i \in 1 .. Len(s) : Append(s, x)[i] = s[i]
           /\ Append(s, x)[Len(s) + 1] = x
<1> DEFINE T == {s[i] : i \in 1 .. Len(s)} \union {x}
<1>1. s \in Seq(T)
  BY SequenceIsSeq
<1> HIDE DEF T
<1>2. x \in T
  BY DEF T
<1>3. Append(s, x) \in Seq(T)
  BY <1>1, <1>2
<1>4. IsSequence(Append(s, x))
  BY <1>3, SeqIsSequence
<1> QED
  BY <1>1, <1>2, <1>4

LEMMA ReplaceElement ==
    ASSUME NEW s, IsSequence(s), NEW n \in 1 .. Len(s), NEW x
    PROVE  LET t == [s EXCEPT ![n] = x]
           IN  /\ IsSequence(t)
               /\ Len(t) = Len(s)
               /\ \A i \in 1 .. Len(s) : t[i] = IF i = n THEN x ELSE s[i]
<1> DEFINE T == {s[i] : i \in 1 .. Len(s)} \union {x}
<1>1. s \in Seq(T)
  BY SequenceIsSeq
<1> HIDE DEF T
<1>2. x \in T
  BY DEF T
<1>3. /\ [s EXCEPT ![n] = x] \in Seq(T)
      /\ Len([s EXCEPT ![n] = x]) = Len(s)
      /\ \A i \in 1 .. Len(s) : [s EXCEPT ![n] = x][i] = IF i = n THEN x ELSE s[i]
  BY <1>1, <1>2, ExceptSeq
<1> QED
  BY <1>3, SeqIsSequence

LEMMA ReplaceFrame ==
    ASSUME NEW s, IsSequence(s), Len(s) > 0, NEW x
    PROVE  LET t == [s EXCEPT ![Len(s)] = x]
           IN  /\ IsSequence(t)
               /\ Len(t) = Len(s)
               /\ \A i \in 1 .. Len(s) : t[i] = IF i = Len(s) THEN x ELSE s[i]
<1>1. Len(s) \in 1 .. Len(s)
  BY DEF IsSequence
<1> QED
  BY <1>1, ReplaceElement

LEMMA DropFrame ==
    ASSUME NEW s, IsSequence(s), Len(s) > 0
    PROVE  LET t == SubSeq(s, 1, Len(s) - 1)
           IN  /\ IsSequence(t)
               /\ Len(t) = Len(s) - 1
               /\ \A i \in 1 .. Len(s) - 1 : t[i] = s[i]
<1> DEFINE T == {s[i] : i \in 1 .. Len(s)}
<1>1. /\ \A i \in 1 .. Len(s) - 1 : s[i] \in T
      /\ Len(s) - 1 \in Int
      /\ Len(s) - 1 \in Nat
  BY DEF IsSequence
<1> HIDE DEF T
<1>2. s \in Seq(T)
  BY SequenceIsSeq DEF T
<1>3. SubSeq(s, 1, Len(s) - 1) \in Seq(T)
  BY <1>1, <1>2
<1>4. Len(SubSeq(s, 1, Len(s) - 1)) = Len(s) - 1
  <2>1. CASE Len(s) = 1
    BY <2>1, <1>2, SubSeqEmpty, EmptySeq, SMT
  <2>2. CASE Len(s) > 1
    BY <2>2, <1>1, <1>2
  <2> QED
    BY <2>1, <2>2 DEF IsSequence
<1>5. \A i \in 1 .. Len(s) - 1 : SubSeq(s, 1, Len(s) - 1)[i] = s[i]
  BY <1>1, <1>2
<1> QED
  BY <1>3, <1>4, <1>5, SeqIsSequence

LEMMA EmptyStack ==
    ASSUME NEW s, IsSequence(s)
    PROVE  s = <<>> <=> Len(s) = 0
<1>1. s \in Seq({s[i] : i \in 1 .. Len(s)})
  BY SequenceIsSeq
<1> QED
  BY <1>1, EmptySeq

(* A set of indices of a sequence has a last one. *)
LEMMA LastIndex ==
    ASSUME NEW n \in Nat, NEW I \in SUBSET (1 .. n), I # {}
    PROVE  \E i \in I : \A j \in I : i >= j
<1> DEFINE R == {pair \in Nat \X Nat : pair[1] < pair[2]}
           T == {n - i : i \in I}
<1>1. \E m \in T : \A k \in T : ~(k < m)
  <2>1. T \subseteq Nat /\ T # {}
    <3>1. \A i \in I : n - i \in Nat
      OBVIOUS
    <3> QED
      BY <3>1
  <2>2. IsWellFoundedOn(R, Nat)
    BY NatLessThanWellFounded DEF OpToRel
  <2>3. \E m \in T : \A k \in T : ~(<<k, m>> \in R)
    <3> HIDE DEF T, R
    <3> QED
      BY <2>1, <2>2, WFMin
  <2> QED
    BY <2>1, <2>3
<1>2. PICK i \in I : \A j \in I : i >= j
  <2>1. PICK i \in I : \A k \in T : ~(k < n - i)
    BY <1>1
  <2>2. \A j \in I : ~(n - j < n - i)
    BY <2>1
  <2> QED
    BY <2>1, <2>2
<1> QED
  BY <1>2

(* What holds of 0, and of every number after one it holds of, holds of    *)
(* all numbers up to n.                                                    *)
LEMMA UpTo ==
    ASSUME NEW n \in Nat, NEW S, 0 \in S, \A k \in 0 .. n : k < n /\ k \in S => k + 1 \in S
    PROVE  0 .. n \subseteq S
<1> SUFFICES ASSUME ~(0 .. n \subseteq S) PROVE FALSE
  OBVIOUS
<1> DEFINE I == {i \in 1 .. n : (n + 1) - i \notin S}
<1>1. I # {}
  <2>1. PICK b \in 0 .. n : b \notin S
    OBVIOUS
  <2>2. b # 0
    BY <2>1
  <2>3. (n + 1) - b \in 1 .. n /\ (n + 1) - ((n + 1) - b) = b
    BY <2>2
  <2> QED
    BY <2>1, <2>3
<1>2. PICK i \in I : \A j \in I : i >= j
  <2>1. I \in SUBSET (1 .. n)
    OBVIOUS
  <2> HIDE DEF I
  <2> QED
    BY <1>1, <2>1, LastIndex
<1>3. n - i \in 0 .. n /\ n - i < n /\ (n - i) + 1 = (n + 1) - i
  OBVIOUS
<1>4. n - i \notin S
  BY <1>3
<1>5. n - i # 0
  BY <1>4
<1>6. i + 1 \in 1 .. n /\ (n + 1) - (i + 1) = n - i
  BY <1>5
<1>7. i + 1 \in I
  BY <1>4, <1>6
<1> QED
  BY <1>2, <1>7
=============================================================================
