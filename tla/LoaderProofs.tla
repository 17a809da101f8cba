---------------------------- MODULE LoaderProofs ----------------------------
(***************************************************************************)
(* Proofs about Loader.tla, for any disk and any request: its work list    *)
(* implements the closure of the imports, and explains every import of a   *)
(* file that is kept; the package selector keeps injected tags; the files  *)
(* are those that the arguments name.                                      *)
(***************************************************************************)
EXTENDS LoaderReference, StackLemmas, Integers, FiniteSetTheorems, FunctionTheorems

----------------------------------------------------------------------------
(* Rankings: a strict total order of a finite set ranks its elements one   *)
(* by one, so sorting and filtering keep the elements they are given.      *)

IsStrictOrder(S, before) ==
    /\ \A x \in S : before[x] \subseteq S /\ x \notin before[x]
    /\ \A x, y \in S : x # y => x \in before[y] \/ y \in before[x]
    /\ \A x, y \in S : y \in before[x] => before[y] \subseteq before[x]

LEMMA BelowGrows ==
    ASSUME NEW S, IsFiniteSet(S), NEW before, IsStrictOrder(S, before),
           NEW x \in S, NEW y \in S, x \in before[y]
    PROVE  Cardinality(before[x]) < Cardinality(before[y])
<1>1. before[x] \subseteq before[y] /\ before[y] \subseteq S
  BY DEF IsStrictOrder
<1>2. x \in before[y] /\ x \notin before[x]
  BY DEF IsStrictOrder
<1>3. IsFiniteSet(before[y])
  BY <1>1, FS_Subset
<1>4. /\ IsFiniteSet(before[x])
      /\ Cardinality(before[x]) <= Cardinality(before[y])
      /\ Cardinality(before[y]) # Cardinality(before[x])
  BY <1>1, <1>2, <1>3, FS_Subset
<1>5. Cardinality(before[x]) \in Nat /\ Cardinality(before[y]) \in Nat
  BY <1>3, <1>4, FS_CardinalityType
<1> QED
  BY <1>4, <1>5

LEMMA BelowBound ==
    ASSUME NEW S, IsFiniteSet(S), NEW before, IsStrictOrder(S, before), NEW x \in S
    PROVE  Cardinality(before[x]) \in 0 .. Cardinality(S) - 1
<1>1. before[x] \subseteq S /\ before[x] # S
  BY DEF IsStrictOrder
<1>2. /\ IsFiniteSet(before[x])
      /\ Cardinality(before[x]) <= Cardinality(S)
      /\ Cardinality(S) # Cardinality(before[x])
  BY <1>1, FS_Subset
<1>3. Cardinality(before[x]) \in Nat /\ Cardinality(S) \in Nat
  BY <1>2, FS_CardinalityType
<1> QED
  BY <1>2, <1>3

(* Every rank is taken, by one element. *)
LEMMA RanksTaken ==
    ASSUME NEW S, IsFiniteSet(S), NEW before, IsStrictOrder(S, before)
    PROVE  \A k \in 1 .. Cardinality(S) : \E x \in S : Cardinality(before[x]) = k - 1
<1> DEFINE rank == [x \in S |-> Cardinality(before[x])]
           T == 0 .. Cardinality(S) - 1
<1>1. rank \in [S -> T]
  BY BelowBound
<1>2. \A x, y \in S : rank[x] = rank[y] => x = y
  <2>1. SUFFICES ASSUME NEW x \in S, NEW y \in S, x # y
                 PROVE  Cardinality(before[x]) # Cardinality(before[y])
    BY DEF rank
  <2>2. /\ Cardinality(before[x]) \in Int
        /\ Cardinality(before[y]) \in Int
    BY BelowBound
  <2>3. x \in before[y] \/ y \in before[x]
    BY <2>1 DEF IsStrictOrder
  <2>4. CASE x \in before[y]
    BY <2>2, <2>4, BelowGrows
  <2>5. CASE y \in before[x]
    BY <2>2, <2>5, BelowGrows
  <2> QED
    BY <2>3, <2>4, <2>5
<1>3. Cardinality(S) \in Nat
  BY FS_CardinalityType
<1>4. IsFiniteSet(T) /\ Cardinality(T) = Cardinality(S)
  BY <1>3, FS_Interval
<1>5. rank \in Injection(S, T)
  <2> HIDE DEF rank, T
  <2> QED
    BY <1>1, <1>2, Fun_IsInj
<1>6. rank \in Surjection(S, T)
  <2> HIDE DEF rank, T
  <2> QED
    BY <1>4, <1>5, FS_Injection
<1>7. \A t \in T : \E x \in S : rank[x] = t
  <2> HIDE DEF rank, T
  <2> QED
    BY <1>6, Fun_SurjectionProperties
<1>8. \A k \in 1 .. Cardinality(S) : k - 1 \in T
  BY <1>3
<1> QED
  BY <1>7, <1>8

(* The elements of a set are ranked in their order, all of them. *)
LEMMA RankedElements ==
    ASSUME NEW S, IsFiniteSet(S), NEW before, IsStrictOrder(S, before)
    PROVE  /\ Ranked(S, before) \in [1 .. Cardinality(S) -> S]
           /\ \A x \in S : \E k \in 1 .. Cardinality(S) : Ranked(S, before)[k] = x
           /\ \A k, l \in 1 .. Cardinality(S) : k < l => Ranked(S, before)[k] \in before[Ranked(S, before)[l]]
<1> DEFINE n == Cardinality(S)
           rank(x) == Cardinality(before[x])
<1>1. n \in Nat /\ \A x \in S : rank(x) \in 0 .. n - 1
  BY FS_CardinalityType, BelowBound
<1>2. \A k \in 1 .. n : Ranked(S, before)[k] \in S /\ rank(Ranked(S, before)[k]) = k - 1
  <2>1. \A k \in 1 .. n : \E x \in S : rank(x) = k - 1
    BY RanksTaken
  <2> HIDE DEF rank, n
  <2>2. Ranked(S, before) = [k \in 1 .. n |-> CHOOSE x \in S : rank(x) = k - 1]
    BY DEF Ranked, rank, n
  <2> QED
    BY <2>1, <2>2
<1>3. Ranked(S, before) \in [1 .. n -> S]
  <2>1. Ranked(S, before) = [k \in 1 .. n |-> Ranked(S, before)[k]]
    BY DEF Ranked
  <2> HIDE DEF n
  <2> QED
    BY <1>2, <2>1
<1>4. \A x, y \in S : rank(x) <= rank(y) /\ x # y => x \in before[y]
  <2>1. SUFFICES ASSUME NEW x \in S, NEW y \in S, rank(x) <= rank(y), x # y, x \notin before[y]
                 PROVE  FALSE
    OBVIOUS
  <2>2. y \in before[x]
    BY <2>1 DEF IsStrictOrder
  <2>3. rank(y) < rank(x)
    BY <2>2, BelowGrows
  <2>4. rank(x) \in Int /\ rank(y) \in Int
    BY <1>1
  <2> HIDE DEF rank
  <2> QED
    BY <2>1, <2>3, <2>4
<1>5. \A x \in S : \E k \in 1 .. n : Ranked(S, before)[k] = x
  <2>1. SUFFICES ASSUME NEW x \in S PROVE \E k \in 1 .. n : Ranked(S, before)[k] = x
    OBVIOUS
  <2>2. rank(x) + 1 \in 1 .. n /\ (rank(x) + 1) - 1 = rank(x)
    <3>1. rank(x) \in 0 .. n - 1
      BY <1>1
    <3> HIDE DEF rank, n
    <3> QED
      BY <1>1, <3>1
  <2> DEFINE y == Ranked(S, before)[rank(x) + 1]
  <2>3. y \in S /\ rank(y) = rank(x)
    BY <1>2, <2>2
  <2>4. rank(x) \in Int
    BY <1>1
  <2>5. ~(x \in before[y]) /\ ~(y \in before[x])
    <3> HIDE DEF y
    <3>1. ~(rank(x) < rank(y)) /\ ~(rank(y) < rank(x))
      <4> HIDE DEF rank
      <4> QED
        BY <2>3, <2>4
    <3> QED
      BY <2>3, <3>1, BelowGrows
  <2>6. y = x
    BY <2>3, <2>5 DEF IsStrictOrder
  <2> QED
    BY <2>2, <2>6
<1>6. \A k, l \in 1 .. n : k < l => Ranked(S, before)[k] \in before[Ranked(S, before)[l]]
  <2>1. SUFFICES ASSUME NEW k \in 1 .. n, NEW l \in 1 .. n, k < l
                 PROVE  Ranked(S, before)[k] \in before[Ranked(S, before)[l]]
    OBVIOUS
  <2> DEFINE x == Ranked(S, before)[k]
             y == Ranked(S, before)[l]
  <2>2. x \in S /\ y \in S /\ rank(x) = k - 1 /\ rank(y) = l - 1
    BY <1>2
  <2>3. rank(x) <= rank(y) /\ x # y
    <3> HIDE DEF rank, x, y, n
    <3> QED
      BY <1>1, <2>1, <2>2
  <2> HIDE DEF x, y, rank
  <2>4. x \in before[y]
    BY <1>4, <2>2, <2>3
  <2> QED
    BY <2>4 DEF x, y
<1> QED
  BY <1>3, <1>5, <1>6

(* What is arranged is what was there at the indices: a sequence, of the   *)
(* elements at the indices and of no others.                               *)
LEMMA ArrangedElements ==
    ASSUME NEW s, NEW I, IsFiniteSet(I), NEW before, IsStrictOrder(I, before),
           NEW T, \A i \in I : s[i] \in T
    PROVE  LET t == Arranged(s, I, before)
           IN  /\ t \in Seq(T)
               /\ DOMAIN t = 1 .. Cardinality(I)
               /\ {t[k] : k \in DOMAIN t} = {s[i] : i \in I}
               /\ t = <<>> <=> I = {}
<1> DEFINE n == Cardinality(I)
           order == Ranked(I, before)
           t == [k \in 1 .. n |-> s[order[k]]]
<1>1. n \in Nat /\ (n = 0 <=> I = {})
  BY FS_CardinalityType, FS_EmptySet
<1>2. /\ order \in [1 .. n -> I]
      /\ \A x \in I : \E k \in 1 .. n : order[k] = x
  BY RankedElements
<1> HIDE DEF n, order
<1>3. t \in [1 .. n -> T]
  BY <1>2
<1>4. {t[k] : k \in 1 .. n} = {s[i] : i \in I}
  BY <1>2
<1>5. DOMAIN t = 1 .. n
  OBVIOUS
<1>6. t \in Seq(T) /\ Len(t) = n
  <2> HIDE DEF t
  <2>1. t \in Seq(T)
    BY <1>1, <1>3, SeqDef
  <2>2. Len(t) \in Nat /\ DOMAIN t = 1 .. Len(t)
    BY <2>1, LenProperties
  <2> QED
    BY <1>1, <1>5, <2>1, <2>2
<1>7. t = <<>> <=> I = {}
  <2> HIDE DEF t
  <2> QED
    BY <1>1, <1>6, EmptySeq
<1>8. Arranged(s, I, before) = t
  BY DEF Arranged, n, order
<1> HIDE DEF t
<1> QED
  BY <1>4, <1>5, <1>6, <1>7, <1>8 DEF n

LEMMA AscendingIsStrict ==
    ASSUME NEW I \in SUBSET Int
    PROVE  IsStrictOrder(I, Ascending(I))
<1>1. \A i \in I : Ascending(I)[i] = {j \in I : j < i}
  BY DEF Ascending
<1>2. \A x \in I : Ascending(I)[x] \subseteq I /\ x \notin Ascending(I)[x]
  BY <1>1
<1>3. \A x, y \in I : x # y => x \in Ascending(I)[y] \/ y \in Ascending(I)[x]
  BY <1>1
<1>4. \A x, y \in I : y \in Ascending(I)[x] => Ascending(I)[y] \subseteq Ascending(I)[x]
  <2>1. \A x, y, z \in I : y < x /\ z < y => z < x
    OBVIOUS
  <2> QED
    BY <1>1, <2>1, Zenon
<1> QED
  BY <1>2, <1>3, <1>4 DEF IsStrictOrder

(* A subsequence has the elements at its indices. *)
LEMMA SubsequenceElements ==
    ASSUME NEW n \in Nat, NEW I \in SUBSET (1 .. n), NEW s,
           NEW T, \A i \in I : s[i] \in T
    PROVE  LET t == Subsequence(s, I)
           IN  /\ t \in Seq(T)
               /\ {t[k] : k \in DOMAIN t} = {s[i] : i \in I}
               /\ t = <<>> <=> I = {}
<1>1. IsFiniteSet(1 .. n)
  BY FS_Interval
<1>2. IsFiniteSet(I)
  BY <1>1, FS_Subset
<1>3. IsStrictOrder(I, Ascending(I))
  <2>1. I \subseteq Int
    OBVIOUS
  <2> QED
    BY <2>1, AscendingIsStrict
<1>4. LET t == Arranged(s, I, Ascending(I))
      IN  /\ t \in Seq(T)
          /\ DOMAIN t = 1 .. Cardinality(I)
          /\ {t[k] : k \in DOMAIN t} = {s[i] : i \in I}
          /\ t = <<>> <=> I = {}
  BY <1>2, <1>3, ArrangedElements, Zenon
<1> QED
  BY <1>4 DEF Subsequence


----------------------------------------------------------------------------
(* The inductive invariant *)

(* What is loaded. *)
InputsOK == \E pair \in Loads : volume = pair[1] /\ request = pair[2]

(* The instance is a record of five fields whose files and diagnostics are *)
(* sequences; an import diagnosed as invalid is.                           *)
InstanceOK ==
    /\ instance = [package |-> instance.package, files |-> instance.files, direct |-> instance.direct,
                   imports |-> instance.imports, diagnostics |-> instance.diagnostics]
    /\ IsSequence(instance.files) /\ IsSequence(instance.diagnostics)
    /\ \A path \in Diagnosed("invalid") : ImportKind[path] = "invalid"

(* Arguments and traversals are of paths of the disk, and so are the files *)
(* found before overlays and tags are added.                               *)
ReadingOK ==
    /\ args \in Seq(Arguments)
    /\ walk \in Traversals \union {NONE}
    /\ phase = "args" => files \in Seq(SourceFiles)
    /\ phase \in {"tags", "parse"} =>
          IsSequence(files) /\ \A i \in 1 .. Len(files) : files[i].source.imports \subseteq ImportPaths

(* Nothing is imported before all files are parsed; what a traversal reads *)
(* then is an import.                                                      *)
PhasesOK ==
    /\ phase \in {"args", "tags", "parse"} =>
          visited = {} /\ current = NONE /\ pending = <<>> /\ instance = EmptyInstance
    /\ phase = "imports" /\ walk # NONE => current # NONE

(* The sources found so far in the directory of an import are those of the *)
(* entries that are no longer left.                                        *)
FoundIn(dir) == {Source(name, FALSE, disk.source[name]) : name \in CueFilesIn(dir) \ walk.entries}

CurrentOK ==
    phase = "imports" /\ current # NONE =>
        LET dir == ImportDir[current]
        IN  /\ ImportKind[current] = "local"
            /\ ~walk.recursive
            /\ \/ walk.dirs = <<dir>> /\ walk.entries = {} /\ walk.found = <<>>
               \/ /\ walk.dirs = <<>> /\ disk.kind[dir] = "dir"
                  /\ walk.entries \subseteq disk.entries[dir]
                  /\ ToSet(walk.found) = FoundIn(dir)

LoaderInv == InputsOK /\ TypeOK /\ InstanceOK /\ ReadingOK /\ PhasesOK /\ CurrentOK

(* An import that is settled has a package or one reason why not, an import  *)
(* that is not has neither; what a kept file imports is wanted.            *)
Explained(path) ==
    IF path \in DOMAIN instance.imports THEN Reasons(path) = {}
    ELSE Reasons(path) # {} /\ \A i, j \in Reasons(path) : i = j

Unexplained(path) == path \notin DOMAIN instance.imports /\ Reasons(path) = {}

ExplainedInv ==
    /\ DOMAIN instance.imports \subseteq visited
    /\ \A path \in visited : ImportKind[path] = "local"
    /\ phase = "imports" =>
        /\ \A path \in ImportPaths :
              IF path \in visited \ {current} THEN Explained(path) ELSE Unexplained(path)
        /\ \A source \in Kept : source.imports \subseteq ImportPaths /\ ToLoad(source.imports) \subseteq Wanted
    /\ phase = "done" =>
        /\ \A path \in visited : Explained(path)
        /\ \A source \in Kept : ToLoad(source.imports) \subseteq visited \union Diagnosed("invalid")

----------------------------------------------------------------------------
(* Lemmas: the queue, sorting by name, filtering *)

LEMMA ConcatFrames ==
    ASSUME NEW s, IsSequence(s), NEW t, IsSequence(t)
    PROVE  /\ IsSequence(s \o t)
           /\ Len(s \o t) = Len(s) + Len(t)
           /\ \A i \in 1 .. Len(s) : (s \o t)[i] = s[i]
           /\ \A i \in 1 .. Len(t) : (s \o t)[Len(s) + i] = t[i]
           /\ \A i \in 1 .. Len(s \o t) :
                 \/ i \in 1 .. Len(s) /\ (s \o t)[i] = s[i]
                 \/ \E j \in 1 .. Len(t) : i = Len(s) + j /\ (s \o t)[i] = t[j]
<1> DEFINE T == {s[i] : i \in 1 .. Len(s)} \union {t[i] : i \in 1 .. Len(t)}
<1>1. (\A i \in 1 .. Len(s) : s[i] \in T) /\ (\A i \in 1 .. Len(t) : t[i] \in T)
  OBVIOUS
<1> HIDE DEF T
<1>2. s \in Seq(T) /\ t \in Seq(T)
  BY <1>1, SequenceIsSeq
<1>3. /\ s \o t \in Seq(T)
      /\ Len(s \o t) = Len(s) + Len(t)
      /\ \A i \in 1 .. Len(s) + Len(t) : (s \o t)[i] = IF i <= Len(s) THEN s[i] ELSE t[i - Len(s)]
  BY <1>2, ConcatProperties
<1>4. Len(s) \in Nat /\ Len(t) \in Nat
  BY <1>2, LenProperties
<1>5. \A i \in 1 .. Len(s) + Len(t) :
         i \in 1 .. Len(s) \/ \E j \in 1 .. Len(t) : i = Len(s) + j
  <2>1. SUFFICES ASSUME NEW i \in 1 .. Len(s) + Len(t), ~(i \in 1 .. Len(s))
                 PROVE  \E j \in 1 .. Len(t) : i = Len(s) + j
    OBVIOUS
  <2>2. i - Len(s) \in 1 .. Len(t) /\ i = Len(s) + (i - Len(s))
    BY <1>4, <2>1
  <2> QED
    BY <2>2
<1>6. \A i \in 1 .. Len(s) : (s \o t)[i] = s[i]
  BY <1>3, <1>4
<1>7. \A i \in 1 .. Len(t) : (s \o t)[Len(s) + i] = t[i]
  BY <1>3, <1>4
<1>8. IsSequence(s \o t)
  BY <1>3, SeqIsSequence
<1>9. Len(s \o t) = Len(s) + Len(t)
  BY <1>3
<1>10. \A i \in 1 .. Len(s \o t) :
          \/ i \in 1 .. Len(s) /\ (s \o t)[i] = s[i]
          \/ \E j \in 1 .. Len(t) : i = Len(s) + j /\ (s \o t)[i] = t[j]
  <2> SUFFICES ASSUME NEW i \in 1 .. Len(s) + Len(t)
               PROVE  \/ i \in 1 .. Len(s) /\ (s \o t)[i] = s[i]
                      \/ \E j \in 1 .. Len(t) : i = Len(s) + j /\ (s \o t)[i] = t[j]
    BY <1>9
  <2>1. CASE i \in 1 .. Len(s)
    BY <1>6, <2>1
  <2>2. CASE \E j \in 1 .. Len(t) : i = Len(s) + j
    BY <1>7, <2>2
  <2> QED
    BY <1>5, <2>1, <2>2
<1> QED
  BY <1>6, <1>7, <1>8, <1>9, <1>10, Zenon

LEMMA PushedElements ==
    ASSUME NEW s, IsSequence(s), NEW x
    PROVE  ToSet(Append(s, x)) = ToSet(s) \union {x}
<1> DEFINE t == Append(s, x)
           n == Len(s)
<1>1. /\ IsSequence(t) /\ Len(t) = n + 1
      /\ \A i \in 1 .. n : t[i] = s[i]
      /\ t[n + 1] = x
  BY PushFrame
<1> HIDE DEF t
<1>2. DOMAIN s = 1 .. n /\ DOMAIN t = 1 .. n + 1 /\ n \in Nat
  BY <1>1 DEF IsSequence
<1> HIDE DEF n
<1>3. 1 .. n + 1 = (1 .. n) \union {n + 1}
  BY <1>2
<1>4. {t[i] : i \in 1 .. n + 1} = {t[i] : i \in 1 .. n} \union {t[n + 1]}
  BY <1>3
<1>5. {t[i] : i \in 1 .. n} = {s[i] : i \in 1 .. n}
  BY <1>1
<1> QED
  BY <1>1, <1>2, <1>4, <1>5 DEF t, ToSet

LEMMA ConcatElements ==
    ASSUME NEW s, IsSequence(s), NEW t, IsSequence(t)
    PROVE  ToSet(s \o t) = ToSet(s) \union ToSet(t)
<1> DEFINE u == s \o t
<1>1. /\ IsSequence(u) /\ Len(u) = Len(s) + Len(t)
      /\ \A i \in 1 .. Len(s) : u[i] = s[i]
      /\ \A i \in 1 .. Len(t) : u[Len(s) + i] = t[i]
      /\ \A i \in 1 .. Len(u) :
            \/ i \in 1 .. Len(s) /\ u[i] = s[i]
            \/ \E j \in 1 .. Len(t) : i = Len(s) + j /\ u[i] = t[j]
  BY ConcatFrames
<1> HIDE DEF u
<1>2. /\ DOMAIN s = 1 .. Len(s) /\ DOMAIN t = 1 .. Len(t) /\ DOMAIN u = 1 .. Len(u)
      /\ Len(s) \in Nat /\ Len(t) \in Nat
  BY <1>1 DEF IsSequence
<1>3. \A i \in 1 .. Len(s) : i \in 1 .. Len(u)
  BY <1>1, <1>2
<1>4. \A i \in 1 .. Len(t) : Len(s) + i \in 1 .. Len(u)
  BY <1>1, <1>2
<1>5. ToSet(s) \subseteq ToSet(u)
  BY <1>1, <1>2, <1>3 DEF ToSet
<1>6. ToSet(t) \subseteq ToSet(u)
  <2>1. \A i \in DOMAIN t : \E j \in DOMAIN u : u[j] = t[i]
    BY <1>1, <1>2, <1>4
  <2> QED
    BY <2>1, Zenon DEF ToSet
<1>7. ToSet(u) \subseteq ToSet(s) \union ToSet(t)
  BY <1>1, <1>2 DEF ToSet
<1>8. ToSet(u) = ToSet(s) \union ToSet(t)
  BY <1>5, <1>6, <1>7
<1> QED
  BY <1>8 DEF u

(* Taking the first of a queue. *)
LEMMA QueueTaken ==
    ASSUME NEW T, NEW q \in Seq(T), q # <<>>
    PROVE  /\ Head(q) \in T /\ Tail(q) \in Seq(T)
           /\ ToSet(q) = {Head(q)} \union ToSet(Tail(q))
<1>1. /\ Len(q) \in Nat /\ Len(q) > 0 /\ DOMAIN q = 1 .. Len(q)
      /\ \A i \in 1 .. Len(q) : q[i] \in T
  BY EmptySeq, LenProperties, ElementOfSeq
<1>2. Head(q) = q[1] /\ Head(q) \in T
  BY <1>1, HeadTailProperties
<1>3. /\ Tail(q) \in Seq(T) /\ Len(Tail(q)) = Len(q) - 1
      /\ \A i \in 1 .. Len(Tail(q)) : Tail(q)[i] = q[i + 1]
  BY <1>1, HeadTailProperties
<1>4. DOMAIN Tail(q) = 1 .. Len(q) - 1
  BY <1>3, LenProperties
<1>5. \A i \in 1 .. Len(q) : i = 1 \/ (i - 1 \in 1 .. Len(q) - 1 /\ (i - 1) + 1 = i)
  BY <1>1
<1>6. \A i \in 1 .. Len(q) - 1 : i + 1 \in 1 .. Len(q)
  BY <1>1
<1>7. \A i \in 1 .. Len(q) - 1 : Tail(q)[i] = q[i + 1]
  BY <1>3
<1>8. \A i \in 1 .. Len(q) : q[i] = Head(q) \/ \E j \in 1 .. Len(q) - 1 : Tail(q)[j] = q[i]
  BY <1>2, <1>5, <1>7
<1>9. {q[i] : i \in DOMAIN q} = {Head(q)} \union {Tail(q)[i] : i \in DOMAIN Tail(q)}
  <2>1. {q[i] : i \in DOMAIN q} \subseteq {Head(q)} \union {Tail(q)[i] : i \in DOMAIN Tail(q)}
    BY <1>1, <1>4, <1>8
  <2>2. Head(q) \in {q[i] : i \in DOMAIN q}
    BY <1>1, <1>2
  <2>3. {Tail(q)[i] : i \in DOMAIN Tail(q)} \subseteq {q[i] : i \in DOMAIN q}
    BY <1>1, <1>4, <1>6, <1>7
  <2> QED
    BY <2>1, <2>2, <2>3
<1> QED
  BY <1>2, <1>3, <1>9 DEF ToSet

LEMMA PositionType ==
    ASSUME NEW name \in Paths
    PROVE  Position(NameOrder, name) \in Int
<1>1. DOMAIN NameOrder = 1 .. Len(NameOrder) /\ Len(NameOrder) \in Nat
  BY ImportsAssumption DEF IsSequence
<1>2. \E i \in DOMAIN NameOrder : NameOrder[i] = name
  BY DEF Paths, ToSet
<1>3. Position(NameOrder, name) \in DOMAIN NameOrder
  BY <1>2 DEF Position
<1> QED
  BY <1>1, <1>3

(* Names, and of files of one name their places, order the files.          *)
LEMMA NamedOrder ==
    ASSUME NEW s \in Seq(SourceFiles)
    PROVE  IsStrictOrder(DOMAIN s, NamedBefore(s))
<1> DEFINE I == DOMAIN s
           place(i) == Position(NameOrder, s[i].name)
           before == NamedBefore(s)
<1>1. I = 1 .. Len(s) /\ Len(s) \in Nat
  BY LenProperties
<1>2. \A i \in I : s[i] \in SourceFiles
  BY <1>1, ElementOfSeq
<1>3. \A i \in I : place(i) \in Int
  <2>1. \A i \in I : s[i].name \in Paths
    BY <1>2 DEF SourceFiles
  <2> QED
    BY <2>1, PositionType
<1>4. I \subseteq Int
  BY <1>1
<1>5. before = [i \in I |-> {j \in I : place(j) < place(i) \/ (place(j) = place(i) /\ j < i)}]
  BY DEF NamedBefore
<1> HIDE DEF I, place, before
<1>6. \A i, j \in I : j \in before[i] <=> place(j) < place(i) \/ (place(j) = place(i) /\ j < i)
  BY <1>5
<1>7. \A i \in I : before[i] \subseteq I /\ i \notin before[i]
  BY <1>3, <1>4, <1>5
<1>8. \A i, j \in I : i # j => i \in before[j] \/ j \in before[i]
  BY <1>3, <1>4, <1>6
<1>9. \A i, j, k \in I : j \in before[i] /\ k \in before[j] => k \in before[i]
  BY <1>3, <1>4, <1>6
<1>10. \A i, j \in I : j \in before[i] => before[j] \subseteq before[i]
  BY <1>7, <1>9
<1> QED
  BY <1>7, <1>8, <1>10 DEF IsStrictOrder, I, before

(* Sorting keeps the files. *)
LEMMA SortKeeps ==
    ASSUME NEW s \in Seq(SourceFiles)
    PROVE  /\ SortByName(s) \in Seq(SourceFiles)
           /\ ToSet(SortByName(s)) = ToSet(s)
<1> DEFINE I == DOMAIN s
           before == NamedBefore(s)
<1>1. I = 1 .. Len(s) /\ Len(s) \in Nat
  BY LenProperties
<1>2. \A i \in I : s[i] \in SourceFiles
  BY <1>1, ElementOfSeq
<1>3. IsFiniteSet(I)
  BY <1>1, FS_Interval
<1>4. IsStrictOrder(I, before)
  BY NamedOrder
<1> HIDE DEF I, before
<1>5. LET t == Arranged(s, I, before)
      IN  /\ t \in Seq(SourceFiles)
          /\ DOMAIN t = 1 .. Cardinality(I)
          /\ {t[k] : k \in DOMAIN t} = {s[i] : i \in I}
          /\ t = <<>> <=> I = {}
  BY <1>2, <1>3, <1>4, ArrangedElements, Zenon
<1> QED
  BY <1>5 DEF SortByName, I, before, ToSet

(* The names of an order that are in a set. *)
LEMMA InOrderElements ==
    ASSUME NEW names
    PROVE  /\ InOrder(ImportOrder, names) \in Seq(ImportPaths)
           /\ ToSet(InOrder(ImportOrder, names)) = ImportPaths \intersect names
<1> DEFINE I == {i \in DOMAIN ImportOrder : ImportOrder[i] \in names}
<1>1. DOMAIN ImportOrder = 1 .. Len(ImportOrder) /\ Len(ImportOrder) \in Nat
  BY ImportsAssumption DEF IsSequence
<1>2. I \subseteq 1 .. Len(ImportOrder) /\ \A i \in I : ImportOrder[i] \in ImportPaths
  BY <1>1 DEF ImportPaths, ToSet
<1>3. {ImportOrder[i] : i \in I} = ImportPaths \intersect names
  BY DEF ImportPaths, ToSet
<1> HIDE DEF I
<1>4. LET t == Subsequence(ImportOrder, I)
      IN  /\ t \in Seq(ImportPaths)
          /\ {t[k] : k \in DOMAIN t} = {ImportOrder[i] : i \in I}
          /\ t = <<>> <=> I = {}
  BY <1>1, <1>2, SubsequenceElements, Zenon
<1> QED
  BY <1>3, <1>4 DEF InOrder, ToSet, I

LEMMA FunctionIsSequence ==
    ASSUME NEW s, NEW n \in Nat, DOMAIN s = 1 .. n, s = [i \in DOMAIN s |-> s[i]]
    PROVE  IsSequence(s)
<1> DEFINE T == {s[i] : i \in DOMAIN s}
<1>1. s \in [1 .. n -> T]
  OBVIOUS
<1> HIDE DEF T
<1>2. s \in Seq(T)
  BY <1>1, SeqDef
<1> QED
  BY <1>2, SeqIsSequence

(* What a filter keeps of a sequence. *)
LEMMA KeptFiles ==
    ASSUME NEW s, IsSequence(s), NEW I \in SUBSET DOMAIN s
    PROVE  /\ IsSequence(Subsequence(s, I))
           /\ \A k \in DOMAIN Subsequence(s, I) : \E i \in DOMAIN s : Subsequence(s, I)[k] = s[i]
           /\ \A i \in I : \E k \in DOMAIN Subsequence(s, I) : Subsequence(s, I)[k] = s[i]
<1> DEFINE T == {s[i] : i \in DOMAIN s}
<1>1. DOMAIN s = 1 .. Len(s) /\ Len(s) \in Nat
  BY DEF IsSequence
<1>2. I \in SUBSET (1 .. Len(s)) /\ \A i \in I : s[i] \in T
  BY <1>1
<1> HIDE DEF T
<1>3. LET t == Subsequence(s, I)
      IN  /\ t \in Seq(T)
          /\ {t[k] : k \in DOMAIN t} = {s[i] : i \in I}
          /\ t = <<>> <=> I = {}
  BY <1>1, <1>2, SubsequenceElements, Zenon
<1> DEFINE t == Subsequence(s, I)
<1>4. t \in Seq(T) /\ {t[k] : k \in DOMAIN t} = {s[i] : i \in I}
  BY <1>3, Zenon
<1>5. IsSequence(t)
  BY <1>4, SeqIsSequence
<1>6. t \in Seq(T)
  BY <1>4
<1> HIDE DEF t
<1>8. \A i \in I : \E k \in DOMAIN t : t[k] = s[i]
  BY <1>4
<1>7. \A k \in DOMAIN t : t[k] \in T
  BY <1>6, ElementOfSeq, LenProperties
<1> QED
  BY <1>5, <1>7, <1>8 DEF T, t

(* The files that parse, and the diagnostics of those that do not. *)
LEMMA ParsedFiles ==
    ASSUME NEW s, IsSequence(s)
    PROVE  LET asts == AstFiles(s)
               parsed == {i \in DOMAIN s : s[i].source.parses}
           IN  /\ IsSequence(asts)
               /\ ToSet(asts) = {s[i] : i \in parsed}
               /\ asts = <<>> <=> parsed = {}
<1> DEFINE I == {i \in DOMAIN s : s[i].source.parses}
           T == {s[i] : i \in DOMAIN s}
<1>1. DOMAIN s = 1 .. Len(s) /\ Len(s) \in Nat
  BY DEF IsSequence
<1>2. I \subseteq 1 .. Len(s) /\ \A i \in I : s[i] \in T
  BY <1>1
<1>3. AstFiles(s) = Subsequence(s, I)
  BY DEF AstFiles
<1> HIDE DEF I, T
<1>4. LET t == Subsequence(s, I)
      IN  /\ t \in Seq(T)
          /\ {t[k] : k \in DOMAIN t} = {s[i] : i \in I}
          /\ t = <<>> <=> I = {}
  BY <1>1, <1>2, SubsequenceElements, Zenon
<1>5. IsSequence(AstFiles(s))
  BY <1>3, <1>4, SeqIsSequence
<1> QED
  BY <1>3, <1>4, <1>5 DEF I, ToSet

LEMMA ParseErrors ==
    ASSUME NEW s, IsSequence(s)
    PROVE  /\ IsSequence(ParseDiagnostics(s))
           /\ \A i \in DOMAIN ParseDiagnostics(s) : \E name : ParseDiagnostics(s)[i] = <<"parse", name>>
<1> DEFINE I == {i \in DOMAIN s : ~s[i].source.parses}
           T == {s[i] : i \in DOMAIN s}
           bad == Subsequence(s, I)
<1>1. DOMAIN s = 1 .. Len(s) /\ Len(s) \in Nat
  BY DEF IsSequence
<1>2. I \subseteq 1 .. Len(s) /\ \A i \in I : s[i] \in T
  BY <1>1
<1>3. ParseDiagnostics(s) = [i \in DOMAIN bad |-> <<"parse", bad[i].name>>]
  BY DEF ParseDiagnostics
<1> HIDE DEF I, T
<1>4. LET t == Subsequence(s, I)
      IN  /\ t \in Seq(T)
          /\ {t[k] : k \in DOMAIN t} = {s[i] : i \in I}
          /\ t = <<>> <=> I = {}
  BY <1>1, <1>2, SubsequenceElements, Zenon
<1> HIDE DEF bad
<1>5. DOMAIN bad = 1 .. Len(bad) /\ Len(bad) \in Nat
  BY <1>4, LenProperties DEF bad
<1> DEFINE U == {<<"parse", bad[i].name>> : i \in DOMAIN bad}
<1>6. ParseDiagnostics(s) \in [1 .. Len(bad) -> U]
  BY <1>3, <1>5
<1>7. ParseDiagnostics(s) \in Seq(U)
  <2> HIDE DEF U
  <2> QED
    BY <1>5, <1>6, SeqDef
<1>8. IsSequence(ParseDiagnostics(s))
  <2> HIDE DEF U
  <2> QED
    BY <1>7, SeqIsSequence
<1> QED
  BY <1>3, <1>8

----------------------------------------------------------------------------
(* The invariant: steps that fail and steps that read *)

LEMMA InitInv == ASSUME Init PROVE LoaderInv
<1> USE DEF Init
<1>1. InputsOK
  BY DEF InputsOK
<1>2. NONE \notin Errors /\ <<>> \in Seq(ImportPaths)
  BY NoneAssumption
<1>3. TypeOK
  BY <1>2 DEF TypeOK, Terminal
<1>4. IsSequence(<<>>)
  <2>1. <<>> \in Seq({})
    OBVIOUS
  <2> QED
    BY <2>1, SeqIsSequence
<1>5. InstanceOK
  <2>1. \A i \in DOMAIN instance.diagnostics : FALSE
    BY DEF EmptyInstance
  <2> QED
    BY <1>4, <2>1 DEF InstanceOK, EmptyInstance, Diagnosed
<1>6. args \in Seq(Arguments)
  <2>1. PICK pair \in Loads : args = pair[2].args
    OBVIOUS
  <2>2. IsSequence(args) /\ \A i \in 1 .. Len(args) : args[i] \in Arguments
    <3>1. IsSequence(args)
      BY <2>1, LoadsAssumption
    <3>2. DOMAIN args = 1 .. Len(args)
      BY <3>1 DEF IsSequence
    <3> QED
      BY <2>1, <3>1, <3>2 DEF Arguments, ToSet
  <2> QED
    BY <2>2, SequenceIsSeq
<1>7. ReadingOK
  BY <1>6 DEF ReadingOK
<1>8. PhasesOK /\ CurrentOK
  BY DEF PhasesOK, CurrentOK
<1> QED
  BY <1>1, <1>3, <1>5, <1>7, <1>8 DEF LoaderInv

(* What a step that leaves the instance alone keeps. *)
LEMMA SameInstance ==
    ASSUME LoaderInv, UNCHANGED <<inputs, instance>>
    PROVE  InputsOK' /\ InstanceOK' /\ disk' = disk
<1>1. InputsOK'
  BY DEF LoaderInv, InputsOK, inputs
<1>2. Diagnosed("invalid")' = Diagnosed("invalid")
  BY DEF Diagnosed
<1>3. InstanceOK'
  BY <1>2 DEF LoaderInv, InstanceOK
<1> QED
  BY <1>1, <1>3 DEF disk, inputs

LEMMA FailStep ==
    ASSUME LoaderInv, NEW reason \in Errors, Fail(reason)
    PROVE  LoaderInv'
<1> USE DEF Fail, inputs, resolution
<1>1. InputsOK' /\ InstanceOK'
  BY SameInstance
<1>2. TypeOK'
  <2>1. reason # NONE
    BY NoneAssumption
  <2> QED
    BY <2>1 DEF LoaderInv, TypeOK, Terminal, ToSet
<1>3. ReadingOK'
  BY DEF LoaderInv, ReadingOK
<1>4. PhasesOK' /\ CurrentOK'
  BY DEF PhasesOK, CurrentOK
<1> QED
  BY <1>1, <1>2, <1>3, <1>4 DEF LoaderInv

LEMMA StutterStep ==
    ASSUME LoaderInv, UNCHANGED vars
    PROVE  LoaderInv'
<1> USE DEF vars, inputs, resolution
<1>1. InputsOK' /\ InstanceOK' /\ disk' = disk
  BY SameInstance
<1>2. TypeOK' /\ ReadingOK' /\ PhasesOK'
  BY DEF LoaderInv, TypeOK, ReadingOK, PhasesOK, ToSet
<1>3. CurrentOK'
  BY <1>1 DEF LoaderInv, CurrentOK, FoundIn, CueFilesIn
<1> QED
  BY <1>1, <1>2, <1>3 DEF LoaderInv

(* A step of reading arguments. *)
LEMMA ArgumentStep ==
    ASSUME LoaderInv, phase = "args",
           UNCHANGED <<inputs, phase, error, instance, resolution>>,
           args' \in Seq(Arguments), walk' \in Traversals \union {NONE}, files' \in Seq(SourceFiles)
    PROVE  LoaderInv'
<1> USE DEF inputs, resolution
<1>1. InputsOK' /\ InstanceOK'
  BY SameInstance
<1>2. TypeOK'
  <2>1. walk' # NONE => walk'.entries \subseteq Paths /\ ToSet(walk'.dirs) \subseteq Paths
    <3>1. SUFFICES ASSUME walk' \in Traversals
                   PROVE  walk'.entries \subseteq Paths /\ ToSet(walk'.dirs) \subseteq Paths
      OBVIOUS
    <3>2. walk'.dirs \in Seq(Paths) /\ walk'.entries \subseteq Paths
      BY <3>1 DEF Traversals
    <3> QED
      BY <3>2, LenProperties, ElementOfSeq DEF ToSet
  <2>2. current = NONE
    BY DEF LoaderInv, PhasesOK
  <2> QED
    BY <2>1, <2>2 DEF LoaderInv, TypeOK, Terminal
<1>3. ReadingOK'
  BY DEF LoaderInv, ReadingOK
<1>4. PhasesOK' /\ CurrentOK'
  BY DEF LoaderInv, PhasesOK, CurrentOK
<1> QED
  BY <1>1, <1>2, <1>3, <1>4 DEF LoaderInv

(* Head and tail of the arguments. *)
LEMMA NextArgument ==
    ASSUME LoaderInv, args # <<>>
    PROVE  Head(args).path \in Paths /\ Tail(args) \in Seq(Arguments)
<1>1. args \in Seq(Arguments)
  BY DEF LoaderInv, ReadingOK
<1>2. Head(args) \in Arguments /\ Tail(args) \in Seq(Arguments)
  BY <1>1, QueueTaken
<1> QED
  BY <1>2, LoadsAssumption

LEMMA PathErrors ==
    ASSUME NEW path, PathError(path) # NONE
    PROVE  PathError(path) \in Errors
BY DEF PathError, Errors

LEMMA ContentsOfDisk ==
    ASSUME InputsOK, NEW path \in Paths
    PROVE  disk.source[path] \in Contents /\ volume \in DOMAIN Disks
<1>1. volume \in DOMAIN Disks
  BY LoadsAssumption DEF InputsOK
<1>2. disk.source[path] \in ContentsOn(volume)
  BY DEF disk, ContentsOn
<1> DEFINE all == {ContentsOn(name) : name \in DOMAIN Disks}
<1>3. Contents = Piped \union UNION all
  BY DEF Contents
<1>4. ContentsOn(volume) \in all
  BY <1>1
<1> HIDE DEF all
<1> QED
  BY <1>1, <1>2, <1>3, <1>4

(* Why the bytes of a document are refused is an error of the loader.       *)
LEMMA RefusedErrors ==
    ASSUME InputsOK, NEW path \in Paths, disk.source[path].refused # NONE
    PROVE  disk.source[path].refused \in Errors
BY ContentsOfDisk, ImportsAssumption DEF Errors

LEMMA PipedContents ==
    ASSUME InputsOK, request.stdin # NONE
    PROVE  request.stdin \in Contents
<1>1. PICK pair \in Loads : request = pair[2]
  BY DEF InputsOK
<1>2. request.stdin \in Piped
  BY <1>1 DEF Piped
<1> QED
  BY <1>2 DEF Contents

LEMMA LoadStdinInv == ASSUME LoaderInv, LoadStdin PROVE LoaderInv'
<1> USE DEF LoadStdin, ReadingArgs
<1>1. CASE request.stdin # NONE /\ request.stdin.refused # NONE
  <2>1. request.stdin.refused \in Errors
    BY <1>1, PipedContents, ImportsAssumption DEF LoaderInv, Errors
  <2> QED
    BY <1>1, <2>1, FailStep
<1>2. CASE ~(request.stdin # NONE /\ request.stdin.refused # NONE)
  <2>1. Tail(args) \in Seq(Arguments)
    BY NextArgument
  <2>2. files \in Seq(SourceFiles)
    BY DEF LoaderInv, ReadingOK
  <2>3. request.stdin # NONE => Source("-", TRUE, request.stdin) \in SourceFiles
    <3>1. request.stdin # NONE => request.stdin \in Contents
      BY PipedContents DEF LoaderInv
    <3> QED
      BY <3>1, LoadsAssumption DEF Source, SourceFiles
  <2>4. files' \in Seq(SourceFiles)
    BY <1>2, <2>2, <2>3, AppendProperties
  <2> QED
    BY <1>2, <2>1, <2>4, ArgumentStep
<1> QED
  BY <1>1, <1>2

LEMMA LoadDataInv == ASSUME LoaderInv, LoadData PROVE LoaderInv'
<1> USE DEF LoadData, ReadingArgs
<1> DEFINE path == Head(args).path
<1>1. CASE path # "-" /\ PathError(path) # NONE
  BY <1>1, FailStep, PathErrors
<1>2. CASE ~(path # "-" /\ PathError(path) # NONE)
  <2>1. Tail(args) \in Seq(Arguments)
    BY NextArgument
  <2>2. files \in Seq(SourceFiles)
    BY DEF LoaderInv, ReadingOK
  <2> QED
    BY <1>2, <2>1, <2>2, ArgumentStep
<1> QED
  BY <1>1, <1>2

LEMMA TraverseType ==
    ASSUME NEW dir \in Paths, NEW recursive \in BOOLEAN, NEW found \in Seq(SourceFiles)
    PROVE  Traverse(dir, recursive, found) \in Traversals
<1>1. <<dir>> \in Seq(Paths)
  OBVIOUS
<1> QED
  BY <1>1 DEF Traverse, Traversals

LEMMA LoadPathInv == ASSUME LoaderInv, LoadPath PROVE LoaderInv'
<1> USE DEF LoadPath, ReadingArgs
<1> DEFINE path == Head(args).path
           kind == disk.kind[path]
<1>1. CASE PathError(path) # NONE
  BY <1>1, FailStep, PathErrors
<1>2. CASE PathError(path) = NONE /\ kind = "cue" /\ disk.source[path].refused # NONE
  <2>1. path \in Paths
    BY NextArgument
  <2> QED
    BY <1>2, <2>1, RefusedErrors, FailStep DEF LoaderInv
<1>3. CASE PathError(path) = NONE /\ ~(kind = "cue" /\ disk.source[path].refused # NONE)
  <2>1. path \in Paths /\ Tail(args) \in Seq(Arguments)
    BY NextArgument
  <2>2. files \in Seq(SourceFiles)
    BY DEF LoaderInv, ReadingOK
  <2>3. Source(path, FALSE, disk.source[path]) \in SourceFiles
    BY <2>1, ContentsOfDisk DEF Source, SourceFiles, LoaderInv
  <2>4. files' \in Seq(SourceFiles)
    BY <1>3, <2>2, <2>3, AppendProperties
  <2>5. walk' \in Traversals \union {NONE}
    BY <1>3, <2>1, <2>2, TraverseType
  <2> QED
    BY <1>3, <2>1, <2>4, <2>5, ArgumentStep
<1> QED
  BY <1>1, <1>2, <1>3

LEMMA LoadTreeInv == ASSUME LoaderInv, LoadTree PROVE LoaderInv'
<1> USE DEF LoadTree, ReadingArgs
<1> DEFINE path == Head(args).path
<1>1. CASE PathError(path) # NONE
  BY <1>1, FailStep, PathErrors
<1>2. CASE PathError(path) = NONE
  <2>1. path \in Paths /\ Tail(args) \in Seq(Arguments)
    BY NextArgument
  <2>2. files \in Seq(SourceFiles)
    BY DEF LoaderInv, ReadingOK
  <2>3. walk' \in Traversals
    BY <1>2, <2>1, <2>2, TraverseType
  <2> QED
    BY <1>2, <2>1, <2>2, <2>3, ArgumentStep
<1> QED
  BY <1>1, <1>2

LEMMA FinishArgumentInv == ASSUME LoaderInv, FinishArgument PROVE LoaderInv'
<1> USE DEF FinishArgument, DirectoryRead
<1>1. phase = "args"
  BY DEF LoaderInv, TypeOK, PhasesOK, Terminal
<1>2. walk \in Traversals /\ args \in Seq(Arguments)
  BY DEF LoaderInv, ReadingOK
<1>3. walk.found \in Seq(SourceFiles)
  BY <1>2 DEF Traversals
<1>4. files' \in Seq(SourceFiles)
  BY <1>3, SortKeeps
<1> QED
  BY <1>1, <1>2, <1>4, ArgumentStep

----------------------------------------------------------------------------
(* The invariant: traversals *)

(* A step of the traversal of an import's directory. *)
LEMMA WalkStep ==
    ASSUME LoaderInv, phase = "imports", walk # NONE,
           UNCHANGED <<inputs, phase, error, args, files, instance, resolution>>,
           walk' \in Traversals, CurrentOK'
    PROVE  LoaderInv'
<1> USE DEF inputs, resolution
<1>1. InputsOK' /\ InstanceOK'
  BY SameInstance
<1>2. walk' # NONE
  BY NoneAssumption
<1>3. TypeOK'
  <2>1. walk'.dirs \in Seq(Paths) /\ walk'.entries \subseteq Paths
    BY DEF Traversals
  <2>2. ToSet(walk'.dirs) \subseteq Paths
    BY <2>1, LenProperties, ElementOfSeq DEF ToSet
  <2> QED
    BY <1>2, <2>1, <2>2 DEF LoaderInv, TypeOK, Terminal
<1>4. ReadingOK'
  BY DEF LoaderInv, ReadingOK
<1>5. PhasesOK'
  BY DEF LoaderInv, PhasesOK
<1> QED
  BY <1>1, <1>3, <1>4, <1>5 DEF LoaderInv

LEMMA TraversalType ==
    ASSUME LoaderInv, walk # NONE, phase \notin Terminal
    PROVE  /\ walk = [dirs |-> walk.dirs, entries |-> walk.entries, recursive |-> walk.recursive,
                      found |-> walk.found]
           /\ walk.dirs \in Seq(Paths) /\ walk.entries \subseteq Paths
           /\ walk.recursive \in BOOLEAN /\ walk.found \in Seq(SourceFiles)
           /\ phase = "args" \/ (phase = "imports" /\ current # NONE)
<1>1. walk \in Traversals
  BY DEF LoaderInv, ReadingOK
<1>2. phase = "args" \/ (phase = "imports" /\ current # NONE)
  BY DEF LoaderInv, TypeOK, PhasesOK, Terminal
<1> QED
  BY <1>1, <1>2 DEF Traversals

LEMMA LastDirectory ==
    ASSUME NEW dirs \in Seq(Paths), dirs # <<>>
    PROVE  Last(dirs) \in Paths /\ Front(dirs) \in Seq(Paths)
<1>1. Len(dirs) \in Nat /\ Len(dirs) > 0 /\ \A i \in 1 .. Len(dirs) : dirs[i] \in Paths
  BY EmptySeq, LenProperties, ElementOfSeq
<1>2. IsSequence(dirs)
  BY SeqIsSequence
<1>3. /\ IsSequence(Front(dirs)) /\ Len(Front(dirs)) = Len(dirs) - 1
      /\ \A i \in 1 .. Len(dirs) - 1 : Front(dirs)[i] = dirs[i]
  BY <1>1, <1>2, DropFrame DEF Front
<1>4. \A i \in 1 .. Len(Front(dirs)) : Front(dirs)[i] \in Paths
  BY <1>1, <1>3
<1>5. Front(dirs) \in Seq(Paths)
  BY <1>3, <1>4, SequenceIsSeq
<1> QED
  BY <1>1, <1>5 DEF Last

LEMMA OpenDirectoryInv == ASSUME LoaderInv, OpenDirectory PROVE LoaderInv'
<1> USE DEF OpenDirectory
<1> DEFINE dir == Last(walk.dirs)
<1>1. CASE disk.kind[dir] # "dir"
  BY <1>1, FailStep DEF Errors
<1>2. CASE disk.kind[dir] = "dir"
  <2>1. dir \in Paths /\ Front(walk.dirs) \in Seq(Paths)
    BY TraversalType, LastDirectory
  <2>2. disk.entries[dir] \subseteq Paths
    BY <1>2, <2>1, ContentsOfDisk, DisksAssumption DEF disk, LoaderInv
  <2>3. walk' = [dirs |-> Front(walk.dirs), entries |-> disk.entries[dir],
                 recursive |-> walk.recursive, found |-> walk.found]
    BY <1>2, TraversalType
  <2>4. walk' \in Traversals
    BY <2>1, <2>2, <2>3, TraversalType DEF Traversals
  <2>5. CASE phase = "args"
    <3>1. args \in Seq(Arguments) /\ files \in Seq(SourceFiles)
      BY <2>5 DEF LoaderInv, ReadingOK
    <3> QED
      BY <1>2, <2>4, <2>5, <3>1, ArgumentStep
  <2>6. CASE phase = "imports" /\ current # NONE
    <3> DEFINE from == ImportDir[current]
    <3>1. /\ ImportKind[current] = "local" /\ ~walk.recursive
          /\ walk.dirs = <<from>> /\ walk.found = <<>>
      BY <2>6 DEF LoaderInv, CurrentOK
    <3>2. dir = from /\ Front(walk.dirs) = <<>>
      BY <3>1 DEF Last, Front
    <3>3. disk' = disk /\ current' = current
      BY <1>2 DEF disk, inputs, resolution
    <3>4. FoundIn(from)' = {}
      BY <2>3, <3>2, <3>3 DEF FoundIn, CueFilesIn
    <3>5. ToSet(walk'.found) = {}
      BY <2>3, <3>1 DEF ToSet
    <3>6. CurrentOK'
      BY <1>2, <2>3, <3>1, <3>2, <3>3, <3>4, <3>5 DEF CurrentOK
    <3> QED
      BY <1>2, <2>4, <2>6, <3>6, WalkStep
  <2> QED
    BY <2>5, <2>6, TraversalType
<1> QED
  BY <1>1, <1>2

LEMMA VisitEntryInv == ASSUME LoaderInv, NEW path \in Paths, VisitEntry(path) PROVE LoaderInv'
<1> USE DEF VisitEntry
<1> DEFINE kind == disk.kind[path]
           file == Source(path, FALSE, disk.source[path])
<1>1. CASE kind = "link"
  BY <1>1, FailStep DEF Errors
<1>2. CASE kind # "link" /\ kind = "cue" /\ disk.source[path].refused # NONE
  BY <1>2, RefusedErrors, FailStep DEF LoaderInv
<1>3. CASE kind # "link" /\ ~(kind = "cue" /\ disk.source[path].refused # NONE)
  <2>1. walk' = [dirs |-> IF kind = "dir" /\ walk.recursive THEN Append(walk.dirs, path) ELSE walk.dirs,
                 entries |-> walk.entries \ {path}, recursive |-> walk.recursive,
                 found |-> IF kind = "cue" THEN Append(walk.found, file) ELSE walk.found]
    BY <1>3, TraversalType
  <2>2. file \in SourceFiles
    BY ContentsOfDisk DEF Source, SourceFiles, LoaderInv
  <2>3. Append(walk.dirs, path) \in Seq(Paths) /\ Append(walk.found, file) \in Seq(SourceFiles)
    BY <2>2, TraversalType, AppendProperties
  <2>4. walk' \in Traversals
    BY <2>1, <2>3, TraversalType DEF Traversals
  <2>5. CASE phase = "args"
    <3>1. args \in Seq(Arguments) /\ files \in Seq(SourceFiles)
      BY <2>5 DEF LoaderInv, ReadingOK
    <3> QED
      BY <1>3, <2>4, <2>5, <3>1, ArgumentStep
  <2>6. CASE phase = "imports" /\ current # NONE
    <3> DEFINE from == ImportDir[current]
    <3>1. /\ ImportKind[current] = "local" /\ ~walk.recursive
          /\ walk.dirs = <<>> /\ disk.kind[from] = "dir"
          /\ walk.entries \subseteq disk.entries[from]
          /\ ToSet(walk.found) = FoundIn(from)
      BY <2>6 DEF LoaderInv, CurrentOK
    <3>2. disk' = disk /\ current' = current
      BY <1>3 DEF disk, inputs, resolution
    <3>3. FoundIn(from)' = {Source(name, FALSE, disk.source[name]) :
                               name \in CueFilesIn(from) \ (walk.entries \ {path})}
      BY <2>1, <3>2 DEF FoundIn, CueFilesIn
    <3>4. ToSet(walk'.found) = FoundIn(from)'
      <4>1. CASE kind = "cue"
        <5>1. path \in CueFilesIn(from)
          BY <3>1, <4>1 DEF CueFilesIn
        <5>2. FoundIn(from)' = FoundIn(from) \union {file}
          BY <3>3, <5>1 DEF FoundIn
        <5>3. walk'.found = Append(walk.found, file)
          BY <2>1, <4>1
        <5>4. IsSequence(walk.found)
          BY TraversalType, SeqIsSequence
        <5>5. ToSet(walk'.found) = ToSet(walk.found) \union {file}
          BY <5>3, <5>4, PushedElements
        <5> QED
          BY <3>1, <5>2, <5>5
      <4>2. CASE kind # "cue"
        <5>1. path \notin CueFilesIn(from)
          BY <4>2 DEF CueFilesIn
        <5>2. FoundIn(from)' = FoundIn(from)
          BY <3>3, <5>1 DEF FoundIn
        <5>3. walk'.found = walk.found
          BY <2>1, <4>2
        <5> QED
          BY <3>1, <5>2, <5>3
      <4> QED
        BY <4>1, <4>2
    <3>5. CurrentOK'
      BY <1>3, <2>1, <3>1, <3>2, <3>4 DEF CurrentOK
    <3> QED
      BY <1>3, <2>4, <2>6, <3>5, WalkStep
  <2> QED
    BY <2>5, <2>6, TraversalType
<1> QED
  BY <1>1, <1>2, <1>3

----------------------------------------------------------------------------
(* The invariant: overlays, tags, parsing *)

LEMMA KnownImports ==
    ASSUME NEW file \in SourceFiles
    PROVE  file.source.imports \subseteq ImportPaths
BY ImportsAssumption DEF SourceFiles

LEMMA PhaseStep ==
    ASSUME LoaderInv, phase \in {"args", "tags"}, walk = NONE, args = <<>>,
           phase' \in {"tags", "parse"}, UNCHANGED <<inputs, error, args, walk, instance, resolution>>,
           IsSequence(files'),
           \A i \in 1 .. Len(files') : files'[i].source.imports \subseteq ImportPaths
    PROVE  LoaderInv'
<1> USE DEF inputs, resolution
<1>1. InputsOK' /\ InstanceOK'
  BY SameInstance
<1>2. TypeOK' /\ PhasesOK'
  BY DEF LoaderInv, TypeOK, PhasesOK, Terminal
<1>3. ReadingOK'
  BY DEF LoaderInv, ReadingOK
<1>4. CurrentOK'
  BY DEF CurrentOK
<1> QED
  BY <1>1, <1>2, <1>3, <1>4 DEF LoaderInv

LEMMA AddOverlaysInv == ASSUME LoaderInv, AddOverlays PROVE LoaderInv'
<1> USE DEF AddOverlays
<1>1. CASE \E i \in DOMAIN request.overlays : request.overlays[i].dotdot
  BY <1>1, FailStep DEF Errors
<1>2. CASE ~\E i \in DOMAIN request.overlays : request.overlays[i].dotdot
  <2> DEFINE overlays == request.overlays
             file(i) == Source(overlays[i].name, TRUE, overlays[i].source)
             added == [i \in DOMAIN overlays |-> file(i)]
             U == {file(i) : i \in DOMAIN overlays}
  <2>1. IsSequence(overlays) /\ \A i \in DOMAIN overlays : overlays[i].source.imports \subseteq ImportPaths
    <3>1. PICK pair \in Loads : request = pair[2]
      BY DEF LoaderInv, InputsOK
    <3> QED
      BY <3>1, LoadsAssumption
  <2>2. DOMAIN overlays = 1 .. Len(overlays) /\ Len(overlays) \in Nat
    BY <2>1 DEF IsSequence
  <2>3. added \in [1 .. Len(overlays) -> U]
    BY <2>2
  <2>4. added \in Seq(U)
    <3> HIDE DEF added, U
    <3> QED
      BY <2>2, <2>3, SeqDef
  <2>5. IsSequence(added)
    <3> HIDE DEF added, U
    <3> QED
      BY <2>4, SeqIsSequence
  <2>6. \A i \in DOMAIN added : added[i].source.imports \subseteq ImportPaths
    BY <2>1 DEF Source
  <2>7. files \in Seq(SourceFiles)
    BY DEF LoaderInv, ReadingOK
  <2>8. IsSequence(files) /\ \A i \in 1 .. Len(files) : files[i].source.imports \subseteq ImportPaths
    BY <2>7, SeqIsSequence, ElementOfSeq, KnownImports
  <2>9. files' = files \o added
    BY <1>2
  <2> HIDE DEF added, overlays
  <2>10. DOMAIN added = 1 .. Len(added)
    BY <2>5 DEF IsSequence
  <2>11. /\ IsSequence(files \o added)
         /\ \A i \in 1 .. Len(files \o added) :
              \/ i \in 1 .. Len(files) /\ (files \o added)[i] = files[i]
              \/ \E j \in 1 .. Len(added) : i = Len(files) + j /\ (files \o added)[i] = added[j]
    BY <2>5, <2>8, ConcatFrames
  <2>12. /\ IsSequence(files')
         /\ \A i \in 1 .. Len(files') : files'[i].source.imports \subseteq ImportPaths
    BY <2>6, <2>8, <2>9, <2>10, <2>11
  <2> QED
    BY <1>2, <2>12, PhaseStep
<1> QED
  BY <1>1, <1>2

LEMMA PushTagsInv == ASSUME LoaderInv, PushTags PROVE LoaderInv'
<1> USE DEF PushTags
<1>1. CASE DOMAIN request.tags # {} /\ ~request.tagsValid
  BY <1>1, FailStep DEF Errors
<1>2. CASE ~(DOMAIN request.tags # {} /\ ~request.tagsValid) /\ Cardinality(DOMAIN Injections) > TagsLimit
  BY <1>2, FailStep DEF Errors, Refusals
<1>3. CASE /\ ~(DOMAIN request.tags # {} /\ ~request.tagsValid)
           /\ ~(Cardinality(DOMAIN Injections) > TagsLimit)
  <2> DEFINE file == Source("tags.cue", TRUE, TagsSource(Injections))
  <2>1. IsSequence(files) /\ \A i \in 1 .. Len(files) : files[i].source.imports \subseteq ImportPaths
    BY DEF LoaderInv, ReadingOK
  <2>2. walk = NONE /\ args = <<>>
    BY DEF LoaderInv, TypeOK
  <2>3. file.source.imports \subseteq ImportPaths
    BY DEF Source, TagsSource
  <2>4. files' = files \/ files' = Append(files, file)
    BY <1>3
  <2> HIDE DEF file
  <2>5. /\ IsSequence(Append(files, file))
        /\ \A i \in 1 .. Len(Append(files, file)) : Append(files, file)[i].source.imports \subseteq ImportPaths
    <3>1. /\ IsSequence(Append(files, file)) /\ Len(Append(files, file)) = Len(files) + 1
          /\ \A i \in 1 .. Len(files) : Append(files, file)[i] = files[i]
          /\ Append(files, file)[Len(files) + 1] = file
      BY <2>1, PushFrame
    <3>2. Len(files) \in Nat
      BY <2>1 DEF IsSequence
    <3>3. \A i \in 1 .. Len(Append(files, file)) : i \in 1 .. Len(files) \/ i = Len(files) + 1
      BY <3>1, <3>2
    <3> QED
      BY <2>1, <2>3, <3>1, <3>3
  <2>6. /\ IsSequence(files')
        /\ \A i \in 1 .. Len(files') : files'[i].source.imports \subseteq ImportPaths
    BY <2>1, <2>4, <2>5
  <2> QED
    BY <1>3, <2>2, <2>6, PhaseStep
<1> QED
  BY <1>1, <1>2, <1>3

(* Who is diagnosed. *)
LEMMA DiagnosedPaths ==
    ASSUME NEW code
    PROVE  \A path : path \in Diagnosed(code) <=> path \in ImportPaths /\ <<code, path>> \in ToSet(instance.diagnostics)
BY DEF Diagnosed, ToSet

LEMMA ParseErrorsOnly ==
    ASSUME NEW s, IsSequence(s), NEW code, code # "parse"
    PROVE  \A path : <<code, path>> \notin ToSet(ParseDiagnostics(s))
<1>1. SUFFICES ASSUME NEW path, NEW i \in DOMAIN ParseDiagnostics(s)
               PROVE  ParseDiagnostics(s)[i] # <<code, path>>
  BY DEF ToSet
<1>2. PICK name : ParseDiagnostics(s)[i] = <<"parse", name>>
  BY ParseErrors
<1> QED
  BY <1>2

(* What parsing makes of the files. *)
LEMMA ParsedInstance ==
    ASSUME LoaderInv, ParseFiles
    PROVE  LET asts == AstFiles(files)
           IN  /\ IsSequence(files)
               /\ instance' = [package |-> PackageNameFor(asts), files |-> asts, direct |-> DirectImports(asts),
                               imports |-> <<>>, diagnostics |-> ParseDiagnostics(files)]
               /\ pending' \in Seq(ImportPaths)
               /\ ToSet(pending') = ImportPaths \intersect DirectImports(asts)
               /\ Diagnosed("invalid")' = {}
<1> USE DEF ParseFiles
<1> DEFINE asts == AstFiles(files)
<1>1. IsSequence(files)
  BY DEF LoaderInv, ReadingOK
<1>2. instance' = [package |-> PackageNameFor(asts), files |-> asts, direct |-> DirectImports(asts),
                   imports |-> <<>>, diagnostics |-> ParseDiagnostics(files)]
  BY DEF EmptyInstance
<1>3. pending' = InOrder(ImportOrder, DirectImports(asts))
  OBVIOUS
<1>4. pending' \in Seq(ImportPaths) /\ ToSet(pending') = ImportPaths \intersect DirectImports(asts)
  BY <1>3, InOrderElements
<1>5. \A path : <<"invalid", path>> \notin ToSet(instance'.diagnostics)
  BY <1>1, <1>2, ParseErrorsOnly
<1>6. Diagnosed("invalid")' = {}
  BY <1>5 DEF Diagnosed, ToSet
<1> QED
  BY <1>1, <1>2, <1>4, <1>6

LEMMA ParseFilesInv == ASSUME LoaderInv, ParseFiles PROVE LoaderInv'
<1> DEFINE asts == AstFiles(files)
<1>1. /\ IsSequence(files)
      /\ instance' = [package |-> PackageNameFor(asts), files |-> asts, direct |-> DirectImports(asts),
                      imports |-> <<>>, diagnostics |-> ParseDiagnostics(files)]
      /\ pending' \in Seq(ImportPaths)
      /\ Diagnosed("invalid")' = {}
  BY ParsedInstance
<1> USE DEF ParseFiles, inputs
<1>2. walk = NONE /\ args = <<>> /\ visited = {} /\ current = NONE
  BY DEF LoaderInv, TypeOK, PhasesOK
<1>3. InputsOK'
  BY DEF LoaderInv, InputsOK
<1>4. IsSequence(instance'.files) /\ IsSequence(instance'.diagnostics)
  BY <1>1, ParseErrors, ParsedFiles
<1>5. InstanceOK'
  BY <1>1, <1>4 DEF InstanceOK
<1>6. TypeOK'
  BY <1>1, <1>2 DEF LoaderInv, TypeOK, Terminal
<1>7. ReadingOK'
  BY DEF LoaderInv, ReadingOK
<1>8. PhasesOK' /\ CurrentOK'
  BY <1>2 DEF PhasesOK, CurrentOK
<1> QED
  BY <1>3, <1>5, <1>6, <1>7, <1>8 DEF LoaderInv

----------------------------------------------------------------------------
(* The invariant: imports *)

LEMMA TakeImport ==
    ASSUME LoaderInv, NEW kind, NextImport(kind)
    PROVE  /\ current = NONE
           /\ pending \in Seq(ImportPaths) /\ pending # <<>>
           /\ Head(pending) \in ImportPaths /\ Tail(pending) \in Seq(ImportPaths)
           /\ ToSet(pending) = {Head(pending)} \union ToSet(Tail(pending))
<1>1. pending \in Seq(ImportPaths) /\ pending # <<>> /\ current = NONE
  BY DEF LoaderInv, TypeOK, NextImport
<1> QED
  BY <1>1, QueueTaken

LEMMA ImportStep ==
    ASSUME LoaderInv, phase = "imports", UNCHANGED <<inputs, phase, error, args>>,
           InstanceOK', pending' \in Seq(ImportPaths), visited' \subseteq ImportPaths,
           walk' \in Traversals \union {NONE}, current' # NONE => current' \in visited',
           walk' = NONE <=> current' = NONE, CurrentOK'
    PROVE  LoaderInv'
<1> USE DEF inputs
<1>1. InputsOK'
  BY DEF LoaderInv, InputsOK
<1>2. walk' # NONE => walk'.entries \subseteq Paths /\ ToSet(walk'.dirs) \subseteq Paths
  <2>1. SUFFICES ASSUME walk' \in Traversals
                 PROVE  walk'.entries \subseteq Paths /\ ToSet(walk'.dirs) \subseteq Paths
    OBVIOUS
  <2>2. walk'.dirs \in Seq(Paths) /\ walk'.entries \subseteq Paths
    BY <2>1 DEF Traversals
  <2> QED
    BY <2>2, LenProperties, ElementOfSeq DEF ToSet
<1>3. TypeOK'
  BY <1>2 DEF LoaderInv, TypeOK, Terminal
<1>4. ReadingOK'
  BY DEF LoaderInv, ReadingOK
<1>5. PhasesOK'
  BY DEF PhasesOK
<1> QED
  BY <1>1, <1>3, <1>4, <1>5 DEF LoaderInv

(* A step of the queue that reads nothing. *)
LEMMA QueueStep ==
    ASSUME LoaderInv, NEW kind, NextImport(kind), UNCHANGED <<inputs, phase, error, args, walk, current>>,
           pending' \in Seq(ImportPaths), visited' \subseteq ImportPaths, InstanceOK'
    PROVE  LoaderInv'
<1>1. walk = NONE /\ current = NONE /\ phase = "imports"
  BY TakeImport DEF NextImport
<1>2. CurrentOK'
  BY <1>1 DEF CurrentOK
<1> QED
  BY <1>1, <1>2, ImportStep

LEMMA SkipImportInv == ASSUME LoaderInv, SkipImport PROVE LoaderInv'
<1> USE DEF SkipImport
<1>1. PICK kind \in {"builtin", "plain"} : NextImport(kind)
  OBVIOUS
<1>2. InstanceOK'
  BY SameInstance
<1>3. pending' \in Seq(ImportPaths) /\ visited' \subseteq ImportPaths
  BY <1>1, TakeImport DEF LoaderInv, TypeOK
<1> QED
  BY <1>1, <1>2, <1>3, QueueStep

LEMMA SkipVisitedInv == ASSUME LoaderInv, SkipVisited PROVE LoaderInv'
<1> USE DEF SkipVisited
<1>1. InstanceOK'
  BY SameInstance
<1>2. pending' \in Seq(ImportPaths) /\ visited' \subseteq ImportPaths
  BY TakeImport DEF LoaderInv, TypeOK
<1> QED
  BY <1>1, <1>2, QueueStep

(* Appending a diagnostic. *)
LEMMA DiagnosedGrows ==
    ASSUME InstanceOK, NEW code, NEW path, instance' = Diagnose(code, path)
    PROVE  /\ instance' = [package |-> instance.package, files |-> instance.files, direct |-> instance.direct,
                           imports |-> instance.imports,
                           diagnostics |-> Append(instance.diagnostics, <<code, path>>)]
           /\ IsSequence(instance'.diagnostics)
           /\ \A c : \A p : p \in Diagnosed(c)'
                    <=> p \in Diagnosed(c) \/ (p \in ImportPaths /\ c = code /\ p = path)
<1>1. instance' = [package |-> instance.package, files |-> instance.files, direct |-> instance.direct,
                   imports |-> instance.imports,
                   diagnostics |-> Append(instance.diagnostics, <<code, path>>)]
  BY DEF InstanceOK, Diagnose
<1>2. IsSequence(instance.diagnostics)
  BY DEF InstanceOK
<1>3. /\ IsSequence(Append(instance.diagnostics, <<code, path>>))
      /\ ToSet(Append(instance.diagnostics, <<code, path>>)) = ToSet(instance.diagnostics) \union {<<code, path>>}
  BY <1>2, PushFrame, PushedElements
<1>4. ToSet(instance'.diagnostics) = ToSet(instance.diagnostics) \union {<<code, path>>}
  BY <1>1, <1>3
<1>5. ASSUME NEW c, NEW p
      PROVE  p \in Diagnosed(c)' <=> p \in Diagnosed(c) \/ (p \in ImportPaths /\ c = code /\ p = path)
  <2>1. p \in Diagnosed(c) <=> p \in ImportPaths /\ <<c, p>> \in ToSet(instance.diagnostics)
    BY DiagnosedPaths
  <2>2. p \in Diagnosed(c)' <=> p \in ImportPaths /\ <<c, p>> \in ToSet(instance'.diagnostics)
    BY DEF Diagnosed, ToSet
  <2>3. <<c, p>> = <<code, path>> <=> c = code /\ p = path
    OBVIOUS
  <2> QED
    BY <1>4, <2>1, <2>2, <2>3
<1> QED
  BY <1>1, <1>3, <1>5

LEMMA RejectImportInv == ASSUME LoaderInv, RejectImport PROVE LoaderInv'
<1> USE DEF RejectImport
<1>1. pending' \in Seq(ImportPaths) /\ visited' \subseteq ImportPaths
  BY TakeImport DEF LoaderInv, TypeOK
<1>2. ImportKind[Head(pending)] = "invalid"
  BY DEF NextImport
<1>3. InstanceOK'
  BY <1>2, DiagnosedGrows DEF LoaderInv, InstanceOK
<1> QED
  BY <1>1, <1>3, QueueStep

LEMMA OpenImportInv == ASSUME LoaderInv, OpenImport PROVE LoaderInv'
<1> USE DEF OpenImport
<1> DEFINE path == Head(pending)
           kind == disk.kind[ImportDir[path]]
<1>1. CASE kind = "link"
  BY <1>1, FailStep DEF Errors
<1>2. CASE kind = "outside"
  BY <1>2, FailStep DEF Errors
<1>3. CASE kind \notin {"link", "outside"}
  <2>1. pending' \in Seq(ImportPaths) /\ visited' \subseteq ImportPaths
    BY <1>3, TakeImport DEF LoaderInv, TypeOK
  <2>2. CASE kind = "none"
    <3>1. instance' = Diagnose("missing", path)
      BY <1>3, <2>2
    <3>2. InstanceOK'
      BY <3>1, DiagnosedGrows DEF LoaderInv, InstanceOK
    <3> QED
      BY <1>3, <2>1, <2>2, <3>2, QueueStep
  <2>3. CASE kind # "none"
    <3> DEFINE dir == ImportDir[path]
    <3>1. path \in ImportPaths /\ ImportKind[path] = "local" /\ dir \in Paths
      BY TakeImport, ImportsAssumption DEF NextImport
    <3>2. walk' = Traverse(dir, FALSE, <<>>) /\ current' = path /\ visited' = visited \union {path}
      BY <1>3, <2>3
    <3>3. walk' \in Traversals
      <4>1. <<>> \in Seq(SourceFiles)
        OBVIOUS
      <4> QED
        BY <3>1, <3>2, <4>1, TraverseType
    <3>4. walk' # NONE /\ current' # NONE
      BY <3>1, <3>2, <3>3, NoneAssumption
    <3>5. InstanceOK'
      BY <1>3, <2>3, SameInstance
    <3>6. CurrentOK'
      BY <3>1, <3>2 DEF CurrentOK, Traverse
    <3>7. phase = "imports"
      BY DEF NextImport
    <3> QED
      BY <1>3, <2>1, <3>2, <3>3, <3>4, <3>5, <3>6, <3>7, ImportStep
  <2> QED
    BY <2>2, <2>3
<1> QED
  BY <1>1, <1>2, <1>3

(* What the end of a directory makes of the sources found in it. *)
LEMMA ImportRead ==
    ASSUME LoaderInv, FinishImport
    PROVE  LET sources == SortByName(walk.found)
               asts == AstFiles(sources)
           IN  /\ phase = "imports" /\ ImportKind[current] = "local"
               /\ IsSequence(sources) /\ IsSequence(asts)
               /\ {asts[i].source : i \in DOMAIN asts} = SourcesOf(current)
               /\ asts = <<>> <=> SourcesOf(current) = {}
               /\ \A source \in SourcesOf(current) : source.imports \subseteq ImportPaths
<1> USE DEF FinishImport, DirectoryRead
<1> DEFINE sources == SortByName(walk.found)
           asts == AstFiles(sources)
           dir == ImportDir[current]
<1>1. phase = "imports"
  BY DEF LoaderInv, TypeOK, Terminal
<1>2. /\ ImportKind[current] = "local" /\ disk.kind[dir] = "dir"
      /\ ToSet(walk.found) = FoundIn(dir)
  BY <1>1 DEF LoaderInv, CurrentOK
<1>3. FoundIn(dir) = {Source(name, FALSE, disk.source[name]) : name \in CueFilesIn(dir)}
  BY DEF FoundIn
<1>4. sources \in Seq(SourceFiles) /\ ToSet(sources) = ToSet(walk.found)
  BY TraversalType, SortKeeps
<1>5. IsSequence(sources) /\ DOMAIN sources = 1 .. Len(sources)
  BY <1>4, SeqIsSequence DEF IsSequence
<1> HIDE DEF sources, FinishImport, DirectoryRead
<1>6. /\ IsSequence(asts)
      /\ ToSet(asts) = {sources[i] : i \in {i \in DOMAIN sources : sources[i].source.parses}}
      /\ asts = <<>> <=> {i \in DOMAIN sources : sources[i].source.parses} = {}
  BY <1>5, ParsedFiles
<1>7. \A i \in DOMAIN sources : \E name \in CueFilesIn(dir) : sources[i] = Source(name, FALSE, disk.source[name])
  <2>1. \A i \in DOMAIN sources : sources[i] \in FoundIn(dir)
    BY <1>2, <1>4, Zenon DEF ToSet
  <2> QED
    BY <1>3, <2>1
<1>8. \A name \in CueFilesIn(dir) : \E i \in DOMAIN sources : sources[i] = Source(name, FALSE, disk.source[name])
  <2>1. \A name \in CueFilesIn(dir) : Source(name, FALSE, disk.source[name]) \in ToSet(sources)
    BY <1>2, <1>3, <1>4
  <2> QED
    BY <2>1, Zenon DEF ToSet
<1>9. SourcesOf(current) = {disk.source[name] : name \in {n \in CueFilesIn(dir) : disk.source[n].parses}}
  BY <1>2 DEF SourcesOf
<1>10. \A source : source \in SourcesOf(current)
          <=> \E i \in DOMAIN sources : sources[i].source.parses /\ source = sources[i].source
  BY <1>7, <1>8, <1>9 DEF Source
<1> HIDE DEF asts
<1>11. /\ \A k \in DOMAIN asts : \E i \in DOMAIN sources : sources[i].source.parses /\ asts[k] = sources[i]
       /\ \A i \in DOMAIN sources : sources[i].source.parses => \E k \in DOMAIN asts : asts[k] = sources[i]
  <2>1. \A file : file \in ToSet(asts)
            <=> \E i \in DOMAIN sources : sources[i].source.parses /\ file = sources[i]
    BY <1>6
  <2>2. \A k \in DOMAIN asts : asts[k] \in ToSet(asts)
    BY Zenon DEF ToSet
  <2>3. \A file \in ToSet(asts) : \E k \in DOMAIN asts : asts[k] = file
    BY Zenon DEF ToSet
  <2> QED
    BY <2>1, <2>2, <2>3
<1>12. {asts[i].source : i \in DOMAIN asts} = SourcesOf(current)
  <2>1. \A k \in DOMAIN asts : asts[k].source \in SourcesOf(current)
    BY <1>10, <1>11
  <2>2. \A source \in SourcesOf(current) : \E k \in DOMAIN asts : asts[k].source = source
    BY <1>10, <1>11
  <2> QED
    BY <2>1, <2>2
<1>13. asts = <<>> <=> SourcesOf(current) = {}
  BY <1>6, <1>10
<1>14. \A source \in SourcesOf(current) : source.imports \subseteq ImportPaths
  BY <1>4, <1>5, <1>10, ElementOfSeq, KnownImports
<1> QED
  BY <1>1, <1>2, <1>5, <1>6, <1>12, <1>13, <1>14 DEF asts, sources

(* What the end of a directory makes of the diagnostics. *)
FilesRead == AstFiles(SortByName(walk.found))
ErrorsRead == ParseDiagnostics(SortByName(walk.found))
Reported == instance.diagnostics \o ErrorsRead

LEMMA ImportReported ==
    ASSUME LoaderInv, FinishImport
    PROVE  /\ IsSequence(Reported)
           /\ ToSet(Reported) = ToSet(instance.diagnostics) \union ToSet(ErrorsRead)
           /\ SourcesOf(current) = {} =>
                 /\ instance' = [package |-> instance.package, files |-> instance.files,
                                 direct |-> instance.direct, imports |-> instance.imports,
                                 diagnostics |-> Append(Reported, <<"empty", current>>)]
                 /\ pending' = pending
           /\ SourcesOf(current) # {} =>
                 /\ instance' = [package |-> instance.package, files |-> instance.files,
                                 direct |-> instance.direct,
                                 imports |-> [path \in DOMAIN instance.imports \union {current} |->
                                                IF path = current THEN FilesRead ELSE instance.imports[path]],
                                 diagnostics |-> Reported]
                 /\ pending' = pending \o InOrder(ImportOrder, NestedImports(FilesRead))
<1>1. IsSequence(SortByName(walk.found)) /\ (FilesRead = <<>> <=> SourcesOf(current) = {})
  BY ImportRead DEF FilesRead
<1>2. IsSequence(instance.diagnostics) /\ IsSequence(ErrorsRead)
  BY <1>1, ParseErrors DEF LoaderInv, InstanceOK, ErrorsRead
<1>3. IsSequence(Reported) /\ ToSet(Reported) = ToSet(instance.diagnostics) \union ToSet(ErrorsRead)
  BY <1>2, ConcatFrames, ConcatElements DEF Reported
<1>4. instance = [package |-> instance.package, files |-> instance.files, direct |-> instance.direct,
                  imports |-> instance.imports, diagnostics |-> instance.diagnostics]
  BY DEF LoaderInv, InstanceOK
<1>5. IF FilesRead = <<>>
      THEN /\ instance' = [instance EXCEPT !.diagnostics = Append(Reported, <<"empty", current>>)]
           /\ pending' = pending
      ELSE /\ instance' = [instance EXCEPT !.diagnostics = Reported,
                                           !.imports = [path \in DOMAIN @ \union {current} |->
                                                           IF path = current THEN FilesRead ELSE @[path]]]
           /\ pending' = pending \o InOrder(ImportOrder, NestedImports(FilesRead))
  BY DEF FinishImport, Reported, FilesRead, ErrorsRead
<1>6. CASE FilesRead = <<>>
  BY <1>1, <1>3, <1>4, <1>5, <1>6
<1>7. CASE FilesRead # <<>>
  BY <1>1, <1>3, <1>4, <1>5, <1>7
<1> QED
  BY <1>6, <1>7

LEMMA ImportRecorded ==
    ASSUME LoaderInv, FinishImport
    PROVE  /\ instance' = [package |-> instance'.package, files |-> instance'.files,
                           direct |-> instance'.direct, imports |-> instance'.imports,
                           diagnostics |-> instance'.diagnostics]
           /\ instance'.files = instance.files
           /\ SourcesOf(current) = {} => /\ instance'.diagnostics = Append(Reported, <<"empty", current>>)
                                         /\ instance'.imports = instance.imports
           /\ SourcesOf(current) # {} =>
                 /\ instance'.diagnostics = Reported
                 /\ instance'.imports = [path \in DOMAIN instance.imports \union {current} |->
                                            IF path = current THEN FilesRead ELSE instance.imports[path]]
<1>1. CASE SourcesOf(current) = {}
  <2>1. instance' = [package |-> instance.package, files |-> instance.files,
                     direct |-> instance.direct, imports |-> instance.imports,
                     diagnostics |-> Append(Reported, <<"empty", current>>)]
    BY <1>1, ImportReported, Zenon
  <2> QED
    BY <1>1, <2>1
<1>2. CASE SourcesOf(current) # {}
  <2>1. instance' = [package |-> instance.package, files |-> instance.files, direct |-> instance.direct,
                     imports |-> [path \in DOMAIN instance.imports \union {current} |->
                                    IF path = current THEN FilesRead ELSE instance.imports[path]],
                     diagnostics |-> Reported]
    BY <1>2, ImportReported, Zenon
  <2> QED
    BY <1>2, <2>1
<1> QED
  BY <1>1, <1>2

(* No import becomes invalid at the end of a directory, and the queue gets *)
(* the imports of its files that are not visited.                          *)
LEMMA ImportQueued ==
    ASSUME LoaderInv, FinishImport
    PROVE  /\ IsSequence(instance'.diagnostics)
           /\ Diagnosed("invalid")' = Diagnosed("invalid")
           /\ pending' \in Seq(ImportPaths)
           /\ ToLoad(ToSet(pending')) \union visited
                 = ToLoad(ToSet(pending)) \union visited
                   \union ToLoad(UNION {source.imports : source \in SourcesOf(current)})
           /\ DOMAIN instance'.imports
                 = DOMAIN instance.imports \union IF SourcesOf(current) = {} THEN {} ELSE {current}
<1> DEFINE nested == UNION {source.imports : source \in SourcesOf(current)}
<1>1. /\ IsSequence(Reported)
      /\ ToSet(Reported) = ToSet(instance.diagnostics) \union ToSet(ErrorsRead)
  BY ImportReported
<1>2. \A path : <<"invalid", path>> \notin ToSet(ErrorsRead)
  BY ImportRead, ParseErrorsOnly DEF ErrorsRead
<1>3. DirectImports(FilesRead) = nested
  <2>1. {FilesRead[i].source : i \in DOMAIN FilesRead} = SourcesOf(current)
    BY ImportRead DEF FilesRead
  <2>2. \A i \in DOMAIN FilesRead : FilesRead[i].source \in SourcesOf(current)
    BY <2>1
  <2>3. \A source \in SourcesOf(current) : \E i \in DOMAIN FilesRead : source = FilesRead[i].source
    BY <2>1
  <2>4. {FilesRead[i].source.imports : i \in DOMAIN FilesRead} = {source.imports : source \in SourcesOf(current)}
    BY <2>2, <2>3
  <2> QED
    BY <2>4 DEF DirectImports
<1>4. nested \subseteq ImportPaths
  BY ImportRead
<1>5. pending \in Seq(ImportPaths) /\ IsSequence(pending)
  BY SeqIsSequence DEF LoaderInv, TypeOK
<1>6. IsSequence(instance'.diagnostics)
      /\ \A path : <<"invalid", path>> \in ToSet(instance'.diagnostics)
                      <=> <<"invalid", path>> \in ToSet(instance.diagnostics)
  <2>1. CASE SourcesOf(current) = {}
    <3>1. IsSequence(Append(Reported, <<"empty", current>>))
          /\ ToSet(Append(Reported, <<"empty", current>>)) = ToSet(Reported) \union {<<"empty", current>>}
      BY <1>1, PushFrame, PushedElements
    <3>2. \A path : <<"invalid", path>> # <<"empty", current>>
      OBVIOUS
    <3> QED
      BY <1>1, <1>2, <2>1, <3>1, <3>2, ImportRecorded
  <2>2. CASE SourcesOf(current) # {}
    BY <1>1, <1>2, <2>2, ImportRecorded
  <2> QED
    BY <2>1, <2>2
<1>7. Diagnosed("invalid")' = Diagnosed("invalid")
  <2>1. Diagnosed("invalid") = {path \in ImportPaths : <<"invalid", path>> \in ToSet(instance.diagnostics)}
    BY DiagnosedPaths
  <2>2. Diagnosed("invalid")' = {path \in ImportPaths : <<"invalid", path>> \in ToSet(instance'.diagnostics)}
    BY DEF Diagnosed, ToSet
  <2> QED
    BY <1>6, <2>1, <2>2
<1>8. pending' \in Seq(ImportPaths)
      /\ ToLoad(ToSet(pending')) \union visited = ToLoad(ToSet(pending)) \union visited \union ToLoad(nested)
  <2>1. CASE SourcesOf(current) = {}
    <3>1. ToLoad(nested) = {}
      BY <2>1 DEF ToLoad
    <3>2. pending' = pending
      BY <2>1, ImportReported
    <3> QED
      BY <1>5, <3>1, <3>2
  <2>2. CASE SourcesOf(current) # {}
    <3> DEFINE added == InOrder(ImportOrder, NestedImports(FilesRead))
    <3>1. added \in Seq(ImportPaths) /\ ToSet(added) = ImportPaths \intersect NestedImports(FilesRead)
      BY InOrderElements
    <3>2. NestedImports(FilesRead) = {path \in nested : NeedsLoading(path) /\ path \notin visited}
      BY <1>3 DEF NestedImports
    <3>3. pending' = pending \o added
      BY <2>2, ImportReported
    <3>4. IsSequence(added)
      BY <3>1, SeqIsSequence
    <3> HIDE DEF added
    <3>5. pending' \in Seq(ImportPaths) /\ ToSet(pending') = ToSet(pending) \union ToSet(added)
      BY <1>5, <3>1, <3>3, <3>4, ConcatElements, ConcatProperties
    <3>6. ToSet(added) = {path \in nested : NeedsLoading(path) /\ path \notin visited}
      BY <1>4, <3>1, <3>2
    <3> HIDE DEF nested
    <3> QED
      BY <3>5, <3>6 DEF ToLoad
  <2> QED
    BY <2>1, <2>2
<1>9. DOMAIN instance'.imports
         = DOMAIN instance.imports \union IF SourcesOf(current) = {} THEN {} ELSE {current}
  BY ImportRecorded
<1> QED
  BY <1>6, <1>7, <1>8, <1>9

LEMMA FinishImportInv == ASSUME LoaderInv, FinishImport PROVE LoaderInv'
<1>1. /\ phase = "imports" /\ current' = NONE /\ walk' = NONE
      /\ UNCHANGED <<inputs, phase, error, args, visited>>
  BY ImportRead DEF FinishImport, CloseImport
<1>2. /\ instance' = [package |-> instance'.package, files |-> instance'.files, direct |-> instance'.direct,
                      imports |-> instance'.imports, diagnostics |-> instance'.diagnostics]
      /\ IsSequence(instance'.diagnostics)
      /\ pending' \in Seq(ImportPaths)
      /\ Diagnosed("invalid")' = Diagnosed("invalid")
  BY ImportQueued, ImportRecorded
<1>3. InstanceOK'
  <2>1. IsSequence(instance'.files)
    BY ImportRecorded DEF LoaderInv, InstanceOK
  <2> QED
    BY <1>2, <2>1 DEF LoaderInv, InstanceOK
<1>4. visited' \subseteq ImportPaths
  BY <1>1 DEF LoaderInv, TypeOK
<1>5. CurrentOK'
  BY <1>1 DEF CurrentOK
<1> QED
  BY <1>1, <1>2, <1>3, <1>4, <1>5, ImportStep

(* What the package selector does to the instance. *)
LEMMA SelectedInstance ==
    ASSUME LoaderInv, ApplyPackageSelector, ~Fail("bad_package")
    PROVE  /\ instance' = [package |-> instance'.package, files |-> instance'.files, direct |-> instance'.direct,
                           imports |-> instance.imports, diagnostics |-> instance'.diagnostics]
           /\ \/ instance'.diagnostics = instance.diagnostics
              \/ \E name : instance'.diagnostics = Append(instance.diagnostics, <<"package_mismatch", name>>)
           /\ IsSequence(instance'.diagnostics)
           /\ Diagnosed("invalid")' = Diagnosed("invalid")
<1> DEFINE name == request.selector.name
           mismatch == [package |-> name, files |-> instance.files, direct |-> instance.direct,
                        imports |-> instance.imports,
                        diagnostics |-> Append(instance.diagnostics, <<"package_mismatch", name>>)]
<1>1. instance = [package |-> instance.package, files |-> instance.files, direct |-> instance.direct,
                  imports |-> instance.imports, diagnostics |-> instance.diagnostics]
      /\ IsSequence(instance.diagnostics)
  BY DEF LoaderInv, InstanceOK
<1>2. instance' = CASE request.selector.kind = "named" -> SelectNamed(name)
                    [] request.selector.kind = "none" -> [instance EXCEPT !.files = <<>>, !.package = NONE]
                    [] OTHER -> instance
  BY DEF ApplyPackageSelector
<1>3. SelectNamed(name) = mismatch
      \/ \E kept : SelectNamed(name) = [package |-> name, files |-> kept, direct |-> DirectImports(kept),
                                        imports |-> instance.imports, diagnostics |-> instance.diagnostics]
  BY <1>1 DEF SelectNamed, Diagnose
<1>4. \/ instance' = mismatch
      \/ /\ instance' = [package |-> instance'.package, files |-> instance'.files, direct |-> instance'.direct,
                         imports |-> instance.imports, diagnostics |-> instance'.diagnostics]
         /\ instance'.diagnostics = instance.diagnostics
  <2>1. CASE request.selector.kind = "named"
    <3>1. instance' = SelectNamed(name)
      BY <1>2, <2>1
    <3>2. CASE SelectNamed(name) = mismatch
      BY <3>1, <3>2
    <3>3. CASE SelectNamed(name) # mismatch
      <4>1. PICK kept : SelectNamed(name) = [package |-> name, files |-> kept, direct |-> DirectImports(kept),
                                             imports |-> instance.imports, diagnostics |-> instance.diagnostics]
        BY <1>3, <3>3
      <4>2. instance' = [package |-> name, files |-> kept, direct |-> DirectImports(kept),
                         imports |-> instance.imports, diagnostics |-> instance.diagnostics]
        BY <3>1, <4>1
      <4> QED
        BY <4>2
    <3> QED
      BY <3>2, <3>3
  <2>2. CASE request.selector.kind = "none"
    BY <1>1, <1>2, <2>2
  <2>3. CASE request.selector.kind \notin {"named", "none"}
    BY <1>1, <1>2, <2>3
  <2> QED
    BY <2>1, <2>2, <2>3
<1>5. /\ IsSequence(Append(instance.diagnostics, <<"package_mismatch", name>>))
      /\ ToSet(Append(instance.diagnostics, <<"package_mismatch", name>>))
            = ToSet(instance.diagnostics) \union {<<"package_mismatch", name>>}
  BY <1>1, PushFrame, PushedElements
<1>6. \A path : <<"invalid", path>> # <<"package_mismatch", name>>
  OBVIOUS
<1>7. /\ instance' = [package |-> instance'.package, files |-> instance'.files, direct |-> instance'.direct,
                      imports |-> instance.imports, diagnostics |-> instance'.diagnostics]
      /\ \/ instance'.diagnostics = instance.diagnostics
         \/ instance'.diagnostics = Append(instance.diagnostics, <<"package_mismatch", name>>)
  <2>1. CASE instance' = mismatch
    BY <2>1
  <2> QED
    BY <1>4, <2>1
<1> HIDE DEF mismatch
<1>8. IsSequence(instance'.diagnostics)
       /\ \A path : <<"invalid", path>> \in ToSet(instance'.diagnostics)
                        <=> <<"invalid", path>> \in ToSet(instance.diagnostics)
  <2>1. CASE instance'.diagnostics = instance.diagnostics
    BY <1>1, <2>1
  <2>2. CASE instance'.diagnostics = Append(instance.diagnostics, <<"package_mismatch", name>>)
    BY <1>5, <1>6, <2>2
  <2> QED
    BY <1>7, <2>1, <2>2
<1>9. Diagnosed("invalid")' = Diagnosed("invalid")
  <2>1. Diagnosed("invalid") = {path \in ImportPaths : <<"invalid", path>> \in ToSet(instance.diagnostics)}
    BY DiagnosedPaths
  <2>2. Diagnosed("invalid")' = {path \in ImportPaths : <<"invalid", path>> \in ToSet(instance'.diagnostics)}
    BY DEF Diagnosed, ToSet
  <2> QED
    BY <1>8, <2>1, <2>2
<1> HIDE DEF name
<1> QED
  BY <1>7, <1>9, <1>8

(* The selector only drops files. *)
LEMMA SelectedFiles ==
    ASSUME LoaderInv, ApplyPackageSelector, ~Fail("bad_package")
    PROVE  /\ IsSequence(instance'.files)
           /\ \A i \in DOMAIN instance'.files : \E j \in DOMAIN instance.files :
                 instance'.files[i] = instance.files[j]
<1> DEFINE name == request.selector.name
           I == {i \in DOMAIN instance.files : instance.files[i].source.package = name}
           kept == Subsequence(instance.files, I)
<1>1. instance = [package |-> instance.package, files |-> instance.files, direct |-> instance.direct,
                  imports |-> instance.imports, diagnostics |-> instance.diagnostics]
      /\ IsSequence(instance.files)
  BY DEF LoaderInv, InstanceOK
<1>2. instance' = CASE request.selector.kind = "named" -> SelectNamed(name)
                    [] request.selector.kind = "none" -> [instance EXCEPT !.files = <<>>, !.package = NONE]
                    [] OTHER -> instance
  BY DEF ApplyPackageSelector
<1>3. CASE request.selector.kind = "named"
  <2>1. instance' = SelectNamed(name)
    BY <1>2, <1>3
  <2>2. instance'.files = instance.files \/ instance'.files = kept
    BY <1>1, <2>1 DEF SelectNamed, Diagnose
  <2>3. I \in SUBSET DOMAIN instance.files
    OBVIOUS
  <2> HIDE DEF I
  <2>4. IsSequence(kept) /\ \A k \in DOMAIN kept : \E j \in DOMAIN instance.files : kept[k] = instance.files[j]
    BY <1>1, <2>3, KeptFiles
  <2> HIDE DEF kept
  <2> QED
    BY <1>1, <2>2, <2>4
<1>4. CASE request.selector.kind = "none"
  <2>1. instance'.files = <<>>
    BY <1>1, <1>2, <1>4
  <2>2. IsSequence(<<>>)
    BY DEF IsSequence
  <2> QED
    BY <2>1, <2>2
<1>5. CASE request.selector.kind \notin {"named", "none"}
  BY <1>1, <1>2, <1>5
<1> QED
  BY <1>3, <1>4, <1>5

LEMMA ApplyPackageSelectorInv == ASSUME LoaderInv, ApplyPackageSelector PROVE LoaderInv'
<1>1. CASE Fail("bad_package")
  BY <1>1, FailStep DEF Errors
<1>2. CASE ~Fail("bad_package")
  <2> USE DEF inputs, resolution
  <2>1. /\ instance' = [package |-> instance'.package, files |-> instance'.files, direct |-> instance'.direct,
                        imports |-> instance'.imports, diagnostics |-> instance'.diagnostics]
        /\ IsSequence(instance'.diagnostics)
        /\ Diagnosed("invalid")' = Diagnosed("invalid")
        /\ IsSequence(instance'.files)
    BY <1>2, SelectedInstance, SelectedFiles
  <2>2. /\ phase = "imports" /\ walk = NONE /\ phase' = "done"
        /\ UNCHANGED <<inputs, error, args, walk, files, data, resolution>>
    BY <1>2 DEF ApplyPackageSelector
  <2>3. InstanceOK' /\ InputsOK'
    BY <2>1, <2>2 DEF LoaderInv, InstanceOK, InputsOK
  <2>4. TypeOK'
    BY <2>2 DEF LoaderInv, TypeOK, Terminal, ToSet
  <2>5. ReadingOK' /\ PhasesOK' /\ CurrentOK'
    BY <2>2 DEF LoaderInv, ReadingOK, PhasesOK, CurrentOK
  <2> QED
    BY <2>3, <2>4, <2>5 DEF LoaderInv
<1> QED
  BY <1>1, <1>2

LEMMA NextInv == ASSUME LoaderInv, [Next]_vars PROVE LoaderInv'
<1>1. CASE DiskError
  BY <1>1, FailStep DEF DiskError, Errors
<1>2. CASE LoadStdin \/ LoadData \/ LoadPath \/ LoadTree
  BY <1>2, LoadStdinInv, LoadDataInv, LoadPathInv, LoadTreeInv
<1>3. CASE OpenDirectory \/ (\E path \in Paths : VisitEntry(path)) \/ FinishArgument
  BY <1>3, OpenDirectoryInv, VisitEntryInv, FinishArgumentInv
<1>4. CASE AddOverlays \/ PushTags \/ ParseFiles
  BY <1>4, AddOverlaysInv, PushTagsInv, ParseFilesInv
<1>5. CASE SkipImport \/ RejectImport \/ SkipVisited
  BY <1>5, SkipImportInv, RejectImportInv, SkipVisitedInv
<1>6. CASE OpenImport \/ FinishImport \/ ApplyPackageSelector
  BY <1>6, OpenImportInv, FinishImportInv, ApplyPackageSelectorInv
<1>7. CASE UNCHANGED vars
  BY <1>7, StutterStep
<1> QED
  BY <1>1, <1>2, <1>3, <1>4, <1>5, <1>6, <1>7 DEF Next, Finished

THEOREM LoaderInvariant == Spec => []LoaderInv
<1>1. Init => LoaderInv
  BY InitInv
<1>2. LoaderInv /\ [Next]_vars => LoaderInv'
  BY NextInv
<1> QED
  BY <1>1, <1>2, PTL DEF Spec

(* The loader's phases, its queue and its traversals agree in every state. *)
THEOREM LoaderTypeCorrect == Spec => []TypeOK
BY LoaderInvariant, PTL DEF LoaderInv

----------------------------------------------------------------------------
(* The refinement *)

(* The imports of the disk's packages do not change. *)
LEMMA SameUses ==
    ASSUME UNCHANGED inputs
    PROVE  Uses' = Uses /\ \A path : SourcesOf(path)' = SourcesOf(path)
BY DEF inputs, disk, Uses, SourcesOf, CueFilesIn

LEMMA SameClosure ==
    ASSUME UNCHANGED <<inputs, instance, resolution>>, Status' = Status
    PROVE  UNCHANGED Closure!closureVars
<1>1. Uses' = Uses
  BY SameUses
<1>2. Wanted' = Wanted /\ Settled' = Settled /\ DOMAIN instance'.imports = DOMAIN instance.imports
  BY DEF Wanted, Settled, Diagnosed, ToSet, resolution
<1> QED
  BY <1>1, <1>2 DEF Closure!closureVars

(* The closure's variables while imports are resolved. *)
LEMMA Resolving ==
    ASSUME LoaderInv, phase = "imports"
    PROVE  /\ Status = "resolving"
           /\ Uses.found = [path \in ToLoad(ImportPaths) |-> ImportKind[path] = "local" /\ SourcesOf(path) # {}]
           /\ DOMAIN Uses.package = ToLoad(ImportPaths)
           /\ visited \subseteq ImportPaths
           /\ current = NONE => Settled = visited \union Diagnosed("invalid")
<1>1. visited \subseteq ImportPaths /\ NONE \notin ImportPaths
  BY NoneAssumption DEF LoaderInv, TypeOK
<1> QED
  BY <1>1 DEF Status, Terminal, Uses, Settled

LEMMA FailMaps ==
    ASSUME LoaderInv, phase \notin Terminal, NEW reason, Fail(reason)
    PROVE  Closure!Next
<1>1. UNCHANGED <<inputs, instance, resolution>> /\ phase' = "failed"
  BY DEF Fail
<1>2. Status \in {"reading", "resolving"} /\ Status' = "failed"
  BY <1>1 DEF LoaderInv, TypeOK, Status, Terminal
<1>3. Uses' = Uses /\ Wanted' = Wanted /\ Settled' = Settled
      /\ DOMAIN instance'.imports = DOMAIN instance.imports
  BY <1>1, SameUses DEF Wanted, Settled, Diagnosed, ToSet, resolution
<1> QED
  BY <1>2, <1>3 DEF Closure!Next, Closure!Fail

(* Reading arguments, adding overlays and tags, and reading directories.   *)
LEMMA ReadingMaps ==
    ASSUME LoaderInv, phase \notin Terminal,
           UNCHANGED <<inputs, instance, resolution>>,
           phase' = phase \/ (phase \in {"args", "tags"} /\ phase' \in {"tags", "parse"})
    PROVE  UNCHANGED Closure!closureVars
<1>1. Status' = Status
  BY DEF Status, Terminal
<1> QED
  BY <1>1, SameClosure

LEMMA ArgumentMaps ==
    ASSUME LoaderInv,
           LoadStdin \/ LoadData \/ LoadPath \/ LoadTree \/ AddOverlays \/ PushTags
    PROVE  [Closure!Next]_(Closure!closureVars)
<1>1. phase \in {"args", "tags"} /\ phase \notin Terminal
  BY DEF LoadStdin, LoadData, LoadPath, LoadTree, ReadingArgs, AddOverlays, PushTags, Terminal
<1>2. CASE \E reason : Fail(reason)
  BY <1>1, <1>2, FailMaps
<1>3. CASE ~\E reason : Fail(reason)
  <2>1. UNCHANGED <<inputs, instance, resolution>>
        /\ (phase' = phase \/ phase' \in {"tags", "parse"})
    BY <1>3 DEF LoadStdin, LoadData, LoadPath, LoadTree, AddOverlays, PushTags
  <2> QED
    BY <1>1, <2>1, ReadingMaps
<1> QED
  BY <1>2, <1>3

LEMMA TraversalMaps ==
    ASSUME LoaderInv,
           OpenDirectory \/ (\E path \in Paths : VisitEntry(path)) \/ FinishArgument
    PROVE  [Closure!Next]_(Closure!closureVars)
<1>1. phase \notin Terminal
  BY DEF OpenDirectory, VisitEntry, FinishArgument, DirectoryRead
<1>2. CASE \E reason : Fail(reason)
  BY <1>1, <1>2, FailMaps
<1>3. CASE ~\E reason : Fail(reason)
  <2>1. UNCHANGED <<inputs, instance, resolution>> /\ phase' = phase
    BY <1>3 DEF OpenDirectory, VisitEntry, FinishArgument
  <2> QED
    BY <1>1, <2>1, ReadingMaps
<1> QED
  BY <1>2, <1>3

LEMMA ParseMaps == ASSUME LoaderInv, ParseFiles PROVE Closure!Next
<1>1. /\ phase = "parse" /\ phase' = "imports" /\ UNCHANGED <<inputs, visited, current>>
      /\ instance = EmptyInstance /\ visited = {} /\ current = NONE /\ pending = <<>>
  BY DEF LoaderInv, PhasesOK, ParseFiles
<1>2. /\ pending' \in Seq(ImportPaths)
      /\ Diagnosed("invalid")' = {} /\ DOMAIN instance'.imports = DOMAIN <<>>
  BY ParsedInstance
<1>3. Status = "reading" /\ Status' = "resolving"
  BY <1>1 DEF Status, Terminal
<1>4. DOMAIN instance.imports = DOMAIN <<>> /\ Diagnosed("invalid") = {}
  BY <1>1 DEF EmptyInstance, Diagnosed
<1>5. Settled = {} /\ Settled' = {}
  BY <1>1, <1>2, <1>4 DEF Settled
<1>6. Wanted' \in SUBSET ToLoad(ImportPaths)
  <2>1. ToSet(pending') \subseteq ImportPaths
    BY <1>2, ElementOfSeq, LenProperties DEF ToSet
  <2> QED
    BY <1>1, <1>2, <2>1 DEF Wanted, ToLoad
<1>7. DOMAIN Uses.package = ToLoad(ImportPaths) /\ Uses' = Uses
  BY <1>1, SameUses DEF Uses
<1>8. Closure!Begin
  BY <1>2, <1>3, <1>4, <1>5, <1>6, <1>7 DEF Closure!Begin
<1> QED
  BY <1>8 DEF Closure!Next

(* An invalid import is not local. *)
LEMMA InvalidNotLocal ==
    ASSUME LoaderInv, NEW path, ImportKind[path] = "local"
    PROVE  path \notin Diagnosed("invalid")
BY DEF LoaderInv, InstanceOK

LEMMA SkipMaps ==
    ASSUME LoaderInv, SkipImport \/ SkipVisited
    PROVE  UNCHANGED Closure!closureVars
<1> DEFINE path == Head(pending)
<1>1. PICK kind : NextImport(kind)
  BY DEF SkipImport, SkipVisited
<1>2. /\ UNCHANGED <<inputs, phase, instance, visited, current>> /\ pending' = Tail(pending)
      /\ phase = "imports"
  BY DEF SkipImport, SkipVisited, NextImport
<1>3. ~NeedsLoading(path) \/ path \in visited
  BY DEF SkipImport, SkipVisited, NextImport, NeedsLoading
<1>4. ToSet(pending) = {path} \union ToSet(pending')
  BY <1>1, <1>2, TakeImport
<1>5. Diagnosed("invalid")' = Diagnosed("invalid")
  BY <1>2 DEF Diagnosed
<1> HIDE DEF path
<1>6. Wanted' = Wanted
  <2>1. ToLoad(ToSet(pending)) \union visited = ToLoad(ToSet(pending')) \union visited
    BY <1>3, <1>4 DEF ToLoad
  <2>2. Wanted' = ToLoad(ToSet(pending')) \union visited \union Diagnosed("invalid")
    BY <1>2, <1>5 DEF Wanted, ToLoad, ToSet, NeedsLoading
  <2> QED
    BY <2>1, <2>2 DEF Wanted
<1>7. Settled' = Settled /\ Status' = Status /\ DOMAIN instance'.imports = DOMAIN instance.imports
  BY <1>2, <1>5 DEF Settled, Status
<1>8. Uses' = Uses
  BY <1>2, SameUses
<1> QED
  BY <1>6, <1>7, <1>8 DEF Closure!closureVars

(* An import at the head of the queue is reported as having no package. *)
LEMMA ReportMaps ==
    ASSUME LoaderInv, NEW kind, NextImport(kind), kind \in {"invalid", "local"},
           Head(pending) \notin Settled,
           kind = "local" => SourcesOf(Head(pending)) = {},
           UNCHANGED <<inputs, phase, current>>, pending' = Tail(pending),
           DOMAIN instance'.imports = DOMAIN instance.imports,
           visited' \union Diagnosed("invalid")' = visited \union Diagnosed("invalid") \union {Head(pending)}
    PROVE  Closure!Next
<1> DEFINE path == Head(pending)
<1>1. /\ phase = "imports" /\ current = NONE /\ path \in ImportPaths /\ ImportKind[path] = kind
      /\ ToSet(pending) = {path} \union ToSet(pending')
  BY TakeImport DEF NextImport
<1>2. Status = "resolving" /\ Status' = "resolving"
  BY <1>1, Resolving DEF Status, Terminal
<1>3. path \in ToLoad(ImportPaths) /\ path \in Wanted
  BY <1>1 DEF ToLoad, NeedsLoading, Wanted
<1>4. ~Uses.found[path]
  BY <1>1, <1>3, Resolving
<1>5. Settled' = Settled \union {path}
  <2>1. visited \subseteq ImportPaths /\ path # NONE /\ Settled = visited \union Diagnosed("invalid")
    BY <1>1, Resolving, NoneAssumption
  <2>2. Settled' = (visited' \ {NONE}) \union Diagnosed("invalid")'
    BY <1>1 DEF Settled
  <2>3. NONE \notin Diagnosed("invalid") /\ NONE \notin Diagnosed("invalid")'
    BY NoneAssumption DEF Diagnosed
  <2>4. NONE \notin visited
    BY <2>1, NoneAssumption
  <2> QED
    BY <2>1, <2>2, <2>3, <2>4
<1>6. Wanted' = Wanted
  <2>1. Wanted' = ToLoad(ToSet(pending')) \union visited' \union Diagnosed("invalid")'
    BY DEF Wanted, ToLoad, ToSet, NeedsLoading
  <2>2. ToLoad(ToSet(pending)) = ToLoad(ToSet(pending')) \union {path}
    BY <1>1, <1>3 DEF ToLoad
  <2> QED
    BY <2>1, <2>2 DEF Wanted
<1>7. Uses' = Uses /\ DOMAIN Uses.package = ToLoad(ImportPaths)
  BY <1>1, SameUses, Resolving
<1> HIDE DEF path
<1>8. Closure!Report(path)
  BY <1>2, <1>3, <1>4, <1>5, <1>6, <1>7 DEF Closure!Report, path
<1> QED
  BY <1>3, <1>7, <1>8 DEF Closure!Next

LEMMA RejectMaps ==
    ASSUME LoaderInv, RejectImport
    PROVE  [Closure!Next]_(Closure!closureVars)
<1> DEFINE path == Head(pending)
<1>1. /\ NextImport("invalid") /\ pending' = Tail(pending) /\ UNCHANGED <<inputs, phase, visited, current>>
      /\ instance' = Diagnose("invalid", path)
  BY DEF RejectImport
<1>2. /\ phase = "imports" /\ current = NONE /\ path \in ImportPaths
      /\ ToSet(pending) = {path} \union ToSet(pending')
  BY <1>1, TakeImport DEF NextImport
<1>3. /\ DOMAIN instance'.imports = DOMAIN instance.imports
      /\ Diagnosed("invalid")' = Diagnosed("invalid") \union {path}
  <2>1. instance'.imports = instance.imports
        /\ \A p : p \in Diagnosed("invalid")' <=> p \in Diagnosed("invalid") \/ (p \in ImportPaths /\ p = path)
    BY <1>1, DiagnosedGrows DEF LoaderInv
  <2> QED
    BY <1>2, <2>1
<1>4. CASE path \notin Settled
  BY <1>1, <1>3, <1>4, ReportMaps
<1>5. CASE path \in Settled
  <2> HIDE DEF path
  <2>1. Settled = visited \union Diagnosed("invalid")
    BY <1>2, Resolving
  <2>2. Settled' = (visited \ {NONE}) \union Diagnosed("invalid") \union {path}
    BY <1>1, <1>2, <1>3 DEF Settled
  <2>3. NONE \notin visited
    BY <1>2, Resolving, NoneAssumption
  <2>4. Settled' = Settled
    BY <1>5, <2>1, <2>2, <2>3
  <2>5. Wanted' = Wanted
    <3>1. Wanted' = ToLoad(ToSet(pending')) \union visited \union Diagnosed("invalid") \union {path}
      BY <1>1, <1>3 DEF Wanted, ToLoad, ToSet, NeedsLoading
    <3>2. ToLoad(ToSet(pending)) = ToLoad(ToSet(pending')) \/ ToLoad(ToSet(pending)) = ToLoad(ToSet(pending')) \union {path}
      BY <1>2 DEF ToLoad
    <3> QED
      BY <1>5, <2>1, <3>1, <3>2 DEF Wanted
  <2>6. Uses' = Uses /\ Status' = Status
    BY <1>1, SameUses DEF Status
  <2> QED
    BY <1>3, <2>4, <2>5, <2>6 DEF Closure!closureVars
<1> QED
  BY <1>4, <1>5

LEMMA OpenMaps ==
    ASSUME LoaderInv, OpenImport
    PROVE  [Closure!Next]_(Closure!closureVars)
<1> DEFINE path == Head(pending)
           kind == disk.kind[ImportDir[path]]
<1>1. NextImport("local") /\ path \notin visited
  BY DEF OpenImport
<1>2. /\ phase = "imports" /\ current = NONE /\ path \in ImportPaths /\ ImportKind[path] = "local"
      /\ ToSet(pending) = {path} \union ToSet(Tail(pending))
  BY <1>1, TakeImport DEF NextImport
<1>3. CASE kind \in {"link", "outside"}
  <2>1. \E reason : Fail(reason)
    BY <1>3 DEF OpenImport
  <2> QED
    BY <1>2, <2>1, FailMaps DEF Terminal
<1>4. CASE kind = "none"
  <2>1. /\ instance' = Diagnose("missing", path) /\ pending' = Tail(pending) /\ visited' = visited \union {path}
        /\ UNCHANGED <<inputs, phase, current>>
    BY <1>4 DEF OpenImport
  <2>2. instance'.imports = instance.imports
        /\ \A p : p \in Diagnosed("invalid")' <=> p \in Diagnosed("invalid")
    <3>1. instance'.imports = instance.imports
          /\ \A c : \A p : p \in Diagnosed(c)' <=> p \in Diagnosed(c) \/ (p \in ImportPaths /\ c = "missing" /\ p = path)
      BY <2>1, DiagnosedGrows DEF LoaderInv
    <3> QED
      BY <3>1
  <2>3. Diagnosed("invalid")' = Diagnosed("invalid")
    BY <2>2
  <2>4. SourcesOf(path) = {}
    BY <1>4 DEF SourcesOf
  <2>5. path \notin Settled
    BY <1>1, <1>2, Resolving, InvalidNotLocal
  <2>6. visited' \union Diagnosed("invalid")' = visited \union Diagnosed("invalid") \union {path}
    BY <2>1, <2>3
  <2> QED
    BY <1>1, <2>1, <2>2, <2>4, <2>5, <2>6, ReportMaps
<1>5. CASE kind \notin {"link", "outside", "none"}
  <2>1. /\ current' = path /\ pending' = Tail(pending) /\ visited' = visited \union {path}
        /\ UNCHANGED <<inputs, phase, instance>>
    BY <1>5 DEF OpenImport
  <2>2. Diagnosed("invalid")' = Diagnosed("invalid")
    BY <2>1 DEF Diagnosed
  <2> HIDE DEF path
  <2>3. Settled' = Settled
    <3>1. Settled' = ((visited \union {path}) \ {path}) \union Diagnosed("invalid")
      BY <2>1, <2>2 DEF Settled
    <3>2. Settled = visited \union Diagnosed("invalid")
      BY <1>2, Resolving
    <3> QED
      BY <1>1, <3>1, <3>2
  <2>4. Wanted' = Wanted
    <3>1. Wanted' = ToLoad(ToSet(pending')) \union visited \union {path} \union Diagnosed("invalid")
      BY <2>1, <2>2 DEF Wanted, ToLoad, ToSet, NeedsLoading
    <3>2. ToLoad(ToSet(pending)) = ToLoad(ToSet(pending')) \union {path}
      BY <1>2, <2>1 DEF ToLoad, NeedsLoading
    <3> QED
      BY <3>1, <3>2 DEF Wanted
  <2>5. Uses' = Uses /\ Status' = Status /\ DOMAIN instance'.imports = DOMAIN instance.imports
    BY <2>1, SameUses DEF Status
  <2> QED
    BY <2>3, <2>4, <2>5 DEF Closure!closureVars
<1> QED
  BY <1>3, <1>4, <1>5

(* The import whose directory has been read is resolved or reported. *)
LEMMA FinishImportMaps == ASSUME LoaderInv, FinishImport PROVE Closure!Next
<1> DEFINE nested == UNION {source.imports : source \in SourcesOf(current)}
<1>1. /\ phase = "imports" /\ current' = NONE /\ current # NONE /\ ImportKind[current] = "local"
      /\ UNCHANGED <<inputs, phase, visited>>
  BY ImportRead DEF FinishImport, CloseImport
<1>2. current \in visited /\ visited \subseteq ImportPaths
  BY <1>1 DEF LoaderInv, TypeOK
<1>3. current \in ToLoad(ImportPaths) /\ current \in Wanted \ Settled
  BY <1>1, <1>2, InvalidNotLocal DEF ToLoad, NeedsLoading, Wanted, Settled
<1>4. /\ Diagnosed("invalid")' = Diagnosed("invalid")
      /\ ToLoad(ToSet(pending')) \union visited
            = ToLoad(ToSet(pending)) \union visited \union ToLoad(nested)
      /\ DOMAIN instance'.imports
            = DOMAIN instance.imports \union IF SourcesOf(current) = {} THEN {} ELSE {current}
  BY ImportQueued
<1>5. Settled' = Settled \union {current}
  <2>1. Settled' = (visited \ {NONE}) \union Diagnosed("invalid")
    BY <1>1, <1>4 DEF Settled
  <2>2. NONE \notin visited
    BY <1>2, NoneAssumption
  <2> QED
    BY <1>2, <2>1, <2>2 DEF Settled
<1>6. /\ Uses.found[current] <=> SourcesOf(current) # {}
      /\ Uses.package[current] = ToLoad(nested)
      /\ DOMAIN Uses.package = ToLoad(ImportPaths)
  BY <1>1, <1>3 DEF Uses
<1> HIDE DEF nested
<1>7. Wanted' = Wanted \union ToLoad(nested)
  <2>1. Wanted' = ToLoad(ToSet(pending')) \union visited \union Diagnosed("invalid")
    BY <1>1, <1>4 DEF Wanted, ToLoad, ToSet, NeedsLoading
  <2> QED
    BY <1>4, <2>1 DEF Wanted
<1>8. Status = "resolving" /\ Status' = "resolving" /\ Uses' = Uses
  BY <1>1, Resolving, SameUses DEF Status, Terminal
<1>9. CASE SourcesOf(current) = {}
  <2>1. ToLoad(nested) = {}
    BY <1>9 DEF nested, ToLoad
  <2>2. Closure!Report(current)
    BY <1>3, <1>4, <1>5, <1>6, <1>7, <1>8, <1>9, <2>1 DEF Closure!Report
  <2> QED
    BY <1>3, <1>6, <2>2 DEF Closure!Next
<1>10. CASE SourcesOf(current) # {}
  <2>1. Closure!Resolve(current)
    BY <1>3, <1>4, <1>5, <1>6, <1>7, <1>8, <1>10 DEF Closure!Resolve
  <2> QED
    BY <1>3, <1>6, <2>1 DEF Closure!Next
<1> QED
  BY <1>9, <1>10

LEMMA SelectorMaps ==
    ASSUME LoaderInv, ApplyPackageSelector
    PROVE  Closure!Next
<1>1. phase = "imports" /\ walk = NONE /\ pending = <<>>
  BY DEF ApplyPackageSelector
<1>2. CASE Fail("bad_package")
  BY <1>1, <1>2, FailMaps DEF Terminal
<1>3. CASE ~Fail("bad_package")
  <2>1. phase' = "done" /\ UNCHANGED <<inputs, resolution>>
    BY <1>3 DEF ApplyPackageSelector
  <2>2. Diagnosed("invalid")' = Diagnosed("invalid") /\ DOMAIN instance'.imports = DOMAIN instance.imports
    <3>1. instance'.imports = instance.imports
      BY <1>3, SelectedInstance
    <3> QED
      BY <1>3, <3>1, SelectedInstance
  <2>3. current = NONE
    BY <1>1 DEF LoaderInv, TypeOK
  <2>4. ToLoad(ToSet(pending)) = {}
    BY <1>1 DEF ToLoad, ToSet
  <2>5. Wanted \subseteq Settled
    BY <1>1, <2>3, <2>4, Resolving DEF Wanted
  <2>6. Wanted' = Wanted /\ Settled' = Settled /\ Uses' = Uses
    BY <2>1, <2>2, SameUses DEF Wanted, Settled, ToSet, resolution
  <2>7. Status = "resolving" /\ Status' = "done"
    BY <1>1, <2>1 DEF Status, Terminal
  <2>8. Closure!Finish
    BY <2>2, <2>5, <2>6, <2>7 DEF Closure!Finish
  <2> QED
    BY <2>8 DEF Closure!Next
<1> QED
  BY <1>2, <1>3

LEMMA StepMaps ==
    ASSUME LoaderInv, [Next]_vars
    PROVE  [Closure!Next]_(Closure!closureVars)
<1>1. CASE DiskError
  <2>1. phase \notin Terminal /\ Fail("io")
    BY <1>1 DEF DiskError, Terminal
  <2> QED
    BY <2>1, FailMaps
<1>2. CASE LoadStdin \/ LoadData \/ LoadPath \/ LoadTree \/ AddOverlays \/ PushTags
  BY <1>2, ArgumentMaps
<1>3. CASE OpenDirectory \/ (\E path \in Paths : VisitEntry(path)) \/ FinishArgument
  BY <1>3, TraversalMaps
<1>4. CASE ParseFiles
  BY <1>4, ParseMaps
<1>5. CASE SkipImport \/ SkipVisited
  BY <1>5, SkipMaps
<1>6. CASE RejectImport \/ OpenImport \/ FinishImport
  BY <1>6, RejectMaps, OpenMaps, FinishImportMaps
<1>7. CASE ApplyPackageSelector
  BY <1>7, SelectorMaps
<1>8. CASE UNCHANGED vars
  <2>1. UNCHANGED <<inputs, instance, resolution>> /\ Status' = Status
    BY <1>8 DEF vars, Status
  <2> QED
    BY <2>1, SameClosure
<1> QED
  BY <1>1, <1>2, <1>3, <1>4, <1>5, <1>6, <1>7, <1>8 DEF Next, Finished

(* resolve_local_imports settles the closure of the imports: what a file   *)
(* read so far names, nothing twice, and it stops when nothing is left.    *)
THEOREM LoaderImplementsClosure == Spec => ImplementsClosure
<1>1. Init => Closure!Init
  <2> SUFFICES ASSUME Init PROVE Closure!Init
    OBVIOUS
  <2>1. phase = "args" /\ instance = EmptyInstance /\ pending = <<>> /\ visited = {} /\ current = NONE
    BY DEF Init
  <2>2. Diagnosed("invalid") = {} /\ DOMAIN instance.imports = {}
    BY <2>1 DEF EmptyInstance, Diagnosed
  <2>3. ToLoad(ToSet(pending)) = {}
    BY <2>1 DEF ToLoad, ToSet
  <2> QED
    BY <2>1, <2>2, <2>3 DEF Closure!Init, Wanted, Settled, Status, Terminal
<1>2. LoaderInv /\ [Next]_vars => [Closure!Next]_(Closure!closureVars)
  BY StepMaps
<1> QED
  BY <1>1, <1>2, LoaderInvariant, PTL DEF Spec, ImplementsClosure, Closure!Spec

----------------------------------------------------------------------------
(* Every import of a kept file is explained *)

ReasonsIn(diagnostics, path) ==
    {i \in DOMAIN diagnostics : diagnostics[i] \in {"missing", "empty"} \X {path}}

LEMMA ReasonsFound ==
    \A path : Reasons(path) = ReasonsIn(instance.diagnostics, path)
              /\ Reasons(path)' = ReasonsIn(instance'.diagnostics, path)
BY DEF Reasons, ReasonsIn

LEMMA NoMoreReasons ==
    ASSUME NEW d, IsSequence(d), NEW e, IsSequence(e), NEW path, ReasonsIn(e, path) = {}
    PROVE  ReasonsIn(d \o e, path) = ReasonsIn(d, path)
<1> DEFINE all == d \o e
<1>1. /\ DOMAIN d = 1 .. Len(d) /\ DOMAIN e = 1 .. Len(e) /\ Len(d) \in Nat /\ Len(e) \in Nat
      /\ DOMAIN all = 1 .. Len(all)
      /\ Len(all) = Len(d) + Len(e)
      /\ \A i \in 1 .. Len(d) : all[i] = d[i]
      /\ \A i \in 1 .. Len(all) :
            \/ i \in 1 .. Len(d) /\ all[i] = d[i]
            \/ \E j \in 1 .. Len(e) : i = Len(d) + j /\ all[i] = e[j]
  BY ConcatFrames DEF IsSequence
<1> HIDE DEF all
<1>2. \A j \in 1 .. Len(e) : e[j] \notin {"missing", "empty"} \X {path}
  BY <1>1 DEF ReasonsIn
<1>3. ReasonsIn(all, path) \subseteq ReasonsIn(d, path)
  BY <1>1, <1>2, Zenon DEF ReasonsIn
<1>4. ReasonsIn(d, path) \subseteq ReasonsIn(all, path)
  <2>1. 1 .. Len(d) \subseteq 1 .. Len(all)
    BY <1>1
  <2> QED
    BY <1>1, <2>1, Zenon DEF ReasonsIn
<1> QED
  BY <1>3, <1>4 DEF all

LEMMA ReasonAdded ==
    ASSUME NEW d, IsSequence(d), NEW code, NEW named, NEW path
    PROVE  \A i : i \in ReasonsIn(Append(d, <<code, named>>), path)
                    <=> i \in ReasonsIn(d, path)
                          \/ (i = Len(d) + 1 /\ code \in {"missing", "empty"} /\ named = path)
<1> DEFINE all == Append(d, <<code, named>>)
<1>1. /\ DOMAIN d = 1 .. Len(d) /\ Len(d) \in Nat
      /\ DOMAIN all = 1 .. Len(d) + 1
      /\ \A i \in 1 .. Len(d) : all[i] = d[i]
      /\ all[Len(d) + 1] = <<code, named>>
  BY PushFrame DEF IsSequence
<1> HIDE DEF all
<1>2. 1 .. Len(d) + 1 = (1 .. Len(d)) \union {Len(d) + 1}
  BY <1>1
<1>3. all[Len(d) + 1] \in {"missing", "empty"} \X {path} <=> code \in {"missing", "empty"} /\ named = path
  BY <1>1
<1>4. \A i : i \in ReasonsIn(all, path)
               <=> i \in ReasonsIn(d, path)
                     \/ (i = Len(d) + 1 /\ code \in {"missing", "empty"} /\ named = path)
  BY <1>1, <1>2, <1>3 DEF ReasonsIn
<1> QED
  BY <1>4 DEF all

LEMMA ParseErrorsNoReason ==
    ASSUME NEW s, IsSequence(s), NEW path
    PROVE  ReasonsIn(ParseDiagnostics(s), path) = {}
<1>1. \A i \in DOMAIN ParseDiagnostics(s) : \E name : ParseDiagnostics(s)[i] = <<"parse", name>>
  BY ParseErrors
<1>2. \A name : <<"parse", name>> \notin {"missing", "empty"} \X {path}
  OBVIOUS
<1> QED
  BY <1>1, <1>2 DEF ReasonsIn

LEMMA KeptSources ==
    ASSUME NEW source
    PROVE  source \in Kept <=>
              \/ \E i \in DOMAIN instance.files : source = instance.files[i].source
              \/ \E path \in DOMAIN instance.imports : \E i \in DOMAIN instance.imports[path] :
                    source = instance.imports[path][i].source
BY DEF Kept

LEMMA KeptAfter ==
    ASSUME NEW source
    PROVE  source \in Kept' <=>
              \/ \E i \in DOMAIN instance'.files : source = instance'.files[i].source
              \/ \E path \in DOMAIN instance'.imports : \E i \in DOMAIN instance'.imports[path] :
                    source = instance'.imports[path][i].source
BY DEF Kept

(* Nothing is imported before all files are parsed. *)
LEMMA EarlyExplained ==
    ASSUME LoaderInv', phase' \in {"args", "tags", "parse"}
    PROVE  ExplainedInv'
BY DEF LoaderInv, PhasesOK, EmptyInstance, ExplainedInv

LEMMA InitExplained == ASSUME Init PROVE ExplainedInv
BY DEF Init, EmptyInstance, ExplainedInv

LEMMA FailExplained ==
    ASSUME ExplainedInv, NEW reason, Fail(reason)
    PROVE  ExplainedInv'
BY DEF Fail, ExplainedInv, resolution

LEMMA SameExplained ==
    ASSUME ExplainedInv, UNCHANGED <<phase, instance, resolution>>
    PROVE  ExplainedInv'
<1>1. Wanted' = Wanted /\ Kept' = Kept /\ Diagnosed("invalid")' = Diagnosed("invalid")
  BY DEF Wanted, Kept, Diagnosed, ToSet, resolution
<1>2. \A path : (Explained(path)' <=> Explained(path)) /\ (Unexplained(path)' <=> Unexplained(path))
  BY DEF Explained, Unexplained, Reasons
<1>3. /\ DOMAIN instance'.imports = DOMAIN instance.imports
      /\ phase' = phase /\ visited' = visited /\ current' = current
  BY DEF resolution
<1> QED
  BY <1>1, <1>2, <1>3 DEF ExplainedInv, ToLoad, NeedsLoading

LEMMA ParseExplained ==
    ASSUME LoaderInv, LoaderInv', ParseFiles
    PROVE  ExplainedInv'
<1> DEFINE asts == AstFiles(files)
<1>1. /\ phase' = "imports" /\ visited' = {} /\ current' = NONE /\ phase = "parse"
  BY DEF LoaderInv, PhasesOK, ParseFiles
<1>2. /\ IsSequence(files)
      /\ instance'.imports = <<>> /\ instance'.files = asts /\ instance'.diagnostics = ParseDiagnostics(files)
      /\ ToSet(pending') = ImportPaths \intersect DirectImports(asts)
  BY ParsedInstance
<1>3. DOMAIN instance'.imports = {}
  BY <1>2
<1>4. \A path : Unexplained(path)'
  BY <1>2, <1>3, ReasonsFound, ParseErrorsNoReason DEF Unexplained
<1>5. \A i \in DOMAIN asts : asts[i].source.imports \subseteq ImportPaths
  <2>1. \A i \in DOMAIN files : files[i].source.imports \subseteq ImportPaths
    BY <1>1, <1>2 DEF LoaderInv, ReadingOK, IsSequence
  <2>2. ToSet(asts) = {files[i] : i \in {j \in DOMAIN files : files[j].source.parses}}
    BY <1>2, ParsedFiles
  <2> HIDE DEF asts
  <2>3. \A i \in DOMAIN asts : asts[i] \in ToSet(asts)
    BY DEF ToSet
  <2> QED
    BY <2>1, <2>2, <2>3
<1> HIDE DEF asts
<1>6. ASSUME NEW source \in Kept'
      PROVE  source.imports \subseteq ImportPaths /\ ToLoad(source.imports) \subseteq Wanted'
  <2>1. PICK i \in DOMAIN asts : source = asts[i].source
    BY <1>2, <1>3, KeptAfter
  <2>2. source.imports \subseteq ImportPaths /\ source.imports \subseteq DirectImports(asts)
    BY <1>5, <2>1 DEF DirectImports
  <2>3. ToLoad(source.imports) \subseteq ToLoad(ToSet(pending'))
    BY <1>2, <2>2 DEF ToLoad
  <2>4. Wanted' = ToLoad(ToSet(pending')) \union visited' \union Diagnosed("invalid")'
    BY DEF Wanted, ToLoad, ToSet, NeedsLoading
  <2> QED
    BY <2>2, <2>3, <2>4
<1> QED
  BY <1>1, <1>3, <1>4, <1>6 DEF ExplainedInv, ToLoad, NeedsLoading

(* The step of an import that keeps the queue's promise. *)
LEMMA ExplainedStep ==
    ASSUME ExplainedInv, phase = "imports", phase' = "imports",
           DOMAIN instance'.imports \subseteq visited',
           \A path \in visited' : ImportKind[path] = "local",
           \A path \in ImportPaths :
              IF path \in visited' \ {current'} THEN Explained(path)' ELSE Unexplained(path)',
           Wanted \subseteq Wanted',
           \A source \in Kept' :
              source \in Kept \/ (source.imports \subseteq ImportPaths /\ ToLoad(source.imports) \subseteq Wanted')
    PROVE  ExplainedInv'
<1>1. \A source \in Kept' : source.imports \subseteq ImportPaths /\ ToLoad(source.imports) \subseteq Wanted'
  BY DEF ExplainedInv
<1> QED
  BY <1>1 DEF ExplainedInv, ToLoad, NeedsLoading

(* Taking the head of the queue loses nothing that is wanted. *)
LEMMA WantedKept ==
    ASSUME LoaderInv, NEW kind, NextImport(kind), pending' = Tail(pending),
           visited \union Diagnosed("invalid") \subseteq visited' \union Diagnosed("invalid")',
           ~NeedsLoading(Head(pending)) \/ Head(pending) \in visited' \union Diagnosed("invalid")'
    PROVE  Wanted \subseteq Wanted'
<1>1. ToSet(pending) = {Head(pending)} \union ToSet(pending')
  BY TakeImport
<1>2. Wanted' = ToLoad(ToSet(pending')) \union visited' \union Diagnosed("invalid")'
  BY DEF Wanted, ToLoad, ToSet, NeedsLoading
<1>3. ToLoad(ToSet(pending)) \subseteq ToLoad(ToSet(pending')) \union visited' \union Diagnosed("invalid")'
  BY <1>1 DEF ToLoad
<1> QED
  BY <1>2, <1>3 DEF Wanted

LEMMA SkipExplained ==
    ASSUME LoaderInv, ExplainedInv, SkipImport \/ SkipVisited
    PROVE  ExplainedInv'
<1>1. PICK kind : NextImport(kind)
  BY DEF SkipImport, SkipVisited
<1>2. /\ UNCHANGED <<phase, instance, visited, current>> /\ pending' = Tail(pending) /\ phase = "imports"
      /\ ~NeedsLoading(Head(pending)) \/ Head(pending) \in visited
  BY DEF SkipImport, SkipVisited, NextImport, NeedsLoading
<1>3. Wanted \subseteq Wanted'
  <2>1. Diagnosed("invalid")' = Diagnosed("invalid")
    BY <1>2 DEF Diagnosed
  <2> QED
    BY <1>1, <1>2, <2>1, WantedKept
<1>4. \A path : (Explained(path)' <=> Explained(path)) /\ (Unexplained(path)' <=> Unexplained(path))
  BY <1>2 DEF Explained, Unexplained, Reasons
<1>5. Kept' = Kept
  BY <1>2 DEF Kept
<1>6. /\ DOMAIN instance'.imports \subseteq visited'
      /\ \A path \in visited' : ImportKind[path] = "local"
      /\ \A path \in ImportPaths :
              IF path \in visited' \ {current'} THEN Explained(path)' ELSE Unexplained(path)'
  BY <1>2, <1>4 DEF ExplainedInv
<1> QED
  BY <1>2, <1>3, <1>5, <1>6, ExplainedStep

LEMMA RejectExplained ==
    ASSUME LoaderInv, ExplainedInv, RejectImport
    PROVE  ExplainedInv'
<1> DEFINE named == Head(pending)
<1>1. /\ NextImport("invalid") /\ pending' = Tail(pending) /\ UNCHANGED <<phase, visited, current>>
      /\ instance' = Diagnose("invalid", named) /\ phase = "imports"
  BY DEF RejectImport, NextImport
<1>2. named \in ImportPaths
  BY <1>1, TakeImport
<1>3. /\ instance'.files = instance.files /\ instance'.imports = instance.imports
      /\ instance'.diagnostics = Append(instance.diagnostics, <<"invalid", named>>)
      /\ \A p : p \in Diagnosed("invalid")' <=> p \in Diagnosed("invalid") \/ (p \in ImportPaths /\ p = named)
  <2>1. instance' = [package |-> instance.package, files |-> instance.files, direct |-> instance.direct,
                     imports |-> instance.imports,
                     diagnostics |-> Append(instance.diagnostics, <<"invalid", named>>)]
        /\ \A c : \A p : p \in Diagnosed(c)' <=> p \in Diagnosed(c) \/ (p \in ImportPaths /\ c = "invalid" /\ p = named)
    BY <1>1, DiagnosedGrows DEF LoaderInv
  <2> QED
    BY <2>1
<1>4. Wanted \subseteq Wanted'
  BY <1>1, <1>2, <1>3, WantedKept
<1> HIDE DEF named
<1>5. \A path : Reasons(path)' = Reasons(path)
  <2>1. IsSequence(instance.diagnostics)
    BY DEF LoaderInv, InstanceOK
  <2>2. \A path : ReasonsIn(Append(instance.diagnostics, <<"invalid", named>>), path)
                     = ReasonsIn(instance.diagnostics, path)
    <3>1. SUFFICES ASSUME NEW path
                   PROVE  ReasonsIn(Append(instance.diagnostics, <<"invalid", named>>), path)
                             = ReasonsIn(instance.diagnostics, path)
      OBVIOUS
    <3>2. \A i : i \in ReasonsIn(Append(instance.diagnostics, <<"invalid", named>>), path)
                   <=> i \in ReasonsIn(instance.diagnostics, path)
      BY <2>1, ReasonAdded
    <3> QED
      BY <3>2
  <2> QED
    BY <1>3, <2>2, ReasonsFound
<1>6. \A path : (Explained(path)' <=> Explained(path)) /\ (Unexplained(path)' <=> Unexplained(path))
  BY <1>3, <1>5 DEF Explained, Unexplained
<1>7. Kept' = Kept
  BY <1>3 DEF Kept
<1>8. /\ DOMAIN instance'.imports \subseteq visited'
      /\ \A path \in visited' : ImportKind[path] = "local"
      /\ \A path \in ImportPaths :
              IF path \in visited' \ {current'} THEN Explained(path)' ELSE Unexplained(path)'
  BY <1>1, <1>3, <1>6 DEF ExplainedInv
<1> QED
  BY <1>1, <1>4, <1>7, <1>8, ExplainedStep

(* An import without a package of its own gets its one reason. *)
LEMMA ReasonGiven ==
    ASSUME NEW d, IsSequence(d), NEW code \in {"missing", "empty"}, NEW named
    PROVE  /\ \A path : path # named => ReasonsIn(Append(d, <<code, named>>), path) = ReasonsIn(d, path)
           /\ ReasonsIn(d, named) = {} => ReasonsIn(Append(d, <<code, named>>), named) = {Len(d) + 1}
<1>1. ASSUME NEW path
      PROVE  \A i : i \in ReasonsIn(Append(d, <<code, named>>), path)
                      <=> i \in ReasonsIn(d, path) \/ (i = Len(d) + 1 /\ named = path)
  BY ReasonAdded
<1>2. ASSUME NEW path, path # named
      PROVE  ReasonsIn(Append(d, <<code, named>>), path) = ReasonsIn(d, path)
  BY <1>1, <1>2
<1>3. ASSUME ReasonsIn(d, named) = {}
      PROVE  ReasonsIn(Append(d, <<code, named>>), named) = {Len(d) + 1}
  BY <1>1, <1>3
<1> QED
  BY <1>2, <1>3

LEMMA OpenExplained ==
    ASSUME LoaderInv, ExplainedInv, OpenImport
    PROVE  ExplainedInv'
<1>0. PICK named : named = Head(pending)
  OBVIOUS
<1> DEFINE kind == disk.kind[ImportDir[named]]
<1>1. NextImport("local") /\ named \notin visited /\ phase = "imports" /\ ImportKind[named] = "local"
  BY <1>0 DEF OpenImport, NextImport
<1>2. current = NONE /\ named \in ImportPaths /\ NONE \notin visited
  BY <1>0, <1>1, TakeImport, NoneAssumption DEF LoaderInv, TypeOK
<1>3. CASE kind \in {"link", "outside"}
  <2>1. \E reason : Fail(reason)
    BY <1>0, <1>3 DEF OpenImport
  <2> QED
    BY <2>1, FailExplained
<1>4. CASE kind = "none"
  <2>1. /\ instance' = Diagnose("missing", named) /\ pending' = Tail(pending) /\ visited' = visited \union {named}
        /\ UNCHANGED <<phase, current>>
    BY <1>0, <1>4 DEF OpenImport
  <2>2. /\ instance'.files = instance.files /\ instance'.imports = instance.imports
        /\ instance'.diagnostics = Append(instance.diagnostics, <<"missing", named>>)
        /\ \A p : p \in Diagnosed("invalid")' <=> p \in Diagnosed("invalid")
    <3>1. instance' = [package |-> instance.package, files |-> instance.files, direct |-> instance.direct,
                       imports |-> instance.imports,
                       diagnostics |-> Append(instance.diagnostics, <<"missing", named>>)]
          /\ \A c : \A p : p \in Diagnosed(c)' <=> p \in Diagnosed(c) \/ (p \in ImportPaths /\ c = "missing" /\ p = named)
      BY <2>1, DiagnosedGrows DEF LoaderInv
    <3> QED
      BY <3>1
  <2>3. Wanted \subseteq Wanted'
    BY <1>1, <2>1, <2>2, <1>0, WantedKept
  <2>4. IsSequence(instance.diagnostics)
    BY DEF LoaderInv, InstanceOK
  <2>5. Unexplained(named)
    BY <1>1, <1>2 DEF ExplainedInv
  <2>6. /\ \A path : path # named => Reasons(path)' = Reasons(path)
        /\ Reasons(named)' = {Len(instance.diagnostics) + 1}
    <3>1. ReasonsIn(instance.diagnostics, named) = {}
      BY <2>5, ReasonsFound DEF Unexplained
    <3>2. /\ \A path : path # named
                => ReasonsIn(Append(instance.diagnostics, <<"missing", named>>), path) = ReasonsIn(instance.diagnostics, path)
          /\ ReasonsIn(instance.diagnostics, named) = {}
                => ReasonsIn(Append(instance.diagnostics, <<"missing", named>>), named) = {Len(instance.diagnostics) + 1}
      BY <2>4, ReasonGiven
    <3>3. \A path : Reasons(path) = ReasonsIn(instance.diagnostics, path)
                      /\ Reasons(path)' = ReasonsIn(Append(instance.diagnostics, <<"missing", named>>), path)
      BY <2>2, ReasonsFound
    <3> QED
      BY <3>1, <3>2, <3>3, Zenon
  <2>7. /\ \A path : path # named => (Explained(path)' <=> Explained(path)) /\ (Unexplained(path)' <=> Unexplained(path))
        /\ Explained(named)'
    <3>1. Explained(named)'
      <4>1. named \notin DOMAIN instance'.imports
        BY <2>2, <2>5 DEF Unexplained
      <4>2. Reasons(named)' # {} /\ \A i, j \in Reasons(named)' : i = j
        BY <2>6
      <4> QED
        BY <4>1, <4>2 DEF Explained
    <3>2. ASSUME NEW path, path # named
          PROVE  (Explained(path)' <=> Explained(path)) /\ (Unexplained(path)' <=> Unexplained(path))
      <4>1. Reasons(path)' = Reasons(path)
        BY <2>6, <3>2
      <4> QED
        BY <2>2, <4>1 DEF Explained, Unexplained
    <3> QED
      BY <3>1, <3>2
  <2>8. Kept' = Kept
    BY <2>2 DEF Kept
  <2>9. /\ DOMAIN instance'.imports \subseteq visited'
        /\ \A path \in visited' : ImportKind[path] = "local"
    BY <1>1, <2>1, <2>2 DEF ExplainedInv
  <2>10. \A path \in ImportPaths :
              IF path \in visited' \ {current'} THEN Explained(path)' ELSE Unexplained(path)'
    <3>1. visited' \ {current'} = (visited \ {current}) \union {named}
      BY <1>2, <2>1, NoneAssumption
    <3>2. \A path \in ImportPaths : IF path \in visited \ {current} THEN Explained(path) ELSE Unexplained(path)
      BY <1>1 DEF ExplainedInv
    <3>3. SUFFICES ASSUME NEW path \in ImportPaths
                   PROVE  IF path \in visited' \ {current'} THEN Explained(path)' ELSE Unexplained(path)'
      OBVIOUS
    <3>4. CASE path = named
      BY <2>7, <3>1, <3>4
    <3>5. CASE path # named
      BY <2>7, <3>1, <3>2, <3>5
    <3> QED
      BY <3>4, <3>5
  <2> QED
    BY <1>1, <2>1, <2>3, <2>8, <2>9, <2>10, ExplainedStep
<1>5. CASE kind \notin {"link", "outside", "none"}
  <2>1. /\ current' = named /\ pending' = Tail(pending) /\ visited' = visited \union {named}
        /\ UNCHANGED <<phase, instance>>
    BY <1>0, <1>5 DEF OpenImport
  <2>2. Wanted \subseteq Wanted'
    <3>1. Diagnosed("invalid")' = Diagnosed("invalid")
      BY <2>1 DEF Diagnosed
    <3> QED
      BY <1>1, <2>1, <3>1, <1>0, WantedKept
  <2>3. \A path : (Explained(path)' <=> Explained(path)) /\ (Unexplained(path)' <=> Unexplained(path))
    BY <2>1 DEF Explained, Unexplained, Reasons
  <2>4. Kept' = Kept
    BY <2>1 DEF Kept
  <2>5. visited' \ {current'} = visited \ {current}
    BY <1>1, <1>2, <2>1
  <2>6. /\ DOMAIN instance'.imports \subseteq visited'
        /\ \A path \in visited' : ImportKind[path] = "local"
        /\ \A path \in ImportPaths :
              IF path \in visited' \ {current'} THEN Explained(path)' ELSE Unexplained(path)'
    BY <1>1, <2>1, <2>3, <2>5 DEF ExplainedInv
  <2> QED
    BY <1>1, <2>1, <2>2, <2>4, <2>6, ExplainedStep
<1> QED
  BY <1>3, <1>4, <1>5

LEMMA FinishExplained ==
    ASSUME LoaderInv, ExplainedInv, FinishImport
    PROVE  ExplainedInv'
<1>0. PICK read : read = current
  OBVIOUS
<1>1. /\ phase = "imports" /\ phase' = "imports" /\ ImportKind[read] = "local"
      /\ current' = NONE /\ read # NONE /\ visited' = visited
  BY <1>0, ImportRead DEF FinishImport, CloseImport
<1>2. read \in visited /\ visited \subseteq ImportPaths /\ read \in ImportPaths /\ NONE \notin visited
  BY <1>0, <1>1, NoneAssumption DEF LoaderInv, TypeOK
<1>3. Unexplained(read) /\ DOMAIN instance.imports \subseteq visited
  BY <1>0, <1>1, <1>2 DEF ExplainedInv
<1>4. IsSequence(instance.diagnostics) /\ IsSequence(Reported)
  BY ImportReported DEF LoaderInv, InstanceOK
<1>5. \A path : ReasonsIn(Reported, path) = ReasonsIn(instance.diagnostics, path)
  <2>1. IsSequence(SortByName(walk.found))
    BY ImportRead
  <2>2. IsSequence(ErrorsRead) /\ \A path : ReasonsIn(ErrorsRead, path) = {}
    BY <2>1, ParseErrors, ParseErrorsNoReason DEF ErrorsRead
  <2> QED
    BY <1>4, <2>2, NoMoreReasons DEF Reported
<1>6. \A path : path # read => (Explained(path)' <=> Explained(path)) /\ (Unexplained(path)' <=> Unexplained(path))
  <2>1. SUFFICES ASSUME NEW path, path # read
                 PROVE  (Explained(path)' <=> Explained(path)) /\ (Unexplained(path)' <=> Unexplained(path))
    OBVIOUS
  <2>2. path \in DOMAIN instance'.imports <=> path \in DOMAIN instance.imports
    BY <1>0, <2>1, ImportRecorded
  <2>3. Reasons(path)' = Reasons(path)
    <3>1. CASE SourcesOf(current) = {}
      <4>1. instance'.diagnostics = Append(Reported, <<"empty", read>>)
        BY <1>0, <3>1, ImportRecorded
      <4>2. ReasonsIn(Append(Reported, <<"empty", read>>), path) = ReasonsIn(Reported, path)
        BY <1>4, <2>1, ReasonGiven
      <4> QED
        BY <1>5, <4>1, <4>2, ReasonsFound
    <3>2. CASE SourcesOf(current) # {}
      BY <1>5, <3>2, ImportRecorded, ReasonsFound
    <3> QED
      BY <3>1, <3>2
  <2> QED
    BY <2>2, <2>3 DEF Explained, Unexplained
<1>7. Explained(read)'
  <2>1. ReasonsIn(Reported, read) = {} /\ read \notin DOMAIN instance.imports
    BY <1>3, <1>5, ReasonsFound DEF Unexplained
  <2>2. CASE SourcesOf(current) = {}
    <3>1. /\ instance'.diagnostics = Append(Reported, <<"empty", read>>)
          /\ instance'.imports = instance.imports
      BY <1>0, <2>2, ImportRecorded
    <3>2. ReasonsIn(Append(Reported, <<"empty", read>>), read) = {Len(Reported) + 1}
      BY <1>4, <2>1, ReasonGiven
    <3>3. Reasons(read)' = {Len(Reported) + 1}
      BY <3>1, <3>2, ReasonsFound
    <3>4. Reasons(read)' # {} /\ \A i, j \in Reasons(read)' : i = j
      BY <3>3
    <3> QED
      BY <2>1, <3>1, <3>4 DEF Explained
  <2>3. CASE SourcesOf(current) # {}
    <3>1. instance'.diagnostics = Reported /\ read \in DOMAIN instance'.imports
      BY <1>0, <2>3, ImportRecorded
    <3>2. Reasons(read)' = {}
      BY <2>1, <3>1, ReasonsFound
    <3> QED
      BY <3>1, <3>2 DEF Explained
  <2> QED
    BY <2>2, <2>3
<1>8. \A path \in ImportPaths :
          IF path \in visited' \ {current'} THEN Explained(path)' ELSE Unexplained(path)'
  <2>1. SUFFICES ASSUME NEW path \in ImportPaths
                 PROVE  IF path \in visited' \ {current'} THEN Explained(path)' ELSE Unexplained(path)'
    OBVIOUS
  <2>2. path \in visited' \ {current'} <=> path \in visited
    BY <1>1, <1>2
  <2>3. IF path \in visited \ {read} THEN Explained(path) ELSE Unexplained(path)
    BY <1>0, <1>1 DEF ExplainedInv
  <2>4. CASE path = read
    BY <1>2, <1>7, <2>2, <2>4
  <2>5. CASE path # read
    BY <1>6, <2>2, <2>3, <2>5
  <2> QED
    BY <2>4, <2>5
<1>9. DOMAIN instance'.imports \subseteq visited' /\ \A path \in visited' : ImportKind[path] = "local"
  <2>1. DOMAIN instance'.imports \subseteq DOMAIN instance.imports \union {read}
    BY <1>0, ImportRecorded
  <2>2. \A path \in visited : ImportKind[path] = "local"
    BY DEF ExplainedInv
  <2> QED
    BY <1>1, <1>2, <1>3, <2>1, <2>2
<1>10. Wanted' = Wanted \union ToLoad(UNION {source.imports : source \in SourcesOf(current)})
  <2> DEFINE nested == UNION {source.imports : source \in SourcesOf(current)}
  <2>1. /\ Diagnosed("invalid")' = Diagnosed("invalid")
        /\ ToLoad(ToSet(pending')) \union visited
            = ToLoad(ToSet(pending)) \union visited \union ToLoad(nested)
    BY ImportQueued
  <2> HIDE DEF nested
  <2>2. Wanted' = ToLoad(ToSet(pending')) \union visited \union Diagnosed("invalid")
    BY <1>1, <2>1 DEF Wanted, ToLoad, ToSet, NeedsLoading
  <2>3. Wanted' = Wanted \union ToLoad(nested)
    BY <2>1, <2>2 DEF Wanted
  <2> QED
    BY <2>3 DEF nested
<1>11. ASSUME NEW source \in Kept'
       PROVE  source \in Kept \/ source \in SourcesOf(current)
  <2>1. CASE \E i \in DOMAIN instance'.files : source = instance'.files[i].source
    BY <2>1, ImportRecorded, KeptSources
  <2>2. CASE \E path \in DOMAIN instance'.imports : \E i \in DOMAIN instance'.imports[path] :
                source = instance'.imports[path][i].source
    <3>1. PICK path \in DOMAIN instance'.imports : \E i \in DOMAIN instance'.imports[path] :
                source = instance'.imports[path][i].source
      BY <2>2
    <3>2. CASE instance'.imports = instance.imports
      BY <3>1, <3>2, KeptSources
    <3>3. CASE instance'.imports = [p \in DOMAIN instance.imports \union {current} |->
                                      IF p = current THEN FilesRead ELSE instance.imports[p]]
      <4>1. CASE path = current
        <5>1. \E i \in DOMAIN FilesRead : source = FilesRead[i].source
          BY <3>1, <3>3, <4>1
        <5>2. {FilesRead[i].source : i \in DOMAIN FilesRead} = SourcesOf(current)
          BY ImportRead DEF FilesRead
        <5> QED
          BY <5>1, <5>2
      <4>2. CASE path # current
        BY <3>1, <3>3, <4>2, KeptSources
      <4> QED
        BY <4>1, <4>2
    <3> QED
      BY <3>2, <3>3, ImportRecorded, Zenon
  <2> QED
    BY <2>1, <2>2, KeptAfter
<1>12. \A source \in SourcesOf(current) :
            source.imports \subseteq ImportPaths /\ ToLoad(source.imports) \subseteq Wanted'
  <2>1. \A source \in SourcesOf(current) : source.imports \subseteq ImportPaths
    BY ImportRead
  <2>2. \A source \in SourcesOf(current) :
           ToLoad(source.imports) \subseteq ToLoad(UNION {s.imports : s \in SourcesOf(current)})
    BY DEF ToLoad
  <2> QED
    BY <1>10, <2>1, <2>2
<1> QED
  BY <1>1, <1>8, <1>9, <1>10, <1>11, <1>12, ExplainedStep

LEMMA SelectorExplained ==
    ASSUME LoaderInv, ExplainedInv, ApplyPackageSelector
    PROVE  ExplainedInv'
<1>1. CASE Fail("bad_package")
  BY <1>1, FailExplained
<1>2. CASE ~Fail("bad_package")
  <2>1. /\ phase = "imports" /\ phase' = "done" /\ pending = <<>> /\ current = NONE
        /\ UNCHANGED <<visited, current>>
    BY <1>2 DEF ApplyPackageSelector, resolution, LoaderInv, TypeOK
  <2>2. instance'.imports = instance.imports /\ Diagnosed("invalid")' = Diagnosed("invalid")
    BY <1>2, SelectedInstance
  <2>3. \A path : Reasons(path)' = Reasons(path)
    <3>1. IsSequence(instance.diagnostics)
      BY DEF LoaderInv, InstanceOK
    <3>2. CASE instance'.diagnostics = instance.diagnostics
      BY <3>2, ReasonsFound
    <3>3. CASE \E name : instance'.diagnostics = Append(instance.diagnostics, <<"package_mismatch", name>>)
      <4>1. PICK name : instance'.diagnostics = Append(instance.diagnostics, <<"package_mismatch", name>>)
        BY <3>3
      <4>2. SUFFICES ASSUME NEW path
                     PROVE  ReasonsIn(instance'.diagnostics, path) = ReasonsIn(instance.diagnostics, path)
        BY ReasonsFound
      <4>3. \A i : i \in ReasonsIn(Append(instance.diagnostics, <<"package_mismatch", name>>), path)
                     <=> i \in ReasonsIn(instance.diagnostics, path)
        BY <3>1, ReasonAdded
      <4> QED
        BY <4>1, <4>3
    <3> QED
      BY <1>2, <3>2, <3>3, SelectedInstance
  <2>4. \A path : Explained(path)' <=> Explained(path)
    BY <2>2, <2>3 DEF Explained
  <2>5. /\ DOMAIN instance'.imports \subseteq visited'
        /\ \A path \in visited' : ImportKind[path] = "local"
        /\ \A path \in visited' : Explained(path)'
    <3>1. visited \subseteq ImportPaths /\ NONE \notin visited
      BY NoneAssumption DEF LoaderInv, TypeOK
    <3> QED
      BY <2>1, <2>2, <2>4, <3>1 DEF ExplainedInv
  <2>6. ASSUME NEW source \in Kept'
        PROVE  ToLoad(source.imports) \subseteq visited' \union Diagnosed("invalid")'
    <3>1. source \in Kept
      <4>1. CASE \E i \in DOMAIN instance'.files : source = instance'.files[i].source
        <5>1. \A i \in DOMAIN instance'.files : \E j \in DOMAIN instance.files : instance'.files[i] = instance.files[j]
          BY <1>2, SelectedFiles
        <5> QED
          BY <4>1, <5>1, KeptSources
      <4>2. CASE \E path \in DOMAIN instance'.imports : \E i \in DOMAIN instance'.imports[path] :
                    source = instance'.imports[path][i].source
        BY <2>2, <4>2, KeptSources
      <4> QED
        BY <4>1, <4>2, KeptAfter
    <3>2. ToLoad(ToSet(pending)) = {}
      BY <2>1 DEF ToLoad, ToSet
    <3>3. Wanted = visited \union Diagnosed("invalid")
      BY <3>2 DEF Wanted
    <3> QED
      BY <2>1, <2>2, <3>1, <3>3 DEF ExplainedInv
  <2> QED
    BY <2>1, <2>5, <2>6 DEF ExplainedInv, ToLoad, NeedsLoading
<1> QED
  BY <1>1, <1>2

LEMMA NextExplained ==
    ASSUME LoaderInv, LoaderInv', ExplainedInv, [Next]_vars
    PROVE  ExplainedInv'
<1>1. CASE \E reason : Fail(reason)
  BY <1>1, FailExplained
<1>2. CASE UNCHANGED <<phase, instance, resolution>>
  BY <1>2, SameExplained
<1>3. CASE phase' \in {"args", "tags", "parse"}
  BY <1>3, EarlyExplained
<1>4. CASE LoadStdin \/ LoadData \/ LoadPath \/ LoadTree
  BY <1>1, <1>2, <1>4 DEF LoadStdin, LoadData, LoadPath, LoadTree
<1>5. CASE OpenDirectory \/ (\E path \in Paths : VisitEntry(path)) \/ FinishArgument
  BY <1>1, <1>2, <1>5 DEF OpenDirectory, VisitEntry, FinishArgument
<1>6. CASE AddOverlays \/ PushTags
  BY <1>1, <1>3, <1>6 DEF AddOverlays, PushTags
<1>7. CASE ParseFiles
  BY <1>7, ParseExplained
<1>8. CASE SkipImport \/ SkipVisited \/ RejectImport \/ OpenImport
  BY <1>8, SkipExplained, RejectExplained, OpenExplained
<1>9. CASE FinishImport \/ ApplyPackageSelector
  BY <1>9, FinishExplained, SelectorExplained
<1>10. CASE DiskError
  BY <1>1, <1>10 DEF DiskError
<1>11. CASE UNCHANGED vars
  BY <1>2, <1>11 DEF vars
<1> QED
  BY <1>4, <1>5, <1>6, <1>7, <1>8, <1>9, <1>10, <1>11 DEF Next, Finished

(* An import of a file that is kept has a package, or one diagnostic that *)
(* says why it has none (resolve_local_imports, apply_package_selector).   *)
THEOREM ImportsAreExplained == Spec => []ImportsExplained
<1>1. Init => ExplainedInv
  BY InitExplained
<1>2. LoaderInv /\ LoaderInv' /\ ExplainedInv /\ [Next]_vars => ExplainedInv'
  BY NextExplained
<1>3. LoaderInv /\ ExplainedInv => ImportsExplained
  <2>1. SUFFICES ASSUME LoaderInv, ExplainedInv, phase = "done",
                        NEW path \in ToLoad(UNION {source.imports : source \in Kept})
                 PROVE  CASE ImportKind[path] = "invalid" -> path \in Diagnosed("invalid")
                          [] path \in DOMAIN instance.imports -> Reasons(path) = {}
                          [] OTHER -> Cardinality(Reasons(path)) = 1
    BY Zenon DEF ImportsExplained
  <2>2. path \in visited \union Diagnosed("invalid") /\ ImportKind[path] \in {"invalid", "local"}
    BY <2>1 DEF ToLoad, NeedsLoading, ExplainedInv
  <2>3. CASE ImportKind[path] = "invalid"
    <3>1. path \in Diagnosed("invalid") /\ path \notin DOMAIN instance.imports
      BY <2>1, <2>2, <2>3 DEF ExplainedInv
    <3> QED
      BY <2>3, <3>1
  <2>4. CASE ImportKind[path] = "local"
    <3>1. path \in visited /\ Explained(path)
      BY <2>1, <2>2, <2>4, InvalidNotLocal DEF ExplainedInv
    <3>2. CASE path \in DOMAIN instance.imports
      BY <2>4, <3>1, <3>2 DEF Explained
    <3>3. CASE path \notin DOMAIN instance.imports
      <4>1. PICK i : Reasons(path) = {i}
        BY <3>1, <3>3 DEF Explained
      <4>2. Cardinality(Reasons(path)) = 1
        BY <4>1, FS_Singleton
      <4> QED
        BY <2>4, <3>3, <4>2
    <3> QED
      BY <3>2, <3>3
  <2> QED
    BY <2>2, <2>3, <2>4
<1> QED
  BY <1>1, <1>2, <1>3, LoaderInvariant, PTL DEF Spec

----------------------------------------------------------------------------
(* The injected tags are selected *)

(* The synthetic source is the only file of its name; it parses and has    *)
(* the package the selector asks for.                                      *)
SelectableTags(sources) ==
    \A i \in DOMAIN sources : sources[i].name = "tags.cue" =>
        /\ sources[i].source.parses
        /\ request.selector.kind = "named" => sources[i].source.package = request.selector.name

TagsInv ==
    /\ phase = "tags" => \A i \in DOMAIN files : files[i].name # "tags.cue"
    /\ phase \in {"parse", "imports"} => SelectableTags(files)
    /\ phase = "imports" =>
          /\ \A k \in DOMAIN instance.files : \E i \in DOMAIN files : instance.files[k] = files[i]
          /\ \A i \in DOMAIN files : files[i].source.parses => \E k \in DOMAIN instance.files : instance.files[k] = files[i]
    /\ TagsSurviveSelection

LEMMA SameTags ==
    ASSUME TagsInv, UNCHANGED <<inputs, phase, files>>, instance'.files = instance.files
    PROVE  TagsInv'
<1>1. UNCHANGED <<request, phase, files>>
  BY DEF inputs
<1>2. (SelectableTags(files))' <=> SelectableTags(files)
  BY <1>1 DEF SelectableTags
<1>3. TagsSurviveSelection' <=> TagsSurviveSelection
  BY <1>1 DEF TagsSurviveSelection, Injected
<1> QED
  BY <1>1, <1>2, <1>3 DEF TagsInv

(* Nothing is selected before the end of a load. *)
LEMMA EarlyTags ==
    ASSUME phase' \notin {"tags", "parse", "imports", "done"}
    PROVE  TagsInv'
BY DEF TagsInv, TagsSurviveSelection

LEMMA AddOverlaysTags ==
    ASSUME LoaderInv, AddOverlays, ~Fail("traversal")
    PROVE  TagsInv'
<1> DEFINE overlays == request.overlays
           added == [i \in DOMAIN overlays |-> Source(overlays[i].name, TRUE, overlays[i].source)]
<1>1. phase = "args" /\ phase' = "tags" /\ files' = files \o added
  BY DEF AddOverlays
<1>2. IsSequence(overlays) /\ \A i \in DOMAIN overlays : overlays[i].name # "tags.cue"
  <2>1. PICK pair \in Loads : request = pair[2]
    BY DEF LoaderInv, InputsOK
  <2> QED
    BY <2>1, LoadsAssumption
<1>3. IsSequence(files) /\ \A i \in 1 .. Len(files) : files[i].name # "tags.cue"
  <2>1. files \in Seq(SourceFiles)
    BY <1>1 DEF LoaderInv, ReadingOK
  <2>2. \A file \in SourceFiles : file.name # "tags.cue"
    BY LoadsAssumption DEF SourceFiles
  <2> QED
    BY <2>1, <2>2, SeqIsSequence, ElementOfSeq
<1>4. DOMAIN overlays = 1 .. Len(overlays) /\ Len(overlays) \in Nat
  BY <1>2 DEF IsSequence
<1>5. DOMAIN added = 1 .. Len(overlays) /\ \A i \in DOMAIN added : added[i].name # "tags.cue"
  BY <1>2, <1>4 DEF Source
<1>6. IsSequence(added)
  BY <1>4, <1>5, FunctionIsSequence
<1> HIDE DEF added, overlays
<1>7. /\ IsSequence(files \o added)
      /\ \A i \in 1 .. Len(files \o added) :
            \/ i \in 1 .. Len(files) /\ (files \o added)[i] = files[i]
            \/ \E j \in 1 .. Len(added) : i = Len(files) + j /\ (files \o added)[i] = added[j]
  BY <1>3, <1>6, ConcatFrames
<1>8. \A i \in DOMAIN files' : files'[i].name # "tags.cue"
  BY <1>1, <1>3, <1>5, <1>6, <1>7 DEF IsSequence
<1> QED
  BY <1>1, <1>8 DEF TagsInv, TagsSurviveSelection

LEMMA PushTagsTags ==
    ASSUME LoaderInv, TagsInv, PushTags, ~\E reason : Fail(reason)
    PROVE  TagsInv'
<1> DEFINE file == Source("tags.cue", TRUE, TagsSource(Injections))
<1>1. phase = "tags" /\ phase' = "parse" /\ UNCHANGED inputs /\ (files' = files \/ files' = Append(files, file))
  BY DEF PushTags
<1>2. file.source.parses /\ (request.selector.kind = "named" => file.source.package = request.selector.name)
  BY DEF Source, TagsSource
<1>3. IsSequence(files) /\ \A i \in DOMAIN files : files[i].name # "tags.cue"
  BY <1>1 DEF LoaderInv, ReadingOK, TagsInv
<1> HIDE DEF file
<1>4. \A i \in DOMAIN files' : files'[i].name = "tags.cue" => files'[i] = file
  <2>1. CASE files' = files
    BY <1>3, <2>1
  <2>2. CASE files' = Append(files, file)
    <3>1. /\ IsSequence(Append(files, file)) /\ Len(Append(files, file)) = Len(files) + 1
          /\ \A i \in 1 .. Len(files) : Append(files, file)[i] = files[i]
          /\ Append(files, file)[Len(files) + 1] = file
      BY <1>3, PushFrame
    <3>2. Len(files) \in Nat /\ DOMAIN files = 1 .. Len(files) /\ DOMAIN Append(files, file) = 1 .. Len(files) + 1
      BY <1>3, <3>1 DEF IsSequence
    <3>3. \A i \in DOMAIN Append(files, file) : i \in 1 .. Len(files) \/ i = Len(files) + 1
      BY <3>2
    <3> QED
      BY <1>3, <2>2, <3>1, <3>2, <3>3
  <2> QED
    BY <1>1, <2>1, <2>2
<1>5. request' = request
  BY <1>1 DEF inputs
<1>6. SelectableTags(files)'
  BY <1>2, <1>4, <1>5 DEF SelectableTags
<1> QED
  BY <1>1, <1>6 DEF TagsInv, TagsSurviveSelection

LEMMA ParseTags ==
    ASSUME LoaderInv, TagsInv, ParseFiles
    PROVE  TagsInv'
<1> DEFINE asts == AstFiles(files)
           parsed == {i \in DOMAIN files : files[i].source.parses}
<1>1. phase = "parse" /\ phase' = "imports" /\ UNCHANGED <<inputs, files>>
  BY DEF ParseFiles
<1>2. IsSequence(files) /\ instance'.files = asts
  BY ParsedInstance
<1>3. ToSet(asts) = {files[i] : i \in parsed}
  BY <1>2, ParsedFiles
<1> HIDE DEF asts
<1>4. /\ \A k \in DOMAIN asts : \E i \in DOMAIN files : asts[k] = files[i]
      /\ \A i \in DOMAIN files : files[i].source.parses => \E k \in DOMAIN asts : asts[k] = files[i]
  <2>1. \A k \in DOMAIN asts : asts[k] \in ToSet(asts)
    BY Zenon DEF ToSet
  <2>2. \A file \in ToSet(asts) : \E k \in DOMAIN asts : asts[k] = file
    BY Zenon DEF ToSet
  <2> QED
    BY <1>3, <2>1, <2>2
<1>5. request' = request
  BY <1>1 DEF inputs
<1>6. SelectableTags(files)'
  BY <1>1, <1>5 DEF TagsInv, SelectableTags
<1> QED
  BY <1>1, <1>2, <1>4, <1>6 DEF TagsInv, TagsSurviveSelection

(* What is selected holds the synthetic source. *)
LEMMA SelectedTags ==
    ASSUME LoaderInv, ApplyPackageSelector, ~Fail("bad_package"), request.selector.kind # "none"
    PROVE  \A k \in DOMAIN instance.files :
              (request.selector.kind = "named" => instance.files[k].source.package = request.selector.name)
                 => \E l \in DOMAIN instance'.files : instance'.files[l] = instance.files[k]
<1> DEFINE name == request.selector.name
           I == {i \in DOMAIN instance.files : instance.files[i].source.package = name}
           kept == Subsequence(instance.files, I)
<1>1. instance = [package |-> instance.package, files |-> instance.files, direct |-> instance.direct,
                  imports |-> instance.imports, diagnostics |-> instance.diagnostics]
      /\ IsSequence(instance.files)
  BY DEF LoaderInv, InstanceOK
<1>2. instance' = CASE request.selector.kind = "named" -> SelectNamed(name)
                    [] request.selector.kind = "none" -> [instance EXCEPT !.files = <<>>, !.package = NONE]
                    [] OTHER -> instance
  BY DEF ApplyPackageSelector
<1>3. CASE request.selector.kind = "named"
  <2>1. instance' = SelectNamed(name)
    BY <1>2, <1>3
  <2>2. instance'.files = instance.files \/ instance'.files = kept
    BY <1>1, <2>1 DEF SelectNamed, Diagnose
  <2>3. I \in SUBSET DOMAIN instance.files
    OBVIOUS
  <2>4. \A k \in DOMAIN instance.files : instance.files[k].source.package = name => k \in I
    OBVIOUS
  <2> HIDE DEF I
  <2>5. \A k \in I : \E l \in DOMAIN kept : kept[l] = instance.files[k]
    BY <1>1, <2>3, KeptFiles
  <2> HIDE DEF kept, name
  <2> QED
    BY <1>3, <2>2, <2>4, <2>5 DEF name
<1>4. CASE request.selector.kind # "named"
  BY <1>2, <1>4
<1> QED
  BY <1>3, <1>4

LEMMA SelectorTags ==
    ASSUME LoaderInv, TagsInv, ApplyPackageSelector, ~Fail("bad_package")
    PROVE  TagsInv'
<1>1. phase = "imports" /\ phase' = "done" /\ UNCHANGED <<inputs, files>>
  BY DEF ApplyPackageSelector
<1>2. SUFFICES ASSUME request.selector.kind # "none"
               PROVE  Injected(instance'.files) = Injected(files)
  BY <1>1 DEF TagsInv, TagsSurviveSelection, Injected, inputs
<1>3. \A k \in DOMAIN instance'.files : \E i \in DOMAIN files : instance'.files[k] = files[i]
  <2>1. \A k \in DOMAIN instance'.files : \E l \in DOMAIN instance.files : instance'.files[k] = instance.files[l]
    BY SelectedFiles
  <2> QED
    BY <1>1, <2>1 DEF TagsInv
<1>4. \A i \in DOMAIN files : files[i].name = "tags.cue" => \E k \in DOMAIN instance'.files : instance'.files[k] = files[i]
  <2>1. SUFFICES ASSUME NEW i \in DOMAIN files, files[i].name = "tags.cue"
                 PROVE  \E k \in DOMAIN instance'.files : instance'.files[k] = files[i]
    OBVIOUS
  <2>2. /\ files[i].source.parses
        /\ request.selector.kind = "named" => files[i].source.package = request.selector.name
    BY <1>1, <2>1 DEF TagsInv, SelectableTags
  <2>3. PICK k \in DOMAIN instance.files : instance.files[k] = files[i]
    BY <1>1, <2>2 DEF TagsInv
  <2> QED
    BY <1>2, <2>2, <2>3, SelectedTags
<1>5. \A field : field \in Injected(files)
                    <=> \E i \in DOMAIN files : files[i].name = "tags.cue" /\ field \in DOMAIN files[i].source.injects
  BY DEF Injected
<1>6. \A field : field \in Injected(instance'.files)
                    <=> \E k \in DOMAIN instance'.files :
                           instance'.files[k].name = "tags.cue" /\ field \in DOMAIN instance'.files[k].source.injects
  BY DEF Injected
<1>7. ASSUME NEW field \in Injected(files)
      PROVE  field \in Injected(instance'.files)
  <2>1. PICK i \in DOMAIN files : files[i].name = "tags.cue" /\ field \in DOMAIN files[i].source.injects
    BY <1>5, <1>7
  <2>2. PICK k \in DOMAIN instance'.files : instance'.files[k] = files[i]
    BY <1>4, <2>1
  <2> QED
    BY <1>6, <2>1, <2>2
<1>8. ASSUME NEW field \in Injected(instance'.files)
      PROVE  field \in Injected(files)
  <2>1. PICK k \in DOMAIN instance'.files :
           instance'.files[k].name = "tags.cue" /\ field \in DOMAIN instance'.files[k].source.injects
    BY <1>6, <1>8
  <2>2. PICK i \in DOMAIN files : instance'.files[k] = files[i]
    BY <1>3, <2>1
  <2> QED
    BY <1>5, <2>1, <2>2
<1> QED
  BY <1>7, <1>8

LEMMA ImportTags ==
    ASSUME LoaderInv, SkipImport \/ SkipVisited \/ RejectImport \/ OpenImport \/ FinishImport,
           ~\E reason : Fail(reason)
    PROVE  UNCHANGED <<inputs, phase, files>> /\ instance'.files = instance.files
<1>1. CASE SkipImport \/ SkipVisited
  BY <1>1 DEF SkipImport, SkipVisited
<1>2. CASE RejectImport
  BY <1>2, DiagnosedGrows DEF RejectImport, LoaderInv
<1>3. CASE OpenImport
  <2>1. UNCHANGED <<inputs, phase, files>>
        /\ (UNCHANGED instance \/ instance' = Diagnose("missing", Head(pending)))
    BY <1>3 DEF OpenImport
  <2>2. CASE UNCHANGED instance
    BY <2>1, <2>2
  <2>3. CASE instance' = Diagnose("missing", Head(pending))
    <3>1. InstanceOK
      BY DEF LoaderInv
    <3>2. instance' = [package |-> instance.package, files |-> instance.files, direct |-> instance.direct,
                       imports |-> instance.imports,
                       diagnostics |-> Append(instance.diagnostics, <<"missing", Head(pending)>>)]
      BY <2>3, <3>1, DiagnosedGrows
    <3> QED
      BY <2>1, <3>2
  <2> QED
    BY <2>1, <2>2, <2>3
<1>4. CASE FinishImport
  <2>1. UNCHANGED <<inputs, phase, files>>
    BY <1>4 DEF FinishImport
  <2> QED
    BY <1>4, <2>1, ImportRecorded
<1> QED
  BY <1>1, <1>2, <1>3, <1>4

LEMMA NextTags ==
    ASSUME LoaderInv, TagsInv, [Next]_vars
    PROVE  TagsInv'
<1>1. CASE \E reason : Fail(reason)
  BY <1>1, EarlyTags DEF Fail
<1>2. CASE phase' = "args"
  BY <1>2, EarlyTags
<1>3. CASE LoadStdin \/ LoadData \/ LoadPath \/ LoadTree
  BY <1>1, <1>2, <1>3 DEF LoadStdin, LoadData, LoadPath, LoadTree, ReadingArgs
<1>4. CASE OpenDirectory \/ \E path \in Paths : VisitEntry(path)
  <2>1. CASE UNCHANGED <<inputs, phase, files, instance>>
    BY <2>1, SameTags
  <2> QED
    BY <1>1, <1>4, <2>1 DEF OpenDirectory, VisitEntry
<1>5. CASE FinishArgument
  <2>1. phase = "args" /\ phase' = phase
    BY <1>5, TraversalType DEF FinishArgument, DirectoryRead
  <2> QED
    BY <1>2, <2>1
<1>6. CASE AddOverlays \/ PushTags \/ ParseFiles
  BY <1>1, <1>6, AddOverlaysTags, PushTagsTags, ParseTags
<1>7. CASE SkipImport \/ SkipVisited \/ RejectImport \/ OpenImport \/ FinishImport
  BY <1>1, <1>7, ImportTags, SameTags
<1>8. CASE ApplyPackageSelector
  BY <1>1, <1>8, SelectorTags
<1>9. CASE DiskError
  BY <1>1, <1>9 DEF DiskError
<1>10. CASE UNCHANGED vars
  BY <1>10, SameTags DEF vars
<1> QED
  BY <1>3, <1>4, <1>5, <1>6, <1>7, <1>8, <1>9, <1>10 DEF Next, Finished

(* The package selector keeps the source that push_tags has made.          *)
THEOREM TagsSelected == Spec => []TagsSurviveSelection
<1>1. Init => TagsInv
  BY DEF Init, TagsInv, TagsSurviveSelection
<1>2. LoaderInv /\ TagsInv /\ [Next]_vars => TagsInv'
  BY NextTags
<1>3. TagsInv => TagsSurviveSelection
  BY DEF TagsInv
<1> QED
  BY <1>1, <1>2, <1>3, LoaderInvariant, PTL DEF Spec

----------------------------------------------------------------------------
(* The files that arguments name.  While a traversal is in progress, what  *)
(* was found and what lies under the entries and directories left are      *)
(* together what the arguments taken so far name; nothing lies under two   *)
(* of these, so that no file is found twice.                               *)

LEMMA UnderItself ==
    ASSUME NEW on, NEW path \in DirectoriesOn(on)
    PROVE  path \in DirectoriesUnder(on, path)
BY DEF DirectoriesUnder

LEMMA UnderClosed ==
    ASSUME NEW on, NEW path
    PROVE  ClosedBelow(on, DirectoriesUnder(on, path))
<1>1. SUFFICES ASSUME NEW dir \in DirectoriesUnder(on, path),
                      NEW sub \in on.entries[dir] \intersect DirectoriesOn(on),
                      NEW dirs \in SUBSET DirectoriesOn(on),
                      {path} \intersect DirectoriesOn(on) \subseteq dirs, ClosedBelow(on, dirs)
               PROVE  sub \in dirs
  BY DEF ClosedBelow, DirectoriesUnder
<1>2. dir \in dirs
  BY <1>1 DEF DirectoriesUnder
<1> QED
  BY <1>1, <1>2 DEF ClosedBelow

LEMMA UnderLeast ==
    ASSUME NEW on, NEW path, NEW dirs \in SUBSET DirectoriesOn(on),
           {path} \intersect DirectoriesOn(on) \subseteq dirs, ClosedBelow(on, dirs)
    PROVE  DirectoriesUnder(on, path) \subseteq dirs
BY DEF DirectoriesUnder

(* There are no directories below what is none. *)
LEMMA UnderNone ==
    ASSUME NEW on, NEW path, path \notin DirectoriesOn(on)
    PROVE  DirectoriesUnder(on, path) = {}
<1>1. ClosedBelow(on, {})
  BY DEF ClosedBelow
<1> QED
  BY <1>1, UnderLeast

(* Those below a directory are itself and those below its entries.         *)
LEMMA UnderEntries ==
    ASSUME NEW on, NEW dir \in DirectoriesOn(on)
    PROVE  DirectoriesUnder(on, dir) =
               {dir} \union UNION {DirectoriesUnder(on, e) : e \in on.entries[dir]}
<1> DEFINE below == UNION {DirectoriesUnder(on, e) : e \in on.entries[dir]}
           all == {dir} \union below
<1>1. all \subseteq DirectoriesOn(on)
  BY DEF DirectoriesUnder
<1>2. ClosedBelow(on, all)
  <2>1. SUFFICES ASSUME NEW d \in all, NEW sub \in on.entries[d] \intersect DirectoriesOn(on)
                 PROVE  sub \in all
    BY DEF ClosedBelow
  <2>2. CASE d = dir
    <3>1. sub \in DirectoriesUnder(on, sub)
      BY <2>1, UnderItself
    <3> QED
      BY <2>1, <2>2, <3>1
  <2>3. CASE d \in below
    <3>1. PICK e \in on.entries[dir] : d \in DirectoriesUnder(on, e)
      BY <2>3
    <3>2. sub \in DirectoriesUnder(on, e)
      BY <2>1, <3>1, UnderClosed DEF ClosedBelow
    <3> QED
      BY <3>2
  <2> QED
    BY <2>1, <2>2, <2>3
<1>3. DirectoriesUnder(on, dir) \subseteq all
  <2> HIDE DEF all
  <2>1. dir \in all
    BY DEF all
  <2> QED
    BY <1>1, <1>2, <2>1, UnderLeast
<1>4. below \subseteq DirectoriesUnder(on, dir)
  <2>1. SUFFICES ASSUME NEW e \in on.entries[dir]
                 PROVE  DirectoriesUnder(on, e) \subseteq DirectoriesUnder(on, dir)
    OBVIOUS
  <2>2. CASE e \in DirectoriesOn(on)
    <3>1. e \in DirectoriesUnder(on, dir)
      BY <2>1, <2>2, UnderItself, UnderClosed DEF ClosedBelow
    <3>2. DirectoriesUnder(on, dir) \subseteq DirectoriesOn(on)
      BY DEF DirectoriesUnder
    <3> QED
      BY <3>1, <3>2, UnderClosed, UnderLeast
  <2>3. CASE e \notin DirectoriesOn(on)
    BY <2>3, UnderNone
  <2> QED
    BY <2>2, <2>3
<1> QED
  BY <1>3, <1>4, UnderItself

(* The CUE files that one entry of a directory stands for. *)
FilesAt(on, path, recursive) ==
    IF on.kind[path] = "cue" THEN {path}
    ELSE IF recursive THEN CueFilesUnder(on, path, TRUE) ELSE {}

LEMMA FilesUnder ==
    ASSUME NEW on, NEW path
    PROVE  /\ FilesAt(on, path, TRUE) \subseteq Under(on, path)
           /\ on.kind[path] # "cue" /\ path \notin DirectoriesOn(on) => FilesAt(on, path, TRUE) = {}
<1>1. CueFilesUnder(on, path, TRUE) \subseteq Under(on, path)
  BY DEF CueFilesUnder, Under
<1>2. path \notin DirectoriesOn(on) => CueFilesUnder(on, path, TRUE) = {}
  BY UnderNone DEF CueFilesUnder
<1> QED
  BY <1>1, <1>2 DEF FilesAt, Under

(* A directory names what its entries stand for. *)
LEMMA FilesOfEntries ==
    ASSUME NEW on, NEW dir \in DirectoriesOn(on), on.entries[dir] \subseteq Paths, NEW recursive \in BOOLEAN
    PROVE  CueFilesUnder(on, dir, recursive) = UNION {FilesAt(on, e, recursive) : e \in on.entries[dir]}
<1> DEFINE here == {e \in on.entries[dir] : on.kind[e] = "cue"}
<1>1. CASE recursive = FALSE
  <2>1. CueFilesUnder(on, dir, recursive) = here
    BY <1>1 DEF CueFilesUnder
  <2>2. \A e : FilesAt(on, e, recursive) = IF on.kind[e] = "cue" THEN {e} ELSE {}
    BY <1>1 DEF FilesAt
  <2> QED
    BY <2>1, <2>2
<1>2. CASE recursive = TRUE
  <2> DEFINE below(e) == DirectoriesUnder(on, e)
             files_of(e) == CueFilesUnder(on, e, TRUE)
  <2>1. below(dir) = {dir} \union UNION {below(e) : e \in on.entries[dir]}
    BY UnderEntries
  <2>2. \A e : files_of(e) = {file \in UNION {on.entries[d] : d \in below(e)} : on.kind[file] = "cue"}
    BY DEF CueFilesUnder
  <2> HIDE DEF below, files_of
  <2>3. files_of(dir) = here \union UNION {files_of(e) : e \in on.entries[dir]}
    <3>1. ASSUME NEW file \in files_of(dir)
          PROVE  file \in here \union UNION {files_of(e) : e \in on.entries[dir]}
      <4>1. PICK d \in below(dir) : file \in on.entries[d] /\ on.kind[file] = "cue"
        BY <2>2, <3>1
      <4>2. CASE d = dir
        BY <4>1, <4>2
      <4>3. CASE \E e \in on.entries[dir] : d \in below(e)
        <5>1. PICK e \in on.entries[dir] : d \in below(e)
          BY <4>3
        <5>2. file \in files_of(e)
          BY <2>2, <4>1, <5>1
        <5> QED
          BY <5>2
      <4> QED
        BY <2>1, <4>1, <4>2, <4>3
    <3>2. here \subseteq files_of(dir)
      <4>1. dir \in below(dir)
        BY <2>1
      <4> QED
        BY <2>2, <4>1
    <3>3. \A e \in on.entries[dir] : files_of(e) \subseteq files_of(dir)
      <4>1. \A e \in on.entries[dir] : below(e) \subseteq below(dir)
        BY <2>1
      <4> QED
        BY <2>2, <4>1
    <3> QED
      BY <3>1, <3>2, <3>3
  <2>4. \A e \in on.entries[dir] : on.kind[e] = "cue" => files_of(e) = {}
    <3>1. SUFFICES ASSUME NEW e \in on.entries[dir], on.kind[e] = "cue"
                   PROVE  below(e) = {}
      BY <2>2
    <3> QED
      BY <3>1, UnderNone DEF DirectoriesOn, below
  <2>5. \A e : FilesAt(on, e, recursive) = IF on.kind[e] = "cue" THEN {e} ELSE files_of(e)
    BY <1>2 DEF FilesAt, files_of
  <2>6. CueFilesUnder(on, dir, recursive) = files_of(dir)
    BY <1>2 DEF files_of
  <2> QED
    BY <2>3, <2>4, <2>5, <2>6
<1> QED
  BY <1>1, <1>2

(* Two entries of a directory have no file in common. *)
LEMMA EntriesApart ==
    ASSUME NEW name \in DOMAIN Disks, NEW dir \in DirectoriesOn(Disks[name]),
           NEW e \in Disks[name].entries[dir], NEW f \in Disks[name].entries[dir], e # f,
           NEW recursive \in BOOLEAN
    PROVE  FilesAt(Disks[name], e, recursive) \intersect FilesAt(Disks[name], f, recursive) = {}
<1>1. CASE recursive = FALSE
  BY <1>1 DEF FilesAt
<1>2. CASE recursive = TRUE
  <2>1. Under(Disks[name], e) \intersect Under(Disks[name], f) = {}
    BY ForestAssumption
  <2> QED
    BY <1>2, <2>1, FilesUnder
<1> QED
  BY <1>1, <1>2

----------------------------------------------------------------------------
(* How often a file was read. *)

LEMMA TimesOfPushed ==
    ASSUME NEW s, IsSequence(s), NEW file, NEW name
    PROVE  /\ Times(name, s) \in Nat
           /\ Times(name, Append(s, file)) = Times(name, s) + IF file.name = name THEN 1 ELSE 0
<1> DEFINE n == Len(s)
           t == Append(s, file)
           I == {i \in 1 .. n : s[i].name = name}
           J == {i \in 1 .. n + 1 : t[i].name = name}
<1>1. /\ IsSequence(t) /\ Len(t) = n + 1
      /\ \A i \in 1 .. n : t[i] = s[i]
      /\ t[n + 1] = file
  BY PushFrame
<1>2. n \in Nat /\ DOMAIN s = 1 .. n /\ DOMAIN t = 1 .. n + 1
  BY <1>1 DEF IsSequence
<1>3. Times(name, s) = Cardinality(I) /\ Times(name, t) = Cardinality(J)
  BY <1>2 DEF Times
<1> HIDE DEF t, n
<1>4. IsFiniteSet(I)
  <2>1. IsFiniteSet(1 .. n)
    BY <1>2, FS_Interval
  <2> QED
    BY <2>1, FS_Subset
<1>5. J = IF file.name = name THEN I \union {n + 1} ELSE I
  <2>1. \A i \in 1 .. n + 1 : i \in 1 .. n \/ i = n + 1
    BY <1>2
  <2>2. n + 1 \in 1 .. n + 1 /\ \A i \in 1 .. n : i \in 1 .. n + 1
    BY <1>2
  <2> QED
    BY <1>1, <2>1, <2>2
<1>6. n + 1 \notin I
  BY <1>2
<1> HIDE DEF I, J
<1>7. Cardinality(I) \in Nat /\ Cardinality(I \union {n + 1}) = Cardinality(I) + 1
  BY <1>4, <1>6, FS_CardinalityType, FS_AddElement
<1> QED
  BY <1>3, <1>5, <1>7 DEF t

LEMMA TimesOfNone ==
    ASSUME NEW name
    PROVE  Times(name, <<>>) = 0
<1>1. {i \in DOMAIN <<>> : <<>>[i].name = name} = {}
  OBVIOUS
<1> QED
  BY <1>1, FS_EmptySet, Zenon DEF Times

LEMMA TimesType ==
    ASSUME NEW s, IsSequence(s), NEW name
    PROVE  Times(name, s) \in Nat
BY TimesOfPushed

(* Sorting takes no file away, adds none, and sorts. *)
LEMMA SortedFiles ==
    ASSUME NEW s \in Seq(SourceFiles)
    PROVE  /\ \A name : Times(name, SortByName(s)) = Times(name, s)
           /\ Sorted(SortByName(s))
<1> DEFINE I == DOMAIN s
           n == Cardinality(I)
           before == NamedBefore(s)
           order == Ranked(I, before)
           t == [k \in 1 .. n |-> s[order[k]]]
           place(i) == Position(NameOrder, s[i].name)
<1>1. I = 1 .. Len(s) /\ Len(s) \in Nat /\ IsFiniteSet(I) /\ n \in Nat
  <2>1. I = 1 .. Len(s) /\ Len(s) \in Nat
    BY LenProperties
  <2>2. IsFiniteSet(I)
    BY <2>1, FS_Interval
  <2> QED
    BY <2>1, <2>2, FS_CardinalityType
<1>2. \A i \in I : place(i) \in Int
  <2>1. \A i \in I : s[i] \in SourceFiles
    BY <1>1, ElementOfSeq
  <2>2. \A i \in I : s[i].name \in Paths
    BY <2>1 DEF SourceFiles
  <2> QED
    BY <2>2, PositionType
<1>3. IsStrictOrder(I, before)
  BY NamedOrder
<1>4. /\ order \in [1 .. n -> I]
      /\ \A i \in I : \E k \in 1 .. n : order[k] = i
      /\ \A k, l \in 1 .. n : k < l => order[k] \in before[order[l]]
  BY <1>1, <1>3, RankedElements
<1>5. \A k, l \in 1 .. n : order[k] = order[l] => k = l
  <2>1. \A k, l \in 1 .. n : k < l => order[k] # order[l]
    <3> HIDE DEF I, before, order
    <3> QED
      BY <1>3, <1>4 DEF IsStrictOrder
  <2> HIDE DEF order, n
  <2> QED
    BY <1>1, <2>1
<1>6. SortByName(s) = t
  BY DEF SortByName, Arranged
<1>7. ASSUME NEW name PROVE Times(name, t) = Times(name, s)
  <2> DEFINE A == {k \in 1 .. n : t[k].name = name}
             B == {i \in I : s[i].name = name}
             f == [k \in A |-> order[k]]
  <2>1. f \in [A -> B]
    <3> HIDE DEF order, n, I
    <3> QED
      BY <1>4
  <2>2. \A k, l \in A : f[k] = f[l] => k = l
    <3> HIDE DEF order, n, I
    <3> QED
      BY <1>5
  <2>3. \A i \in B : \E k \in A : f[k] = i
    <3> HIDE DEF order, n, I
    <3> QED
      BY <1>4
  <2>4. f \in Bijection(A, B)
    <3> HIDE DEF f, A, B
    <3> QED
      BY <2>1, <2>2, <2>3, Fun_IsBij
  <2>5. IsFiniteSet(A)
    <3>1. IsFiniteSet(1 .. n)
      BY <1>1, FS_Interval
    <3> QED
      BY <3>1, FS_Subset
  <2>6. Cardinality(A) = Cardinality(B)
    <3> HIDE DEF f, A, B
    <3> QED
      BY <2>4, <2>5, FS_Bijection DEF ExistsBijection
  <2> QED
    BY <2>6 DEF Times
<1>8. Sorted(t)
  <2>1. SUFFICES ASSUME NEW k \in 1 .. n, NEW l \in 1 .. n, k < l
                 PROVE  place(order[k]) <= place(order[l])
    BY DEF Sorted
  <2>2. order[k] \in I /\ order[l] \in I /\ order[k] \in before[order[l]]
    BY <1>4, <2>1
  <2>3. before = [i \in I |-> {j \in I : place(j) < place(i) \/ (place(j) = place(i) /\ j < i)}]
    BY DEF NamedBefore
  <2> HIDE DEF order, before, I, n, place
  <2> QED
    BY <1>2, <2>2, <2>3
<1> QED
  BY <1>6, <1>7, <1>8

(* Overlays stand behind the files that were read. *)
LEMMA ReadFiles ==
    ASSUME NEW s, IsSequence(s), NEW t, IsSequence(t)
    PROVE  SubSeq(s \o t, 1, Len(s \o t) - Len(t)) = s
<1> DEFINE T == {s[i] : i \in 1 .. Len(s)} \union {t[i] : i \in 1 .. Len(t)}
<1>1. (\A i \in 1 .. Len(s) : s[i] \in T) /\ (\A i \in 1 .. Len(t) : t[i] \in T)
  OBVIOUS
<1> HIDE DEF T
<1>2. s \in Seq(T) /\ t \in Seq(T)
  BY <1>1, SequenceIsSeq
<1>3. /\ s \o t \in Seq(T)
      /\ Len(s \o t) = Len(s) + Len(t)
      /\ \A i \in 1 .. Len(s) : (s \o t)[i] = s[i]
  BY ConcatFrames, <1>2
<1>4. Len(s) \in Nat /\ Len(t) \in Nat
  BY <1>2, LenProperties
<1>5. Len(s \o t) - Len(t) = Len(s)
  BY <1>3, <1>4
<1> QED
  BY <1>2, <1>3, <1>4, <1>5

----------------------------------------------------------------------------
(* How many of the arguments taken name a file. *)

Consumed == Len(request.args) - Len(args)

ArgumentsTaken ==
    /\ Len(args) <= Len(request.args)
    /\ \A i \in 1 .. Len(args) : args[i] = request.args[Consumed + i]

LEMMA RequestedArguments ==
    ASSUME InputsOK
    PROVE  /\ IsSequence(request.args) /\ DOMAIN request.args = 1 .. Len(request.args)
           /\ Len(request.args) \in Nat
<1>1. IsSequence(request.args)
  BY LoadsAssumption DEF InputsOK
<1> QED
  BY <1>1 DEF IsSequence

LEMMA NamingOneMore ==
    ASSUME NEW k \in Nat, NEW name
    PROVE  /\ Cardinality(Naming(name, 1 .. k)) \in Nat
           /\ Cardinality(Naming(name, 1 .. k + 1)) =
                  Cardinality(Naming(name, 1 .. k)) + IF name \in FilesOf(request.args[k + 1]) THEN 1 ELSE 0
<1> DEFINE A == Naming(name, 1 .. k)
<1>1. IsFiniteSet(A)
  <2>1. IsFiniteSet(1 .. k)
    BY FS_Interval
  <2> QED
    BY <2>1, FS_Subset DEF Naming
<1>2. Naming(name, 1 .. k + 1) = IF name \in FilesOf(request.args[k + 1]) THEN A \union {k + 1} ELSE A
  <2>1. \A i : i \in 1 .. k + 1 <=> i \in 1 .. k \/ i = k + 1
    OBVIOUS
  <2> QED
    BY <2>1 DEF Naming
<1>3. k + 1 \notin A
  BY DEF Naming
<1> HIDE DEF A
<1>4. Cardinality(A) \in Nat /\ Cardinality(A \union {k + 1}) = Cardinality(A) + 1
  BY <1>1, <1>3, FS_CardinalityType, FS_AddElement
<1> QED
  BY <1>2, <1>4 DEF A

(* The next argument is taken.                                             *)
LEMMA ArgumentTaken ==
    ASSUME LoaderInv, ArgumentsTaken, args # <<>>, args' = Tail(args), UNCHANGED inputs
    PROVE  /\ ArgumentsTaken'
           /\ Consumed \in Nat /\ Consumed' = Consumed + 1
           /\ Head(args) = request.args[Consumed + 1]
           /\ args' = <<>> => request.args # <<>> /\ Last(request.args) = Head(args)
<1> USE DEF inputs
<1>1. args \in Seq(Arguments)
  BY DEF LoaderInv, ReadingOK
<1>2. Len(args) \in Nat /\ Len(args) > 0 /\ Head(args) = args[1]
  BY <1>1, EmptySeq, LenProperties, HeadTailProperties
<1>3. /\ Tail(args) \in Seq(Arguments) /\ Len(Tail(args)) = Len(args) - 1
      /\ \A i \in 1 .. Len(Tail(args)) : Tail(args)[i] = args[i + 1]
  BY <1>1, <1>2, HeadTailProperties
<1>4. Len(request.args) \in Nat /\ IsSequence(request.args)
  BY RequestedArguments DEF LoaderInv
<1>5. Consumed \in Nat /\ Consumed' = Consumed + 1
  BY <1>2, <1>3, <1>4 DEF Consumed, ArgumentsTaken
<1>6. Head(args) = request.args[Consumed + 1]
  BY <1>2 DEF ArgumentsTaken
<1>7. ArgumentsTaken'
  <2>1. Len(args') <= Len(request.args)
    BY <1>2, <1>3, <1>4 DEF ArgumentsTaken
  <2>2. \A i \in 1 .. Len(args') : args'[i] = request.args[Consumed' + i]
    <3>1. SUFFICES ASSUME NEW i \in 1 .. Len(args') PROVE args'[i] = request.args[Consumed' + i]
      OBVIOUS
    <3>2. i + 1 \in 1 .. Len(args) /\ Consumed + (i + 1) = Consumed' + i
      BY <1>2, <1>3, <1>5, <3>1
    <3> QED
      BY <1>3, <3>1, <3>2 DEF ArgumentsTaken
  <2> QED
    BY <2>1, <2>2 DEF ArgumentsTaken, Consumed
<1>8. args' = <<>> => request.args # <<>> /\ Last(request.args) = Head(args)
  <2>1. SUFFICES ASSUME args' = <<>> PROVE request.args # <<>> /\ Last(request.args) = Head(args)
    OBVIOUS
  <2>2. Len(args) = 1
    BY <1>2, <1>3, <2>1, EmptySeq
  <2>3. Consumed + 1 = Len(request.args)
    BY <1>4, <2>2 DEF Consumed
  <2>4. Len(request.args) # 0
    BY <1>4, <1>5, <2>3
  <2> QED
    BY <1>4, <1>6, <2>3, <2>4, EmptyStack DEF Last
<1> QED
  BY <1>5, <1>6, <1>7, <1>8

----------------------------------------------------------------------------
(* The invariant: what was found and what is left are what is named.       *)

LeftInDirectories(on, w) == UNION {CueFilesUnder(on, w.dirs[i], w.recursive) : i \in 1 .. Len(w.dirs)}
LeftAtEntries(on, w) == UNION {FilesAt(on, e, w.recursive) : e \in w.entries}

FilesLeft(on, w) == LeftInDirectories(on, w) \union LeftAtEntries(on, w)

Apart(on, w) ==
    /\ \A i, j \in 1 .. Len(w.dirs) :
          i # j => CueFilesUnder(on, w.dirs[i], w.recursive)
                       \intersect CueFilesUnder(on, w.dirs[j], w.recursive) = {}
    /\ \A i \in 1 .. Len(w.dirs), e \in w.entries :
          CueFilesUnder(on, w.dirs[i], w.recursive) \intersect FilesAt(on, e, w.recursive) = {}
    /\ \A e, f \in w.entries :
          e # f => FilesAt(on, e, w.recursive) \intersect FilesAt(on, f, w.recursive) = {}

LEMMA FileLeft ==
    ASSUME NEW on, NEW w, NEW file
    PROVE  file \in FilesLeft(on, w) <=>
               \/ \E i \in 1 .. Len(w.dirs) : file \in CueFilesUnder(on, w.dirs[i], w.recursive)
               \/ \E e \in w.entries : file \in FilesAt(on, e, w.recursive)
<1>1. file \in LeftInDirectories(on, w) <=>
          \E i \in 1 .. Len(w.dirs) : file \in CueFilesUnder(on, w.dirs[i], w.recursive)
  BY Zenon DEF LeftInDirectories
<1>2. file \in LeftAtEntries(on, w) <=> \E e \in w.entries : file \in FilesAt(on, e, w.recursive)
  BY Zenon DEF LeftAtEntries
<1> QED
  BY <1>1, <1>2 DEF FilesLeft

EveryFile(read, left) ==
    \A name \in Paths :
        Times(name, read) + (IF name \in left THEN 1 ELSE 0) = Cardinality(Naming(name, 1 .. Consumed))

FilesInv ==
    /\ phase = "args" =>
          /\ ArgumentsTaken
          /\ walk = NONE => EveryFile(files, {})
          /\ walk # NONE => Apart(disk, walk) /\ EveryFile(walk.found, FilesLeft(disk, walk))
          /\ (walk = NONE /\ args = <<>> /\ request.args # <<>> /\ IsDirectory(Last(request.args))) =>
                 Sorted(files)
    /\ FilesAreThoseNamed

LEMMA SameNaming ==
    ASSUME UNCHANGED inputs
    PROVE  /\ \A name : Naming(name, 1 .. Consumed)' = Naming(name, 1 .. Consumed')
           /\ \A arg : FilesOf(arg)' = FilesOf(arg) /\ IsDirectory(arg)' = IsDirectory(arg)
           /\ disk' = disk
           /\ request' = request
<1> USE DEF inputs
<1>1. disk' = disk /\ request' = request
  BY DEF disk
<1>2. \A arg : FilesOf(arg)' = FilesOf(arg) /\ IsDirectory(arg)' = IsDirectory(arg)
  BY <1>1 DEF FilesOf, IsDirectory
<1>3. \A name : Naming(name, 1 .. Consumed)' = Naming(name, 1 .. Consumed')
  BY <1>1 DEF Naming, FilesOf
<1> QED
  BY <1>1, <1>2, <1>3

LEMMA CountTaken ==
    ASSUME LoaderInv, ArgumentsTaken, args # <<>>, args' = Tail(args), UNCHANGED inputs
    PROVE  \A name :
              Cardinality(Naming(name, 1 .. Consumed))' =
                  Cardinality(Naming(name, 1 .. Consumed)) + IF name \in FilesOf(Head(args)) THEN 1 ELSE 0
<1>1. Consumed \in Nat /\ Consumed' = Consumed + 1 /\ Head(args) = request.args[Consumed + 1]
  BY ArgumentTaken
<1>2. \A name : Naming(name, 1 .. Consumed)' = Naming(name, 1 .. Consumed + 1)
  BY <1>1, SameNaming
<1> QED
  BY <1>1, <1>2, NamingOneMore

LEMMA CountKept ==
    ASSUME UNCHANGED <<inputs, args>>
    PROVE  /\ ArgumentsTaken' <=> ArgumentsTaken
           /\ \A name : Cardinality(Naming(name, 1 .. Consumed))' = Cardinality(Naming(name, 1 .. Consumed))
<1>1. Consumed' = Consumed
  BY DEF Consumed, inputs
<1>2. ArgumentsTaken' <=> ArgumentsTaken
  BY <1>1 DEF ArgumentsTaken, inputs
<1> QED
  BY <1>1, <1>2, SameNaming

LEMMA InitFiles == ASSUME Init PROVE FilesInv
<1> USE DEF Init
<1>1. IsSequence(request.args) /\ Len(request.args) \in Nat
  BY InitInv, RequestedArguments DEF LoaderInv
<1>2. Consumed = 0 /\ ArgumentsTaken
  BY <1>1 DEF Consumed, ArgumentsTaken
<1>3. EveryFile(files, {})
  <2>1. \A name : Cardinality(Naming(name, 1 .. Consumed)) = 0
    <3>1. \A name : Naming(name, 1 .. Consumed) = {}
      BY <1>2 DEF Naming
    <3> QED
      BY <3>1, FS_EmptySet
  <2>2. \A name : Times(name, files) = 0
    BY TimesOfNone
  <2> QED
    BY <2>1, <2>2 DEF EveryFile
<1> QED
  BY <1>2, <1>3 DEF FilesInv, FilesAreThoseNamed

LEMMA LaterFiles ==
    ASSUME phase' \notin {"args", "tags"}
    PROVE  FilesInv'
BY DEF FilesInv, FilesAreThoseNamed

LEMMA SameFiles ==
    ASSUME FilesInv, UNCHANGED <<inputs, phase, args, walk, files>>
    PROVE  FilesInv'
<1>1. disk' = disk /\ request' = request
  BY SameNaming
<1>2. phase = "args" => EveryFile(files, {})' = EveryFile(files, {})
  BY CountKept DEF EveryFile
<1>3. EveryFile(walk.found, FilesLeft(disk, walk))' <=> EveryFile(walk.found, FilesLeft(disk, walk))
  BY <1>1, CountKept DEF EveryFile
<1>4. IsDirectory(Last(request.args))' <=> IsDirectory(Last(request.args))
  BY <1>1 DEF IsDirectory
<1>5. FilesAreThoseNamed'
  <2>1. \A name : Naming(name, DOMAIN request.args)' = Naming(name, DOMAIN request.args)
    BY <1>1 DEF Naming, FilesOf
  <2> QED
    BY <1>1, <1>4, <2>1 DEF FilesInv, FilesAreThoseNamed
<1> QED
  BY <1>1, <1>2, <1>3, <1>4, <1>5, CountKept DEF FilesInv

(* An argument was taken that is a file or none, or a directory to read.   *)
LEMMA ArgumentFiles ==
    ASSUME LoaderInv, FilesInv, phase = "args", walk = NONE, args # <<>>,
           args' = Tail(args), UNCHANGED <<inputs, phase>>,
           \/ /\ walk' = NONE /\ ~IsDirectory(Head(args))
              /\ \A name \in Paths :
                    Times(name, files') = Times(name, files) + IF name \in FilesOf(Head(args)) THEN 1 ELSE 0
           \/ /\ walk' # NONE /\ walk'.found = files
              /\ Apart(disk, walk') /\ FilesLeft(disk, walk') = FilesOf(Head(args))
    PROVE  FilesInv'
<1>1. /\ ArgumentsTaken'
      /\ args' = <<>> => request.args # <<>> /\ Last(request.args) = Head(args)
  BY ArgumentTaken DEF FilesInv
<1>2. /\ \A name : Cardinality(Naming(name, 1 .. Consumed))' =
             Cardinality(Naming(name, 1 .. Consumed)) + IF name \in FilesOf(Head(args)) THEN 1 ELSE 0
      /\ disk' = disk /\ request' = request
  BY CountTaken, SameNaming DEF FilesInv
<1>3. \A name \in Paths : /\ Times(name, files) = Cardinality(Naming(name, 1 .. Consumed))
                          /\ Times(name, files) \in Nat
  <2>1. IsSequence(files)
    BY SeqIsSequence DEF LoaderInv, ReadingOK
  <2> QED
    BY <2>1, TimesOfPushed DEF FilesInv, EveryFile
<1>4. FilesAreThoseNamed'
  BY DEF FilesAreThoseNamed
<1>5. CASE walk' = NONE
  <2>1. EveryFile(files, {})'
    BY <1>2, <1>3, <1>5 DEF EveryFile
  <2>2. args' = <<>> => ~IsDirectory(Last(request.args))'
    BY <1>1, <1>2, <1>5, SameNaming DEF IsDirectory
  <2> QED
    BY <1>1, <1>4, <1>5, <2>1, <2>2 DEF FilesInv
<1>6. CASE walk' # NONE
  <2>1. Apart(disk, walk)' /\ FilesLeft(disk, walk)' = FilesOf(Head(args))
    BY <1>2, <1>6
  <2>2. EveryFile(walk.found, FilesLeft(disk, walk))'
    BY <1>2, <1>3, <1>6, <2>1 DEF EveryFile
  <2> QED
    BY <1>1, <1>4, <1>6, <2>1, <2>2 DEF FilesInv
<1> QED
  BY <1>5, <1>6

----------------------------------------------------------------------------
(* The steps that take an argument *)

LEMMA TraverseFiles ==
    ASSUME NEW on, NEW dir, NEW recursive, NEW found
    PROVE  LET w == Traverse(dir, recursive, found)
           IN  /\ Apart(on, w) /\ w.found = found
               /\ FilesLeft(on, w) = CueFilesUnder(on, dir, recursive)
<1> DEFINE w == Traverse(dir, recursive, found)
<1>1. /\ w.dirs = <<dir>> /\ w.entries = {} /\ w.recursive = recursive /\ w.found = found
      /\ 1 .. Len(w.dirs) = {1} /\ w.dirs[1] = dir
  BY DEF Traverse
<1> HIDE DEF w
<1>2. Apart(on, w)
  BY <1>1 DEF Apart
<1>3. FilesLeft(on, w) = CueFilesUnder(on, dir, recursive)
  BY <1>1 DEF FilesLeft, LeftInDirectories, LeftAtEntries
<1> QED
  BY <1>1, <1>2, <1>3 DEF w

LEMMA FilesSoFar ==
    ASSUME LoaderInv, phase = "args"
    PROVE  files \in Seq(SourceFiles) /\ IsSequence(files)
BY SeqIsSequence DEF LoaderInv, ReadingOK

LEMMA LoadStdinFiles ==
    ASSUME LoaderInv, FilesInv, LoadStdin, ~\E reason : Fail(reason)
    PROVE  FilesInv'
<1> DEFINE arg == Head(args)
           file == Source("-", TRUE, request.stdin)
<1>1. /\ phase = "args" /\ walk = NONE /\ args # <<>> /\ arg.form = "stdin"
      /\ args' = Tail(args) /\ UNCHANGED <<inputs, phase, walk>>
      /\ files' = IF request.stdin = NONE THEN files ELSE Append(files, file)
  BY DEF LoadStdin, ReadingArgs
<1>2. FilesOf(arg) = (IF request.stdin = NONE THEN {} ELSE {"-"}) /\ ~IsDirectory(arg)
  BY <1>1 DEF FilesOf, IsDirectory
<1>3. \A name : Times(name, files') = Times(name, files) + IF name \in FilesOf(arg) THEN 1 ELSE 0
  <2>1. IsSequence(files) /\ \A name : Times(name, files) \in Nat
    BY <1>1, FilesSoFar, TimesOfPushed
  <2>2. file.name = "-"
    BY DEF Source
  <2> HIDE DEF file
  <2> QED
    BY <1>1, <1>2, <2>1, <2>2, TimesOfPushed
<1> QED
  BY <1>1, <1>2, <1>3, ArgumentFiles

LEMMA LoadDataFiles ==
    ASSUME LoaderInv, FilesInv, LoadData, ~\E reason : Fail(reason)
    PROVE  FilesInv'
<1> DEFINE arg == Head(args)
<1>1. /\ phase = "args" /\ walk = NONE /\ args # <<>> /\ arg.form = "data"
      /\ args' = Tail(args) /\ UNCHANGED <<inputs, phase, walk, files>>
  BY DEF LoadData, ReadingArgs
<1>2. FilesOf(arg) = {} /\ ~IsDirectory(arg)
  BY <1>1 DEF FilesOf, IsDirectory
<1>3. \A name : Times(name, files) \in Nat
  BY <1>1, FilesSoFar, TimesOfPushed
<1> QED
  BY <1>1, <1>2, <1>3, ArgumentFiles

LEMMA LoadPathFiles ==
    ASSUME LoaderInv, FilesInv, LoadPath, ~\E reason : Fail(reason)
    PROVE  FilesInv'
<1> DEFINE arg == Head(args)
           path == arg.path
           kind == disk.kind[path]
           file == Source(path, FALSE, disk.source[path])
<1>1. /\ phase = "args" /\ walk = NONE /\ args # <<>> /\ arg.form = "path"
      /\ args' = Tail(args) /\ UNCHANGED <<inputs, phase>>
      /\ walk' = IF kind = "dir" THEN Traverse(path, FALSE, files) ELSE NONE
      /\ files' = IF kind = "cue" THEN Append(files, file) ELSE files
  BY DEF LoadPath, ReadingArgs
<1>2. files \in Seq(SourceFiles) /\ IsSequence(files) /\ \A name : Times(name, files) \in Nat
  BY <1>1, FilesSoFar, TimesOfPushed
<1>3. CASE kind = "dir"
  <2>1. FilesOf(arg) = CueFilesUnder(disk, path, FALSE)
    BY <1>1, <1>3 DEF FilesOf
  <2>2. walk' = Traverse(path, FALSE, files)
    BY <1>1, <1>3
  <2>3. walk' # NONE
    <3>1. path \in Paths
      BY <1>1, NextArgument
    <3>2. walk' \in Traversals
      BY <1>2, <2>2, <3>1, TraverseType
    <3> QED
      BY <3>2, NoneAssumption
  <2>4. walk'.found = files /\ Apart(disk, walk') /\ FilesLeft(disk, walk') = FilesOf(arg)
    BY <2>1, <2>2, TraverseFiles
  <2> QED
    BY <1>1, <2>3, <2>4, ArgumentFiles
<1>4. CASE kind # "dir"
  <2>1. FilesOf(arg) = (IF kind = "cue" THEN {path} ELSE {}) /\ ~IsDirectory(arg)
    BY <1>1, <1>4 DEF FilesOf, IsDirectory
  <2>2. \A name : Times(name, files') = Times(name, files) + IF name \in FilesOf(arg) THEN 1 ELSE 0
    <3>1. file.name = path
      BY DEF Source
    <3> HIDE DEF file
    <3> QED
      BY <1>1, <1>2, <2>1, <3>1, TimesOfPushed
  <2>3. walk' = NONE
    BY <1>1, <1>4
  <2> QED
    BY <1>1, <2>1, <2>2, <2>3, ArgumentFiles
<1> QED
  BY <1>3, <1>4

LEMMA LoadTreeFiles ==
    ASSUME LoaderInv, FilesInv, LoadTree, ~\E reason : Fail(reason)
    PROVE  FilesInv'
<1> DEFINE arg == Head(args)
           path == arg.path
<1>1. /\ phase = "args" /\ walk = NONE /\ args # <<>> /\ arg.form = "tree"
      /\ args' = Tail(args) /\ UNCHANGED <<inputs, phase>>
      /\ walk' = Traverse(path, TRUE, files)
  BY DEF LoadTree, ReadingArgs
<1>2. FilesOf(arg) = CueFilesUnder(disk, path, TRUE)
  BY <1>1 DEF FilesOf
<1>3. walk' # NONE
  <2>1. path \in Paths /\ files \in Seq(SourceFiles)
    BY <1>1, NextArgument, FilesSoFar
  <2>2. walk' \in Traversals
    BY <1>1, <2>1, TraverseType
  <2> QED
    BY <2>2, NoneAssumption
<1>4. walk'.found = files /\ Apart(disk, walk') /\ FilesLeft(disk, walk') = FilesOf(arg)
  BY <1>1, <1>2, TraverseFiles
<1> QED
  BY <1>1, <1>3, <1>4, ArgumentFiles

----------------------------------------------------------------------------
(* The steps of a traversal *)

(* A directory is opened: its entries take its place. *)
LEMMA OpenedDirectory ==
    ASSUME NEW name \in DOMAIN Disks, NEW w, Apart(Disks[name], w),
           w.dirs \in Seq(Paths), w.dirs # <<>>, w.entries = {}, w.recursive \in BOOLEAN,
           NEW dir, dir = Last(w.dirs), Disks[name].kind[dir] = "dir",
           NEW x, x.dirs = Front(w.dirs), x.entries = Disks[name].entries[dir],
           x.recursive = w.recursive
    PROVE  Apart(Disks[name], x) /\ FilesLeft(Disks[name], x) = FilesLeft(Disks[name], w)
<1> DEFINE on == Disks[name]
           rec == w.recursive
           n == Len(w.dirs)
           D(i) == CueFilesUnder(on, w.dirs[i], rec)
           E(e) == FilesAt(on, e, rec)
           entries == on.entries[dir]
<1>1. n \in Nat /\ n > 0 /\ dir \in Paths /\ dir = w.dirs[n]
  <2>1. dir \in Paths
    BY LastDirectory
  <2> QED
    BY <2>1, EmptySeq, LenProperties DEF Last
<1>2. Len(x.dirs) = n - 1 /\ \A i \in 1 .. n - 1 : x.dirs[i] = w.dirs[i]
  <2>1. IsSequence(w.dirs)
    BY SeqIsSequence
  <2> QED
    BY <1>1, <2>1, DropFrame DEF Front
<1>3. dir \in DirectoriesOn(on) /\ entries \subseteq Paths
  BY <1>1, DisksAssumption DEF DirectoriesOn
<1>4. D(n) = UNION {E(e) : e \in entries}
  BY <1>1, <1>3, FilesOfEntries
<1>5. \A e, f \in entries : e # f => E(e) \intersect E(f) = {}
  BY <1>3, EntriesApart
<1>6. \A i, j \in 1 .. n : i # j => D(i) \intersect D(j) = {}
  BY DEF Apart
<1>7. \A file :
          /\ file \in FilesLeft(on, w) <=> \E i \in 1 .. n : file \in D(i)
          /\ file \in FilesLeft(on, x) <=>
                 (\E i \in 1 .. n - 1 : file \in D(i)) \/ \E e \in entries : file \in E(e)
  <2>1. \A i \in 1 .. Len(x.dirs) : CueFilesUnder(on, x.dirs[i], x.recursive) = D(i)
    BY <1>2
  <2> QED
    BY <1>2, <2>1, FileLeft
<1>8. Apart(on, x)
  <2>1. \A i \in 1 .. Len(x.dirs) : i \in 1 .. n /\ i # n /\ CueFilesUnder(on, x.dirs[i], x.recursive) = D(i)
    BY <1>1, <1>2
  <2>2. \A e : FilesAt(on, e, x.recursive) = E(e)
    OBVIOUS
  <2>3. \A e \in entries : E(e) \subseteq D(n)
    BY <1>4
  <2>4. n \in 1 .. n
    BY <1>1
  <2> HIDE DEF D, E, on, n, entries
  <2>5. \A i \in 1 .. Len(x.dirs), e \in entries : D(i) \intersect E(e) = {}
    BY <1>6, <2>1, <2>3, <2>4
  <2> QED
    BY <1>5, <1>6, <2>1, <2>2, <2>5 DEF Apart, on, entries
<1>9. FilesLeft(on, x) = FilesLeft(on, w)
  <2>1. \A i : i \in 1 .. n <=> i \in 1 .. n - 1 \/ i = n
    BY <1>1
  <2> HIDE DEF D, E, on, n, entries
  <2>2. \A file : file \in D(n) <=> \E e \in entries : file \in E(e)
    BY <1>4
  <2>3. \A file : file \in FilesLeft(on, x) <=> file \in FilesLeft(on, w)
    BY <1>7, <2>1, <2>2
  <2>4. FilesLeft(on, x) \subseteq FilesLeft(on, w) /\ FilesLeft(on, w) \subseteq FilesLeft(on, x)
    BY <2>3
  <2> QED
    BY <2>4
<1> QED
  BY <1>8, <1>9

(* An entry is left that names no file. *)
LEMMA EntryDropped ==
    ASSUME NEW on, NEW w, NEW path \in w.entries, Apart(on, w),
           NEW x, x.dirs = w.dirs, x.entries = w.entries \ {path}, x.recursive = w.recursive
    PROVE  /\ Apart(on, x)
           /\ FilesLeft(on, w) = FilesLeft(on, x) \union FilesAt(on, path, w.recursive)
           /\ FilesLeft(on, x) \intersect FilesAt(on, path, w.recursive) = {}
<1> DEFINE D(i) == CueFilesUnder(on, w.dirs[i], w.recursive)
           E(e) == FilesAt(on, e, w.recursive)
           I == 1 .. Len(w.dirs)
           R == x.entries
<1>1. w.entries = R \union {path} /\ path \notin R /\ R \subseteq w.entries
  OBVIOUS
<1>2. \A file :
          /\ file \in FilesLeft(on, w) <=> (\E i \in I : file \in D(i)) \/ \E e \in w.entries : file \in E(e)
          /\ file \in FilesLeft(on, x) <=> (\E i \in I : file \in D(i)) \/ \E e \in R : file \in E(e)
  BY FileLeft
<1>3. \A i \in I, e \in w.entries : D(i) \intersect E(e) = {}
  BY DEF Apart
<1>4. \A e, f \in w.entries : e # f => E(e) \intersect E(f) = {}
  BY DEF Apart
<1>5. Apart(on, x)
  BY <1>1 DEF Apart
<1> HIDE DEF D, E, I, R
<1>6. FilesLeft(on, w) = FilesLeft(on, x) \union E(path)
  BY <1>1, <1>2
<1>7. FilesLeft(on, x) \intersect E(path) = {}
  BY <1>1, <1>2, <1>3, <1>4
<1> QED
  BY <1>5, <1>6, <1>7 DEF E

(* A subdirectory is kept for later. *)
LEMMA EntryQueued ==
    ASSUME NEW on, NEW w, NEW path \in w.entries, Apart(on, w), IsSequence(w.dirs),
           w.recursive = TRUE, on.kind[path] = "dir",
           NEW x, x.dirs = Append(w.dirs, path), x.entries = w.entries \ {path},
           x.recursive = w.recursive
    PROVE  Apart(on, x) /\ FilesLeft(on, x) = FilesLeft(on, w)
<1> DEFINE D(i) == CueFilesUnder(on, w.dirs[i], w.recursive)
           E(e) == FilesAt(on, e, w.recursive)
           n == Len(w.dirs)
           Dx(i) == CueFilesUnder(on, x.dirs[i], w.recursive)
           R == x.entries
<1>1. /\ n \in Nat /\ Len(x.dirs) = n + 1 /\ x.dirs[n + 1] = path
      /\ \A i \in 1 .. n : x.dirs[i] = w.dirs[i]
  BY PushFrame DEF IsSequence
<1>2. E(path) = CueFilesUnder(on, path, w.recursive)
  BY DEF FilesAt
<1>3. Dx(n + 1) = E(path) /\ \A i \in 1 .. n : Dx(i) = D(i)
  BY <1>1, <1>2
<1>4. \A i : i \in 1 .. n + 1 <=> i \in 1 .. n \/ i = n + 1
  BY <1>1
<1>5. w.entries = R \union {path} /\ path \notin R
  OBVIOUS
<1>6. \A file :
          /\ file \in FilesLeft(on, w) <=>
                 (\E i \in 1 .. n : file \in D(i)) \/ \E e \in w.entries : file \in E(e)
          /\ file \in FilesLeft(on, x) <=>
                 (\E i \in 1 .. n + 1 : file \in Dx(i)) \/ \E e \in R : file \in E(e)
  BY <1>1, FileLeft
<1>7. /\ \A i, j \in 1 .. n : i # j => D(i) \intersect D(j) = {}
      /\ \A i \in 1 .. n, e \in w.entries : D(i) \intersect E(e) = {}
      /\ \A e, f \in w.entries : e # f => E(e) \intersect E(f) = {}
  BY DEF Apart
<1>8. Apart(on, x) <=>
          /\ \A i, j \in 1 .. n + 1 : i # j => Dx(i) \intersect Dx(j) = {}
          /\ \A i \in 1 .. n + 1, e \in R : Dx(i) \intersect E(e) = {}
          /\ \A e, f \in R : e # f => E(e) \intersect E(f) = {}
  BY <1>1 DEF Apart
<1> HIDE DEF D, E, Dx, n, R
<1>9. FilesLeft(on, x) = FilesLeft(on, w)
  <2>1. \A file : (\E i \in 1 .. n + 1 : file \in Dx(i)) <=> (\E i \in 1 .. n : file \in D(i)) \/ file \in E(path)
    BY <1>3, <1>4
  <2>2. \A file : (\E e \in w.entries : file \in E(e)) <=> (\E e \in R : file \in E(e)) \/ file \in E(path)
    BY <1>5
  <2>3. \A file : file \in FilesLeft(on, x) <=> file \in FilesLeft(on, w)
    BY <1>6, <2>1, <2>2
  <2>4. FilesLeft(on, x) \subseteq FilesLeft(on, w) /\ FilesLeft(on, w) \subseteq FilesLeft(on, x)
    BY <2>3
  <2> QED
    BY <2>4
<1>10. \A i, j \in 1 .. n + 1 : i # j => Dx(i) \intersect Dx(j) = {}
  BY <1>3, <1>4, <1>5, <1>7
<1>11. \A i \in 1 .. n + 1, e \in R : Dx(i) \intersect E(e) = {}
  BY <1>3, <1>4, <1>5, <1>7
<1> QED
  BY <1>5, <1>7, <1>8, <1>9, <1>10, <1>11

(* A traversal goes on: what it has found and what is left is the same.    *)
LEMMA TraversalFiles ==
    ASSUME LoaderInv, FilesInv, phase = "args", walk # NONE, walk' # NONE,
           UNCHANGED <<inputs, phase, args, files>>, Apart(disk, walk'),
           \A name \in Paths :
              Times(name, walk'.found) + (IF name \in FilesLeft(disk, walk') THEN 1 ELSE 0) =
                  Times(name, walk.found) + (IF name \in FilesLeft(disk, walk) THEN 1 ELSE 0)
    PROVE  FilesInv'
<1>1. disk' = disk /\ request' = request
  BY SameNaming
<1>2. ArgumentsTaken' /\ Apart(disk, walk)'
  BY <1>1, CountKept DEF FilesInv
<1>3. EveryFile(walk.found, FilesLeft(disk, walk))'
  BY <1>1, CountKept DEF FilesInv, EveryFile
<1>4. FilesAreThoseNamed'
  BY DEF FilesAreThoseNamed
<1> QED
  BY <1>2, <1>3, <1>4 DEF FilesInv

LEMMA OpenDirectoryFiles ==
    ASSUME LoaderInv, FilesInv, phase = "args", OpenDirectory, ~Fail("io")
    PROVE  FilesInv'
<1> DEFINE dir == Last(walk.dirs)
<1>1. /\ walk # NONE /\ phase \notin Terminal /\ walk.entries = {} /\ walk.dirs # <<>>
      /\ disk.kind[dir] = "dir" /\ UNCHANGED <<inputs, phase, args, files>>
      /\ walk' = [walk EXCEPT !.dirs = Front(@), !.entries = disk.entries[dir]]
  BY DEF OpenDirectory
<1>2. /\ walk'.dirs = Front(walk.dirs) /\ walk'.entries = disk.entries[dir]
      /\ walk'.recursive = walk.recursive /\ walk'.found = walk.found
  BY <1>1, TraversalType
<1>3. walk' # NONE
  <2>1. dir \in Paths /\ Front(walk.dirs) \in Seq(Paths)
    BY <1>1, TraversalType, LastDirectory
  <2>2. disk.entries[dir] \subseteq Paths
    BY <1>1, <2>1, ContentsOfDisk, DisksAssumption DEF disk, LoaderInv
  <2>3. walk' = [dirs |-> Front(walk.dirs), entries |-> disk.entries[dir],
                 recursive |-> walk.recursive, found |-> walk.found]
    BY <1>1, TraversalType
  <2>4. walk' \in Traversals
    BY <1>1, <2>1, <2>2, <2>3, TraversalType DEF Traversals
  <2> QED
    BY <2>4, NoneAssumption
<1>4. volume \in DOMAIN Disks /\ disk = Disks[volume]
  <2>1. volume \in DOMAIN Disks
    BY LoadsAssumption DEF LoaderInv, InputsOK
  <2> QED
    BY <2>1 DEF disk
<1>5. Apart(disk, walk)
  BY <1>1 DEF FilesInv
<1>6. walk.dirs \in Seq(Paths) /\ walk.recursive \in BOOLEAN
  BY <1>1, TraversalType
<1>7. Apart(disk, walk') /\ FilesLeft(disk, walk') = FilesLeft(disk, walk)
  <2>1. PICK name \in DOMAIN Disks : name = volume /\ disk = Disks[name]
    BY <1>4
  <2>2. PICK w, x : w = walk /\ x = walk'
    OBVIOUS
  <2>3. Apart(Disks[name], w) /\ w.dirs \in Seq(Paths) /\ w.dirs # <<>> /\ w.entries = {} /\ w.recursive \in BOOLEAN
    BY <1>1, <1>5, <1>6, <2>1, <2>2
  <2>4. dir = Last(w.dirs) /\ Disks[name].kind[dir] = "dir"
    BY <1>1, <2>1, <2>2
  <2>5. x.dirs = Front(w.dirs) /\ x.entries = Disks[name].entries[dir] /\ x.recursive = w.recursive
    BY <1>2, <2>1, <2>2
  <2>6. Apart(Disks[name], x) /\ FilesLeft(Disks[name], x) = FilesLeft(Disks[name], w)
    BY <2>3, <2>4, <2>5, OpenedDirectory
  <2> QED
    BY <2>1, <2>2, <2>6
<1> QED
  BY <1>1, <1>2, <1>3, <1>7, TraversalFiles

LEMMA VisitEntryFiles ==
    ASSUME LoaderInv, FilesInv, phase = "args", NEW path \in Paths, VisitEntry(path),
           ~\E reason : Fail(reason)
    PROVE  FilesInv'
<1> DEFINE kind == disk.kind[path]
           file == Source(path, FALSE, disk.source[path])
           queued == kind = "dir" /\ walk.recursive
<1>1. /\ walk # NONE /\ phase \notin Terminal /\ path \in walk.entries
      /\ UNCHANGED <<inputs, phase, args, files>>
      /\ walk' = [dirs |-> IF queued THEN Append(walk.dirs, path) ELSE walk.dirs,
                  entries |-> walk.entries \ {path}, recursive |-> walk.recursive,
                  found |-> IF kind = "cue" THEN Append(walk.found, file) ELSE walk.found]
  BY TraversalType DEF VisitEntry
<1>2. /\ walk.dirs \in Seq(Paths) /\ walk.entries \subseteq Paths
      /\ walk.recursive \in BOOLEAN /\ walk.found \in Seq(SourceFiles)
  BY <1>1, TraversalType
<1>3. IsSequence(walk.dirs) /\ IsSequence(walk.found)
  BY <1>2, SeqIsSequence
<1>4. walk' # NONE
  <2>1. file \in SourceFiles
    BY ContentsOfDisk DEF Source, SourceFiles, LoaderInv
  <2>2. Append(walk.dirs, path) \in Seq(Paths) /\ Append(walk.found, file) \in Seq(SourceFiles)
    BY <1>2, <2>1, AppendProperties
  <2>3. walk' \in Traversals
    BY <1>1, <1>2, <2>2 DEF Traversals
  <2> QED
    BY <2>3, NoneAssumption
<1>5. Apart(disk, walk)
  BY <1>1 DEF FilesInv
<1>6. walk'.entries = walk.entries \ {path} /\ walk'.recursive = walk.recursive
  BY <1>1
<1>7. CASE queued
  <2>1. walk'.dirs = Append(walk.dirs, path) /\ walk'.found = walk.found
    BY <1>1, <1>7
  <2>2. walk.recursive = TRUE /\ kind = "dir"
    BY <1>2, <1>7
  <2>3. Apart(disk, walk') /\ FilesLeft(disk, walk') = FilesLeft(disk, walk)
    <3>1. PICK w, x : w = walk /\ x = walk'
      OBVIOUS
    <3>2. path \in w.entries /\ Apart(disk, w) /\ IsSequence(w.dirs) /\ w.recursive = TRUE
      BY <1>1, <1>3, <1>5, <2>2, <3>1
    <3>3. /\ x.dirs = Append(w.dirs, path) /\ x.entries = w.entries \ {path}
          /\ x.recursive = w.recursive
      BY <1>6, <2>1, <3>1
    <3>4. Apart(disk, x) /\ FilesLeft(disk, x) = FilesLeft(disk, w)
      BY <2>2, <3>2, <3>3, EntryQueued
    <3> QED
      BY <3>1, <3>4
  <2> QED
    BY <1>1, <1>4, <2>1, <2>3, TraversalFiles
<1>8. CASE ~queued
  <2> DEFINE here == FilesAt(disk, path, walk.recursive)
  <2>1. walk'.dirs = walk.dirs /\ walk'.found = IF kind = "cue" THEN Append(walk.found, file) ELSE walk.found
    BY <1>1, <1>8
  <2>2. /\ Apart(disk, walk')
        /\ FilesLeft(disk, walk) = FilesLeft(disk, walk') \union here
        /\ FilesLeft(disk, walk') \intersect here = {}
    <3>1. PICK w, x : w = walk /\ x = walk'
      OBVIOUS
    <3>2. path \in w.entries /\ Apart(disk, w)
      BY <1>1, <1>5, <3>1
    <3>3. x.dirs = w.dirs /\ x.entries = w.entries \ {path} /\ x.recursive = w.recursive
      BY <1>6, <2>1, <3>1
    <3>4. /\ Apart(disk, x)
          /\ FilesLeft(disk, w) = FilesLeft(disk, x) \union FilesAt(disk, path, w.recursive)
          /\ FilesLeft(disk, x) \intersect FilesAt(disk, path, w.recursive) = {}
      BY <3>2, <3>3, EntryDropped
    <3> QED
      BY <3>1, <3>4
  <2>3. here = IF kind = "cue" THEN {path} ELSE {}
    <3>1. CASE kind = "cue"
      BY <3>1 DEF FilesAt
    <3>2. CASE kind # "cue" /\ walk.recursive = FALSE
      BY <3>2 DEF FilesAt
    <3>3. CASE kind # "cue" /\ walk.recursive = TRUE
      BY <1>8, <3>3, FilesUnder DEF DirectoriesOn
    <3> QED
      BY <1>2, <3>1, <3>2, <3>3
  <2>4. \A name \in Paths :
            Times(name, walk'.found) + (IF name \in FilesLeft(disk, walk') THEN 1 ELSE 0) =
                Times(name, walk.found) + (IF name \in FilesLeft(disk, walk) THEN 1 ELSE 0)
    <3>1. \A name : Times(name, walk.found) \in Nat
      BY <1>3, TimesOfPushed
    <3>2. file.name = path
      BY DEF Source
    <3>3. \A name : Times(name, walk'.found) = Times(name, walk.found) + IF name \in here THEN 1 ELSE 0
      <4> HIDE DEF file, here
      <4> QED
        BY <1>3, <2>1, <2>3, <3>1, <3>2, TimesOfPushed
    <3> HIDE DEF here
    <3> QED
      BY <2>2, <3>1, <3>3
  <2> QED
    BY <1>1, <1>4, <2>2, <2>4, TraversalFiles
<1> QED
  BY <1>7, <1>8

LEMMA FinishArgumentFiles ==
    ASSUME LoaderInv, FilesInv, FinishArgument
    PROVE  FilesInv'
<1>1. /\ phase = "args" /\ walk # NONE /\ walk.entries = {} /\ walk.dirs = <<>>
      /\ walk.found \in Seq(SourceFiles)
  BY TraversalType DEF FinishArgument, DirectoryRead, LoaderInv, PhasesOK
<1>2. UNCHANGED <<inputs, phase, args>> /\ walk' = NONE /\ files' = SortByName(walk.found)
  BY DEF FinishArgument
<1>3. FilesLeft(disk, walk) = {}
  BY <1>1 DEF FilesLeft, LeftInDirectories, LeftAtEntries
<1>4. \A name \in Paths : Times(name, files') = Cardinality(Naming(name, 1 .. Consumed))
  <2>1. IsSequence(walk.found)
    BY <1>1, SeqIsSequence
  <2>2. \A name \in Paths : Times(name, walk.found) = Cardinality(Naming(name, 1 .. Consumed))
    BY <1>1, <1>3, <2>1, TimesType DEF FilesInv, EveryFile
  <2> QED
    BY <1>1, <1>2, <2>2, SortedFiles
<1>5. EveryFile(files, {})'
  <2>1. \A name \in Paths : Times(name, files') \in Nat
    <3>1. IsSequence(files')
      BY <1>1, <1>2, SortKeeps, SeqIsSequence
    <3> QED
      BY <3>1, TimesOfPushed
  <2> QED
    BY <1>2, <1>4, <2>1, CountKept DEF EveryFile
<1>6. Sorted(files')
  BY <1>1, <1>2, SortedFiles
<1>7. ArgumentsTaken' /\ FilesAreThoseNamed'
  BY <1>1, <1>2, CountKept DEF FilesInv, FilesAreThoseNamed
<1> QED
  BY <1>1, <1>2, <1>5, <1>6, <1>7 DEF FilesInv

----------------------------------------------------------------------------
(* Overlays stand behind the files that were read. *)

LEMMA AddOverlaysFiles ==
    ASSUME LoaderInv, FilesInv, AddOverlays, ~Fail("traversal")
    PROVE  FilesInv'
<1> DEFINE overlays == request.overlays
           added == [i \in DOMAIN overlays |-> Source(overlays[i].name, TRUE, overlays[i].source)]
<1>1. /\ phase = "args" /\ phase' = "tags" /\ walk = NONE /\ args = <<>>
      /\ files' = files \o added /\ UNCHANGED inputs
  BY DEF AddOverlays
<1>2. IsSequence(overlays)
  <2>1. PICK pair \in Loads : request = pair[2]
    BY DEF LoaderInv, InputsOK
  <2> QED
    BY <2>1, LoadsAssumption
<1>3. DOMAIN overlays = 1 .. Len(overlays) /\ Len(overlays) \in Nat
  BY <1>2 DEF IsSequence
<1>4. IsSequence(added) /\ Len(added) = Len(overlays)
  <2>1. DOMAIN added = 1 .. Len(overlays)
    BY <1>3
  <2>2. IsSequence(added)
    BY <1>3, <2>1, FunctionIsSequence
  <2> HIDE DEF added
  <2> QED
    BY <1>3, <2>1, <2>2 DEF IsSequence
<1>5. IsSequence(files)
  BY <1>1, FilesSoFar
<1> DEFINE read == SubSeq(files', 1, Len(files') - Len(overlays))
<1>6. read = files
  <2> HIDE DEF added, overlays
  <2> QED
    BY <1>1, <1>4, <1>5, ReadFiles
<1>7. request' = request
  BY <1>1 DEF inputs
<1>8. Consumed = Len(request.args) /\ DOMAIN request.args = 1 .. Len(request.args)
  BY <1>1, RequestedArguments DEF Consumed, LoaderInv
<1>9. \A name \in Paths : Times(name, files) = Cardinality(Naming(name, DOMAIN request.args))
  BY <1>1, <1>5, <1>8, TimesOfPushed DEF FilesInv, EveryFile
<1>10. \A name : Naming(name, DOMAIN request.args)' = Naming(name, DOMAIN request.args)
  BY <1>1, <1>7, SameNaming DEF Naming
<1>11. (request.args # <<>> /\ IsDirectory(Last(request.args)))' => Sorted(files)
  BY <1>1, <1>7, SameNaming DEF FilesInv
<1>12. FilesAreThoseNamed'
  BY <1>6, <1>7, <1>9, <1>10, <1>11 DEF FilesAreThoseNamed
<1> QED
  BY <1>1, <1>12 DEF FilesInv

LEMMA NextFiles ==
    ASSUME LoaderInv, FilesInv, [Next]_vars
    PROVE  FilesInv'
<1>1. CASE \E reason : Fail(reason)
  BY <1>1, LaterFiles DEF Fail
<1>2. CASE LoadStdin \/ LoadData \/ LoadPath \/ LoadTree
  BY <1>1, <1>2, LoadStdinFiles, LoadDataFiles, LoadPathFiles, LoadTreeFiles
<1>3. CASE OpenDirectory \/ \E path \in Paths : VisitEntry(path)
  <2>1. CASE phase = "args"
    BY <1>1, <1>3, <2>1, OpenDirectoryFiles, VisitEntryFiles
  <2>2. CASE phase # "args"
    <3>1. phase = "imports"
      BY <1>3, <2>2, TraversalType DEF OpenDirectory, VisitEntry
    <3>2. CASE phase' = phase
      BY <3>1, <3>2, LaterFiles
    <3> QED
      BY <1>1, <1>3, <3>2 DEF OpenDirectory, VisitEntry
  <2> QED
    BY <2>1, <2>2
<1>4. CASE FinishArgument
  BY <1>4, FinishArgumentFiles
<1>5. CASE AddOverlays
  BY <1>1, <1>5, AddOverlaysFiles
<1>6. CASE PushTags \/ ParseFiles
  BY <1>1, <1>6, LaterFiles DEF PushTags, ParseFiles
<1>7. CASE SkipImport \/ RejectImport \/ SkipVisited \/ OpenImport
  <2>1. phase = "imports"
    BY <1>7 DEF SkipImport, RejectImport, SkipVisited, OpenImport, NextImport
  <2>2. CASE phase' = phase
    BY <2>1, <2>2, LaterFiles
  <2> QED
    BY <1>1, <1>7, <2>2 DEF SkipImport, RejectImport, SkipVisited, OpenImport
<1>8. CASE FinishImport
  <2>1. phase = "imports" /\ phase' = phase
    BY <1>8 DEF FinishImport, DirectoryRead, LoaderInv, TypeOK, Terminal
  <2> QED
    BY <2>1, LaterFiles
<1>9. CASE ApplyPackageSelector
  BY <1>1, <1>9, LaterFiles DEF ApplyPackageSelector
<1>10. CASE DiskError
  BY <1>1, <1>10 DEF DiskError
<1>11. CASE UNCHANGED vars
  BY <1>11, SameFiles DEF vars
<1> QED
  BY <1>2, <1>3, <1>4, <1>5, <1>6, <1>7, <1>8, <1>9, <1>10, <1>11 DEF Next, Finished

(* In whatever order directories are enumerated, every file is read as     *)
(* often as the arguments name it, and a directory at the end leaves all   *)
(* files in the order of their names (load_args, collect_directory).       *)
THEOREM FilesAreThoseOfArguments == Spec => []FilesAreThoseNamed
<1>1. Init => FilesInv
  BY InitFiles
<1>2. LoaderInv /\ FilesInv /\ [Next]_vars => FilesInv'
  BY NextFiles
<1>3. FilesInv => FilesAreThoseNamed
  BY DEF FilesInv
<1> QED
  BY <1>1, <1>2, <1>3, LoaderInvariant, PTL DEF Spec
=============================================================================
