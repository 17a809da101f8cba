---------------------------- MODULE ParserProofs ----------------------------
(***************************************************************************)
(* Theorems about the parser, for every scanner, text and depth limit.     *)
(*                                                                         *)
(* Every parse function leaves the cursor on a token: it moves past a      *)
(* token only when that is not Eof, and skipping and recovery end at a     *)
(* token.  ParserInv says what a frame of each function holds and that the *)
(* depth is the number of frames that count; Goto, Call and Return keep    *)
(* it, and each action is one of these, or enters or exits a depth.        *)
(* NestInv adds what the left and right operands in progress bind with, of *)
(* which the nesting of the finished tree follows.                         *)
(***************************************************************************)
EXTENDS Parser, StackLemmas, FiniteSetTheorems

----------------------------------------------------------------------------
(* The inductive invariant. *)

(* The tokens of a text end in their only Eof: what stops at Eof stays in. *)
TokensOK ==
    /\ IsSequence(tokens) /\ tokens # <<>>
    /\ \A i \in DOMAIN tokens : tokens[i].kind = "Eof" <=> i = Len(tokens)

(* The two functions that are only ever the outermost one. *)
Outermost(frame) == frame.fn \in {"package", "file"}

(* A frame has the components of a frame, a token of n ones, and its mark  *)
(* is one where it tells a chained field from one that is not.             *)
FrameOK(frame, n) ==
    /\ frame = Frame(frame.fn, frame.at, frame.kids, frame.bp)
    /\ frame.fn \in Functions /\ frame.at \in 0 .. n
    /\ frame.fn \in {"head", "aliased", "field_value"} => frame.bp \in {0, 1}

FramesOK(s, n) ==
    /\ IsSequence(s)
    /\ \A i \in 1 .. Len(s) : FrameOK(s[i], n) /\ (Outermost(s[i]) <=> i = 1)

Inside(s) == {i \in 1 .. Len(s) : Counted(s[i])}

(* A File is what is returned last. *)
ValueOK ==
    /\ value # <<>> => (Result.op = "File" <=> stack = <<>>)
    /\ stack = <<>> => value # <<>>

(* A function that starts by taking its keyword stands at it. *)
StandsAt(fn, c) == (fn = "imports" => At("Import", c)) /\ (fn = "let" => At("Let", c))

ParserInv ==
    /\ TokensOK
    /\ cursor \in DOMAIN tokens /\ depth \in 0 .. MaxDepth
    /\ FramesOK(stack, Len(tokens))
    /\ depth = Cardinality(Inside(stack))
    /\ ValueOK
    /\ stack # <<>> /\ value = <<>> => StandsAt(Top.fn, cursor)

----------------------------------------------------------------------------
(* The tokens: where the parser may move on to. *)

LEMMA Indices ==
    ASSUME TokensOK
    PROVE  /\ Len(tokens) \in Nat /\ Len(tokens) > 0 /\ DOMAIN tokens = 1 .. Len(tokens)
           /\ Len(tokens) \in DOMAIN tokens
<1>1. Len(tokens) \in Nat /\ DOMAIN tokens = 1 .. Len(tokens)
  BY DEF TokensOK, IsSequence
<1>2. Len(tokens) # 0
  BY EmptyStack DEF TokensOK
<1> QED
  BY <1>1, <1>2

(* After a token that is not Eof there is another one. *)
LEMMA NextToken ==
    ASSUME TokensOK, NEW kinds, "Eof" \notin kinds, NEW c \in DOMAIN tokens, AtOneOf(kinds, c)
    PROVE  c + 1 \in DOMAIN tokens
<1>1. tokens[c].kind # "Eof"
  BY DEF AtOneOf
<1>2. c # Len(tokens)
  BY <1>1 DEF TokensOK
<1> QED
  BY <1>2, Indices

LEMMA NextOfKind ==
    ASSUME TokensOK, NEW kind, kind # "Eof", NEW c \in DOMAIN tokens, At(kind, c)
    PROVE  c + 1 \in DOMAIN tokens
<1>1. tokens[c].kind # "Eof"
  BY DEF At
<1>2. c # Len(tokens)
  BY <1>1 DEF TokensOK
<1> QED
  BY <1>2, Indices

LEMMA NextText ==
    ASSUME TokensOK, NEW kind, kind # "Eof", NEW texts, NEW c \in DOMAIN tokens, AtText(kind, texts, c)
    PROVE  c + 1 \in DOMAIN tokens
BY NextOfKind DEF AtText

LEMMA NextKeyword ==
    ASSUME TokensOK, NEW word, NEW c \in DOMAIN tokens, AtKeyword(word, c)
    PROVE  c + 1 \in DOMAIN tokens
BY NextText DEF AtKeyword

LEMMA AfterStays ==
    ASSUME TokensOK, NEW kind, kind # "Eof", NEW c \in DOMAIN tokens
    PROVE  After(kind, c) \in DOMAIN tokens
BY NextOfKind DEF After

(* A set of indices has a first one, which is its minimum. *)
LEMMA FirstOf ==
    ASSUME NEW n \in Nat, NEW I \in SUBSET (1 .. n), I # {}
    PROVE  Min(I) \in I
<1> DEFINE J == {n + 1 - i : i \in I}
<1>1. J \in SUBSET (1 .. n) /\ J # {}
  <2>1. \A i \in I : n + 1 - i \in 1 .. n
    OBVIOUS
  <2> QED
    BY <2>1
<1> HIDE DEF J
<1>2. PICK j \in J : \A k \in J : j >= k
  BY <1>1, LastIndex
<1>3. PICK i \in I : j = n + 1 - i
  BY DEF J
<1>4. \A k \in I : n + 1 - k \in J
  BY DEF J
<1>5. \A k \in I : i <= k
  BY <1>2, <1>3, <1>4
<1> QED
  BY <1>5 DEF Min

LEMMA RecoveredStays ==
    ASSUME TokensOK, NEW c \in DOMAIN tokens
    PROVE  Recovered(c) \in DOMAIN tokens
<1> DEFINE I == {i \in c .. Len(tokens) : AtOneOf(Separators, i)}
<1>1. I \in SUBSET (1 .. Len(tokens))
  BY Indices
<1>2. Len(tokens) \in I
  BY Indices DEF TokensOK, AtOneOf, Separators
<1> HIDE DEF I
<1>3. Min(I) \in I
  BY <1>1, <1>2, FirstOf, Indices
<1> QED
  BY <1>1, <1>3, Indices DEF Recovered, I

LEMMA RecoveredDeclStays ==
    ASSUME TokensOK, NEW c \in DOMAIN tokens
    PROVE  RecoveredDecl(c) \in DOMAIN tokens
<1>1. CASE Recovered(c) = c /\ ~At("Eof", c)
  <2>1. c # Len(tokens)
    BY <1>1, Indices DEF TokensOK, At
  <2> QED
    BY <1>1, <2>1, Indices DEF RecoveredDecl
<1>2. CASE ~(Recovered(c) = c /\ ~At("Eof", c))
  BY <1>2, RecoveredStays DEF RecoveredDecl
<1> QED
  BY <1>1, <1>2

(* The end of an attribute lies after its start. *)
LEMMA AttributeEnds ==
    ASSUME TokensOK, NEW c \in DOMAIN tokens, At("Attribute", c)
    PROVE  AfterAttribute(c) \in DOMAIN tokens /\ AfterAttribute(c) > c
<1>1. c + 1 \in DOMAIN tokens
  BY NextOfKind
<1>2. ASSUME AfterBalanced(c + 1, "LeftParen", "RightParen") # 0
      PROVE  AfterBalanced(c + 1, "LeftParen", "RightParen") \in c + 1 .. Len(tokens)
  <2> DEFINE Nesting(i) == Cardinality({j \in c + 1 .. i : At("LeftParen", j)})
                              - Cardinality({j \in c + 1 .. i : At("RightParen", j)})
             closed == {i \in c + 1 .. Len(tokens) : At("RightParen", i) /\ Nesting(i) <= 0}
  <2>1. AfterBalanced(c + 1, "LeftParen", "RightParen") = IF closed = {} THEN 0 ELSE Min(closed) + 1
    BY DEF AfterBalanced
  <2>2. \A i \in closed : i \in c + 1 .. Len(tokens) /\ i \in DOMAIN tokens /\ At("RightParen", i)
    BY Indices
  <2>3. closed \in SUBSET (1 .. Len(tokens))
    BY <2>2, Indices
  <2> HIDE DEF closed
  <2>4. closed # {}
    BY <1>2, <2>1
  <2>5. Min(closed) \in closed
    BY <2>3, <2>4, FirstOf, Indices
  <2>6. Min(closed) + 1 \in DOMAIN tokens
    BY <2>2, <2>5, NextOfKind
  <2> QED
    BY <2>1, <2>2, <2>4, <2>5, <2>6, Indices
<1> QED
  BY <1>1, <1>2, Indices DEF AfterAttribute

(* Skipping ends: the recursive function exists, as every thing to skip    *)
(* ends after its start, and its values are tokens.                        *)
SkipsFrom(next, f, n) ==
    \A i \in n .. Len(tokens) : f[i] = IF i \in DOMAIN next THEN f[next[i]] ELSE i

LEMMA SkippingEnds ==
    ASSUME TokensOK, NEW next, \A i \in DOMAIN next : next[i] \in DOMAIN tokens /\ next[i] > i,
           NEW c \in DOMAIN tokens
    PROVE  Skipping(next)[c] \in DOMAIN tokens
<1> DEFINE N == Len(tokens)
           Exists(n) == \E f \in [n .. N -> Int] : SkipsFrom(next, f, n)
           I == {n \in 1 .. N : ~Exists(n)}
<1>1. N \in Nat /\ N > 0 /\ DOMAIN tokens = 1 .. N
  BY Indices
<1>2. ASSUME NEW n \in 1 .. N, n = N \/ Exists(n + 1)
      PROVE  Exists(n)
  <2>1. PICK g : n < N => g \in [n + 1 .. N -> Int] /\ SkipsFrom(next, g, n + 1)
    <3>1. CASE n = N
      BY <3>1
    <3>2. CASE Exists(n + 1)
      BY <3>2
    <3> QED
      BY <1>2, <3>1, <3>2
  <2> DEFINE f == [i \in n .. N |-> IF i = n THEN IF n \in DOMAIN next THEN g[next[n]] ELSE n ELSE g[i]]
  <2>2. \A i \in n .. N : i \in DOMAIN next => next[i] \in i + 1 .. N
    BY <1>1
  <2>3. \A i \in n .. N : i = n \/ i \in n + 1 .. N
    BY <1>1
  <2>4. f \in [n .. N -> Int]
    BY <1>1, <2>1, <2>2, <2>3
  <2>5. SkipsFrom(next, f, n)
    BY <1>1, <2>1, <2>2, <2>3 DEF SkipsFrom
  <2> QED
    BY <2>4, <2>5
<1> HIDE DEF Exists
<1>3. I = {}
  <2> SUFFICES ASSUME I # {} PROVE FALSE
    OBVIOUS
  <2>1. I \in SUBSET (1 .. N)
    OBVIOUS
  <2> HIDE DEF I
  <2>2. PICK n \in I : \A j \in I : n >= j
    BY <1>1, <2>1, LastIndex
  <2>3. n \in 1 .. N /\ ~Exists(n)
    BY DEF I
  <2>4. n # N => n + 1 \in 1 .. N /\ n + 1 \notin I
    <3> HIDE DEF N
    <3> QED
      BY <1>1, <2>2, <2>3
  <2>5. n = N \/ Exists(n + 1)
    BY <2>4 DEF I
  <2> QED
    BY <1>2, <2>3, <2>5
<1>4. Exists(1)
  BY <1>1, <1>3
<1>5. PICK g \in [1 .. N -> Int] : SkipsFrom(next, g, 1)
  BY <1>4 DEF Exists
<1> DEFINE Ends(f) == f = [i \in DOMAIN tokens |-> IF i \in DOMAIN next THEN f[next[i]] ELSE i]
           end == CHOOSE f : Ends(f)
<1>6. Ends(g)
  BY <1>1, <1>5 DEF SkipsFrom
<1>7. Ends(end)
  BY <1>6
<1>8. Skipping(next) = end
  BY DEF Skipping
<1> HIDE DEF end
<1>9. \A i \in 1 .. N : end[i] = IF i \in DOMAIN next THEN end[next[i]] ELSE i
  BY <1>1, <1>7
<1> DEFINE J == {i \in 1 .. N : end[i] \notin 1 .. N}
<1>10. J = {}
  <2> SUFFICES ASSUME J # {} PROVE FALSE
    OBVIOUS
  <2>1. J \in SUBSET (1 .. N)
    OBVIOUS
  <2> HIDE DEF J
  <2>2. PICK i \in J : \A j \in J : i >= j
    BY <1>1, <2>1, LastIndex
  <2>3. i \in 1 .. N /\ end[i] \notin 1 .. N
    BY DEF J
  <2>4. i \in DOMAIN next /\ end[i] = end[next[i]]
    BY <1>9, <2>3
  <2>5. next[i] \in 1 .. N /\ next[i] > i
    BY <1>1, <2>4
  <2>6. next[i] \notin J
    BY <2>2, <2>3, <2>5
  <2> QED
    BY <2>3, <2>4, <2>5, <2>6 DEF J
<1> QED
  BY <1>1, <1>8, <1>10

LEMMA SkipAttributesStays ==
    ASSUME TokensOK, NEW c \in DOMAIN tokens
    PROVE  SkipAttributes(c) \in DOMAIN tokens
<1> DEFINE S == {j \in DOMAIN tokens : At("Attribute", j)}
           next == [i \in S |-> AfterAttribute(i)]
<1>1. \A i \in S : AfterAttribute(i) \in DOMAIN tokens /\ AfterAttribute(i) > i
  BY AttributeEnds
<1>2. \A i \in DOMAIN next : next[i] \in DOMAIN tokens /\ next[i] > i
  BY <1>1
<1>3. SkipAttributes(c) = Skipping(next)[c]
  BY DEF SkipAttributes
<1> HIDE DEF next
<1> QED
  BY <1>2, <1>3, SkippingEnds

LEMMA SkipSeparatorsStays ==
    ASSUME TokensOK, NEW c \in DOMAIN tokens
    PROVE  SkipSeparators(c) \in DOMAIN tokens
<1> DEFINE S == {j \in DOMAIN tokens : AtOneOf({"Comma", "Comment", "Attribute"}, j)}
           next == [i \in S |-> IF At("Attribute", i) THEN AfterAttribute(i) ELSE i + 1]
<1>1. \A i \in S : At("Attribute", i) => AfterAttribute(i) \in DOMAIN tokens /\ AfterAttribute(i) > i
  BY AttributeEnds
<1>2. ASSUME NEW i \in S
      PROVE  i + 1 \in DOMAIN tokens /\ i + 1 > i
  <2>1. "Eof" \notin {"Comma", "Comment", "Attribute"} /\ AtOneOf({"Comma", "Comment", "Attribute"}, i)
    OBVIOUS
  <2>2. i + 1 \in DOMAIN tokens
    BY <2>1, NextToken, Zenon
  <2> QED
    BY <2>2, Indices
<1>3. \A i \in DOMAIN next : next[i] \in DOMAIN tokens /\ next[i] > i
  BY <1>1, <1>2
<1>4. SkipSeparators(c) = Skipping(next)[c]
  BY DEF SkipSeparators
<1> HIDE DEF next
<1> QED
  BY <1>3, <1>4, SkippingEnds

----------------------------------------------------------------------------
(* The stack: what pushing and popping frames preserves and counts. *)

LEMMA InsideCounts ==
    ASSUME NEW s, IsSequence(s)
    PROVE  IsFiniteSet(Inside(s)) /\ Cardinality(Inside(s)) \in Nat
<1>1. IsFiniteSet(1 .. Len(s))
  <2>1. Len(s) \in Nat /\ 1 \in Int /\ Len(s) \in Int
    BY DEF IsSequence
  <2> QED
    BY <2>1, FS_Interval, Zenon
<1>2. Inside(s) \subseteq 1 .. Len(s)
  BY DEF Inside
<1>3. IsFiniteSet(Inside(s))
  BY <1>1, <1>2, FS_Subset
<1> QED
  BY <1>3, FS_CardinalityType

LEMMA Pushed ==
    ASSUME NEW n, NEW s, FramesOK(s, n),
           NEW frame, FrameOK(frame, n), Outermost(frame) <=> s = <<>>
    PROVE  /\ FramesOK(Append(s, frame), n) /\ Append(s, frame) # <<>>
           /\ Append(s, frame)[Len(Append(s, frame))] = frame
           /\ Cardinality(Inside(s)) \in Nat
           /\ Counted(frame) => Cardinality(Inside(Append(s, frame))) = Cardinality(Inside(s)) + 1
           /\ ~Counted(frame) => Cardinality(Inside(Append(s, frame))) = Cardinality(Inside(s))
<1> DEFINE t == Append(s, frame)
<1>1. /\ IsSequence(t) /\ Len(t) = Len(s) + 1
      /\ \A i \in 1 .. Len(s) : t[i] = s[i]
      /\ t[Len(s) + 1] = frame
  BY PushFrame DEF FramesOK
<1>2. Len(s) \in Nat /\ (s = <<>> <=> Len(s) = 0)
  BY EmptyStack DEF FramesOK, IsSequence
<1> HIDE DEF t
<1>3. t # <<>>
  <2>1. Len(t) # 0
    BY <1>1, <1>2
  <2> QED
    BY <1>1, <2>1, EmptyStack, Zenon
<1>4. \A i \in 1 .. Len(t) : i \in 1 .. Len(s) \/ i = Len(s) + 1
  BY <1>1, <1>2
<1>5. FramesOK(t, n)
  <2>1. ASSUME NEW i \in 1 .. Len(t)
        PROVE  FrameOK(t[i], n) /\ (Outermost(t[i]) <=> i = 1)
    <3>1. CASE i \in 1 .. Len(s)
      BY <3>1, <1>1 DEF FramesOK
    <3>2. CASE i = Len(s) + 1
      <4>1. Len(s) = 0 <=> i = 1
        BY <3>2, <1>2
      <4>2. t[i] = frame
        BY <3>2, <1>1
      <4> QED
        BY <4>1, <4>2, <1>2, Zenon
    <3> QED
      BY <3>1, <3>2, <1>4
  <2> QED
    BY <2>1, <1>1 DEF FramesOK
<1>6. Counted(frame) => Inside(t) = Inside(s) \union {Len(s) + 1}
  BY <1>1, <1>2, <1>4 DEF Inside
<1>7. ~Counted(frame) => Inside(t) = Inside(s)
  BY <1>1, <1>2, <1>4 DEF Inside
<1>8. Len(s) + 1 \notin Inside(s)
  BY <1>2 DEF Inside
<1>9. IsFiniteSet(Inside(s)) /\ Cardinality(Inside(s)) \in Nat
  BY InsideCounts DEF FramesOK
<1>10. Counted(frame) => Cardinality(Inside(t)) = Cardinality(Inside(s)) + 1
  BY <1>6, <1>8, <1>9, FS_AddElement
<1>11. t[Len(t)] = frame
  BY <1>1
<1> QED
  BY <1>3, <1>5, <1>7, <1>9, <1>10, <1>11 DEF t

LEMMA Popped ==
    ASSUME NEW n, NEW s, FramesOK(s, n), s # <<>>
    PROVE  LET below == SubSeq(s, 1, Len(s) - 1)
               top == s[Len(s)]
           IN  /\ FramesOK(below, n) /\ FrameOK(top, n)
               /\ s = Append(below, top)
               /\ Outermost(top) <=> below = <<>>
<1> DEFINE below == SubSeq(s, 1, Len(s) - 1)
           top == s[Len(s)]
<1>1. Len(s) \in Nat /\ Len(s) > 0
  BY EmptyStack DEF FramesOK, IsSequence
<1>2. IsSequence(below) /\ Len(below) = Len(s) - 1 /\ \A i \in 1 .. Len(s) - 1 : below[i] = s[i]
  BY <1>1, DropFrame DEF FramesOK
<1> HIDE DEF below
<1>3. \A i \in 1 .. Len(below) : i \in 1 .. Len(s) /\ below[i] = s[i]
  BY <1>1, <1>2
<1>4. FramesOK(below, n)
  BY <1>2, <1>3 DEF FramesOK
<1>5. FrameOK(top, n) /\ (Outermost(top) <=> Len(s) = 1)
  BY <1>1 DEF FramesOK
<1>6. below = <<>> <=> Len(s) = 1
  BY <1>1, <1>2, EmptyStack
<1>7. s = Append(below, top)
  <2>1. /\ IsSequence(Append(below, top)) /\ Len(Append(below, top)) = Len(below) + 1
        /\ \A i \in 1 .. Len(below) : Append(below, top)[i] = below[i]
        /\ Append(below, top)[Len(below) + 1] = top
    BY <1>2, PushFrame
  <2>2. \A i \in 1 .. Len(s) : Append(below, top)[i] = s[i]
    <3>1. \A i \in 1 .. Len(s) : i \in 1 .. Len(below) \/ (i = Len(s) /\ i = Len(below) + 1)
      BY <1>1, <1>2
    <3> QED
      BY <1>3, <2>1, <3>1
  <2>3. Len(Append(below, top)) = Len(s)
    BY <1>1, <1>2, <2>1
  <2>4. Append(below, top) = [i \in 1 .. Len(s) |-> Append(below, top)[i]]
    BY <2>1, <2>3 DEF IsSequence
  <2>5. s = [i \in 1 .. Len(s) |-> s[i]]
    BY DEF FramesOK, IsSequence
  <2> QED
    BY <2>2, <2>4, <2>5
<1> QED
  BY <1>4, <1>5, <1>6, <1>7, Zenon DEF below

LEMMA PushTwo ==
    ASSUME NEW s, IsSequence(s), NEW x, NEW y
    PROVE  s \o <<x, y>> = Append(Append(s, x), y)
<1> DEFINE T == {s[i] : i \in 1 .. Len(s)} \union {x, y}
<1>1. s \in Seq(T)
  BY SequenceIsSeq
<1> HIDE DEF T
<1>2. x \in T /\ y \in T
  BY DEF T
<1>3. <<x, y>> \in Seq(T) /\ Append(s, x) \in Seq(T)
  BY <1>1, <1>2
<1>4. Len(s \o <<x, y>>) = Len(s) + 2 /\ Len(Append(Append(s, x), y)) = Len(s) + 2
  BY <1>1, <1>2, <1>3
<1>5. \A i \in 1 .. Len(s) + 2 : (s \o <<x, y>>)[i] = Append(Append(s, x), y)[i]
  BY <1>1, <1>2, <1>3
<1>6. s \o <<x, y>> \in Seq(T) /\ Append(Append(s, x), y) \in Seq(T)
  BY <1>1, <1>2, <1>3
<1> QED
  BY <1>4, <1>5, <1>6, SeqEqual

----------------------------------------------------------------------------
(* What Goto, Call and Return keep of the invariant. *)

LEMMA TopOfStack ==
    ASSUME ParserInv, stack # <<>>
    PROVE  /\ FramesOK(Below, Len(tokens)) /\ FrameOK(Top, Len(tokens))
           /\ Outermost(Top) <=> Below = <<>>
           /\ Cardinality(Inside(Below)) \in Nat
           /\ Counted(Top) => depth = Cardinality(Inside(Below)) + 1
           /\ ~Counted(Top) => depth = Cardinality(Inside(Below))
<1>1. /\ FramesOK(Below, Len(tokens)) /\ FrameOK(Top, Len(tokens))
      /\ stack = Append(Below, Top)
      /\ Outermost(Top) <=> Below = <<>>
  BY Popped DEF ParserInv, Below, Top
<1>2. /\ Cardinality(Inside(Below)) \in Nat
      /\ Counted(Top) => Cardinality(Inside(Append(Below, Top))) = Cardinality(Inside(Below)) + 1
      /\ ~Counted(Top) => Cardinality(Inside(Append(Below, Top))) = Cardinality(Inside(Below))
  BY <1>1, Pushed, Zenon
<1> QED
  BY <1>1, <1>2, Zenon DEF ParserInv

(* The innermost function is replaced by one that counts like it. *)
LEMMA Replaced ==
    ASSUME ParserInv, stack # <<>>,
           NEW frame, FrameOK(frame, Len(tokens)), Outermost(frame) <=> Outermost(Top),
           stack' = Append(Below, frame)
    PROVE  /\ FramesOK(stack', Len(tokens)) /\ stack' # <<>>
           /\ stack'[Len(stack')] = frame
           /\ (Counted(frame) <=> Counted(Top)) => Cardinality(Inside(stack')) = depth
<1>1. /\ FramesOK(Below, Len(tokens))
      /\ Outermost(Top) <=> Below = <<>>
      /\ Counted(Top) => depth = Cardinality(Inside(Below)) + 1
      /\ ~Counted(Top) => depth = Cardinality(Inside(Below))
  BY TopOfStack
<1>2. Outermost(frame) <=> Below = <<>>
  BY <1>1, Zenon
<1>3. /\ FramesOK(Append(Below, frame), Len(tokens)) /\ Append(Below, frame) # <<>>
      /\ Append(Below, frame)[Len(Append(Below, frame))] = frame
      /\ Counted(frame) => Cardinality(Inside(Append(Below, frame))) = Cardinality(Inside(Below)) + 1
      /\ ~Counted(frame) => Cardinality(Inside(Append(Below, frame))) = Cardinality(Inside(Below))
  BY <1>1, <1>2, Pushed, Zenon
<1> QED
  BY <1>1, <1>3, Zenon

(* It is replaced, and calls another function. *)
LEMMA Called ==
    ASSUME ParserInv, stack # <<>>,
           NEW frame, FrameOK(frame, Len(tokens)), Outermost(frame) <=> Outermost(Top),
           NEW callee, FrameOK(callee, Len(tokens)), ~Outermost(callee),
           stack' = Below \o <<frame, callee>>
    PROVE  /\ FramesOK(stack', Len(tokens)) /\ stack' # <<>>
           /\ stack'[Len(stack')] = callee
           /\ (Counted(frame) <=> Counted(Top)) /\ ~Counted(callee) => Cardinality(Inside(stack')) = depth
           /\ (Counted(frame) <=> Counted(Top)) /\ Counted(callee) => Cardinality(Inside(stack')) = depth + 1
           /\ Counted(frame) /\ ~Counted(Top) /\ ~Counted(callee) => Cardinality(Inside(stack')) = depth + 1
<1> DEFINE s == Append(Below, frame)
<1>1. /\ FramesOK(Below, Len(tokens))
      /\ Outermost(Top) <=> Below = <<>>
      /\ Counted(Top) => depth = Cardinality(Inside(Below)) + 1
      /\ ~Counted(Top) => depth = Cardinality(Inside(Below))
  BY TopOfStack
<1>2. Outermost(frame) <=> Below = <<>>
  BY <1>1, Zenon
<1>3. /\ FramesOK(s, Len(tokens)) /\ s # <<>>
      /\ Counted(frame) => Cardinality(Inside(s)) = Cardinality(Inside(Below)) + 1
      /\ ~Counted(frame) => Cardinality(Inside(s)) = Cardinality(Inside(Below))
  BY <1>1, <1>2, Pushed, Zenon
<1>4. stack' = Append(s, callee)
  BY <1>1, PushTwo DEF FramesOK
<1> HIDE DEF s
<1>5. Outermost(callee) <=> s = <<>>
  BY <1>3, Zenon
<1>6. /\ FramesOK(Append(s, callee), Len(tokens)) /\ Append(s, callee) # <<>>
      /\ Append(s, callee)[Len(Append(s, callee))] = callee
      /\ Counted(callee) => Cardinality(Inside(Append(s, callee))) = Cardinality(Inside(s)) + 1
      /\ ~Counted(callee) => Cardinality(Inside(Append(s, callee))) = Cardinality(Inside(s))
  BY <1>3, <1>5, Pushed, Zenon
<1> QED
  BY <1>1, <1>3, <1>4, <1>6, Zenon

LEMMA Conclude ==
    ASSUME ParserInv, tokens' = tokens, cursor' \in DOMAIN tokens, depth' \in 0 .. MaxDepth,
           FramesOK(stack', Len(tokens)), depth' = Cardinality(Inside(stack')),
           value' # <<>> => (value'[1].op = "File" <=> stack' = <<>>),
           stack' = <<>> => value' # <<>>,
           stack' # <<>> /\ value' = <<>> => StandsAt(stack'[Len(stack')].fn, cursor')
    PROVE  ParserInv'
<1>1. TokensOK'
  BY DEF ParserInv, TokensOK
<1>2. ValueOK'
  BY Zenon DEF ValueOK, Result
<1>3. (stack # <<>> /\ value = <<>> => StandsAt(Top.fn, cursor))'
  BY Zenon DEF Top, StandsAt, At
<1> QED
  BY <1>1, <1>2, <1>3, Zenon DEF ParserInv

(* A frame that can stand in for the innermost one; one that can be called *)
(* at c; an innermost function that neither counts nor is the outermost.   *)
InPlace(frame) ==
    /\ FrameOK(frame, Len(tokens))
    /\ Outermost(frame) <=> Outermost(Top)
    /\ Counted(frame) <=> Counted(Top)

Callable(frame, c) ==
    FrameOK(frame, Len(tokens)) /\ ~Outermost(frame) /\ ~Counted(frame) /\ StandsAt(frame.fn, c)

Inner == ~Outermost(Top) /\ ~Counted(Top)

LEMMA GotoKeeps ==
    ASSUME ParserInv, stack # <<>>,
           NEW frame, InPlace(frame), NEW c \in DOMAIN tokens, StandsAt(frame.fn, c), NEW errors,
           Goto(frame, c, errors)
    PROVE  ParserInv'
<1>1. stack' = Append(Below, frame) /\ value' = <<>> /\ depth' = depth /\ cursor' = c /\ tokens' = tokens
  BY DEF Goto, Step
<1>2. /\ FramesOK(stack', Len(tokens)) /\ stack' # <<>>
      /\ stack'[Len(stack')] = frame
      /\ Cardinality(Inside(stack')) = depth
  BY <1>1, Replaced, Zenon DEF InPlace
<1>3. depth' \in 0 .. MaxDepth
  BY <1>1 DEF ParserInv
<1> QED
  BY <1>1, <1>2, <1>3, Conclude, Zenon

LEMMA CallKeeps ==
    ASSUME ParserInv, stack # <<>>,
           NEW frame, InPlace(frame),
           NEW c \in DOMAIN tokens, NEW callee, Callable(callee, c), NEW errors,
           Call(frame, callee, c, errors)
    PROVE  ParserInv'
<1>1. /\ stack' = Below \o <<frame, callee>> /\ value' = <<>> /\ depth' = depth /\ cursor' = c
      /\ tokens' = tokens
  BY DEF Call, Step
<1>2. /\ FramesOK(stack', Len(tokens)) /\ stack' # <<>>
      /\ stack'[Len(stack')] = callee
      /\ Cardinality(Inside(stack')) = depth
  BY <1>1, Called, Zenon DEF InPlace, Callable
<1>3. depth' \in 0 .. MaxDepth
  BY <1>1 DEF ParserInv
<1> QED
  BY <1>1, <1>2, <1>3, Conclude, Zenon DEF Callable

LEMMA OneValue ==
    ASSUME NEW node
    PROVE  <<node>> # <<>> /\ <<node>>[1] = node
OBVIOUS

LEMMA ReturnKeeps ==
    ASSUME ParserInv, stack # <<>>, Inner,
           NEW node, node.op # "File", NEW c \in DOMAIN tokens, NEW errors,
           Return(node, c, errors)
    PROVE  ParserInv'
<1>1. stack' = Below /\ value' = <<node>> /\ depth' = depth /\ cursor' = c /\ tokens' = tokens
  BY DEF Return, Step
<1>2. FramesOK(stack', Len(tokens)) /\ stack' # <<>> /\ Cardinality(Inside(stack')) = depth
  BY <1>1, TopOfStack, Zenon DEF Inner
<1>3. depth' \in 0 .. MaxDepth
  BY <1>1 DEF ParserInv
<1>4. value' # <<>> /\ value'[1] = node
  BY <1>1, OneValue, Zenon
<1> QED
  BY <1>1, <1>2, <1>3, <1>4, Conclude, Zenon

(* A function that counts ends, or one that does not with a value of a     *)
(* step of its own: only the frames and the depth matter.                  *)
LEMMA ValueKeeps ==
    ASSUME ParserInv, NEW node, node.op # "File", value' = <<node>>, tokens' = tokens,
           cursor' \in DOMAIN tokens, depth' \in 0 .. MaxDepth,
           FramesOK(stack', Len(tokens)), stack' # <<>>, depth' = Cardinality(Inside(stack'))
    PROVE  ParserInv'
<1>1. value' # <<>> /\ value'[1] = node
  BY OneValue, Zenon
<1> QED
  BY <1>1, Conclude, Zenon

(* What counts ends, and gives the depth back. *)
LEMMA ExitKeeps ==
    ASSUME ParserInv, stack # <<>>, Counted(Top), ~Outermost(Top), stack' = Below, ExitDepth,
           NEW c \in DOMAIN tokens, NEW errors, Step(c, errors),
           value' # <<>>, value'[1].op # "File"
    PROVE  ParserInv'
<1>1. FramesOK(stack', Len(tokens)) /\ stack' # <<>> /\ depth = Cardinality(Inside(stack')) + 1
  BY TopOfStack, Zenon
<1>2. Cardinality(Inside(stack')) \in Nat
  BY TopOfStack, Zenon
<1>3. depth' = Cardinality(Inside(stack')) /\ depth' \in 0 .. MaxDepth
  BY <1>1, <1>2, DepthAssumption DEF ExitDepth, ParserInv
<1>4. cursor' = c /\ tokens' = tokens
  BY DEF Step
<1> QED
  BY <1>1, <1>3, <1>4, Conclude, Zenon

(* Frames. *)

(* What the proof has to know of an action's frames: the functions that    *)
(* are none of these are alike.                                            *)
Special == {"package", "file", "imports", "let", "operators", "operand", "chained_field",
            "head", "aliased", "field_value"}

LEMMA PlainFrame ==
    ASSUME NEW fn \in Functions \ Special, NEW at \in 0 .. Len(tokens), NEW kids, NEW bp, NEW c
    PROVE  /\ Callable(Frame(fn, at, kids, bp), c)
           /\ StandsAt(Frame(fn, at, kids, bp).fn, c)
           /\ Inner => InPlace(Frame(fn, at, kids, bp))
BY DEF Callable, StandsAt, InPlace, Inner, FrameOK, Frame, Outermost, Counted, Special

LEMMA OtherKids ==
    ASSUME FrameOK(Top, Len(tokens)), NEW kids
    PROVE  InPlace([Top EXCEPT !.kids = kids]) /\ [Top EXCEPT !.kids = kids].fn = Top.fn
BY DEF InPlace, FrameOK, Frame, Outermost, Counted

LEMMA OtherFunction ==
    ASSUME FrameOK(Top, Len(tokens)), Top.fn \notin Special, NEW fn \in Functions \ Special, NEW c
    PROVE  InPlace([Top EXCEPT !.fn = fn]) /\ StandsAt([Top EXCEPT !.fn = fn].fn, c)
BY DEF InPlace, StandsAt, FrameOK, Frame, Outermost, Counted, Special

(* In a function that is running or resumed: what the invariant says. *)
LEMMA InFunction ==
    ASSUME ParserInv, stack # <<>>
    PROVE  /\ TokensOK /\ cursor \in DOMAIN tokens /\ FrameOK(Top, Len(tokens)) /\ Top.fn \in Functions
           /\ Top.fn \notin Special => Inner
           /\ Top.fn \in {"imports", "let"} => Inner
           /\ InPlace(Top)
           /\ value # <<>> => Result.op # "File"
<1>1. TokensOK /\ cursor \in DOMAIN tokens /\ FrameOK(Top, Len(tokens))
  BY TopOfStack DEF ParserInv
<1>2. value # <<>> => Result.op # "File"
  BY DEF ParserInv, ValueOK
<1> QED
  BY <1>1, <1>2 DEF FrameOK, Special, Inner, InPlace, Outermost, Counted

(* The common ways to go on: with a function that is not special, calling  *)
(* one, or with other nodes.                                               *)
LEMMA GotoPlain ==
    ASSUME ParserInv, stack # <<>>, Inner,
           NEW fn \in Functions \ Special, NEW at \in 0 .. Len(tokens), NEW kids, NEW bp,
           NEW c \in DOMAIN tokens, NEW errors, Goto(Frame(fn, at, kids, bp), c, errors)
    PROVE  ParserInv'
<1>1. InPlace(Frame(fn, at, kids, bp)) /\ StandsAt(Frame(fn, at, kids, bp).fn, c)
  BY PlainFrame, Zenon
<1> QED
  BY <1>1, GotoKeeps, Zenon

LEMMA CallPlain ==
    ASSUME ParserInv, stack # <<>>, NEW frame, InPlace(frame),
           NEW fn \in Functions \ Special, NEW at \in 0 .. Len(tokens), NEW kids, NEW bp,
           NEW c \in DOMAIN tokens, NEW errors, Call(frame, Frame(fn, at, kids, bp), c, errors)
    PROVE  ParserInv'
<1>1. Callable(Frame(fn, at, kids, bp), c)
  BY PlainFrame, Zenon
<1> QED
  BY <1>1, CallKeeps, Zenon

LEMMA GotoEnter ==
    ASSUME ParserInv, stack # <<>>, Inner, NEW fn \in Functions \ Special,
           NEW c \in DOMAIN tokens, NEW errors, Goto(Enter(fn), c, errors)
    PROVE  ParserInv'
<1>1. 0 \in 0 .. Len(tokens)
  BY Indices DEF ParserInv
<1> QED
  BY <1>1, GotoPlain, Zenon DEF Enter

LEMMA CallEnter ==
    ASSUME ParserInv, stack # <<>>, NEW frame, InPlace(frame), NEW fn \in Functions \ Special,
           NEW c \in DOMAIN tokens, NEW errors, Call(frame, Enter(fn), c, errors)
    PROVE  ParserInv'
<1>1. 0 \in 0 .. Len(tokens)
  BY Indices DEF ParserInv
<1> QED
  BY <1>1, CallPlain, Zenon DEF Enter

LEMMA CallExpr ==
    ASSUME ParserInv, stack # <<>>, NEW frame, InPlace(frame),
           NEW c \in DOMAIN tokens, NEW power, NEW errors, Call(frame, Expr(power), c, errors)
    PROVE  ParserInv'
<1>1. 0 \in 0 .. Len(tokens) /\ "expr" \in Functions \ Special
  BY Indices DEF ParserInv, Functions, Special
<1> QED
  BY <1>1, CallPlain, Zenon DEF Expr

(* A plain function calls the parser of an expression. *)
LEMMA PlainCallsExpr ==
    ASSUME ParserInv, stack # <<>>, Inner,
           NEW fn \in Functions \ Special, NEW at \in 0 .. Len(tokens), NEW kids, NEW bp,
           NEW c \in DOMAIN tokens, NEW power, NEW errors,
           Call(Frame(fn, at, kids, bp), Expr(power), c, errors)
    PROVE  ParserInv'
<1>1. InPlace(Frame(fn, at, kids, bp))
  BY PlainFrame, Zenon
<1> QED
  BY <1>1, CallExpr, Zenon

LEMMA GotoOtherKids ==
    ASSUME ParserInv, stack # <<>>, Top.fn \notin {"imports", "let"}, NEW kids,
           NEW c \in DOMAIN tokens, NEW errors, Goto([Top EXCEPT !.kids = kids], c, errors)
    PROVE  ParserInv'
<1> DEFINE frame == [Top EXCEPT !.kids = kids]
<1>1. InPlace(frame) /\ frame.fn = Top.fn
  BY InFunction, OtherKids
<1> HIDE DEF frame
<1>2. StandsAt(frame.fn, c)
  BY <1>1 DEF StandsAt
<1> QED
  BY <1>1, <1>2, GotoKeeps, Zenon DEF frame

LEMMA GotoSame ==
    ASSUME ParserInv, stack # <<>>, Top.fn \notin {"imports", "let"},
           NEW c \in DOMAIN tokens, NEW errors, Goto(Top, c, errors)
    PROVE  ParserInv'
<1>1. InPlace(Top) /\ StandsAt(Top.fn, c)
  BY InFunction DEF StandsAt
<1> QED
  BY <1>1, GotoKeeps, Zenon

----------------------------------------------------------------------------
(* The actions, of files and declarations. *)

LEMMA PackageKeeps ==
    ASSUME ParserInv, ParsePackage
    PROVE  ParserInv'
<1>1. stack # <<>> /\ Top.fn = "package"
  BY DEF ParsePackage, Running
<1>2. TokensOK /\ cursor \in DOMAIN tokens /\ FrameOK(Top, Len(tokens))
  BY <1>1, InFunction
<1> DEFINE c == SkipSeparators(cursor)
<1>3. c \in DOMAIN tokens
  BY <1>2, SkipSeparatorsStays
<1>4. ~At("Package", c) => Goto(Enter("file"), c, {})
  BY DEF ParsePackage
<1> DEFINE kids == IF At("Identifier", c + 1) THEN <<Leaf("Package", c + 1)>> ELSE <<>>
           after == After("Identifier", c + 1)
           errors == Missing("Identifier", c + 1, "expected_package_name")
<1>5. At("Package", c) => Goto(Frame("file", 0, kids, 0), after, errors)
  BY DEF ParsePackage
<1> HIDE DEF c, kids, errors
<1>6. At("Package", c) => after \in DOMAIN tokens
  BY <1>2, <1>3, NextOfKind, AfterStays
<1> HIDE DEF after
<1>7. \A nodes : InPlace(Frame("file", 0, nodes, 0))
  BY <1>1, <1>2, Indices DEF InPlace, FrameOK, Frame, Functions, Outermost, Counted
<1>8. Enter("file") = Frame("file", 0, <<>>, 0)
  BY DEF Enter
<1>9. \A nodes : \A d : StandsAt(Frame("file", 0, nodes, 0).fn, d)
  BY DEF StandsAt, Frame
<1>10. CASE ~At("Package", c)
  BY <1>1, <1>3, <1>4, <1>7, <1>8, <1>9, <1>10, GotoKeeps, Zenon
<1>11. CASE At("Package", c)
  BY <1>1, <1>5, <1>6, <1>7, <1>9, <1>11, GotoKeeps, Zenon
<1> QED
  BY <1>10, <1>11

LEMMA FileKeeps ==
    ASSUME ParserInv, ParseFile
    PROVE  ParserInv'
<1>1. stack # <<>> /\ Top.fn = "file"
  BY DEF ParseFile, Running
<1>2. TokensOK /\ cursor \in DOMAIN tokens /\ FrameOK(Top, Len(tokens)) /\ InPlace(Top)
  BY <1>1, InFunction
<1> DEFINE c == SkipSeparators(cursor)
<1>3. c \in DOMAIN tokens
  BY <1>2, SkipSeparatorsStays
<1>4. \/ Return(Node("File", 0, Top.kids), c, {})
      \/ At("Import", c) /\ Call(Top, Enter("imports"), c, {})
      \/ Call(Top, Enter("decl"), c, {})
  BY DEF ParseFile
<1> HIDE DEF c
<1>5. CASE Return(Node("File", 0, Top.kids), c, {})
  <2>1. /\ stack' = Below /\ value' = <<Node("File", 0, Top.kids)>> /\ depth' = depth /\ cursor' = c
        /\ tokens' = tokens
    BY <1>5 DEF Return, Step
  <2>2. Outermost(Top) /\ ~Counted(Top)
    BY <1>1 DEF Outermost, Counted
  <2>3. FramesOK(stack', Len(tokens)) /\ stack' = <<>> /\ Cardinality(Inside(stack')) = depth
    BY <1>1, <2>1, <2>2, TopOfStack, Zenon
  <2>4. value' # <<>> /\ value'[1].op = "File"
    <3>1. Node("File", 0, Top.kids).op = "File"
      BY DEF Node
    <3> QED
      BY <2>1, <3>1, OneValue, Zenon
  <2>5. depth' \in 0 .. MaxDepth
    BY <2>1 DEF ParserInv
  <2> QED
    BY <1>3, <2>1, <2>3, <2>4, <2>5, Conclude, Zenon
<1>6. CASE At("Import", c) /\ Call(Top, Enter("imports"), c, {})
  <2>1. Callable(Enter("imports"), c)
    BY <1>2, <1>6, Indices DEF Callable, StandsAt, FrameOK, Enter, Frame, Functions, Outermost, Counted
  <2> QED
    BY <1>1, <1>2, <1>3, <1>6, <2>1, CallKeeps, Zenon
<1>7. CASE Call(Top, Enter("decl"), c, {})
  <2>1. "decl" \in Functions \ Special
    BY DEF Functions, Special
  <2> QED
    BY <1>1, <1>2, <1>3, <1>7, <2>1, CallEnter, Zenon
<1> QED
  BY <1>4, <1>5, <1>6, <1>7

LEMMA KeepDeclKeeps ==
    ASSUME ParserInv, KeepDecl
    PROVE  ParserInv'
<1>1. stack # <<>> /\ Top.fn \notin {"imports", "let"}
  BY DEF KeepDecl, Resumed
<1> DEFINE c == SkipSeparators(cursor)
           kids == Keep(Top.kids, Result)
<1>2. c \in DOMAIN tokens
  BY <1>1, InFunction, SkipSeparatorsStays
<1>3. Goto([Top EXCEPT !.kids = kids], c, {})
  BY DEF KeepDecl
<1> HIDE DEF c, kids
<1> QED
  BY <1>1, <1>2, <1>3, GotoOtherKids, Zenon

(* An import specification ends after its path. *)
LEMMA ImportEnds ==
    ASSUME TokensOK, NEW c \in DOMAIN tokens, AtImportStart(c)
    PROVE  ImportSpec(c).at + 1 \in DOMAIN tokens /\ ImportSpec(c).op # "File"
<1>1. CASE At("Identifier", c)
  <2>1. c + 1 \in DOMAIN tokens
    BY <1>1, NextOfKind
  <2>2. At("String", c + 1)
    BY <1>1 DEF AtImportStart, At
  <2>3. c + 1 + 1 \in DOMAIN tokens
    BY <2>1, <2>2, NextOfKind
  <2> QED
    BY <1>1, <2>3 DEF ImportSpec, Node
<1>2. CASE ~At("Identifier", c)
  <2>1. At("String", c)
    BY <1>2 DEF AtImportStart
  <2>2. c + 1 \in DOMAIN tokens
    BY <2>1, NextOfKind
  <2> QED
    BY <1>2, <2>2 DEF ImportSpec, Leaf, Node
<1> QED
  BY <1>1, <1>2

LEMMA ImportsKeeps ==
    ASSUME ParserInv, ParseImports
    PROVE  ParserInv'
<1>1. stack # <<>> /\ Top.fn = "imports" /\ value = <<>>
  BY DEF ParseImports, Running
<1>2. TokensOK /\ cursor \in DOMAIN tokens /\ FrameOK(Top, Len(tokens)) /\ Inner
  BY <1>1, InFunction
<1> DEFINE c == cursor + 1
<1>3. c \in DOMAIN tokens
  <2>1. At("Import", cursor)
    BY <1>1 DEF ParserInv, StandsAt
  <2> QED
    BY <1>2, <2>1, NextOfKind
<1>4. \/ At("LeftParen", c) /\ Goto(Enter("import_list"), c + 1, {})
      \/ AtImportStart(c) /\ Return(ImportSpec(c), ImportSpec(c).at + 1, {})
      \/ Return(Node("Imports", 0, <<>>), c, {"expected_import"})
  BY DEF ParseImports
<1> HIDE DEF c
<1>5. CASE At("LeftParen", c) /\ Goto(Enter("import_list"), c + 1, {})
  <2>1. c + 1 \in DOMAIN tokens
    BY <1>2, <1>3, <1>5, NextOfKind
  <2>2. "import_list" \in Functions \ Special
    BY DEF Functions, Special
  <2> QED
    BY <1>1, <1>2, <1>5, <2>1, <2>2, GotoEnter, Zenon
<1>6. CASE AtImportStart(c) /\ Return(ImportSpec(c), ImportSpec(c).at + 1, {})
  BY <1>1, <1>2, <1>3, <1>6, ImportEnds, ReturnKeeps, Zenon
<1>7. CASE Return(Node("Imports", 0, <<>>), c, {"expected_import"})
  <2>1. Node("Imports", 0, <<>>).op # "File"
    BY DEF Node
  <2> QED
    BY <1>1, <1>2, <1>3, <1>7, <2>1, ReturnKeeps, Zenon
<1> QED
  BY <1>4, <1>5, <1>6, <1>7

LEMMA ImportListKeeps ==
    ASSUME ParserInv, ParseImportList
    PROVE  ParserInv'
<1>1. stack # <<>> /\ Top.fn = "import_list"
  BY DEF ParseImportList, Running
<1>2. TokensOK /\ cursor \in DOMAIN tokens /\ Inner
  BY <1>1, InFunction DEF Special
<1> DEFINE c == SkipSeparators(cursor)
           spec == ImportSpec(c)
           kids == Append(Top.kids, spec)
           list == Node("Imports", 0, Top.kids)
           after == After("RightParen", cursor)
           errors == Missing("RightParen", cursor, "expected_import_close")
<1>3. c \in DOMAIN tokens
  BY <1>2, SkipSeparatorsStays
<1>4. \/ Return(list, after, errors)
      \/ AtImportStart(c) /\ Goto([Top EXCEPT !.kids = kids], SkipSeparators(spec.at + 1), {})
      \/ Goto(Top, SkipSeparators(Recovered(c)), {"expected_import"})
  BY DEF ParseImportList
<1>5. after \in DOMAIN tokens /\ list.op # "File"
  BY <1>2, AfterStays DEF Node
<1>6. AtImportStart(c) => SkipSeparators(spec.at + 1) \in DOMAIN tokens
  BY <1>2, <1>3, ImportEnds, SkipSeparatorsStays
<1>7. SkipSeparators(Recovered(c)) \in DOMAIN tokens
  BY <1>2, <1>3, RecoveredStays, SkipSeparatorsStays
<1> HIDE DEF c, spec, kids, list, after, errors
<1>8. Top.fn \notin {"imports", "let"}
  BY <1>1
<1>9. CASE Return(list, after, errors)
  BY <1>1, <1>2, <1>5, <1>9, ReturnKeeps, Zenon
<1>10. CASE AtImportStart(c) /\ Goto([Top EXCEPT !.kids = kids], SkipSeparators(spec.at + 1), {})
  BY <1>1, <1>6, <1>8, <1>10, GotoOtherKids, Zenon
<1>11. CASE Goto(Top, SkipSeparators(Recovered(c)), {"expected_import"})
  BY <1>1, <1>7, <1>8, <1>11, GotoSame, Zenon
<1> QED
  BY <1>4, <1>9, <1>10, <1>11

LEMMA DeclKeeps ==
    ASSUME ParserInv, ParseDecl
    PROVE  ParserInv'
<1>1. stack # <<>> /\ Top.fn = "decl"
  BY DEF ParseDecl, Running
<1>2. TokensOK /\ cursor \in DOMAIN tokens /\ Inner
  BY <1>1, InFunction DEF Special
<1>3. \/ At("Ellipsis", cursor) /\ Return(Leaf("Ellipsis", cursor), cursor + 1, {})
      \/ At("Let", cursor) /\ Goto(Enter("let"), cursor, {})
      \/ Goto(Enter("comprehension_decl"), cursor, {})
      \/ Goto(Enter("field"), cursor, {})
      \/ Return(Bad, RecoveredDecl(cursor), {"expected_decl"})
  BY DEF ParseDecl
<1>4. CASE At("Ellipsis", cursor) /\ Return(Leaf("Ellipsis", cursor), cursor + 1, {})
  <2>1. cursor + 1 \in DOMAIN tokens
    BY <1>2, <1>4, NextOfKind
  <2>2. Leaf("Ellipsis", cursor).op # "File"
    BY DEF Leaf, Node
  <2> QED
    BY <1>1, <1>2, <1>4, <2>1, <2>2, ReturnKeeps, Zenon
<1>5. CASE At("Let", cursor) /\ Goto(Enter("let"), cursor, {})
  <2>1. InPlace(Enter("let")) /\ StandsAt(Enter("let").fn, cursor)
    BY <1>2, <1>5, Indices
       DEF InPlace, Inner, StandsAt, FrameOK, Enter, Frame, Functions, Outermost, Counted
  <2> QED
    BY <1>1, <1>2, <1>5, <2>1, GotoKeeps, Zenon
<1>6. CASE Goto(Enter("comprehension_decl"), cursor, {})
  <2>1. "comprehension_decl" \in Functions \ Special
    BY DEF Functions, Special
  <2> QED
    BY <1>1, <1>2, <1>6, <2>1, GotoEnter, Zenon
<1>7. CASE Goto(Enter("field"), cursor, {})
  <2>1. "field" \in Functions \ Special
    BY DEF Functions, Special
  <2> QED
    BY <1>1, <1>2, <1>7, <2>1, GotoEnter, Zenon
<1>8. CASE Return(Bad, RecoveredDecl(cursor), {"expected_decl"})
  <2>1. RecoveredDecl(cursor) \in DOMAIN tokens
    BY <1>2, RecoveredDeclStays
  <2>2. Bad.op # "File"
    BY DEF Bad, Leaf, Node
  <2> QED
    BY <1>1, <1>2, <1>8, <2>1, <2>2, ReturnKeeps, Zenon
<1> QED
  BY <1>3, <1>4, <1>5, <1>6, <1>7, <1>8

LEMMA LetKeeps ==
    ASSUME ParserInv, ParseLet
    PROVE  ParserInv'
<1>1. CASE Running("let")
  <2>1. stack # <<>> /\ Top.fn = "let" /\ value = <<>>
    BY <1>1 DEF Running
  <2>2. TokensOK /\ cursor \in DOMAIN tokens /\ Inner
    BY <2>1, InFunction
  <2>3. cursor + 1 \in DOMAIN tokens
    <3>1. At("Let", cursor)
      BY <2>1 DEF ParserInv, StandsAt
    <3> QED
      BY <2>2, <3>1, NextOfKind
  <2> DEFINE c == After("Identifier", cursor + 1)
             equals == AtText("Operator", {"="}, c)
             at == IF c = cursor + 1 THEN 0 ELSE cursor + 1
             d == IF equals THEN c + 1 ELSE c
             errors == Missing("Identifier", cursor + 1, "expected_let_name")
                         \union (IF equals THEN {} ELSE {"expected_let_eq"})
  <2>4. c \in DOMAIN tokens
    BY <2>2, <2>3, AfterStays
  <2>5. Call(Frame("let_value", at, <<>>, 0), Expr(0), d, errors)
    BY <2>1 DEF ParseLet, Resumed
  <2>6. d \in DOMAIN tokens
    BY <2>2, <2>4, NextText
  <2>7. at \in 0 .. Len(tokens) /\ "let_value" \in Functions \ Special
    BY <2>2, <2>3, Indices DEF Functions, Special
  <2> HIDE DEF at, d, errors
  <2> QED
    BY <2>1, <2>2, <2>5, <2>6, <2>7, PlainCallsExpr, Zenon
<1>2. CASE Resumed("let_value")
  <2>1. stack # <<>> /\ Top.fn = "let_value"
    BY <1>2 DEF Resumed
  <2>2. TokensOK /\ cursor \in DOMAIN tokens /\ Inner
    BY <2>1, InFunction DEF Special
  <2>3. Return(Node("Let", Top.at, <<Result>>), SkipAttributes(cursor), {})
    BY <2>1 DEF ParseLet, Running
  <2>4. SkipAttributes(cursor) \in DOMAIN tokens /\ Node("Let", Top.at, <<Result>>).op # "File"
    BY <2>2, SkipAttributesStays DEF Node
  <2> QED
    BY <2>1, <2>2, <2>3, <2>4, ReturnKeeps, Zenon
<1> QED
  BY <1>1, <1>2 DEF ParseLet

----------------------------------------------------------------------------
(* The actions, of fields. *)

LEMMA FieldKeeps ==
    ASSUME ParserInv, ParseField
    PROVE  ParserInv'
<1>1. PICK fn \in {"field", "chained_field"} :
         /\ Running(fn)
         /\ Call(Frame("head", 0, <<>>, IF fn = "field" THEN 0 ELSE 1), Enter("label"), cursor, {})
  BY DEF ParseField
<1> DEFINE frame == Frame("head", 0, <<>>, IF fn = "field" THEN 0 ELSE 1)
<1>2. stack # <<>> /\ Top.fn = fn
  BY <1>1 DEF Running
<1>3. TokensOK /\ cursor \in DOMAIN tokens
  BY <1>2, InFunction
<1>4. InPlace(frame)
  BY <1>2, <1>3, Indices DEF InPlace, FrameOK, Frame, Functions, Outermost, Counted
<1>5. "label" \in Functions \ Special
  BY DEF Functions, Special
<1>6. Call(frame, Enter("label"), cursor, {})
  BY <1>1
<1> HIDE DEF frame
<1> QED
  BY <1>2, <1>3, <1>4, <1>5, <1>6, CallEnter, Zenon

LEMMA LabelKeeps ==
    ASSUME ParserInv, ParseLabel
    PROVE  ParserInv'
<1>1. CASE Running("label")
  <2>1. stack # <<>> /\ Top.fn = "label"
    BY <1>1 DEF Running
  <2>2. TokensOK /\ cursor \in DOMAIN tokens /\ Inner
    BY <2>1, InFunction DEF Special
  <2>3. \/ /\ AtOneOf({"Identifier", "String"}, cursor)
           /\ Return(Leaf(tokens[cursor].kind, cursor), cursor + 1, {})
        \/ /\ AtOneOf({"LeftParen", "LeftBracket"}, cursor)
           /\ Call(Frame("label_close", cursor, <<>>, 0), Expr(0), cursor + 1, {})
        \/ Return(Bad, cursor, {"expected_label"})
    BY <2>1 DEF ParseLabel, Resumed
  <2>4. CASE /\ AtOneOf({"Identifier", "String"}, cursor)
             /\ Return(Leaf(tokens[cursor].kind, cursor), cursor + 1, {})
    <3>1. "Eof" \notin {"Identifier", "String"}
      OBVIOUS
    <3>2. cursor + 1 \in DOMAIN tokens
      BY <2>2, <2>4, <3>1, NextToken, Zenon
    <3>3. Leaf(tokens[cursor].kind, cursor).op # "File"
      BY <2>4 DEF AtOneOf, Leaf, Node
    <3> QED
      BY <2>1, <2>2, <2>4, <3>2, <3>3, ReturnKeeps, Zenon
  <2>5. CASE /\ AtOneOf({"LeftParen", "LeftBracket"}, cursor)
             /\ Call(Frame("label_close", cursor, <<>>, 0), Expr(0), cursor + 1, {})
    <3>1. "Eof" \notin {"LeftParen", "LeftBracket"}
      OBVIOUS
    <3>2. cursor + 1 \in DOMAIN tokens
      BY <2>2, <2>5, <3>1, NextToken, Zenon
    <3>3. "label_close" \in Functions \ Special /\ cursor \in 0 .. Len(tokens)
      BY <2>2, Indices DEF Functions, Special
    <3> QED
      BY <2>1, <2>2, <2>5, <3>2, <3>3, PlainCallsExpr, Zenon
  <2>6. CASE Return(Bad, cursor, {"expected_label"})
    <3>1. Bad.op # "File"
      BY DEF Bad, Leaf, Node
    <3> QED
      BY <2>1, <2>2, <2>6, <3>1, ReturnKeeps, Zenon
  <2> QED
    BY <2>3, <2>4, <2>5, <2>6
<1>2. CASE Resumed("label_close")
  <2>1. stack # <<>> /\ Top.fn = "label_close"
    BY <1>2 DEF Resumed
  <2>2. TokensOK /\ cursor \in DOMAIN tokens /\ Inner
    BY <2>1, InFunction DEF Special
  <2> DEFINE close == Closing(tokens[Top.at].kind)
             label == Node("Label", Top.at, <<Result>>)
             errors == Missing(close, cursor, "expected_label_close")
  <2>3. Return(label, After(close, cursor), errors)
    BY <2>1 DEF ParseLabel, Running
  <2>4. close # "Eof" /\ label.op # "File"
    BY DEF Closing, Node
  <2> HIDE DEF close, label, errors
  <2>5. After(close, cursor) \in DOMAIN tokens
    BY <2>2, <2>4, AfterStays, Zenon
  <2> QED
    BY <2>1, <2>2, <2>3, <2>4, <2>5, ReturnKeeps, Zenon
<1> QED
  BY <1>1, <1>2 DEF ParseLabel

(* The value of a field, or the next field of a chain, one level deeper. *)
LEMMA FieldValueKeeps ==
    ASSUME ParserInv, stack # <<>>, Top.fn \in {"head", "aliased"}, NEW kids, ParseFieldValue(kids, Top.bp)
    PROVE  ParserInv'
<1> DEFINE marked == AtText("Operator", {"?", "!"}, cursor)
           c == IF marked THEN cursor + 1 ELSE cursor
           head == IF marked THEN Append(kids, Leaf("Marker", cursor)) ELSE kids
           frame == Frame("field_value", 0, head, Top.bp)
           first == After("Colon", c)
           errors == Missing("Colon", c, "expected_colon")
<1>1. TokensOK /\ cursor \in DOMAIN tokens /\ FrameOK(Top, Len(tokens))
  BY InFunction
<1>2. c \in DOMAIN tokens
  BY <1>1, NextText
<1>3. first \in DOMAIN tokens
  BY <1>1, <1>2, AfterStays
<1>4. InPlace(frame)
  BY <1>1, Indices DEF InPlace, FrameOK, Frame, Functions, Outermost, Counted
<1>5. \/ Call(frame, Expr(0), first, errors)
      \/ /\ depth < MaxDepth /\ stack' = Below \o <<frame, Enter("chained_field")>> /\ value' = <<>>
         /\ EnterDepth /\ Step(first, errors)
      \/ /\ stack' = Append(Below, frame) /\ value' = <<Bad>> /\ UNCHANGED depth
         /\ Step(Recovered(first), errors \union {"max_depth_exceeded"})
  BY DEF ParseFieldValue
<1> HIDE DEF frame, first, errors
<1>6. CASE Call(frame, Expr(0), first, errors)
  BY <1>3, <1>4, <1>6, CallExpr, Zenon
<1>7. CASE /\ depth < MaxDepth /\ stack' = Below \o <<frame, Enter("chained_field")>> /\ value' = <<>>
           /\ EnterDepth /\ Step(first, errors)
  <2>1. /\ FrameOK(Enter("chained_field"), Len(tokens)) /\ ~Outermost(Enter("chained_field"))
        /\ Counted(Enter("chained_field")) /\ \A d : StandsAt(Enter("chained_field").fn, d)
    BY <1>1, Indices DEF FrameOK, Enter, Frame, Functions, Outermost, Counted, StandsAt
  <2>2. /\ FramesOK(stack', Len(tokens)) /\ stack' # <<>>
        /\ stack'[Len(stack')] = Enter("chained_field")
        /\ Cardinality(Inside(stack')) = depth + 1
    BY <1>4, <1>7, <2>1, Called, Zenon DEF InPlace
  <2>3. depth' = depth + 1 /\ depth' \in 0 .. MaxDepth
    BY <1>7, DepthAssumption DEF EnterDepth, ParserInv
  <2>4. cursor' = first /\ tokens' = tokens /\ value' = <<>>
    BY <1>7 DEF Step
  <2> QED
    BY <1>3, <2>1, <2>2, <2>3, <2>4, Conclude, Zenon
<1>8. CASE /\ stack' = Append(Below, frame) /\ value' = <<Bad>> /\ UNCHANGED depth
           /\ Step(Recovered(first), errors \union {"max_depth_exceeded"})
  <2>1. FramesOK(stack', Len(tokens)) /\ stack' # <<>> /\ Cardinality(Inside(stack')) = depth
    BY <1>4, <1>8, Replaced, Zenon DEF InPlace
  <2>2. depth' = depth /\ depth' \in 0 .. MaxDepth
    BY <1>8 DEF ParserInv
  <2>3. cursor' = Recovered(first) /\ tokens' = tokens
    BY <1>8 DEF Step
  <2>4. Recovered(first) \in DOMAIN tokens /\ Bad.op # "File"
    BY <1>1, <1>3, RecoveredStays DEF Bad, Leaf, Node
  <2> QED
    BY <1>8, <2>1, <2>2, <2>3, <2>4, ValueKeeps, Zenon
<1> QED
  BY <1>5, <1>6, <1>7, <1>8

LEMMA FieldHeadKeeps ==
    ASSUME ParserInv, ParseFieldHead
    PROVE  ParserInv'
<1>1. stack # <<>> /\ Top.fn \in {"head", "aliased"}
  BY DEF ParseFieldHead, Resumed
<1>2. TokensOK /\ cursor \in DOMAIN tokens /\ FrameOK(Top, Len(tokens))
  BY <1>1, InFunction
<1> DEFINE frame == Frame("aliased", 0, <<Result>>, Top.bp)
           errors == IF Result.op = "Identifier" THEN {} ELSE {"invalid_alias_label"}
<1>3. \/ AtText("Operator", {"="}, cursor) /\ Call(frame, Enter("label"), cursor + 1, errors)
      \/ ParseFieldValue(<<Result>>, Top.bp)
      \/ ParseFieldValue(Append(Top.kids, Result), Top.bp)
  BY DEF ParseFieldHead
<1>4. InPlace(frame)
  BY <1>1, <1>2, Indices DEF InPlace, FrameOK, Frame, Functions, Outermost, Counted
<1> HIDE DEF frame, errors
<1>5. CASE AtText("Operator", {"="}, cursor) /\ Call(frame, Enter("label"), cursor + 1, errors)
  <2>1. cursor + 1 \in DOMAIN tokens
    BY <1>2, <1>5, NextText
  <2>2. "label" \in Functions \ Special
    BY DEF Functions, Special
  <2> QED
    BY <1>1, <1>4, <1>5, <2>1, <2>2, CallEnter, Zenon
<1>6. CASE ParseFieldValue(<<Result>>, Top.bp)
  BY <1>1, <1>6, FieldValueKeeps, Zenon
<1>7. CASE ParseFieldValue(Append(Top.kids, Result), Top.bp)
  BY <1>1, <1>7, FieldValueKeeps, Zenon
<1> QED
  BY <1>3, <1>5, <1>6, <1>7

LEMMA FinishFieldKeeps ==
    ASSUME ParserInv, FinishField
    PROVE  ParserInv'
<1>1. stack # <<>> /\ Top.fn = "field_value"
  BY DEF FinishField, Resumed
<1>2. TokensOK /\ cursor \in DOMAIN tokens /\ FrameOK(Top, Len(tokens))
  BY <1>1, InFunction
<1> DEFINE field == Node("Field", 0, Append(Top.kids, Result))
           struct == Node("Struct", 0, <<field>>)
<1>3. field.op # "File" /\ struct.op # "File"
  BY DEF Node
<1>4. \/ Top.bp = 0 /\ Return(field, SkipAttributes(cursor), {})
      \/ Top.bp # 0 /\ stack' = Below /\ value' = <<struct>> /\ ExitDepth /\ Step(cursor, {})
  BY DEF FinishField
<1> HIDE DEF field, struct
<1>5. CASE Top.bp = 0 /\ Return(field, SkipAttributes(cursor), {})
  <2>1. Inner
    BY <1>1, <1>5 DEF Inner, Outermost, Counted
  <2>2. SkipAttributes(cursor) \in DOMAIN tokens
    BY <1>2, SkipAttributesStays
  <2> QED
    BY <1>1, <1>3, <1>5, <2>1, <2>2, ReturnKeeps, Zenon
<1>6. CASE Top.bp # 0 /\ stack' = Below /\ value' = <<struct>> /\ ExitDepth /\ Step(cursor, {})
  <2>1. Counted(Top) /\ ~Outermost(Top)
    BY <1>1, <1>2, <1>6 DEF FrameOK, Counted, Outermost
  <2>2. value' # <<>> /\ value'[1].op # "File"
    BY <1>3, <1>6, OneValue, Zenon
  <2> QED
    BY <1>1, <1>2, <1>6, <2>1, <2>2, ExitKeeps, Zenon
<1> QED
  BY <1>4, <1>5, <1>6

----------------------------------------------------------------------------
(* The actions, of expressions. *)

LEMMA ExprKeeps ==
    ASSUME ParserInv, ParseExpr
    PROVE  ParserInv'
<1>1. stack # <<>> /\ Top.fn = "expr" /\ value = <<>>
  BY DEF ParseExpr, Running
<1>2. TokensOK /\ cursor \in DOMAIN tokens /\ FrameOK(Top, Len(tokens)) /\ Inner
  BY <1>1, InFunction DEF Special
<1> DEFINE frame == [Top EXCEPT !.fn = "operators"]
<1>3. \/ /\ depth < MaxDepth /\ stack' = Below \o <<frame, Enter("prefix")>>
         /\ EnterDepth /\ UNCHANGED value /\ Step(cursor, {})
      \/ Return(Bad, Recovered(cursor), {"max_depth_exceeded"})
  BY DEF ParseExpr
<1>4. FrameOK(frame, Len(tokens)) /\ ~Outermost(frame) /\ Counted(frame)
  BY <1>2 DEF FrameOK, Frame, Functions, Outermost, Counted
<1> HIDE DEF frame
<1>5. CASE /\ depth < MaxDepth /\ stack' = Below \o <<frame, Enter("prefix")>>
           /\ EnterDepth /\ UNCHANGED value /\ Step(cursor, {})
  <2>1. Callable(Enter("prefix"), cursor)
    <3>1. "prefix" \in Functions \ Special /\ 0 \in 0 .. Len(tokens)
      BY <1>2, Indices DEF Functions, Special
    <3> QED
      BY <3>1, PlainFrame, Zenon DEF Enter
  <2>2. /\ FramesOK(stack', Len(tokens)) /\ stack' # <<>>
        /\ stack'[Len(stack')] = Enter("prefix")
        /\ Cardinality(Inside(stack')) = depth + 1
    BY <1>1, <1>2, <1>4, <1>5, <2>1, Called, Zenon DEF Inner, Callable
  <2>3. depth' = depth + 1 /\ depth' \in 0 .. MaxDepth
    BY <1>5, DepthAssumption DEF EnterDepth, ParserInv
  <2>4. cursor' = cursor /\ tokens' = tokens /\ value' = <<>>
    BY <1>1, <1>5 DEF Step
  <2> QED
    BY <1>2, <2>1, <2>2, <2>3, <2>4, Conclude, Zenon DEF Callable
<1>6. CASE Return(Bad, Recovered(cursor), {"max_depth_exceeded"})
  <2>1. Recovered(cursor) \in DOMAIN tokens /\ Bad.op # "File"
    BY <1>2, RecoveredStays DEF Bad, Leaf, Node
  <2> QED
    BY <1>1, <1>2, <1>6, <2>1, ReturnKeeps, Zenon
<1> QED
  BY <1>3, <1>5, <1>6

LEMMA OperatorsKeeps ==
    ASSUME ParserInv, ParseOperators
    PROVE  ParserInv'
<1>1. stack # <<>> /\ Top.fn = "operators" /\ value # <<>>
  BY DEF ParseOperators, Resumed
<1>2. /\ TokensOK /\ cursor \in DOMAIN tokens /\ FrameOK(Top, Len(tokens)) /\ InPlace(Top)
      /\ Result.op # "File"
  BY <1>1, InFunction
<1> DEFINE power == InfixPower(cursor)
           left == Result
           Continue(node, c, errors) == value' = <<node>> /\ UNCHANGED <<stack, depth>> /\ Step(c, errors)
<1>3. \/ /\ At("Dot", cursor) /\ At("Identifier", cursor + 1)
         /\ Continue(Node("Selector", cursor + 1, <<left>>), cursor + 2, {})
      \/ At("Dot", cursor) /\ Continue(Bad, cursor + 1, {"expected_selector"})
      \/ At("LeftBracket", cursor) /\ Call(Top, Frame("index", 0, <<left>>, 0), cursor + 1, {})
      \/ At("LeftParen", cursor) /\ Call(Top, Frame("call", 0, <<left>>, 0), cursor + 1, {})
      \/ /\ power # 0
         /\ Call(Frame("operand", cursor, <<left>>, Top.bp), Expr(OperandPower(power)), cursor + 1, {})
      \/ stack' = Below /\ ExitDepth /\ UNCHANGED value /\ Step(cursor, {})
  BY DEF ParseOperators
<1>4. ASSUME NEW node, node.op # "File", NEW c \in DOMAIN tokens, NEW errors, Continue(node, c, errors)
      PROVE  ParserInv'
  <2>1. /\ value' = <<node>> /\ stack' = stack /\ depth' = depth /\ cursor' = c /\ tokens' = tokens
    BY <1>4 DEF Step
  <2>2. /\ FramesOK(stack', Len(tokens)) /\ stack' # <<>> /\ depth' = Cardinality(Inside(stack'))
        /\ depth' \in 0 .. MaxDepth
    BY <1>1, <2>1 DEF ParserInv
  <2> QED
    BY <1>4, <2>1, <2>2, ValueKeeps, Zenon
<1> HIDE DEF Continue
<1>5. CASE /\ At("Dot", cursor) /\ At("Identifier", cursor + 1)
           /\ Continue(Node("Selector", cursor + 1, <<left>>), cursor + 2, {})
  <2>1. cursor + 1 \in DOMAIN tokens
    BY <1>2, <1>5, NextOfKind
  <2>2. cursor + 1 + 1 \in DOMAIN tokens
    BY <1>2, <1>5, <2>1, NextOfKind
  <2>3. cursor + 2 \in DOMAIN tokens /\ Node("Selector", cursor + 1, <<left>>).op # "File"
    BY <1>2, <2>2, Indices DEF Node
  <2> QED
    BY <1>4, <1>5, <2>3, Zenon
<1>6. CASE At("Dot", cursor) /\ Continue(Bad, cursor + 1, {"expected_selector"})
  <2>1. cursor + 1 \in DOMAIN tokens /\ Bad.op # "File"
    BY <1>2, <1>6, NextOfKind DEF Bad, Leaf, Node
  <2> QED
    BY <1>4, <1>6, <2>1, Zenon
<1>7. CASE At("LeftBracket", cursor) /\ Call(Top, Frame("index", 0, <<left>>, 0), cursor + 1, {})
  <2>1. cursor + 1 \in DOMAIN tokens /\ 0 \in 0 .. Len(tokens) /\ "index" \in Functions \ Special
    BY <1>2, <1>7, NextOfKind, Indices DEF Functions, Special
  <2> QED
    BY <1>1, <1>2, <1>7, <2>1, CallPlain, Zenon
<1>8. CASE At("LeftParen", cursor) /\ Call(Top, Frame("call", 0, <<left>>, 0), cursor + 1, {})
  <2>1. cursor + 1 \in DOMAIN tokens /\ 0 \in 0 .. Len(tokens) /\ "call" \in Functions \ Special
    BY <1>2, <1>8, NextOfKind, Indices DEF Functions, Special
  <2> QED
    BY <1>1, <1>2, <1>8, <2>1, CallPlain, Zenon
<1>9. CASE /\ power # 0
           /\ Call(Frame("operand", cursor, <<left>>, Top.bp), Expr(OperandPower(power)), cursor + 1, {})
  <2>1. At("Star", cursor) \/ At("Operator", cursor)
    BY <1>9 DEF InfixPower, AtText
  <2>2. cursor + 1 \in DOMAIN tokens
    BY <1>2, <2>1, NextOfKind
  <2>3. InPlace(Frame("operand", cursor, <<left>>, Top.bp))
    BY <1>1, <1>2, Indices DEF InPlace, FrameOK, Frame, Functions, Outermost, Counted
  <2> QED
    BY <1>1, <1>9, <2>2, <2>3, CallExpr, Zenon
<1>10. CASE stack' = Below /\ ExitDepth /\ UNCHANGED value /\ Step(cursor, {})
  <2>1. Counted(Top) /\ ~Outermost(Top)
    BY <1>1 DEF Counted, Outermost
  <2>2. value' # <<>> /\ value'[1].op # "File"
    BY <1>1, <1>2, <1>10 DEF Result
  <2> QED
    BY <1>1, <1>2, <1>10, <2>1, <2>2, ExitKeeps, Zenon
<1> QED
  BY <1>3, <1>5, <1>6, <1>7, <1>8, <1>9, <1>10

LEMMA FinishBinaryKeeps ==
    ASSUME ParserInv, FinishBinary
    PROVE  ParserInv'
<1>1. stack # <<>> /\ Top.fn = "operand"
  BY DEF FinishBinary, Resumed
<1>2. TokensOK /\ cursor \in DOMAIN tokens /\ FrameOK(Top, Len(tokens))
  BY <1>1, InFunction
<1> DEFINE frame == Frame("operators", 0, <<>>, Top.bp)
           node == Node("Binary", Top.at, Append(Top.kids, Result))
<1>3. /\ stack' = Append(Below, frame) /\ value' = <<node>> /\ depth' = depth
      /\ cursor' = cursor /\ tokens' = tokens
  BY DEF FinishBinary, Step
<1>4. node.op # "File"
  BY DEF Node
<1>5. InPlace(frame)
  BY <1>1, <1>2, Indices DEF InPlace, FrameOK, Frame, Functions, Outermost, Counted
<1> HIDE DEF frame, node
<1>6. FramesOK(stack', Len(tokens)) /\ stack' # <<>> /\ Cardinality(Inside(stack')) = depth
  BY <1>1, <1>3, <1>5, Replaced, Zenon DEF InPlace
<1>7. depth' \in 0 .. MaxDepth
  BY <1>3 DEF ParserInv
<1> QED
  BY <1>2, <1>3, <1>4, <1>6, <1>7, ValueKeeps, Zenon

LEMMA CallLoopKeeps ==
    ASSUME ParserInv, ParseCall
    PROVE  ParserInv'
<1>1. stack # <<>> /\ Top.fn = "call"
  BY DEF ParseCall, Running, Resumed
<1>2. TokensOK /\ cursor \in DOMAIN tokens /\ Inner /\ InPlace(Top)
  BY <1>1, InFunction DEF Special
<1>3. Top.fn \notin {"imports", "let"}
  BY <1>1
<1> DEFINE c == SkipSeparators(cursor)
           call == Node("Call", 0, Top.kids)
           errors == Missing("RightParen", cursor, "expected_call_close")
           kids == Keep(Top.kids, Result)
<1>4. c \in DOMAIN tokens
  BY <1>2, SkipSeparatorsStays
<1>5. \/ Return(call, After("RightParen", cursor), errors)
      \/ Goto(Top, c, {})
      \/ Call(Top, Expr(0), c, {})
      \/ Goto([Top EXCEPT !.kids = kids], c, {})
  BY DEF ParseCall
<1>6. After("RightParen", cursor) \in DOMAIN tokens /\ call.op # "File"
  BY <1>2, AfterStays DEF Node
<1> HIDE DEF c, call, errors, kids
<1>7. CASE Return(call, After("RightParen", cursor), errors)
  BY <1>1, <1>2, <1>6, <1>7, ReturnKeeps, Zenon
<1>8. CASE Goto(Top, c, {})
  BY <1>1, <1>3, <1>4, <1>8, GotoSame, Zenon
<1>9. CASE Call(Top, Expr(0), c, {})
  BY <1>1, <1>2, <1>4, <1>9, CallExpr, Zenon
<1>10. CASE Goto([Top EXCEPT !.kids = kids], c, {})
  BY <1>1, <1>3, <1>4, <1>10, GotoOtherKids, Zenon
<1> QED
  BY <1>5, <1>7, <1>8, <1>9, <1>10

LEMMA FinishSliceKeeps ==
    ASSUME ParserInv, stack # <<>>, Inner, NEW c \in DOMAIN tokens, NEW kids, FinishSlice(kids, c)
    PROVE  ParserInv'
<1>1. After("RightBracket", c) \in DOMAIN tokens /\ Node("Slice", 0, kids).op # "File"
  BY AfterStays DEF ParserInv, Node
<1> QED
  BY <1>1, ReturnKeeps, Zenon DEF FinishSlice

LEMMA SliceEndKeeps ==
    ASSUME ParserInv, stack # <<>>, Inner, NEW c \in DOMAIN tokens, NEW kids, SliceEnd(kids, c)
    PROVE  ParserInv'
<1>1. CASE FinishSlice(kids, c)
  BY <1>1, FinishSliceKeeps, Zenon
<1>2. CASE Call(Frame("slice", 0, kids, 0), Expr(0), c, {})
  <2>1. "slice" \in Functions \ Special /\ 0 \in 0 .. Len(tokens)
    BY Indices DEF ParserInv, Functions, Special
  <2> QED
    BY <1>2, <2>1, PlainCallsExpr, Zenon
<1> QED
  BY <1>1, <1>2 DEF SliceEnd

LEMMA IndexKeeps ==
    ASSUME ParserInv, ParseIndexOrSlice
    PROVE  ParserInv'
<1>1. stack # <<>> /\ Top.fn \in {"index", "index_at", "slice"}
  BY DEF ParseIndexOrSlice, Running, Resumed
<1>2. TokensOK /\ cursor \in DOMAIN tokens /\ FrameOK(Top, Len(tokens)) /\ Inner /\ Top.fn \notin Special
  BY <1>1, InFunction DEF Special
<1> DEFINE kids == Append(Top.kids, Result)
           index == Node("Index", 0, kids)
           errors == Missing("RightBracket", cursor, "expected_index_close")
<1>3. \/ At("Colon", cursor) /\ SliceEnd(Top.kids, cursor + 1)
      \/ Call([Top EXCEPT !.fn = "index_at"], Expr(0), cursor, {})
      \/ At("Colon", cursor) /\ SliceEnd(kids, cursor + 1)
      \/ Return(index, After("RightBracket", cursor), errors)
      \/ FinishSlice(kids, cursor)
  BY DEF ParseIndexOrSlice
<1>4. After("RightBracket", cursor) \in DOMAIN tokens /\ index.op # "File"
  BY <1>2, AfterStays DEF Node
<1>5. At("Colon", cursor) => cursor + 1 \in DOMAIN tokens
  BY <1>2, NextOfKind
<1> HIDE DEF kids, index, errors
<1>6. CASE At("Colon", cursor) /\ SliceEnd(Top.kids, cursor + 1)
  BY <1>1, <1>2, <1>5, <1>6, SliceEndKeeps, Zenon
<1>7. CASE Call([Top EXCEPT !.fn = "index_at"], Expr(0), cursor, {})
  <2>1. "index_at" \in Functions \ Special
    BY DEF Functions, Special
  <2>2. InPlace([Top EXCEPT !.fn = "index_at"])
    BY <1>2, <2>1, OtherFunction, Zenon
  <2> QED
    BY <1>1, <1>2, <1>7, <2>2, CallExpr, Zenon
<1>8. CASE At("Colon", cursor) /\ SliceEnd(kids, cursor + 1)
  BY <1>1, <1>2, <1>5, <1>8, SliceEndKeeps, Zenon
<1>9. CASE Return(index, After("RightBracket", cursor), errors)
  BY <1>1, <1>2, <1>4, <1>9, ReturnKeeps, Zenon
<1>10. CASE FinishSlice(kids, cursor)
  BY <1>1, <1>2, <1>10, FinishSliceKeeps, Zenon
<1> QED
  BY <1>3, <1>6, <1>7, <1>8, <1>9, <1>10

LEMMA PrefixKeeps ==
    ASSUME ParserInv, ParsePrefix
    PROVE  ParserInv'
<1>1. stack # <<>> /\ Top.fn \in {"prefix", "prefixed"}
  BY DEF ParsePrefix, Running, Resumed
<1>2. TokensOK /\ cursor \in DOMAIN tokens /\ Inner
  BY <1>1, InFunction DEF Special
<1>3. \/ /\ At("Star", cursor) \/ AtText("Operator", PrefixOperators, cursor)
         /\ Call(Frame("prefixed", cursor, <<>>, 0), Enter("prefix"), cursor + 1, {})
      \/ Goto(Enter("primary"), cursor, {})
      \/ Return(Node("Prefix", Top.at, <<Result>>), cursor, {})
  BY DEF ParsePrefix
<1>4. CASE /\ At("Star", cursor) \/ AtText("Operator", PrefixOperators, cursor)
           /\ Call(Frame("prefixed", cursor, <<>>, 0), Enter("prefix"), cursor + 1, {})
  <2>1. cursor + 1 \in DOMAIN tokens
    BY <1>2, <1>4, NextOfKind DEF AtText
  <2>2. /\ "prefixed" \in Functions \ Special /\ "prefix" \in Functions \ Special
        /\ cursor \in 0 .. Len(tokens)
    BY <1>2, Indices DEF Functions, Special
  <2>3. InPlace(Frame("prefixed", cursor, <<>>, 0))
    BY <1>2, <2>2, PlainFrame, Zenon
  <2> QED
    BY <1>1, <1>4, <2>1, <2>2, <2>3, CallEnter, Zenon
<1>5. CASE Goto(Enter("primary"), cursor, {})
  <2>1. "primary" \in Functions \ Special
    BY DEF Functions, Special
  <2> QED
    BY <1>1, <1>2, <1>5, <2>1, GotoEnter, Zenon
<1>6. CASE Return(Node("Prefix", Top.at, <<Result>>), cursor, {})
  <2>1. Node("Prefix", Top.at, <<Result>>).op # "File"
    BY DEF Node
  <2> QED
    BY <1>1, <1>2, <1>6, <2>1, ReturnKeeps, Zenon
<1> QED
  BY <1>3, <1>4, <1>5, <1>6

LEMMA PrimaryKeeps ==
    ASSUME ParserInv, ParsePrimary
    PROVE  ParserInv'
<1>1. stack # <<>> /\ Top.fn = "primary"
  BY DEF ParsePrimary, Running
<1>2. TokensOK /\ cursor \in DOMAIN tokens /\ Inner
  BY <1>1, InFunction DEF Special
<1>3. \/ Goto(Enter("comprehension_expr"), cursor, {})
      \/ /\ AtOneOf({"Identifier", "Number", "String", "Ellipsis"}, cursor)
         /\ Return(Leaf(tokens[cursor].kind, cursor), cursor + 1, {})
      \/ At("LeftBrace", cursor) /\ Goto(Enter("struct"), cursor + 1, {})
      \/ At("LeftBracket", cursor) /\ Goto(Enter("list"), cursor + 1, {})
      \/ At("LeftParen", cursor) /\ Call(Enter("group"), Expr(0), cursor + 1, {})
      \/ Return(Bad, Recovered(cursor), {"expected_expr"})
  BY DEF ParsePrimary
<1>4. /\ "comprehension_expr" \in Functions \ Special /\ "struct" \in Functions \ Special
      /\ "list" \in Functions \ Special /\ "group" \in Functions \ Special
      /\ 0 \in 0 .. Len(tokens)
  BY <1>2, Indices DEF Functions, Special
<1>5. CASE Goto(Enter("comprehension_expr"), cursor, {})
  BY <1>1, <1>2, <1>4, <1>5, GotoEnter, Zenon
<1>6. CASE /\ AtOneOf({"Identifier", "Number", "String", "Ellipsis"}, cursor)
           /\ Return(Leaf(tokens[cursor].kind, cursor), cursor + 1, {})
  <2>1. "Eof" \notin {"Identifier", "Number", "String", "Ellipsis"}
    OBVIOUS
  <2>2. cursor + 1 \in DOMAIN tokens
    BY <1>2, <1>6, <2>1, NextToken, Zenon
  <2>3. Leaf(tokens[cursor].kind, cursor).op # "File"
    BY <1>6 DEF AtOneOf, Leaf, Node
  <2> QED
    BY <1>1, <1>2, <1>6, <2>2, <2>3, ReturnKeeps, Zenon
<1>7. CASE At("LeftBrace", cursor) /\ Goto(Enter("struct"), cursor + 1, {})
  <2>1. cursor + 1 \in DOMAIN tokens
    BY <1>2, <1>7, NextOfKind
  <2> QED
    BY <1>1, <1>2, <1>4, <1>7, <2>1, GotoEnter, Zenon
<1>8. CASE At("LeftBracket", cursor) /\ Goto(Enter("list"), cursor + 1, {})
  <2>1. cursor + 1 \in DOMAIN tokens
    BY <1>2, <1>8, NextOfKind
  <2> QED
    BY <1>1, <1>2, <1>4, <1>8, <2>1, GotoEnter, Zenon
<1>9. CASE At("LeftParen", cursor) /\ Call(Enter("group"), Expr(0), cursor + 1, {})
  <2>1. cursor + 1 \in DOMAIN tokens
    BY <1>2, <1>9, NextOfKind
  <2> QED
    BY <1>1, <1>2, <1>4, <1>9, <2>1, PlainCallsExpr, Zenon DEF Enter
<1>10. CASE Return(Bad, Recovered(cursor), {"expected_expr"})
  <2>1. Recovered(cursor) \in DOMAIN tokens /\ Bad.op # "File"
    BY <1>2, RecoveredStays DEF Bad, Leaf, Node
  <2> QED
    BY <1>1, <1>2, <1>10, <2>1, ReturnKeeps, Zenon
<1> QED
  BY <1>3, <1>5, <1>6, <1>7, <1>8, <1>9, <1>10

LEMMA GroupKeeps ==
    ASSUME ParserInv, ParseGroup
    PROVE  ParserInv'
<1>1. stack # <<>> /\ Top.fn = "group"
  BY DEF ParseGroup, Resumed
<1>2. TokensOK /\ cursor \in DOMAIN tokens /\ Inner
  BY <1>1, InFunction DEF Special
<1>3. After("RightParen", cursor) \in DOMAIN tokens /\ Node("Group", 0, <<Result>>).op # "File"
  BY <1>2, AfterStays DEF Node
<1> QED
  BY <1>1, <1>2, <1>3, ReturnKeeps, Zenon DEF ParseGroup

----------------------------------------------------------------------------
(* The actions, of structs, lists and comprehensions. *)

LEMMA StructKeeps ==
    ASSUME ParserInv, ParseStruct
    PROVE  ParserInv'
<1>1. stack # <<>> /\ Top.fn \in {"struct", "body"}
  BY DEF ParseStruct, Running
<1>2. TokensOK /\ cursor \in DOMAIN tokens /\ Inner /\ InPlace(Top)
  BY <1>1, InFunction DEF Special
<1>3. Top.fn \notin {"imports", "let"}
  BY <1>1
<1> DEFINE c == SkipSeparators(cursor)
           node == Node(IF Top.fn = "struct" THEN "Struct" ELSE "Comprehension", 0, Top.kids)
           errors == Missing("RightBrace", cursor, "expected_struct_close")
<1>4. c \in DOMAIN tokens
  BY <1>2, SkipSeparatorsStays
<1>5. \/ Return(node, After("RightBrace", cursor), errors)
      \/ Goto(Top, c, {})
      \/ Call(Top, Enter("decl"), c, {})
  BY DEF ParseStruct
<1>6. After("RightBrace", cursor) \in DOMAIN tokens /\ node.op # "File"
  BY <1>2, AfterStays DEF Node
<1> HIDE DEF c, node, errors
<1>7. CASE Return(node, After("RightBrace", cursor), errors)
  BY <1>1, <1>2, <1>6, <1>7, ReturnKeeps, Zenon
<1>8. CASE Goto(Top, c, {})
  BY <1>1, <1>3, <1>4, <1>8, GotoSame, Zenon
<1>9. CASE Call(Top, Enter("decl"), c, {})
  <2>1. "decl" \in Functions \ Special
    BY DEF Functions, Special
  <2> QED
    BY <1>1, <1>2, <1>4, <1>9, <2>1, CallEnter, Zenon
<1> QED
  BY <1>5, <1>7, <1>8, <1>9

LEMMA FrameExcept ==
    ASSUME NEW frame, frame = Frame(frame.fn, frame.at, frame.kids, frame.bp), NEW fn, NEW kids
    PROVE  /\ [frame EXCEPT !.fn = fn] = Frame(fn, frame.at, frame.kids, frame.bp)
           /\ [frame EXCEPT !.fn = fn, !.kids = kids] = Frame(fn, frame.at, kids, frame.bp)
<1> DEFINE named == [frame EXCEPT !.fn = fn]
<1>1. named = Frame(fn, frame.at, frame.kids, frame.bp)
  BY DEF Frame
<1>2. [named EXCEPT !.kids = kids] = Frame(fn, frame.at, kids, frame.bp)
  <2> HIDE DEF named
  <2> QED
    BY <1>1 DEF Frame
<1>3. [frame EXCEPT !.fn = fn, !.kids = kids] = [named EXCEPT !.kids = kids]
  OBVIOUS
<1> QED
  BY <1>1, <1>2, <1>3

LEMMA ListKeeps ==
    ASSUME ParserInv, ParseList
    PROVE  ParserInv'
<1>1. stack # <<>> /\ Top.fn \in {"list", "tail"}
  BY DEF ParseList, Running, Resumed
<1>2. /\ TokensOK /\ cursor \in DOMAIN tokens /\ FrameOK(Top, Len(tokens)) /\ Inner
      /\ InPlace(Top) /\ Top.fn \notin Special
  BY <1>1, InFunction DEF Special
<1>3. Top.fn \notin {"imports", "let"}
  BY <1>1
<1> DEFINE c == SkipSeparators(cursor)
           list == Node("List", 0, Top.kids)
           errors == Missing("RightBracket", cursor, "expected_list_close")
           kids == Keep(Top.kids, Result)
           dots == Append(Top.kids, Leaf("Ellipsis", c))
           tail == [Top EXCEPT !.fn = "tail"]
           typed == [Top EXCEPT !.fn = "tail", !.kids = dots]
           again == [Top EXCEPT !.fn = "list", !.kids = kids]
<1>4. c \in DOMAIN tokens
  BY <1>2, SkipSeparatorsStays
<1>5. \/ Return(list, After("RightBracket", cursor), errors)
      \/ Goto(Top, c, {})
      \/ /\ At("Ellipsis", c) /\ stack' = Append(Below, tail) /\ value' = <<Leaf("Ellipsis", c)>>
         /\ UNCHANGED depth /\ Step(c + 1, {})
      \/ At("Ellipsis", c) /\ Call(typed, Expr(0), c + 1, {})
      \/ Call(Top, Expr(0), c, {})
      \/ Goto([Top EXCEPT !.kids = kids], c, {})
      \/ Goto(again, c, {})
      \/ Goto(again, SkipSeparators(Recovered(c)), {"list_ellipsis_not_final"})
  BY DEF ParseList
<1>6. After("RightBracket", cursor) \in DOMAIN tokens /\ list.op # "File"
  BY <1>2, AfterStays DEF Node
<1>7. InPlace(tail) /\ InPlace(typed) /\ InPlace(again) /\ \A d : StandsAt(again.fn, d)
  <2>1. /\ Top = Frame(Top.fn, Top.at, Top.kids, Top.bp) /\ Top.at \in 0 .. Len(tokens)
        /\ ~Outermost(Top) /\ ~Counted(Top)
    BY <1>2 DEF FrameOK, Inner
  <2>2. /\ tail = Frame("tail", Top.at, Top.kids, Top.bp)
        /\ typed = Frame("tail", Top.at, dots, Top.bp)
        /\ again = Frame("list", Top.at, kids, Top.bp)
    <3> HIDE DEF dots, kids
    <3> QED
      BY <2>1, FrameExcept
  <2>3. "tail" \in Functions \ Special /\ "list" \in Functions \ Special
    BY DEF Functions, Special
  <2> HIDE DEF tail, typed, again, dots, kids
  <2> QED
    BY <1>2, <2>1, <2>2, <2>3, PlainFrame, Zenon
<1>8. At("Ellipsis", c) => c + 1 \in DOMAIN tokens
  BY <1>2, <1>4, NextOfKind
<1> HIDE DEF c, list, errors, kids, tail, typed, again
<1>9. CASE Return(list, After("RightBracket", cursor), errors)
  BY <1>1, <1>2, <1>6, <1>9, ReturnKeeps, Zenon
<1>10. CASE Goto(Top, c, {})
  BY <1>1, <1>3, <1>4, <1>10, GotoSame, Zenon
<1>11. CASE /\ At("Ellipsis", c) /\ stack' = Append(Below, tail) /\ value' = <<Leaf("Ellipsis", c)>>
            /\ UNCHANGED depth /\ Step(c + 1, {})
  <2>1. FramesOK(stack', Len(tokens)) /\ stack' # <<>> /\ Cardinality(Inside(stack')) = depth
    BY <1>1, <1>7, <1>11, Replaced, Zenon DEF InPlace
  <2>2. depth' = depth /\ depth' \in 0 .. MaxDepth /\ cursor' = c + 1 /\ tokens' = tokens
    BY <1>11 DEF ParserInv, Step
  <2>3. Leaf("Ellipsis", c).op # "File"
    BY DEF Leaf, Node
  <2> QED
    BY <1>8, <1>11, <2>1, <2>2, <2>3, ValueKeeps, Zenon
<1>12. CASE At("Ellipsis", c) /\ Call(typed, Expr(0), c + 1, {})
  BY <1>1, <1>7, <1>8, <1>12, CallExpr, Zenon
<1>13. CASE Call(Top, Expr(0), c, {})
  BY <1>1, <1>2, <1>4, <1>13, CallExpr, Zenon
<1>14. CASE Goto([Top EXCEPT !.kids = kids], c, {})
  BY <1>1, <1>3, <1>4, <1>14, GotoOtherKids, Zenon
<1>15. CASE Goto(again, c, {})
  BY <1>1, <1>4, <1>7, <1>15, GotoKeeps, Zenon
<1>16. CASE Goto(again, SkipSeparators(Recovered(c)), {"list_ellipsis_not_final"})
  <2>1. SkipSeparators(Recovered(c)) \in DOMAIN tokens
    BY <1>2, <1>4, RecoveredStays, SkipSeparatorsStays
  <2> QED
    BY <1>1, <1>7, <1>16, <2>1, GotoKeeps, Zenon
<1> QED
  BY <1>5, <1>9, <1>10, <1>11, <1>12, <1>13, <1>14, <1>15, <1>16

LEMMA ComprehensionKeeps ==
    ASSUME ParserInv, ParseComprehension
    PROVE  ParserInv'
<1>1. PICK fn \in {"comprehension_decl", "comprehension_expr"} :
         Running(fn) /\ Goto(Frame("clauses", 0, <<>>, IF fn = "comprehension_decl" THEN 0 ELSE 1), cursor, {})
  BY DEF ParseComprehension
<1>2. stack # <<>> /\ Top.fn \in {"comprehension_decl", "comprehension_expr"}
  BY <1>1 DEF Running
<1>3. TokensOK /\ cursor \in DOMAIN tokens /\ Inner
  BY <1>2, InFunction DEF Special
<1>4. "clauses" \in Functions \ Special /\ 0 \in 0 .. Len(tokens)
  BY <1>3, Indices DEF Functions, Special
<1> QED
  BY <1>1, <1>2, <1>3, <1>4, GotoPlain, Zenon

LEMMA ClauseKeeps ==
    ASSUME ParserInv, ParseClause
    PROVE  ParserInv'
<1>1. stack # <<>> /\ Top.fn = "clauses"
  BY DEF ParseClause, Running, Resumed
<1>2. TokensOK /\ cursor \in DOMAIN tokens /\ FrameOK(Top, Len(tokens))
  BY <1>1, InFunction
<1>3. Top.fn \notin {"imports", "let"}
  BY <1>1
<1>4. CASE Running("clauses") /\ AtKeyword("for", cursor)
  <2> DEFINE first == cursor + 1
             afterFirst == After("Identifier", first)
             two == At("Comma", afterFirst)
             last == IF two THEN After("Identifier", afterFirst + 1) ELSE afterFirst
             end == IF AtKeyword("in", last) THEN last + 1 ELSE last
             kids == Top.kids \o <<Leaf("For", cursor)>> \o Bindings(first)
                        \o (IF two THEN Bindings(afterFirst + 1) ELSE <<>>)
             errors == Missing("Identifier", first, "expected_for_binding")
                         \union (IF two THEN Missing("Identifier", afterFirst + 1, "expected_for_value") ELSE {})
                         \union (IF AtKeyword("in", last) THEN {} ELSE {"expected_for_in"})
  <2>1. first \in DOMAIN tokens
    BY <1>2, <1>4, NextKeyword
  <2>2. afterFirst \in DOMAIN tokens
    BY <1>2, <2>1, AfterStays
  <2>3. last \in DOMAIN tokens
    <3>1. two => afterFirst + 1 \in DOMAIN tokens
      BY <1>2, <2>2, NextOfKind
    <3> HIDE DEF afterFirst
    <3> QED
      BY <1>2, <2>2, <3>1, AfterStays
  <2>4. end \in DOMAIN tokens
    <3> HIDE DEF last
    <3> QED
      BY <1>2, <2>3, NextKeyword
  <2>5. Call([Top EXCEPT !.kids = kids], Expr(0), end, errors)
    BY <1>4 DEF ParseClause, Running, Resumed, AtKeyword, AtText
  <2> HIDE DEF kids, end, errors
  <2>6. InPlace([Top EXCEPT !.kids = kids])
    BY <1>2, OtherKids
  <2> QED
    BY <1>1, <2>4, <2>5, <2>6, CallExpr, Zenon
<1>5. CASE Running("clauses") /\ AtKeyword("if", cursor)
  <2> DEFINE kids == Append(Top.kids, Leaf("If", cursor))
  <2>1. cursor + 1 \in DOMAIN tokens
    BY <1>2, <1>5, NextKeyword
  <2>2. Call([Top EXCEPT !.kids = kids], Expr(0), cursor + 1, {})
    BY <1>5 DEF ParseClause, Running, Resumed, AtKeyword, AtText
  <2> HIDE DEF kids
  <2>3. InPlace([Top EXCEPT !.kids = kids])
    BY <1>2, OtherKids
  <2> QED
    BY <1>1, <2>1, <2>2, <2>3, CallExpr, Zenon
<1>6. CASE Resumed("clauses")
  <2> DEFINE kids == Append(Top.kids, Result)
  <2>1. Goto([Top EXCEPT !.kids = kids], cursor, {})
    BY <1>6 DEF ParseClause, Running, Resumed
  <2> HIDE DEF kids
  <2> QED
    BY <1>1, <1>2, <1>3, <2>1, GotoOtherKids, Zenon
<1> QED
  BY <1>4, <1>5, <1>6 DEF ParseClause

LEMMA BodyKeeps ==
    ASSUME ParserInv, ParseBody
    PROVE  ParserInv'
<1>1. stack # <<>> /\ Top.fn = "clauses"
  BY DEF ParseBody, Running
<1>2. /\ TokensOK /\ cursor \in DOMAIN tokens /\ FrameOK(Top, Len(tokens)) /\ Inner
      /\ Top.fn \notin Special
  BY <1>1, InFunction DEF Special
<1> DEFINE c == After("LeftBrace", cursor)
           errors == Missing("LeftBrace", cursor, "expected_comprehension_body")
           node == Node("Comprehension", 0, Top.kids)
<1>3. c \in DOMAIN tokens /\ node.op # "File"
  BY <1>2, AfterStays DEF Node
<1>4. \/ Goto([Top EXCEPT !.fn = "body"], c, errors)
      \/ At("RightBrace", c) /\ Return(node, c + 1, errors)
      \/ Call([Top EXCEPT !.fn = "expr_body"], Expr(0), c, errors)
  BY DEF ParseBody
<1> HIDE DEF c, errors, node
<1>5. /\ InPlace([Top EXCEPT !.fn = "body"]) /\ StandsAt([Top EXCEPT !.fn = "body"].fn, c)
      /\ InPlace([Top EXCEPT !.fn = "expr_body"])
  <2>1. "body" \in Functions \ Special /\ "expr_body" \in Functions \ Special
    BY DEF Functions, Special
  <2> QED
    BY <1>2, <2>1, OtherFunction, Zenon
<1>6. CASE Goto([Top EXCEPT !.fn = "body"], c, errors)
  BY <1>1, <1>3, <1>5, <1>6, GotoKeeps, Zenon
<1>7. CASE At("RightBrace", c) /\ Return(node, c + 1, errors)
  <2>1. c + 1 \in DOMAIN tokens
    BY <1>2, <1>3, <1>7, NextOfKind
  <2> QED
    BY <1>1, <1>2, <1>3, <1>7, <2>1, ReturnKeeps, Zenon
<1>8. CASE Call([Top EXCEPT !.fn = "expr_body"], Expr(0), c, errors)
  BY <1>1, <1>3, <1>5, <1>8, CallExpr, Zenon
<1> QED
  BY <1>4, <1>6, <1>7, <1>8

LEMMA FinishBodyKeeps ==
    ASSUME ParserInv, FinishBody
    PROVE  ParserInv'
<1>1. stack # <<>> /\ Top.fn = "expr_body"
  BY DEF FinishBody, Resumed
<1>2. TokensOK /\ cursor \in DOMAIN tokens /\ Inner
  BY <1>1, InFunction DEF Special
<1> DEFINE node == Node("Comprehension", 0, Append(Top.kids, Result))
<1>3. After("RightBrace", cursor) \in DOMAIN tokens /\ node.op # "File"
  BY <1>2, AfterStays DEF Node
<1> QED
  BY <1>1, <1>2, <1>3, ReturnKeeps, Zenon DEF FinishBody

----------------------------------------------------------------------------
(* The parser keeps the invariant, which holds when it starts on what the  *)
(* scanner left.                                                           *)

LEMMA Starts == Init => ParserInv
<1> SUFFICES ASSUME Init PROVE ParserInv
  OBVIOUS
<1>1. TokensOK
  BY ScanAssumption DEF Init, TokensOK
<1>2. cursor \in DOMAIN tokens /\ depth \in 0 .. MaxDepth /\ depth = 0
  BY <1>1, Indices, DepthAssumption DEF Init
<1> DEFINE frame == Enter("package")
<1>3. /\ FrameOK(frame, Len(tokens)) /\ Outermost(frame) /\ ~Counted(frame)
      /\ \A c : StandsAt(frame.fn, c)
  BY <1>1, Indices DEF FrameOK, Enter, Frame, Functions, Outermost, Counted, StandsAt
<1>4. stack = Append(<<>>, frame) /\ value = <<>>
  BY DEF Init
<1> HIDE DEF frame
<1>5. FramesOK(<<>>, Len(tokens)) /\ Inside(<<>>) = {}
  BY DEF FramesOK, IsSequence, Inside
<1>6. Cardinality(Inside(<<>>)) = 0
  BY <1>5, FS_EmptySet
<1>7. /\ FramesOK(stack, Len(tokens)) /\ stack # <<>>
      /\ stack[Len(stack)] = frame
      /\ Cardinality(Inside(stack)) = 0
  <2> DEFINE none == <<>>
  <2>1. FramesOK(none, Len(tokens)) /\ (Outermost(frame) <=> none = <<>>)
    BY <1>3, <1>5
  <2>2. stack = Append(none, frame) /\ Cardinality(Inside(none)) = 0
    BY <1>4, <1>6
  <2> HIDE DEF none
  <2>3. /\ FramesOK(Append(none, frame), Len(tokens)) /\ Append(none, frame) # <<>>
        /\ Append(none, frame)[Len(Append(none, frame))] = frame
        /\ ~Counted(frame) => Cardinality(Inside(Append(none, frame))) = Cardinality(Inside(none))
    BY <1>3, <2>1, Pushed, Zenon
  <2> QED
    BY <1>3, <2>2, <2>3
<1>8. ValueOK
  BY <1>4, <1>7, Zenon DEF ValueOK
<1> QED
  BY <1>1, <1>2, <1>3, <1>7, <1>8, Zenon DEF ParserInv, Top

LEMMA Steps == ParserInv /\ [Next]_vars => ParserInv'
<1> SUFFICES ASSUME ParserInv, [Next]_vars PROVE ParserInv'
  OBVIOUS
<1>1. CASE UNCHANGED vars
  <2>1. /\ tokens' = tokens /\ cursor' = cursor /\ stack' = stack /\ value' = value
        /\ depth' = depth
    BY <1>1 DEF vars
  <2>2. TokensOK'
    BY <2>1 DEF ParserInv, TokensOK
  <2> QED
    BY <2>1, <2>2, Zenon DEF ParserInv, ValueOK, Result, Top, StandsAt, At
<1>2. CASE Finished
  BY <1>1, <1>2 DEF Finished
<1>3. CASE ParsePackage
  BY <1>3, PackageKeeps
<1>4. CASE ParseFile
  BY <1>4, FileKeeps
<1>5. CASE KeepDecl
  BY <1>5, KeepDeclKeeps
<1>6. CASE ParseImports
  BY <1>6, ImportsKeeps
<1>7. CASE ParseImportList
  BY <1>7, ImportListKeeps
<1>8. CASE ParseDecl
  BY <1>8, DeclKeeps
<1>9. CASE ParseLet
  BY <1>9, LetKeeps
<1>10. CASE ParseField
  BY <1>10, FieldKeeps
<1>11. CASE ParseLabel
  BY <1>11, LabelKeeps
<1>12. CASE ParseFieldHead
  BY <1>12, FieldHeadKeeps
<1>13. CASE FinishField
  BY <1>13, FinishFieldKeeps
<1>14. CASE ParseExpr
  BY <1>14, ExprKeeps
<1>15. CASE ParseOperators
  BY <1>15, OperatorsKeeps
<1>16. CASE FinishBinary
  BY <1>16, FinishBinaryKeeps
<1>17. CASE ParseCall
  BY <1>17, CallLoopKeeps
<1>18. CASE ParseIndexOrSlice
  BY <1>18, IndexKeeps
<1>19. CASE ParsePrefix
  BY <1>19, PrefixKeeps
<1>20. CASE ParsePrimary
  BY <1>20, PrimaryKeeps
<1>21. CASE ParseGroup
  BY <1>21, GroupKeeps
<1>22. CASE ParseStruct
  BY <1>22, StructKeeps
<1>23. CASE ParseList
  BY <1>23, ListKeeps
<1>24. CASE ParseComprehension
  BY <1>24, ComprehensionKeeps
<1>25. CASE ParseClause
  BY <1>25, ClauseKeeps
<1>26. CASE ParseBody
  BY <1>26, BodyKeeps
<1>27. CASE FinishBody
  BY <1>27, FinishBodyKeeps
<1> QED
  BY <1>1, <1>2, <1>3, <1>4, <1>5, <1>6, <1>7, <1>8, <1>9, <1>10, <1>11, <1>12, <1>13,
     <1>14, <1>15, <1>16, <1>17, <1>18, <1>19, <1>20, <1>21, <1>22, <1>23, <1>24,
     <1>25, <1>26, <1>27 DEF Next

(* For every text: the cursor stays on a token, whatever the tokens are,   *)
(* and only the file's own function returns the file (TypeOK).             *)
THEOREM ParserTypeCorrect == Spec => []TypeOK
<1>1. ParserInv => TypeOK
  <2> SUFFICES ASSUME ParserInv PROVE TypeOK
    OBVIOUS
  <2>1. \A i \in DOMAIN stack : stack[i].fn \in Functions /\ stack[i].at \in 0 .. Len(tokens)
    <3>1. DOMAIN stack = 1 .. Len(stack)
      BY DEF ParserInv, FramesOK, IsSequence
    <3> QED
      BY <3>1 DEF ParserInv, FramesOK, FrameOK
  <2>2. Done <=> (value # <<>> /\ Result.op = "File")
    BY Zenon DEF ParserInv, ValueOK, Done
  <2> QED
    BY <2>1, <2>2, Zenon DEF TypeOK, ParserInv
<1> QED
  BY <1>1, Starts, Steps, PTL DEF Spec

(* For every text and depth limit: expression_depth is the number of       *)
(* expressions and chained fields in progress, so that every path gives    *)
(* back what it took, those through recovery included                      *)
(* (DepthCountsExpressions).                                               *)
THEOREM DepthIsGivenBack == Spec => []DepthCountsExpressions
<1>1. ParserInv => DepthCountsExpressions
  <2> SUFFICES ASSUME ParserInv PROVE DepthCountsExpressions
    OBVIOUS
  <2>1. DOMAIN stack = 1 .. Len(stack)
    BY DEF ParserInv, FramesOK, IsSequence
  <2> QED
    BY <2>1 DEF DepthCountsExpressions, ParserInv, Inside
<1> QED
  BY <1>1, Starts, Steps, PTL DEF Spec

----------------------------------------------------------------------------
(* Trees: what holds of every node of a tree holds of its root, and of     *)
(* every node of the trees that hang on it.                                *)

LEMMA LevelsAre ==
    ASSUME NEW root, NEW n \in Nat
    PROVE  /\ Levels(root, n)[0] = {root}
           /\ \A k \in 1 .. n : Levels(root, n)[k] = UNION {Kids(x) : x \in Levels(root, n)[k - 1]}
<1> DEFINE Children(S) == UNION {Kids(x) : x \in S}
           Upto(f, k) == f = [j \in 0 .. k |-> IF j = 0 THEN {root} ELSE Children(f[j - 1])]
           S == {k \in 0 .. n : \E f : Upto(f, k)}
<1> HIDE DEF Children
<1>1. 0 \in S
  <2> DEFINE f == [j \in 0 .. 0 |-> {root}]
  <2>1. Upto(f, 0)
    OBVIOUS
  <2> HIDE DEF f
  <2>2. \E h : Upto(h, 0)
    BY <2>1
  <2> QED
    BY <2>2
<1>2. ASSUME NEW k \in 0 .. n, k < n, k \in S
      PROVE  k + 1 \in S
  <2>1. PICK f : Upto(f, k)
    BY <1>2
  <2> DEFINE g == [j \in 0 .. k + 1 |-> IF j <= k THEN f[j] ELSE Children(f[k])]
  <2>2. \A j \in 0 .. k : f[j] = IF j = 0 THEN {root} ELSE Children(f[j - 1])
    BY <2>1
  <2>3. \A j \in 0 .. k + 1 : g[j] = IF j = 0 THEN {root} ELSE Children(g[j - 1])
    <3> SUFFICES ASSUME NEW j \in 0 .. k + 1
                 PROVE  g[j] = IF j = 0 THEN {root} ELSE Children(g[j - 1])
      OBVIOUS
    <3>1. CASE j <= k
      <4>1. j \in 0 .. k /\ g[j] = f[j]
        BY <3>1
      <4>2. j # 0 => j - 1 \in 0 .. k + 1 /\ j - 1 <= k
        BY <3>1
      <4> QED
        BY <4>1, <4>2, <2>2
    <3>2. CASE j = k + 1
      <4>1. j # 0 /\ ~(j <= k) /\ j - 1 = k /\ k \in 0 .. k + 1
        BY <3>2
      <4>2. g[j] = Children(f[k]) /\ g[k] = f[k]
        BY <4>1
      <4> QED
        BY <4>1, <4>2
    <3> QED
      BY <3>1, <3>2
  <2>4. g = [j \in 0 .. k + 1 |-> g[j]]
    OBVIOUS
  <2> HIDE DEF g
  <2>5. Upto(g, k + 1)
    BY <2>3, <2>4
  <2>6. \E h : Upto(h, k + 1)
    BY <2>5
  <2>7. k + 1 \in 0 .. n
    BY <1>2
  <2> QED
    BY <2>6, <2>7
<1>3. n \in S
  <2>1. 0 .. n \subseteq S
    <3> HIDE DEF S
    <3> QED
      BY <1>1, <1>2, UpTo
  <2>2. n \in 0 .. n
    OBVIOUS
  <2> HIDE DEF S
  <2> QED
    BY <2>1, <2>2
<1> DEFINE level == CHOOSE f : Upto(f, n)
<1>4. \E f : Upto(f, n)
  BY <1>3
<1>5. Upto(level, n)
  <2> HIDE DEF Upto
  <2> QED
    BY <1>4
<1>6. Levels(root, n) = level
  BY DEF Levels, Children
<1> HIDE DEF level
<1>7. \A j \in 0 .. n : level[j] = IF j = 0 THEN {root} ELSE Children(level[j - 1])
  BY <1>5
<1>8. level[0] = {root}
  BY <1>7
<1>9. ASSUME NEW k \in 1 .. n
      PROVE  level[k] = Children(level[k - 1])
  <2>1. k \in 0 .. n /\ k # 0
    OBVIOUS
  <2> QED
    BY <1>7, <2>1
<1> QED
  BY <1>6, <1>8, <1>9 DEF Children

(* One level below the root of a tree start the trees that hang on it. *)
LEMMA LevelsBelow ==
    ASSUME NEW root, NEW n \in Nat, NEW k \in 0 .. n, k < n, NEW x \in Levels(root, n)[k + 1]
    PROVE  \E kid \in Kids(root) : x \in Levels(kid, n)[k]
<1> DEFINE From(j) == \A y \in Levels(root, n)[j + 1] : \E kid \in Kids(root) : y \in Levels(kid, n)[j]
           S == {j \in 0 .. n : j < n => From(j)}
<1>1. \A r : Levels(r, n)[0] = {r}
  BY LevelsAre
<1>2. \A r : \A j \in 1 .. n : Levels(r, n)[j] = UNION {Kids(y) : y \in Levels(r, n)[j - 1]}
  BY LevelsAre
<1>3. 0 \in S
  <2>1. ASSUME 0 < n
        PROVE  From(0)
    <3>1. 1 \in 1 .. n /\ 1 - 1 = 0 /\ 0 + 1 = 1
      BY <2>1
    <3>2. Levels(root, n)[1] = UNION {Kids(y) : y \in {root}}
      BY <1>1, <1>2, <3>1
    <3> QED
      BY <1>1, <3>1, <3>2
  <2> QED
    BY <2>1
<1>4. ASSUME NEW j \in 0 .. n, j < n, j \in S
      PROVE  j + 1 \in S
  <2>1. ASSUME j + 1 < n
        PROVE  From(j + 1)
    <3>1. From(j)
      BY <1>4
    <3>2. j + 2 \in 1 .. n /\ (j + 2) - 1 = j + 1 /\ j + 1 \in 1 .. n /\ (j + 1) - 1 = j /\ (j + 1) + 1 = j + 2
      BY <2>1
    <3> SUFFICES ASSUME NEW y \in Levels(root, n)[j + 2]
                 PROVE  \E kid \in Kids(root) : y \in Levels(kid, n)[j + 1]
      BY <3>2
    <3>3. PICK z \in Levels(root, n)[j + 1] : y \in Kids(z)
      BY <1>2, <3>2
    <3>4. PICK kid \in Kids(root) : z \in Levels(kid, n)[j]
      BY <3>1, <3>3
    <3>5. y \in Levels(kid, n)[j + 1]
      BY <1>2, <3>2, <3>3, <3>4
    <3> QED
      BY <3>5
  <2>2. j + 1 \in 0 .. n
    BY <1>4
  <2> HIDE DEF From
  <2> QED
    BY <2>1, <2>2
<1>5. 0 .. n \subseteq S
  <2> HIDE DEF S
  <2> QED
    BY <1>3, <1>4, UpTo
<1>6. From(k)
  BY <1>5
<1> QED
  BY <1>6

(* The power of each token, where it is an infix operator.                 *)
Powers == [c \in DOMAIN tokens |-> InfixPower(c)]

PowerIn(powers, node) == IF node.op = "Binary" THEN powers[node.at] ELSE 10

(* A node that is an infix expression is one at a token. *)
Placed(powers, node) == node.op = "Binary" => node.at \in DOMAIN powers

(* OperatorsNest of one node, and of all nodes of a tree. *)
NestsHere(powers, node) ==
    /\ Placed(powers, node)
    /\ node.op = "Binary" => /\ Placed(powers, node.kids[1]) /\ Placed(powers, node.kids[2])
                             /\ PowerIn(powers, node.kids[1]) >= PowerIn(powers, node)
                             /\ PowerIn(powers, node.kids[2]) > PowerIn(powers, node)
    /\ node.op = "Prefix" => node.kids[1].op # "Binary"

Nests(powers, root) == \A n \in Nat : \A k \in 0 .. n : \A x \in Levels(root, n)[k] : NestsHere(powers, x)

KidsNest(powers, kids) == IsSequence(kids) /\ \A i \in 1 .. Len(kids) : Nests(powers, kids[i])

LEMMA NestsAtRoot ==
    ASSUME NEW powers, NEW root, Nests(powers, root)
    PROVE  NestsHere(powers, root)
<1>1. Levels(root, 0)[0] = {root}
  BY LevelsAre
<1> QED
  BY <1>1 DEF Nests

LEMMA TreeNests ==
    ASSUME NEW powers, NEW op, NEW at, NEW kids, KidsNest(powers, kids),
           NestsHere(powers, Node(op, at, kids))
    PROVE  Nests(powers, Node(op, at, kids))
<1> DEFINE root == Node(op, at, kids)
<1>1. Kids(root) = {kids[i] : i \in 1 .. Len(kids)}
  BY DEF Kids, Node, KidsNest, IsSequence
<1> HIDE DEF root
<1> SUFFICES ASSUME NEW n \in Nat, NEW k \in 0 .. n, NEW x \in Levels(root, n)[k]
             PROVE  NestsHere(powers, x)
  BY DEF Nests, root
<1>2. CASE k = 0
  BY <1>2, LevelsAre DEF root
<1>3. CASE k # 0
  <2>1. k - 1 \in 0 .. n /\ k - 1 < n /\ (k - 1) + 1 = k
    BY <1>3
  <2>2. PICK kid \in Kids(root) : x \in Levels(kid, n)[k - 1]
    BY <2>1, LevelsBelow
  <2>3. Nests(powers, kid)
    BY <1>1, <2>2 DEF KidsNest
  <2> QED
    BY <2>1, <2>2, <2>3 DEF Nests
<1> QED
  BY <1>2, <1>3

(* A node that is no operator nests if what hangs on it does. *)
LEMMA OtherNodeNests ==
    ASSUME NEW powers, NEW op, op \notin {"Binary", "Prefix"}, NEW at, NEW kids, KidsNest(powers, kids)
    PROVE  Nests(powers, Node(op, at, kids))
<1>1. NestsHere(powers, Node(op, at, kids))
  BY DEF NestsHere, Placed, Node
<1> QED
  BY <1>1, TreeNests

LEMMA NoKids ==
    ASSUME NEW powers
    PROVE  KidsNest(powers, <<>>)
BY DEF KidsNest, IsSequence

LEMMA LeafNests ==
    ASSUME NEW powers, NEW op, op \notin {"Binary", "Prefix"}, NEW at
    PROVE  Nests(powers, Leaf(op, at)) /\ Leaf(op, at).op = op
<1>1. Nests(powers, Node(op, at, <<>>))
  BY NoKids, OtherNodeNests
<1> QED
  BY <1>1 DEF Leaf, Node

LEMMA BadNests ==
    ASSUME NEW powers
    PROVE  Nests(powers, Bad) /\ Bad.op = "Bad"
<1>1. "Bad" \notin {"Binary", "Prefix"}
  OBVIOUS
<1> QED
  BY <1>1, LeafNests DEF Bad

LEMMA MoreKids ==
    ASSUME NEW powers, NEW kids, KidsNest(powers, kids), NEW node, Nests(powers, node)
    PROVE  KidsNest(powers, Append(kids, node))
<1>1. /\ IsSequence(Append(kids, node)) /\ Len(Append(kids, node)) = Len(kids) + 1
      /\ \A i \in 1 .. Len(kids) : Append(kids, node)[i] = kids[i]
      /\ Append(kids, node)[Len(kids) + 1] = node
  BY PushFrame DEF KidsNest
<1>2. \A i \in 1 .. Len(kids) + 1 : i \in 1 .. Len(kids) \/ i = Len(kids) + 1
  BY DEF KidsNest, IsSequence
<1> QED
  BY <1>1, <1>2 DEF KidsNest

LEMMA KeptKids ==
    ASSUME NEW powers, NEW kids, KidsNest(powers, kids), NEW node, Nests(powers, node)
    PROVE  KidsNest(powers, Keep(kids, node))
BY MoreKids DEF Keep

LEMMA OneKid ==
    ASSUME NEW powers, NEW node, Nests(powers, node)
    PROVE  KidsNest(powers, <<node>>)
BY DEF KidsNest, IsSequence

----------------------------------------------------------------------------
(* The invariant of precedence climbing.  A frame that waits for the right *)
(* operand of an infix operator has a left one that binds at least as      *)
(* tightly, and above it stands the expression that must bind tighter; the *)
(* left operand of the loop binds at least as tightly as the loop requires *)
(* and as what follows it; no prefix operator has an infix expression.     *)

(* The functions that parse the infix operators of one expression. *)
Climbs(frame) == frame.fn \in {"expr", "operators", "operand"}

FrameNests(powers, frame) ==
    /\ KidsNest(powers, frame.kids)
    /\ frame.fn = "operand" => /\ frame.at \in DOMAIN powers /\ Len(frame.kids) = 1
                               /\ PowerIn(powers, frame.kids[1]) >= powers[frame.at]
                               /\ powers[frame.at] >= frame.bp

(* What a frame may call. *)
Fits(powers, caller, frame) ==
    /\ caller.fn \in {"operators", "prefixed"} => ~Climbs(frame)
    /\ caller.fn = "operand" => Climbs(frame) /\ frame.bp = powers[caller.at] + 1

FramesNest(powers, s) ==
    \A i \in 1 .. Len(s) : FrameNests(powers, s[i]) /\ (i > 1 => Fits(powers, s[i - 1], s[i]))

(* What a function at c takes a value for. *)
Takes(powers, frame, node, c) ==
    /\ frame.fn = "operators" /\ node.op = "Binary" =>
           powers[node.at] >= frame.bp /\ powers[node.at] >= powers[c]
    /\ frame.fn = "operand" => PowerIn(powers, node) > powers[frame.at] /\ powers[frame.at] >= powers[c]
    /\ frame.fn = "prefixed" => node.op # "Binary"

ValueNests(powers, s, v, c) ==
    v # <<>> => Nests(powers, v[1]) /\ (s # <<>> => Takes(powers, s[Len(s)], v[1], c))

NestInv == FramesNest(Powers, stack) /\ ValueNests(Powers, stack, value, cursor)

LEMMA PowersRange ==
    ASSUME NEW c \in DOMAIN tokens
    PROVE  Powers[c] = InfixPower(c) /\ Powers[c] \in 0 .. 9
BY DEF Powers, InfixPower

(* Recovery stops at no operator. *)
LEMMA RecoveredPower ==
    ASSUME TokensOK, NEW c \in DOMAIN tokens
    PROVE  Powers[Recovered(c)] = 0
<1> DEFINE I == {i \in c .. Len(tokens) : AtOneOf(Separators, i)}
<1>1. I \in SUBSET (1 .. Len(tokens))
  BY Indices
<1>2. Len(tokens) \in I
  BY Indices DEF TokensOK, AtOneOf, Separators
<1> HIDE DEF I
<1>3. Min(I) \in I
  BY <1>1, <1>2, FirstOf, Indices
<1>4. AtOneOf(Separators, Recovered(c))
  BY <1>3 DEF Recovered, I
<1>5. InfixPower(Recovered(c)) = 0
  BY <1>4 DEF InfixPower, AtOneOf, At, AtText, Separators
<1> QED
  BY <1>5, RecoveredStays, PowersRange

(* The stack. *)

LEMMA PoppedNests ==
    ASSUME NEW powers, NEW s, IsSequence(s), s # <<>>, FramesNest(powers, s)
    PROVE  LET below == SubSeq(s, 1, Len(s) - 1)
           IN  /\ IsSequence(below) /\ FramesNest(powers, below)
               /\ FrameNests(powers, s[Len(s)])
               /\ below # <<>> => Fits(powers, below[Len(below)], s[Len(s)])
<1> DEFINE below == SubSeq(s, 1, Len(s) - 1)
<1>1. Len(s) \in Nat /\ Len(s) > 0
  BY EmptyStack DEF IsSequence
<1>2. IsSequence(below) /\ Len(below) = Len(s) - 1 /\ \A i \in 1 .. Len(s) - 1 : below[i] = s[i]
  BY <1>1, DropFrame
<1> HIDE DEF below
<1>3. ASSUME NEW i \in 1 .. Len(below)
      PROVE  FrameNests(powers, below[i]) /\ (i > 1 => Fits(powers, below[i - 1], below[i]))
  <2>1. i \in 1 .. Len(s) /\ below[i] = s[i] /\ (i > 1 => below[i - 1] = s[i - 1])
    BY <1>1, <1>2
  <2> QED
    BY <2>1 DEF FramesNest
<1>4. FrameNests(powers, s[Len(s)]) /\ (Len(s) > 1 => Fits(powers, s[Len(s) - 1], s[Len(s)]))
  <2>1. Len(s) \in 1 .. Len(s)
    BY <1>1
  <2> QED
    BY <2>1 DEF FramesNest
<1>5. below # <<>> => Len(s) > 1 /\ below[Len(below)] = s[Len(s) - 1]
  BY <1>1, <1>2, EmptyStack
<1> QED
  BY <1>2, <1>3, <1>4, <1>5 DEF below, FramesNest

LEMMA PushedNests ==
    ASSUME NEW powers, NEW s, IsSequence(s), FramesNest(powers, s),
           NEW frame, FrameNests(powers, frame), s # <<>> => Fits(powers, s[Len(s)], frame)
    PROVE  LET t == Append(s, frame)
           IN  IsSequence(t) /\ t # <<>> /\ t[Len(t)] = frame /\ FramesNest(powers, t)
<1> DEFINE t == Append(s, frame)
<1>1. /\ IsSequence(t) /\ Len(t) = Len(s) + 1
      /\ \A i \in 1 .. Len(s) : t[i] = s[i]
      /\ t[Len(s) + 1] = frame
  BY PushFrame
<1>2. Len(s) \in Nat /\ (s = <<>> <=> Len(s) = 0)
  BY EmptyStack DEF IsSequence
<1> HIDE DEF t
<1>3. ASSUME NEW i \in 1 .. Len(t)
      PROVE  FrameNests(powers, t[i]) /\ (i > 1 => Fits(powers, t[i - 1], t[i]))
  <2>1. CASE i \in 1 .. Len(s)
    <3>1. t[i] = s[i] /\ (i > 1 => t[i - 1] = s[i - 1])
      BY <1>1, <1>2, <2>1
    <3> QED
      BY <2>1, <3>1 DEF FramesNest
  <2>2. CASE i = Len(s) + 1
    <3>1. t[i] = frame /\ (i > 1 => s # <<>> /\ t[i - 1] = s[Len(s)])
      BY <1>1, <1>2, <2>2
    <3> QED
      BY <3>1
  <2> QED
    BY <1>1, <1>2, <2>1, <2>2
<1>4. t # <<>>
  <2>1. Len(t) # 0
    BY <1>1, <1>2
  <2> QED
    BY <1>1, <2>1, EmptyStack
<1> QED
  BY <1>1, <1>3, <1>4 DEF t, FramesNest

(* The innermost function is replaced by one of the same kind. *)
Alike(frame, other) == (Climbs(frame) <=> Climbs(other)) /\ (Climbs(frame) => frame.bp = other.bp)

LEMMA ReplacedNests ==
    ASSUME ParserInv, NestInv, stack # <<>>, NEW frame, FrameNests(Powers, frame), Alike(frame, Top)
    PROVE  LET s == Append(Below, frame)
           IN  IsSequence(s) /\ s # <<>> /\ s[Len(s)] = frame /\ FramesNest(Powers, s)
<1>1. /\ IsSequence(Below) /\ FramesNest(Powers, Below)
      /\ Below # <<>> => Fits(Powers, Below[Len(Below)], Top)
  <2>1. IsSequence(stack) /\ FramesNest(Powers, stack)
    BY DEF ParserInv, FramesOK, NestInv
  <2> QED
    BY <2>1, PoppedNests DEF Below, Top
<1>2. Below # <<>> => Fits(Powers, Below[Len(Below)], frame)
  BY <1>1 DEF Fits, Alike
<1> QED
  BY <1>1, <1>2, PushedNests

LEMMA NestConcludes ==
    ASSUME tokens' = tokens, FramesNest(Powers, stack'), ValueNests(Powers, stack', value', cursor')
    PROVE  NestInv'
<1>1. Powers' = Powers
  BY DEF Powers, InfixPower, At, AtText
<1> QED
  BY <1>1, Zenon DEF NestInv

(* What Goto, Call and Return keep of it. *)
LEMMA GotoNests ==
    ASSUME ParserInv, NestInv, stack # <<>>,
           NEW frame, FrameNests(Powers, frame), Alike(frame, Top),
           NEW c, NEW errors, Goto(frame, c, errors)
    PROVE  NestInv'
<1>1. stack' = Append(Below, frame) /\ value' = <<>> /\ tokens' = tokens
  BY DEF Goto, Step
<1>2. FramesNest(Powers, stack')
  BY <1>1, ReplacedNests
<1> QED
  BY <1>1, <1>2, NestConcludes DEF ValueNests

LEMMA PushedTwoNests ==
    ASSUME ParserInv, NestInv, stack # <<>>,
           NEW frame, FrameNests(Powers, frame), Alike(frame, Top),
           NEW callee, FrameNests(Powers, callee), Fits(Powers, frame, callee),
           stack' = Below \o <<frame, callee>>, value' = <<>>, tokens' = tokens
    PROVE  NestInv'
<1> DEFINE s == Append(Below, frame)
<1>1. IsSequence(s) /\ s # <<>> /\ s[Len(s)] = frame /\ FramesNest(Powers, s)
  BY ReplacedNests
<1>2. IsSequence(Below)
  BY TopOfStack DEF FramesOK
<1>3. stack' = Append(s, callee)
  BY <1>2, PushTwo
<1> HIDE DEF s
<1>4. FramesNest(Powers, stack')
  <2>1. Fits(Powers, s[Len(s)], callee)
    BY <1>1
  <2>2. FramesNest(Powers, Append(s, callee))
    BY <1>1, <2>1, PushedNests
  <2> QED
    BY <1>3, <2>2, Zenon
<1> QED
  BY <1>4, NestConcludes DEF ValueNests

LEMMA CallNests ==
    ASSUME ParserInv, NestInv, stack # <<>>,
           NEW frame, FrameNests(Powers, frame), Alike(frame, Top),
           NEW callee, FrameNests(Powers, callee), Fits(Powers, frame, callee),
           NEW c, NEW errors, Call(frame, callee, c, errors)
    PROVE  NestInv'
BY PushedTwoNests DEF Call, Step

(* A function ends that parses no infix operators, or at no operator. *)
LEMMA EndNests ==
    ASSUME ParserInv, NestInv, stack # <<>>,
           NEW node, Nests(Powers, node), node.op # "Binary",
           ~Climbs(Top) \/ Powers[cursor'] = 0,
           stack' = Below, value' = <<node>>, tokens' = tokens
    PROVE  NestInv'
<1>1. /\ IsSequence(Below) /\ FramesNest(Powers, Below)
      /\ Below # <<>> => Fits(Powers, Below[Len(Below)], Top)
  <2>1. IsSequence(stack) /\ FramesNest(Powers, stack)
    BY DEF ParserInv, FramesOK, NestInv
  <2> QED
    BY <2>1, PoppedNests DEF Below, Top
<1>2. value' # <<>> /\ value'[1] = node
  BY OneValue, Zenon
<1> DEFINE top == Below[Len(Below)]
<1>3. ASSUME Below # <<>>
      PROVE  Takes(Powers, top, node, cursor')
  <2>1. FrameNests(Powers, top)
    BY <1>1, <1>3, EmptyStack DEF FramesNest, IsSequence
  <2>2. CASE top.fn = "operand"
    <3>1. Powers[cursor'] = 0
      BY <1>1, <1>3, <2>2 DEF Fits
    <3>2. Powers[top.at] \in 0 .. 9
      BY <2>1, <2>2, PowersRange DEF FrameNests, Powers
    <3> QED
      BY <2>2, <3>1, <3>2 DEF Takes, PowerIn
  <2>3. CASE top.fn # "operand"
    BY <2>3 DEF Takes
  <2> QED
    BY <2>2, <2>3
<1>4. ValueNests(Powers, stack', value', cursor')
  BY <1>2, <1>3 DEF ValueNests
<1> QED
  BY <1>1, <1>4, NestConcludes

LEMMA ReturnNests ==
    ASSUME ParserInv, NestInv, stack # <<>>, ~Climbs(Top),
           NEW node, Nests(Powers, node), node.op # "Binary",
           NEW c, NEW errors, Return(node, c, errors)
    PROVE  NestInv'
BY EndNests DEF Return, Step

(* A function gives a value to the one that replaces it. *)
LEMMA LeavesNests ==
    ASSUME ParserInv, NestInv, stack # <<>>,
           NEW frame, FrameNests(Powers, frame), Alike(frame, Top),
           NEW node, Nests(Powers, node), Takes(Powers, frame, node, cursor'),
           stack' = Append(Below, frame), value' = <<node>>, tokens' = tokens
    PROVE  NestInv'
<1>1. FramesNest(Powers, stack') /\ stack'[Len(stack')] = frame
  BY ReplacedNests
<1>2. value' # <<>> /\ value'[1] = node
  BY OneValue, Zenon
<1>3. ValueNests(Powers, stack', value', cursor')
  BY <1>1, <1>2, Zenon DEF ValueNests
<1> QED
  BY <1>1, <1>3, NestConcludes

(* In a function that parses no infix operators: how it goes on. *)
Climbing == {"expr", "operators", "operand"}

InPlain ==
    /\ ParserInv /\ NestInv /\ stack # <<>> /\ Top.fn \notin Climbing
    /\ KidsNest(Powers, Top.kids)
    /\ value # <<>> => Nests(Powers, Result)

LEMMA TopNests ==
    ASSUME ParserInv, NestInv, stack # <<>>
    PROVE  /\ FrameNests(Powers, Top) /\ KidsNest(Powers, Top.kids)
           /\ value # <<>> => Nests(Powers, Result) /\ Takes(Powers, Top, Result, cursor)
<1>1. IsSequence(stack) /\ FramesNest(Powers, stack)
  BY DEF ParserInv, FramesOK, NestInv
<1>2. FrameNests(Powers, Top)
  BY <1>1, PoppedNests DEF Top
<1>3. value # <<>> => Nests(Powers, Result) /\ Takes(Powers, Top, Result, cursor)
  BY Zenon DEF NestInv, ValueNests, Result, Top
<1> QED
  BY <1>2, <1>3 DEF FrameNests

LEMMA InPlainFunction ==
    ASSUME ParserInv, NestInv, stack # <<>>, Top.fn \notin Climbing
    PROVE  InPlain
BY TopNests DEF InPlain

LEMMA ReturnsNode ==
    ASSUME InPlain, NEW op, op \notin {"Binary", "Prefix"}, NEW at, NEW kids, KidsNest(Powers, kids),
           NEW c, NEW errors, Return(Node(op, at, kids), c, errors)
    PROVE  NestInv'
<1>1. Nests(Powers, Node(op, at, kids)) /\ Node(op, at, kids).op # "Binary"
  BY OtherNodeNests DEF Node
<1> QED
  BY <1>1, ReturnNests DEF InPlain, Climbs, Climbing

LEMMA ReturnsLeaf ==
    ASSUME InPlain, NEW op, op \notin {"Binary", "Prefix"}, NEW at,
           NEW c, NEW errors, Return(Leaf(op, at), c, errors)
    PROVE  NestInv'
BY NoKids, ReturnsNode DEF Leaf

LEMMA ReturnsBad ==
    ASSUME InPlain, NEW c, NEW errors, Return(Bad, c, errors)
    PROVE  NestInv'
<1>1. "Bad" \notin {"Binary", "Prefix"}
  OBVIOUS
<1> QED
  BY <1>1, ReturnsLeaf DEF Bad

LEMMA PlainNests ==
    ASSUME NEW frame, frame.fn \notin Climbing, KidsNest(Powers, frame.kids)
    PROVE  FrameNests(Powers, frame) /\ ~Climbs(frame)
BY DEF FrameNests, Climbs, Climbing

LEMMA GotosFrame ==
    ASSUME InPlain, NEW frame, frame.fn \notin Climbing, KidsNest(Powers, frame.kids),
           NEW c, NEW errors, Goto(frame, c, errors)
    PROVE  NestInv'
<1>1. FrameNests(Powers, frame) /\ Alike(frame, Top)
  BY PlainNests DEF InPlain, Climbs, Climbing, Alike
<1> QED
  BY <1>1, GotoNests DEF InPlain

LEMMA CallsFrame ==
    ASSUME InPlain, NEW frame, frame.fn \notin Climbing, KidsNest(Powers, frame.kids),
           NEW callee, callee.fn # "operand", KidsNest(Powers, callee.kids),
           frame.fn = "prefixed" => callee.fn \notin Climbing,
           NEW c, NEW errors, Call(frame, callee, c, errors)
    PROVE  NestInv'
<1>1. FrameNests(Powers, frame) /\ Alike(frame, Top)
  BY PlainNests DEF InPlain, Climbs, Climbing, Alike
<1>2. FrameNests(Powers, callee)
  BY DEF FrameNests
<1>3. Fits(Powers, frame, callee)
  BY DEF Fits, Climbs, Climbing
<1> QED
  BY <1>1, <1>2, <1>3, CallNests DEF InPlain

LEMMA GotosEnter ==
    ASSUME InPlain, NEW fn, fn \notin Climbing, NEW c, NEW errors, Goto(Enter(fn), c, errors)
    PROVE  NestInv'
<1>1. Enter(fn).fn = fn /\ Enter(fn).kids = <<>>
  BY DEF Enter, Frame
<1> QED
  BY <1>1, NoKids, GotosFrame

LEMMA GotosKids ==
    ASSUME InPlain, NEW kids, KidsNest(Powers, kids),
           NEW c, NEW errors, Goto([Top EXCEPT !.kids = kids], c, errors)
    PROVE  NestInv'
<1> DEFINE frame == [Top EXCEPT !.kids = kids]
<1>1. frame.fn = Top.fn /\ frame.kids = kids
  BY InFunction DEF InPlain, FrameOK, Frame
<1> HIDE DEF frame
<1>2. frame.fn \notin Climbing
  BY <1>1 DEF InPlain
<1>3. Goto(frame, c, errors)
  BY DEF frame
<1> QED
  BY <1>1, <1>2, <1>3, GotosFrame

LEMMA GotosSame ==
    ASSUME InPlain, NEW c, NEW errors, Goto(Top, c, errors)
    PROVE  NestInv'
BY GotosFrame DEF InPlain

LEMMA CallsExpr ==
    ASSUME InPlain, NEW frame, frame.fn \notin Climbing, frame.fn # "prefixed", KidsNest(Powers, frame.kids),
           NEW bp, NEW c, NEW errors, Call(frame, Expr(bp), c, errors)
    PROVE  NestInv'
<1>1. Expr(bp).fn = "expr" /\ Expr(bp).kids = <<>>
  BY DEF Expr, Frame
<1> QED
  BY <1>1, NoKids, CallsFrame

LEMMA CallsEnter ==
    ASSUME InPlain, NEW frame, frame.fn \notin Climbing, KidsNest(Powers, frame.kids),
           NEW fn, fn \notin Climbing, NEW c, NEW errors, Call(frame, Enter(fn), c, errors)
    PROVE  NestInv'
<1>1. Enter(fn).fn = fn /\ Enter(fn).kids = <<>>
  BY DEF Enter, Frame
<1>2. Enter(fn).fn # "operand"
  BY <1>1 DEF Climbing
<1> QED
  BY <1>1, <1>2, NoKids, CallsFrame

(* The same for frames given by their parts. *)
LEMMA GotosNew ==
    ASSUME InPlain, NEW fn, fn \notin Climbing, NEW at, NEW kids, KidsNest(Powers, kids), NEW bp,
           NEW c, NEW errors, Goto(Frame(fn, at, kids, bp), c, errors)
    PROVE  NestInv'
<1>1. Frame(fn, at, kids, bp).fn = fn /\ Frame(fn, at, kids, bp).kids = kids
  BY DEF Frame
<1> QED
  BY <1>1, GotosFrame

LEMMA NewCallsExpr ==
    ASSUME InPlain, NEW fn, fn \notin Climbing, fn # "prefixed", NEW at, NEW kids, KidsNest(Powers, kids),
           NEW bp, NEW power, NEW c, NEW errors, Call(Frame(fn, at, kids, bp), Expr(power), c, errors)
    PROVE  NestInv'
<1>1. Frame(fn, at, kids, bp).fn = fn /\ Frame(fn, at, kids, bp).kids = kids
  BY DEF Frame
<1> QED
  BY <1>1, CallsExpr

LEMMA NewCallsEnter ==
    ASSUME InPlain, NEW fn, fn \notin Climbing, NEW at, NEW kids, KidsNest(Powers, kids),
           NEW bp, NEW callee, callee \notin Climbing, NEW c, NEW errors,
           Call(Frame(fn, at, kids, bp), Enter(callee), c, errors)
    PROVE  NestInv'
<1>1. Frame(fn, at, kids, bp).fn = fn /\ Frame(fn, at, kids, bp).kids = kids
  BY DEF Frame
<1> QED
  BY <1>1, CallsEnter

(* The actions. *)

LEMMA PackageNests ==
    ASSUME ParserInv, NestInv, ParsePackage
    PROVE  NestInv'
<1>1. InPlain
  BY InPlainFunction DEF ParsePackage, Running, Climbing
<1> DEFINE c == SkipSeparators(cursor)
           kids == IF At("Identifier", c + 1) THEN <<Leaf("Package", c + 1)>> ELSE <<>>
<1>2. \/ Goto(Enter("file"), c, {})
      \/ Goto(Frame("file", 0, kids, 0), After("Identifier", c + 1), Missing("Identifier", c + 1, "expected_package_name"))
  BY DEF ParsePackage
<1>3. KidsNest(Powers, kids)
  <2>1. "Package" \notin {"Binary", "Prefix"}
    OBVIOUS
  <2> QED
    BY <2>1, NoKids, LeafNests, OneKid
<1>4. "file" \notin Climbing
  BY DEF Climbing
<1> HIDE DEF c, kids
<1> QED
  BY <1>1, <1>2, <1>3, <1>4, GotosEnter, GotosNew

LEMMA FileNests ==
    ASSUME ParserInv, NestInv, ParseFile
    PROVE  NestInv'
<1>1. InPlain
  BY InPlainFunction DEF ParseFile, Running, Climbing
<1> DEFINE c == SkipSeparators(cursor)
<1>2. \/ Return(Node("File", 0, Top.kids), c, {})
      \/ \E fn \in {"imports", "decl"} : Call(Top, Enter(fn), c, {})
  BY DEF ParseFile
<1>3. "imports" \notin Climbing /\ "decl" \notin Climbing /\ "File" \notin {"Binary", "Prefix"}
  BY DEF Climbing
<1> HIDE DEF c
<1> QED
  BY <1>1, <1>2, <1>3, ReturnsNode, CallsEnter DEF InPlain

LEMMA KeepDeclNests ==
    ASSUME ParserInv, NestInv, KeepDecl
    PROVE  NestInv'
<1>1. InPlain /\ value # <<>>
  BY InPlainFunction DEF KeepDecl, Resumed, Climbing
<1>2. KidsNest(Powers, Keep(Top.kids, Result))
  BY <1>1, KeptKids DEF InPlain
<1>3. Goto([Top EXCEPT !.kids = Keep(Top.kids, Result)], SkipSeparators(cursor), {})
  BY DEF KeepDecl
<1> QED
  BY <1>1, <1>2, <1>3, GotosKids

LEMMA ImportNests ==
    ASSUME NEW c
    PROVE  Nests(Powers, ImportSpec(c)) /\ ImportSpec(c).op # "Binary"
<1>1. /\ "Alias" \notin {"Binary", "Prefix"} /\ "Import" \notin {"Binary", "Prefix"}
  OBVIOUS
<1>2. Nests(Powers, Node("Import", c + 1, <<Leaf("Alias", c)>>))
  BY <1>1, LeafNests, OneKid, OtherNodeNests
<1>3. Nests(Powers, Leaf("Import", c))
  BY <1>1, LeafNests
<1> QED
  BY <1>2, <1>3 DEF ImportSpec, Leaf, Node

LEMMA ImportsNests ==
    ASSUME ParserInv, NestInv, ParseImports
    PROVE  NestInv'
<1>1. InPlain
  BY InPlainFunction DEF ParseImports, Running, Climbing
<1> DEFINE c == cursor + 1
<1>2. \/ Goto(Enter("import_list"), c + 1, {})
      \/ Return(ImportSpec(c), ImportSpec(c).at + 1, {})
      \/ Return(Node("Imports", 0, <<>>), c, {"expected_import"})
  BY DEF ParseImports
<1>3. "import_list" \notin Climbing /\ "Imports" \notin {"Binary", "Prefix"}
  BY DEF Climbing
<1>4. CASE Return(ImportSpec(c), ImportSpec(c).at + 1, {})
  BY <1>1, <1>4, ImportNests, ReturnNests DEF InPlain, Climbs, Climbing
<1> HIDE DEF c
<1> QED
  BY <1>1, <1>2, <1>3, <1>4, GotosEnter, NoKids, ReturnsNode

LEMMA ImportListNests ==
    ASSUME ParserInv, NestInv, ParseImportList
    PROVE  NestInv'
<1>1. InPlain
  BY InPlainFunction DEF ParseImportList, Running, Climbing
<1> DEFINE c == SkipSeparators(cursor)
           kids == Append(Top.kids, ImportSpec(c))
<1>2. \/ Return(Node("Imports", 0, Top.kids), After("RightParen", cursor),
                Missing("RightParen", cursor, "expected_import_close"))
      \/ Goto([Top EXCEPT !.kids = kids], SkipSeparators(ImportSpec(c).at + 1), {})
      \/ Goto(Top, SkipSeparators(Recovered(c)), {"expected_import"})
  BY DEF ParseImportList
<1>3. KidsNest(Powers, kids) /\ "Imports" \notin {"Binary", "Prefix"}
  BY <1>1, ImportNests, MoreKids DEF InPlain
<1>4. KidsNest(Powers, Top.kids)
  BY <1>1 DEF InPlain
<1> HIDE DEF c, kids
<1> QED
  BY <1>1, <1>2, <1>3, <1>4, ReturnsNode, GotosKids, GotosSame

LEMMA DeclNests ==
    ASSUME ParserInv, NestInv, ParseDecl
    PROVE  NestInv'
<1>1. InPlain
  BY InPlainFunction DEF ParseDecl, Running, Climbing
<1>2. \/ Return(Leaf("Ellipsis", cursor), cursor + 1, {})
      \/ \E fn \in {"let", "comprehension_decl", "field"} : Goto(Enter(fn), cursor, {})
      \/ Return(Bad, RecoveredDecl(cursor), {"expected_decl"})
  BY DEF ParseDecl
<1>3. /\ "Ellipsis" \notin {"Binary", "Prefix"}
      /\ "let" \notin Climbing /\ "comprehension_decl" \notin Climbing /\ "field" \notin Climbing
  BY DEF Climbing
<1> QED
  BY <1>1, <1>2, <1>3, ReturnsLeaf, ReturnsBad, GotosEnter

LEMMA LetNests ==
    ASSUME ParserInv, NestInv, ParseLet
    PROVE  NestInv'
<1>1. InPlain
  BY InPlainFunction DEF ParseLet, Running, Resumed, Climbing
<1>2. "let_value" \notin Climbing /\ "Let" \notin {"Binary", "Prefix"}
  BY DEF Climbing
<1>3. CASE Running("let")
  <2>1. PICK at, c, errors : Call(Frame("let_value", at, <<>>, 0), Expr(0), c, errors)
    BY <1>3 DEF ParseLet, Running, Resumed
  <2> QED
    BY <1>1, <1>2, <2>1, NoKids, NewCallsExpr
<1>4. CASE Resumed("let_value")
  <2>1. Return(Node("Let", Top.at, <<Result>>), SkipAttributes(cursor), {})
    BY <1>4 DEF ParseLet, Running, Resumed
  <2>2. KidsNest(Powers, <<Result>>)
    BY <1>1, <1>4, OneKid DEF InPlain, Resumed
  <2> QED
    BY <1>1, <1>2, <2>1, <2>2, ReturnsNode
<1> QED
  BY <1>3, <1>4 DEF ParseLet

LEMMA FieldNests ==
    ASSUME ParserInv, NestInv, ParseField
    PROVE  NestInv'
<1>1. InPlain
  BY InPlainFunction DEF ParseField, Running, Climbing
<1>2. PICK bp : Call(Frame("head", 0, <<>>, bp), Enter("label"), cursor, {})
  BY DEF ParseField
<1>3. "head" \notin Climbing /\ "label" \notin Climbing
  BY DEF Climbing
<1> QED
  BY <1>1, <1>2, <1>3, NoKids, NewCallsEnter

LEMMA LabelNests ==
    ASSUME ParserInv, NestInv, ParseLabel
    PROVE  NestInv'
<1>1. InPlain
  BY InPlainFunction DEF ParseLabel, Running, Resumed, Climbing
<1>2. "label_close" \notin Climbing /\ "Label" \notin {"Binary", "Prefix"}
  BY DEF Climbing
<1>3. CASE Running("label")
  <2>1. \/ /\ AtOneOf({"Identifier", "String"}, cursor)
           /\ Return(Leaf(tokens[cursor].kind, cursor), cursor + 1, {})
        \/ Call(Frame("label_close", cursor, <<>>, 0), Expr(0), cursor + 1, {})
        \/ Return(Bad, cursor, {"expected_label"})
    BY <1>3 DEF ParseLabel, Running, Resumed
  <2>2. AtOneOf({"Identifier", "String"}, cursor) => tokens[cursor].kind \notin {"Binary", "Prefix"}
    BY DEF AtOneOf
  <2> QED
    BY <1>1, <1>2, <2>1, <2>2, NoKids, ReturnsLeaf, NewCallsExpr, ReturnsBad
<1>4. CASE Resumed("label_close")
  <2>1. PICK c, errors : Return(Node("Label", Top.at, <<Result>>), c, errors)
    BY <1>4 DEF ParseLabel, Running, Resumed
  <2>2. KidsNest(Powers, <<Result>>)
    BY <1>1, <1>4, OneKid DEF InPlain, Resumed
  <2> QED
    BY <1>1, <1>2, <2>1, <2>2, ReturnsNode
<1> QED
  BY <1>3, <1>4 DEF ParseLabel

LEMMA FieldValueNests ==
    ASSUME InPlain, NEW kids, KidsNest(Powers, kids), NEW chained, ParseFieldValue(kids, chained)
    PROVE  NestInv'
<1> DEFINE marked == AtText("Operator", {"?", "!"}, cursor)
           c == IF marked THEN cursor + 1 ELSE cursor
           head == IF marked THEN Append(kids, Leaf("Marker", cursor)) ELSE kids
           frame == Frame("field_value", 0, head, chained)
           first == After("Colon", c)
           errors == Missing("Colon", c, "expected_colon")
<1>1. \/ Call(frame, Expr(0), first, errors)
      \/ stack' = Below \o <<frame, Enter("chained_field")>> /\ value' = <<>> /\ Step(first, errors)
      \/ /\ stack' = Append(Below, frame) /\ value' = <<Bad>>
         /\ Step(Recovered(first), errors \union {"max_depth_exceeded"})
  BY DEF ParseFieldValue
<1>2. KidsNest(Powers, head)
  <2>1. "Marker" \notin {"Binary", "Prefix"}
    OBVIOUS
  <2> QED
    BY <2>1, LeafNests, MoreKids
<1>3. frame.fn = "field_value" /\ frame.kids = head
  BY DEF Frame
<1> HIDE DEF frame, head, first, errors
<1>4. FrameNests(Powers, frame) /\ Alike(frame, Top) /\ frame.fn \notin Climbing /\ frame.fn # "prefixed"
  BY <1>2, <1>3 DEF FrameNests, Alike, Climbs, Climbing, InPlain
<1>5. CASE Call(frame, Expr(0), first, errors)
  BY <1>2, <1>3, <1>4, <1>5, CallsExpr
<1>6. CASE stack' = Below \o <<frame, Enter("chained_field")>> /\ value' = <<>> /\ Step(first, errors)
  <2>1. FrameNests(Powers, Enter("chained_field")) /\ Fits(Powers, frame, Enter("chained_field"))
    BY <1>3, NoKids DEF FrameNests, Fits, Climbs, Enter, Frame
  <2> QED
    BY <1>4, <1>6, <2>1, PushedTwoNests DEF InPlain, Step
<1>7. CASE /\ stack' = Append(Below, frame) /\ value' = <<Bad>>
           /\ Step(Recovered(first), errors \union {"max_depth_exceeded"})
  <2>1. Takes(Powers, frame, Bad, cursor')
    BY <1>3 DEF Takes
  <2> QED
    BY <1>4, <1>7, <2>1, BadNests, LeavesNests DEF InPlain, Step
<1> QED
  BY <1>1, <1>5, <1>6, <1>7

LEMMA FieldHeadNests ==
    ASSUME ParserInv, NestInv, ParseFieldHead
    PROVE  NestInv'
<1>1. InPlain /\ value # <<>>
  BY InPlainFunction DEF ParseFieldHead, Resumed, Climbing
<1>2. KidsNest(Powers, <<Result>>) /\ KidsNest(Powers, Append(Top.kids, Result))
  BY <1>1, OneKid, MoreKids DEF InPlain
<1>3. PICK errors : \/ Call(Frame("aliased", 0, <<Result>>, Top.bp), Enter("label"), cursor + 1, errors)
                    \/ ParseFieldValue(<<Result>>, Top.bp)
                    \/ ParseFieldValue(Append(Top.kids, Result), Top.bp)
  BY DEF ParseFieldHead
<1>4. "aliased" \notin Climbing /\ "label" \notin Climbing
  BY DEF Climbing
<1> QED
  BY <1>1, <1>2, <1>3, <1>4, NewCallsEnter, FieldValueNests

LEMMA FinishFieldNests ==
    ASSUME ParserInv, NestInv, FinishField
    PROVE  NestInv'
<1>1. InPlain /\ value # <<>>
  BY InPlainFunction DEF FinishField, Resumed, Climbing
<1> DEFINE kids == Append(Top.kids, Result)
           field == Node("Field", 0, kids)
<1>2. KidsNest(Powers, kids)
  BY <1>1, MoreKids DEF InPlain
<1>3. "Field" \notin {"Binary", "Prefix"} /\ "Struct" \notin {"Binary", "Prefix"}
  OBVIOUS
<1>4. \/ Return(field, SkipAttributes(cursor), {})
      \/ stack' = Below /\ value' = <<Node("Struct", 0, <<field>>)>> /\ Step(cursor, {})
  BY DEF FinishField
<1> HIDE DEF kids
<1>5. Nests(Powers, field)
  BY <1>2, <1>3, OtherNodeNests
<1>6. Nests(Powers, Node("Struct", 0, <<field>>)) /\ Node("Struct", 0, <<field>>).op # "Binary"
  BY <1>3, <1>5, OneKid, OtherNodeNests DEF Node
<1>7. CASE Return(field, SkipAttributes(cursor), {})
  BY <1>1, <1>2, <1>3, <1>7, ReturnsNode
<1>8. CASE stack' = Below /\ value' = <<Node("Struct", 0, <<field>>)>> /\ Step(cursor, {})
  BY <1>1, <1>6, <1>8, EndNests DEF InPlain, Climbs, Climbing, Step
<1> QED
  BY <1>4, <1>7, <1>8

LEMMA ExprNests ==
    ASSUME ParserInv, NestInv, ParseExpr
    PROVE  NestInv'
<1>1. stack # <<>> /\ Top.fn = "expr" /\ value = <<>>
  BY DEF ParseExpr, Running
<1>2. TokensOK /\ cursor \in DOMAIN tokens /\ FrameOK(Top, Len(tokens))
  BY <1>1, InFunction
<1> DEFINE frame == [Top EXCEPT !.fn = "operators"]
<1>3. \/ stack' = Below \o <<frame, Enter("prefix")>> /\ value' = value /\ Step(cursor, {})
      \/ Return(Bad, Recovered(cursor), {"max_depth_exceeded"})
  BY DEF ParseExpr
<1>4. frame.fn = "operators" /\ frame.kids = Top.kids /\ frame.bp = Top.bp
  BY <1>2 DEF FrameOK, Frame
<1> HIDE DEF frame
<1>5. CASE stack' = Below \o <<frame, Enter("prefix")>> /\ value' = value /\ Step(cursor, {})
  <2>1. FrameNests(Powers, frame) /\ Alike(frame, Top)
    BY <1>1, <1>4, TopNests DEF FrameNests, Alike, Climbs
  <2>2. FrameNests(Powers, Enter("prefix")) /\ Fits(Powers, frame, Enter("prefix"))
    BY <1>4, NoKids DEF FrameNests, Fits, Climbs, Enter, Frame
  <2> QED
    BY <1>1, <1>5, <2>1, <2>2, PushedTwoNests DEF Step
<1>6. CASE Return(Bad, Recovered(cursor), {"max_depth_exceeded"})
  <2>1. Powers[cursor'] = 0
    BY <1>2, <1>6, RecoveredPower DEF Return, Step
  <2> QED
    BY <1>1, <1>6, <2>1, BadNests, EndNests DEF Return, Step
<1> QED
  BY <1>3, <1>5, <1>6

(* The loop ends: what the operand it parsed is taken for. *)
LEMMA LoopEnds ==
    ASSUME ParserInv, NestInv, stack # <<>>, Top.fn = "operators", value # <<>>,
           Powers[cursor] # 0 => ~(Powers[cursor] >= Top.bp),
           stack' = Below, value' = value, cursor' = cursor, tokens' = tokens
    PROVE  NestInv'
<1>1. /\ IsSequence(Below) /\ FramesNest(Powers, Below)
      /\ Below # <<>> => Fits(Powers, Below[Len(Below)], Top)
  <2>1. IsSequence(stack) /\ FramesNest(Powers, stack)
    BY DEF ParserInv, FramesOK, NestInv
  <2> QED
    BY <2>1, PoppedNests DEF Below, Top
<1>2. Nests(Powers, Result) /\ Takes(Powers, Top, Result, cursor)
  BY TopNests
<1>3. cursor \in DOMAIN tokens /\ Powers[cursor] \in 0 .. 9
  BY PowersRange DEF ParserInv
<1> DEFINE caller == Below[Len(Below)]
<1>4. ASSUME Below # <<>>
      PROVE  Takes(Powers, caller, Result, cursor)
  <2>1. FrameNests(Powers, caller) /\ Fits(Powers, caller, Top)
    BY <1>1, <1>4, EmptyStack DEF FramesNest, IsSequence
  <2> HIDE DEF caller
  <2>2. caller.fn \notin {"operators", "prefixed"}
    BY <2>1 DEF Fits, Climbs
  <2>3. CASE caller.fn = "operand"
    <3>1. Powers[caller.at] \in 0 .. 9 /\ Top.bp = Powers[caller.at] + 1
      BY <2>1, <2>3, PowersRange DEF FrameNests, Fits, Powers
    <3>2. Powers[caller.at] >= Powers[cursor]
      BY <1>3, <3>1
    <3>3. PowerIn(Powers, Result) > Powers[caller.at]
      <4>1. CASE Result.op = "Binary"
        <5>1. Result.at \in DOMAIN tokens /\ Powers[Result.at] >= Top.bp
          BY <1>2, <4>1, NestsAtRoot DEF NestsHere, Placed, Takes, Powers
        <5>2. Powers[Result.at] \in 0 .. 9
          BY <5>1, PowersRange
        <5> QED
          BY <3>1, <4>1, <5>1, <5>2 DEF PowerIn
      <4>2. CASE Result.op # "Binary"
        BY <3>1, <4>2 DEF PowerIn
      <4> QED
        BY <4>1, <4>2
    <3> QED
      BY <2>3, <3>2, <3>3 DEF Takes
  <2> QED
    BY <2>2, <2>3 DEF Takes
<1>5. ValueNests(Powers, stack', value', cursor')
  BY <1>2, <1>4, Zenon DEF ValueNests, Result
<1> QED
  BY <1>1, <1>5, NestConcludes

LEMMA LoopNests ==
    ASSUME ParserInv, NestInv, ParseOperators
    PROVE  NestInv'
<1>1. stack # <<>> /\ Top.fn = "operators" /\ value # <<>>
  BY DEF ParseOperators, Resumed
<1>2. /\ FrameNests(Powers, Top) /\ Alike(Top, Top)
      /\ Nests(Powers, Result) /\ Takes(Powers, Top, Result, cursor)
  BY <1>1, TopNests DEF Alike
<1>3. cursor \in DOMAIN tokens /\ Powers[cursor] = InfixPower(cursor) /\ Powers[cursor] \in 0 .. 9
  BY PowersRange DEF ParserInv
<1> DEFINE power == InfixPower(cursor)
           left == Result
           Continue(node, c, errors) == value' = <<node>> /\ UNCHANGED <<stack, depth>> /\ Step(c, errors)
<1>4. \/ Continue(Node("Selector", cursor + 1, <<left>>), cursor + 2, {})
      \/ Continue(Bad, cursor + 1, {"expected_selector"})
      \/ \E fn \in {"index", "call"} : Call(Top, Frame(fn, 0, <<left>>, 0), cursor + 1, {})
      \/ /\ power # 0 /\ power >= Top.bp
         /\ Call(Frame("operand", cursor, <<left>>, Top.bp), Expr(OperandPower(power)), cursor + 1, {})
      \/ /\ power # 0 => ~(power >= Top.bp)
         /\ stack' = Below /\ ExitDepth /\ UNCHANGED value /\ Step(cursor, {})
  BY DEF ParseOperators
<1>5. ASSUME NEW node, Nests(Powers, node), node.op # "Binary", NEW c, NEW errors, Continue(node, c, errors)
      PROVE  NestInv'
  <2>1. value' # <<>> /\ value'[1] = node /\ stack' = stack /\ tokens' = tokens
    BY <1>5, OneValue DEF Step
  <2>2. Takes(Powers, Top, node, cursor')
    BY <1>1, <1>5 DEF Takes
  <2>3. ValueNests(Powers, stack', value', cursor')
    BY <1>5, <2>1, <2>2, Zenon DEF ValueNests, Top
  <2>4. FramesNest(Powers, stack')
    BY <2>1 DEF NestInv
  <2> QED
    BY <2>1, <2>3, <2>4, NestConcludes
<1>6. KidsNest(Powers, <<left>>)
  BY <1>2, OneKid
<1> HIDE DEF Continue
<1>7. CASE Continue(Node("Selector", cursor + 1, <<left>>), cursor + 2, {})
  <2>1. "Selector" \notin {"Binary", "Prefix"}
    OBVIOUS
  <2>2. Nests(Powers, Node("Selector", cursor + 1, <<left>>)) /\ Node("Selector", cursor + 1, <<left>>).op # "Binary"
    BY <1>6, <2>1, OtherNodeNests DEF Node
  <2> QED
    BY <1>5, <1>7, <2>2, Zenon
<1>8. CASE Continue(Bad, cursor + 1, {"expected_selector"})
  <2>1. Bad.op # "Binary"
    BY BadNests
  <2> QED
    BY <1>5, <1>8, <2>1, BadNests, Zenon
<1>9. ASSUME NEW fn \in {"index", "call"}, Call(Top, Frame(fn, 0, <<left>>, 0), cursor + 1, {})
      PROVE  NestInv'
  <2> DEFINE callee == Frame(fn, 0, <<left>>, 0)
  <2>1. callee.fn = fn /\ callee.kids = <<left>>
    BY DEF Frame
  <2>2. Call(Top, callee, cursor + 1, {})
    BY <1>9
  <2> HIDE DEF callee
  <2>3. FrameNests(Powers, callee) /\ Fits(Powers, Top, callee)
    BY <1>1, <1>6, <2>1 DEF FrameNests, Fits, Climbs
  <2> QED
    BY <1>1, <1>2, <2>2, <2>3, CallNests
<1>10. CASE /\ power # 0 /\ power >= Top.bp
            /\ Call(Frame("operand", cursor, <<left>>, Top.bp), Expr(OperandPower(power)), cursor + 1, {})
  <2> DEFINE frame == Frame("operand", cursor, <<left>>, Top.bp)
             callee == Expr(OperandPower(power))
  <2>1. /\ frame.fn = "operand" /\ frame.kids = <<left>> /\ frame.at = cursor /\ frame.bp = Top.bp
        /\ callee.fn = "expr" /\ callee.kids = <<>> /\ callee.bp = power + 1
    BY DEF Expr, Frame, OperandPower
  <2>2. Call(frame, callee, cursor + 1, {})
    BY <1>10
  <2>3. PowerIn(Powers, left) >= Powers[cursor]
    <3>1. CASE left.op = "Binary"
      BY <1>1, <1>2, <3>1 DEF Takes, PowerIn
    <3>2. CASE left.op # "Binary"
      BY <1>3, <3>2 DEF PowerIn
    <3> QED
      BY <3>1, <3>2
  <2>4. Powers[cursor] >= Top.bp /\ callee.bp = Powers[cursor] + 1 /\ cursor \in DOMAIN Powers
    BY <1>3, <1>10, <2>1 DEF Powers
  <2>5. Len(<<left>>) = 1 /\ <<left>>[1] = left
    OBVIOUS
  <2> HIDE DEF frame, callee, left
  <2>6. FrameNests(Powers, frame)
    BY <1>6, <2>1, <2>3, <2>4, <2>5 DEF FrameNests
  <2>7. FrameNests(Powers, callee) /\ Fits(Powers, frame, callee) /\ Alike(frame, Top)
    BY <1>1, <2>1, <2>4, NoKids DEF FrameNests, Fits, Alike, Climbs
  <2> QED
    BY <1>1, <2>2, <2>6, <2>7, CallNests
<1>11. CASE /\ power # 0 => ~(power >= Top.bp)
            /\ stack' = Below /\ ExitDepth /\ UNCHANGED value /\ Step(cursor, {})
  BY <1>1, <1>3, <1>11, LoopEnds DEF Step
<1> QED
  BY <1>4, <1>7, <1>8, <1>9, <1>10, <1>11

LEMMA BinaryNests ==
    ASSUME ParserInv, NestInv, FinishBinary
    PROVE  NestInv'
<1>1. stack # <<>> /\ Top.fn = "operand" /\ value # <<>>
  BY DEF FinishBinary, Resumed
<1>2. /\ FrameNests(Powers, Top)
      /\ Nests(Powers, Result) /\ Takes(Powers, Top, Result, cursor)
  BY <1>1, TopNests
<1> DEFINE frame == Frame("operators", 0, <<>>, Top.bp)
           kids == Append(Top.kids, Result)
           node == Node("Binary", Top.at, kids)
<1>3. /\ stack' = Append(Below, frame) /\ value' = <<node>> /\ cursor' = cursor /\ tokens' = tokens
  BY DEF FinishBinary, Step
<1>4. /\ KidsNest(Powers, Top.kids) /\ Len(Top.kids) = 1 /\ Top.at \in DOMAIN Powers
      /\ PowerIn(Powers, Top.kids[1]) >= Powers[Top.at] /\ Powers[Top.at] >= Top.bp
  BY <1>1, <1>2 DEF FrameNests
<1>5. PowerIn(Powers, Result) > Powers[Top.at] /\ Powers[Top.at] >= Powers[cursor]
  BY <1>1, <1>2 DEF Takes
<1>6. KidsNest(Powers, kids) /\ kids[1] = Top.kids[1] /\ kids[2] = Result
  <2>1. /\ \A i \in 1 .. Len(Top.kids) : Append(Top.kids, Result)[i] = Top.kids[i]
        /\ Append(Top.kids, Result)[Len(Top.kids) + 1] = Result
    BY <1>4, PushFrame DEF KidsNest
  <2> QED
    BY <1>2, <1>4, <2>1, MoreKids
<1>7. Nests(Powers, Top.kids[1])
  BY <1>4 DEF KidsNest
<1> HIDE DEF kids
<1>8. /\ node.op = "Binary" /\ node.at = Top.at /\ node.kids = kids
      /\ frame.fn = "operators" /\ frame.kids = <<>> /\ frame.bp = Top.bp
  BY DEF Node, Frame
<1>9. NestsHere(Powers, node)
  <2>1. Placed(Powers, kids[1]) /\ Placed(Powers, kids[2])
    BY <1>2, <1>6, <1>7, NestsAtRoot DEF NestsHere
  <2>2. PowerIn(Powers, node) = Powers[Top.at]
    BY <1>8 DEF PowerIn
  <2> HIDE DEF node
  <2> QED
    BY <1>4, <1>5, <1>6, <1>8, <2>1, <2>2 DEF NestsHere, Placed
<1>10. Nests(Powers, node)
  BY <1>6, <1>9, TreeNests
<1> HIDE DEF node, frame
<1>11. FrameNests(Powers, frame) /\ Alike(frame, Top)
  BY <1>1, <1>8, NoKids DEF FrameNests, Alike, Climbs
<1>12. Takes(Powers, frame, node, cursor')
  BY <1>3, <1>4, <1>5, <1>8 DEF Takes
<1> QED
  BY <1>1, <1>3, <1>10, <1>11, <1>12, LeavesNests

LEMMA CallLoopNests ==
    ASSUME ParserInv, NestInv, ParseCall
    PROVE  NestInv'
<1>1. InPlain
  BY InPlainFunction DEF ParseCall, Running, Resumed, Climbing
<1>2. /\ KidsNest(Powers, Top.kids) /\ Top.fn \notin Climbing /\ Top.fn # "prefixed"
      /\ "Call" \notin {"Binary", "Prefix"}
  BY <1>1 DEF InPlain, ParseCall, Running, Resumed
<1>3. CASE Running("call")
  <2>1. PICK c, errors : \/ Return(Node("Call", 0, Top.kids), c, errors)
                         \/ Goto(Top, c, {})
                         \/ Call(Top, Expr(0), c, {})
    BY <1>3 DEF ParseCall, Running, Resumed
  <2> QED
    BY <1>1, <1>2, <2>1, ReturnsNode, GotosSame, CallsExpr
<1>4. CASE Resumed("call")
  <2>1. Goto([Top EXCEPT !.kids = Keep(Top.kids, Result)], SkipSeparators(cursor), {})
    BY <1>4 DEF ParseCall, Running, Resumed
  <2>2. KidsNest(Powers, Keep(Top.kids, Result))
    BY <1>1, <1>4, KeptKids DEF InPlain, Resumed
  <2> QED
    BY <1>1, <2>1, <2>2, GotosKids
<1> QED
  BY <1>3, <1>4 DEF ParseCall

LEMMA FinishSliceNests ==
    ASSUME InPlain, NEW kids, KidsNest(Powers, kids), NEW c, FinishSlice(kids, c)
    PROVE  NestInv'
<1>1. PICK errors : Return(Node("Slice", 0, kids), After("RightBracket", c), errors)
  BY DEF FinishSlice
<1>2. "Slice" \notin {"Binary", "Prefix"}
  OBVIOUS
<1> QED
  BY <1>1, <1>2, ReturnsNode

LEMMA SliceEndNests ==
    ASSUME InPlain, NEW kids, KidsNest(Powers, kids), NEW c, SliceEnd(kids, c)
    PROVE  NestInv'
<1>1. \/ FinishSlice(kids, c)
      \/ Call(Frame("slice", 0, kids, 0), Expr(0), c, {})
  BY DEF SliceEnd
<1>2. "slice" \notin Climbing
  BY DEF Climbing
<1> QED
  BY <1>1, <1>2, FinishSliceNests, NewCallsExpr

LEMMA IndexNests ==
    ASSUME ParserInv, NestInv, ParseIndexOrSlice
    PROVE  NestInv'
<1>1. InPlain
  BY InPlainFunction DEF ParseIndexOrSlice, Running, Resumed, Climbing
<1>2. KidsNest(Powers, Top.kids)
  BY <1>1 DEF InPlain
<1>3. CASE Running("index")
  <2> DEFINE frame == [Top EXCEPT !.fn = "index_at"]
  <2>1. \/ SliceEnd(Top.kids, cursor + 1)
        \/ Call(frame, Expr(0), cursor, {})
    BY <1>3 DEF ParseIndexOrSlice, Running, Resumed
  <2>2. frame.fn = "index_at" /\ frame.kids = Top.kids
    BY <1>1, InFunction DEF InPlain, FrameOK, Frame
  <2> HIDE DEF frame
  <2>3. frame.fn \notin Climbing /\ frame.fn # "prefixed" /\ KidsNest(Powers, frame.kids)
    BY <1>2, <2>2 DEF Climbing
  <2> QED
    BY <1>1, <1>2, <2>1, <2>3, SliceEndNests, CallsExpr
<1>4. CASE Resumed("index_at")
  <2> DEFINE kids == Append(Top.kids, Result)
  <2>1. PICK c, errors : \/ SliceEnd(kids, cursor + 1)
                         \/ Return(Node("Index", 0, kids), c, errors)
    BY <1>4 DEF ParseIndexOrSlice, Running, Resumed
  <2>2. KidsNest(Powers, kids) /\ "Index" \notin {"Binary", "Prefix"}
    BY <1>1, <1>4, MoreKids DEF InPlain, Resumed
  <2> HIDE DEF kids
  <2> QED
    BY <1>1, <2>1, <2>2, SliceEndNests, ReturnsNode
<1>5. CASE Resumed("slice")
  <2>1. FinishSlice(Append(Top.kids, Result), cursor)
    BY <1>5 DEF ParseIndexOrSlice, Running, Resumed
  <2>2. KidsNest(Powers, Append(Top.kids, Result))
    BY <1>1, <1>5, MoreKids DEF InPlain, Resumed
  <2> QED
    BY <1>1, <2>1, <2>2, FinishSliceNests
<1> QED
  BY <1>3, <1>4, <1>5 DEF ParseIndexOrSlice

LEMMA PrefixNests ==
    ASSUME ParserInv, NestInv, ParsePrefix
    PROVE  NestInv'
<1>1. InPlain
  BY InPlainFunction DEF ParsePrefix, Running, Resumed, Climbing
<1>2. "prefixed" \notin Climbing /\ "prefix" \notin Climbing /\ "primary" \notin Climbing
  BY DEF Climbing
<1>3. CASE Running("prefix")
  <2>1. \/ Call(Frame("prefixed", cursor, <<>>, 0), Enter("prefix"), cursor + 1, {})
        \/ Goto(Enter("primary"), cursor, {})
    BY <1>3 DEF ParsePrefix, Running, Resumed
  <2> QED
    BY <1>1, <1>2, <2>1, NoKids, NewCallsEnter, GotosEnter
<1>4. CASE Resumed("prefixed")
  <2> DEFINE kids == <<Result>>
             node == Node("Prefix", Top.at, kids)
  <2>1. Return(node, cursor, {})
    BY <1>4 DEF ParsePrefix, Running, Resumed
  <2>2. Nests(Powers, Result) /\ Result.op # "Binary"
    BY <1>1, <1>4, TopNests DEF InPlain, Resumed, Takes
  <2>3. NestsHere(Powers, node) /\ node.op # "Binary"
    BY <2>2 DEF NestsHere, Placed, Node
  <2>4. Nests(Powers, node)
    BY <2>2, <2>3, OneKid, TreeNests
  <2> HIDE DEF node
  <2> QED
    BY <1>1, <2>1, <2>3, <2>4, ReturnNests DEF InPlain, Climbs, Climbing
<1> QED
  BY <1>3, <1>4 DEF ParsePrefix

LEMMA PrimaryNests ==
    ASSUME ParserInv, NestInv, ParsePrimary
    PROVE  NestInv'
<1>1. InPlain
  BY InPlainFunction DEF ParsePrimary, Running, Climbing
<1>2. PICK c : \/ \E fn \in {"comprehension_expr", "struct", "list"} : Goto(Enter(fn), c, {})
               \/ /\ AtOneOf({"Identifier", "Number", "String", "Ellipsis"}, cursor)
                  /\ Return(Leaf(tokens[cursor].kind, cursor), cursor + 1, {})
               \/ Call(Enter("group"), Expr(0), cursor + 1, {})
               \/ Return(Bad, Recovered(cursor), {"expected_expr"})
  BY DEF ParsePrimary
<1>3. AtOneOf({"Identifier", "Number", "String", "Ellipsis"}, cursor) => tokens[cursor].kind \notin {"Binary", "Prefix"}
  BY DEF AtOneOf
<1>4. {"comprehension_expr", "struct", "list", "group"} \cap Climbing = {}
  BY DEF Climbing
<1>5. CASE Call(Enter("group"), Expr(0), cursor + 1, {})
  BY <1>1, <1>4, <1>5, NoKids, NewCallsExpr DEF Enter
<1> QED
  BY <1>1, <1>2, <1>3, <1>4, <1>5, GotosEnter, ReturnsLeaf, ReturnsBad

LEMMA GroupNests ==
    ASSUME ParserInv, NestInv, ParseGroup
    PROVE  NestInv'
<1>1. InPlain /\ value # <<>>
  BY InPlainFunction DEF ParseGroup, Resumed, Climbing
<1>2. PICK c, errors : Return(Node("Group", 0, <<Result>>), c, errors)
  BY DEF ParseGroup
<1>3. KidsNest(Powers, <<Result>>) /\ "Group" \notin {"Binary", "Prefix"}
  BY <1>1, OneKid DEF InPlain
<1> QED
  BY <1>1, <1>2, <1>3, ReturnsNode

LEMMA StructNests ==
    ASSUME ParserInv, NestInv, ParseStruct
    PROVE  NestInv'
<1>1. InPlain
  BY InPlainFunction DEF ParseStruct, Running, Climbing
<1>2. PICK c, errors : \/ \E op \in {"Struct", "Comprehension"} : Return(Node(op, 0, Top.kids), c, errors)
                       \/ Goto(Top, c, {})
                       \/ Call(Top, Enter("decl"), c, {})
  BY DEF ParseStruct
<1>3. {"Struct", "Comprehension"} \cap {"Binary", "Prefix"} = {} /\ "decl" \notin Climbing
  BY DEF Climbing
<1>4. KidsNest(Powers, Top.kids) /\ Top.fn \notin Climbing
  BY <1>1 DEF InPlain
<1> QED
  BY <1>1, <1>2, <1>3, <1>4, ReturnsNode, GotosSame, CallsEnter

LEMMA ListNests ==
    ASSUME ParserInv, NestInv, ParseList
    PROVE  NestInv'
<1>1. InPlain
  BY InPlainFunction DEF ParseList, Running, Resumed, Climbing
<1>2. /\ KidsNest(Powers, Top.kids) /\ Top.fn \notin Climbing /\ Top.fn # "prefixed"
      /\ "List" \notin {"Binary", "Prefix"}
  BY <1>1 DEF InPlain, ParseList, Running, Resumed
<1>3. Top = Frame(Top.fn, Top.at, Top.kids, Top.bp)
  BY <1>1, InFunction DEF InPlain, FrameOK
<1>4. \A c : Nests(Powers, Leaf("Ellipsis", c)) /\ Leaf("Ellipsis", c).op = "Ellipsis"
  <2>1. "Ellipsis" \notin {"Binary", "Prefix"}
    OBVIOUS
  <2> QED
    BY <2>1, LeafNests
<1>5. CASE Running("list")
  <2> DEFINE c == SkipSeparators(cursor)
             kids == Append(Top.kids, Leaf("Ellipsis", c))
             frame == [Top EXCEPT !.fn = "tail"]
             tail == [Top EXCEPT !.fn = "tail", !.kids = kids]
  <2>1. \/ \E d, errors : Return(Node("List", 0, Top.kids), d, errors)
        \/ Goto(Top, c, {})
        \/ stack' = Append(Below, frame) /\ value' = <<Leaf("Ellipsis", c)>> /\ UNCHANGED depth /\ Step(c + 1, {})
        \/ Call(tail, Expr(0), c + 1, {})
        \/ Call(Top, Expr(0), c, {})
    BY <1>5 DEF ParseList, Running, Resumed
  <2>2. /\ frame.fn = "tail" /\ frame.kids = Top.kids
        /\ tail.fn = "tail" /\ tail.kids = kids
    BY <1>3 DEF Frame
  <2>3. KidsNest(Powers, kids)
    BY <1>2, <1>4, MoreKids
  <2> HIDE DEF c, kids, frame, tail
  <2>4. CASE stack' = Append(Below, frame) /\ value' = <<Leaf("Ellipsis", c)>> /\ UNCHANGED depth /\ Step(c + 1, {})
    <3>1. FrameNests(Powers, frame) /\ Alike(frame, Top)
      BY <1>2, <2>2 DEF FrameNests, Alike, Climbs, Climbing
    <3>2. Takes(Powers, frame, Leaf("Ellipsis", c), cursor')
      BY <2>2 DEF Takes
    <3> QED
      BY <1>1, <1>4, <2>4, <3>1, <3>2, LeavesNests DEF InPlain, Step
  <2>5. CASE Call(tail, Expr(0), c + 1, {})
    <3>1. tail.fn \notin Climbing /\ tail.fn # "prefixed" /\ KidsNest(Powers, tail.kids)
      BY <2>2, <2>3 DEF Climbing
    <3> QED
      BY <1>1, <2>5, <3>1, CallsExpr
  <2> QED
    BY <1>1, <1>2, <2>1, <2>4, <2>5, ReturnsNode, GotosSame, CallsExpr
<1>6. CASE Resumed("list")
  <2>1. Goto([Top EXCEPT !.kids = Keep(Top.kids, Result)], SkipSeparators(cursor), {})
    BY <1>6 DEF ParseList, Running, Resumed
  <2>2. KidsNest(Powers, Keep(Top.kids, Result))
    BY <1>1, <1>6, KeptKids DEF InPlain, Resumed
  <2> QED
    BY <1>1, <2>1, <2>2, GotosKids
<1>7. CASE Resumed("tail")
  <2> DEFINE kids == Keep(Top.kids, Result)
             list == [Top EXCEPT !.fn = "list", !.kids = kids]
  <2>1. PICK c, errors : Goto(list, c, errors)
    BY <1>7 DEF ParseList, Running, Resumed
  <2>2. KidsNest(Powers, kids)
    BY <1>1, <1>7, KeptKids DEF InPlain, Resumed
  <2>3. list.fn = "list" /\ list.kids = kids
    BY <1>3 DEF Frame
  <2> HIDE DEF kids, list
  <2>4. list.fn \notin Climbing
    BY <2>3 DEF Climbing
  <2> QED
    BY <1>1, <2>1, <2>2, <2>3, <2>4, GotosFrame
<1> QED
  BY <1>5, <1>6, <1>7 DEF ParseList

LEMMA ComprehensionNests ==
    ASSUME ParserInv, NestInv, ParseComprehension
    PROVE  NestInv'
<1>1. InPlain
  BY InPlainFunction DEF ParseComprehension, Running, Climbing
<1>2. PICK bp : Goto(Frame("clauses", 0, <<>>, bp), cursor, {})
  BY DEF ParseComprehension
<1>3. "clauses" \notin Climbing
  BY DEF Climbing
<1> QED
  BY <1>1, <1>2, <1>3, NoKids, GotosNew

LEMMA JoinedKids ==
    ASSUME NEW powers, NEW a, NEW b, KidsNest(powers, a), KidsNest(powers, b)
    PROVE  KidsNest(powers, a \o b)
<1> DEFINE T == {a[i] : i \in 1 .. Len(a)} \union {b[i] : i \in 1 .. Len(b)}
<1>1. a \in Seq(T) /\ b \in Seq(T)
  BY SequenceIsSeq DEF KidsNest
<1>2. \A x \in T : Nests(powers, x)
  BY DEF KidsNest
<1> HIDE DEF T
<1>3. a \o b \in Seq(T)
  BY <1>1
<1> DEFINE both == a \o b
<1> HIDE DEF both
<1>4. both \in Seq(T)
  BY <1>3 DEF both
<1>5. IsSequence(both) /\ \A i \in 1 .. Len(both) : both[i] \in T
  BY <1>4, SeqIsSequence, LenProperties
<1>6. KidsNest(powers, both)
  BY <1>2, <1>5 DEF KidsNest
<1> QED
  BY <1>6 DEF both

LEMMA BindingsNest ==
    ASSUME NEW c
    PROVE  KidsNest(Powers, Bindings(c))
<1>1. "Binding" \notin {"Binary", "Prefix"}
  OBVIOUS
<1> QED
  BY <1>1, NoKids, LeafNests, OneKid DEF Bindings

LEMMA ClauseNests ==
    ASSUME ParserInv, NestInv, ParseClause
    PROVE  NestInv'
<1>1. InPlain /\ Top.fn = "clauses"
  BY InPlainFunction DEF ParseClause, Running, Resumed, Climbing
<1>2. KidsNest(Powers, Top.kids) /\ Top = Frame("clauses", Top.at, Top.kids, Top.bp)
  BY <1>1, InFunction DEF InPlain, FrameOK
<1>3. "For" \notin {"Binary", "Prefix"} /\ "If" \notin {"Binary", "Prefix"}
  OBVIOUS
<1>4. ASSUME NEW kids, KidsNest(Powers, kids), NEW c, NEW errors,
             Call([Top EXCEPT !.kids = kids], Expr(0), c, errors)
      PROVE  NestInv'
  <2> DEFINE frame == [Top EXCEPT !.kids = kids]
  <2>1. frame.fn = "clauses" /\ frame.kids = kids
    BY <1>2 DEF Frame
  <2>2. Call(frame, Expr(0), c, errors)
    BY <1>4
  <2> HIDE DEF frame
  <2>3. frame.fn \notin Climbing /\ frame.fn # "prefixed"
    BY <2>1 DEF Climbing
  <2> QED
    BY <1>1, <1>4, <2>1, <2>2, <2>3, CallsExpr
<1>5. CASE Running("clauses") /\ AtKeyword("for", cursor)
  <2> DEFINE first == cursor + 1
             afterFirst == After("Identifier", first)
             two == At("Comma", afterFirst)
             second == IF two THEN Bindings(afterFirst + 1) ELSE <<>>
             kids == Top.kids \o <<Leaf("For", cursor)>> \o Bindings(first) \o second
  <2>1. PICK c, errors : Call([Top EXCEPT !.kids = kids], Expr(0), c, errors)
    <3>1. ~Resumed("clauses") /\ ~AtKeyword("if", cursor)
      BY <1>5 DEF Running, Resumed, AtKeyword, AtText
    <3> QED
      BY <1>5, <3>1 DEF ParseClause
  <2>2. KidsNest(Powers, second) /\ KidsNest(Powers, Bindings(first))
    BY BindingsNest, NoKids
  <2>3. KidsNest(Powers, <<Leaf("For", cursor)>>)
    BY <1>3, LeafNests, OneKid
  <2> HIDE DEF second, first
  <2>4. KidsNest(Powers, Top.kids \o <<Leaf("For", cursor)>>)
    BY <1>2, <2>3, JoinedKids
  <2>5. KidsNest(Powers, Top.kids \o <<Leaf("For", cursor)>> \o Bindings(first))
    BY <2>2, <2>4, JoinedKids
  <2>6. KidsNest(Powers, kids)
    BY <2>2, <2>5, JoinedKids
  <2> HIDE DEF kids
  <2> QED
    BY <1>4, <2>1, <2>6
<1>6. CASE Running("clauses") /\ AtKeyword("if", cursor)
  <2> DEFINE kids == Append(Top.kids, Leaf("If", cursor))
  <2>1. Call([Top EXCEPT !.kids = kids], Expr(0), cursor + 1, {})
    <3>1. ~Resumed("clauses") /\ ~AtKeyword("for", cursor)
      BY <1>6 DEF Running, Resumed, AtKeyword, AtText
    <3> QED
      BY <1>6, <3>1 DEF ParseClause
  <2>2. KidsNest(Powers, kids)
    BY <1>2, <1>3, LeafNests, MoreKids
  <2> HIDE DEF kids
  <2> QED
    BY <1>4, <2>1, <2>2
<1>7. CASE Resumed("clauses")
  <2>1. Goto([Top EXCEPT !.kids = Append(Top.kids, Result)], cursor, {})
    BY <1>7 DEF ParseClause, Running, Resumed
  <2>2. KidsNest(Powers, Append(Top.kids, Result))
    BY <1>1, <1>7, MoreKids DEF InPlain, Resumed
  <2> QED
    BY <1>1, <2>1, <2>2, GotosKids
<1> QED
  BY <1>5, <1>6, <1>7 DEF ParseClause

LEMMA BodyNests ==
    ASSUME ParserInv, NestInv, ParseBody
    PROVE  NestInv'
<1>1. InPlain
  BY InPlainFunction DEF ParseBody, Running, Climbing
<1>2. KidsNest(Powers, Top.kids) /\ Top = Frame(Top.fn, Top.at, Top.kids, Top.bp)
  BY <1>1, InFunction DEF InPlain, FrameOK
<1> DEFINE body == [Top EXCEPT !.fn = "body"]
           expr == [Top EXCEPT !.fn = "expr_body"]
<1>3. PICK c, errors : \/ Goto(body, c, errors)
                       \/ Return(Node("Comprehension", 0, Top.kids), c, errors)
                       \/ Call(expr, Expr(0), c, errors)
  BY DEF ParseBody
<1>4. body.fn = "body" /\ body.kids = Top.kids /\ expr.fn = "expr_body" /\ expr.kids = Top.kids
  BY <1>2 DEF Frame
<1> HIDE DEF body, expr
<1>5. /\ body.fn \notin Climbing /\ KidsNest(Powers, body.kids)
      /\ expr.fn \notin Climbing /\ expr.fn # "prefixed" /\ KidsNest(Powers, expr.kids)
      /\ "Comprehension" \notin {"Binary", "Prefix"}
  BY <1>2, <1>4 DEF Climbing
<1> QED
  BY <1>1, <1>2, <1>3, <1>5, GotosFrame, ReturnsNode, CallsExpr

LEMMA FinishBodyNests ==
    ASSUME ParserInv, NestInv, FinishBody
    PROVE  NestInv'
<1>1. InPlain /\ value # <<>>
  BY InPlainFunction DEF FinishBody, Resumed, Climbing
<1>2. PICK c, errors : Return(Node("Comprehension", 0, Append(Top.kids, Result)), c, errors)
  BY DEF FinishBody
<1>3. KidsNest(Powers, Append(Top.kids, Result)) /\ "Comprehension" \notin {"Binary", "Prefix"}
  BY <1>1, MoreKids DEF InPlain
<1> QED
  BY <1>1, <1>2, <1>3, ReturnsNode

LEMMA NestStarts == Init => NestInv
<1> SUFFICES ASSUME Init PROVE NestInv
  OBVIOUS
<1> DEFINE frame == Enter("package")
<1>1. frame.fn = "package" /\ frame.kids = <<>>
  BY DEF Enter, Frame
<1>2. stack = <<frame>> /\ value = <<>>
  BY DEF Init
<1> HIDE DEF frame
<1>3. FrameNests(Powers, frame)
  BY <1>1, NoKids DEF FrameNests
<1>4. FramesNest(Powers, stack)
  BY <1>2, <1>3 DEF FramesNest
<1> QED
  BY <1>2, <1>4 DEF NestInv, ValueNests

LEMMA NestSteps == ParserInv /\ NestInv /\ [Next]_vars => NestInv'
<1> SUFFICES ASSUME ParserInv, NestInv, [Next]_vars PROVE NestInv'
  OBVIOUS
<1>1. CASE UNCHANGED vars
  <2>1. /\ tokens' = tokens /\ cursor' = cursor /\ stack' = stack /\ value' = value
    BY <1>1 DEF vars
  <2>2. FramesNest(Powers, stack') /\ ValueNests(Powers, stack', value', cursor')
    BY <2>1 DEF NestInv
  <2> QED
    BY <2>1, <2>2, NestConcludes
<1>2. CASE Finished
  BY <1>1, <1>2 DEF Finished
<1>3. CASE ParsePackage \/ ParseFile \/ KeepDecl \/ ParseImports \/ ParseImportList
  BY <1>3, PackageNests, FileNests, KeepDeclNests, ImportsNests, ImportListNests
<1>4. CASE ParseDecl \/ ParseLet \/ ParseField \/ ParseLabel \/ ParseFieldHead \/ FinishField
  BY <1>4, DeclNests, LetNests, FieldNests, LabelNests, FieldHeadNests, FinishFieldNests
<1>5. CASE ParseExpr \/ ParseOperators \/ FinishBinary \/ ParseCall \/ ParseIndexOrSlice
  BY <1>5, ExprNests, LoopNests, BinaryNests, CallLoopNests, IndexNests
<1>6. CASE ParsePrefix \/ ParsePrimary \/ ParseGroup \/ ParseStruct \/ ParseList
  BY <1>6, PrefixNests, PrimaryNests, GroupNests, StructNests, ListNests
<1>7. CASE ParseComprehension \/ ParseClause \/ ParseBody \/ FinishBody
  BY <1>7, ComprehensionNests, ClauseNests, BodyNests, FinishBodyNests
<1> QED
  BY <1>1, <1>2, <1>3, <1>4, <1>5, <1>6, <1>7 DEF Next

(* For every text, the faulty ones included: infix operators nest by their *)
(* powers, those of one power to the left, and a prefix operator takes no  *)
(* infix expression (OperatorsNest).                                       *)
THEOREM OperatorsNestByPower == Spec => []OperatorsNest
<1>1. ParserInv /\ NestInv => OperatorsNest
  <2> SUFFICES ASSUME ParserInv, NestInv, Done, NEW node \in NodesOf(Result)
               PROVE  /\ node.op = "Binary" => /\ Power(node.kids[1]) >= Power(node)
                                               /\ Power(node.kids[2]) > Power(node)
                      /\ node.op = "Prefix" => node.kids[1].op # "Binary"
    BY DEF OperatorsNest
  <2>1. Nests(Powers, Result)
    BY DEF ParserInv, ValueOK, NestInv, ValueNests, Done, Result
  <2>2. NestsHere(Powers, node)
    <3> DEFINE n == 2 * Len(tokens)
    <3>1. n \in Nat
      BY Indices DEF ParserInv
    <3>2. PICK k \in 0 .. n : node \in Levels(Result, n)[k]
      BY DEF NodesOf
    <3> HIDE DEF n
    <3> QED
      BY <2>1, <3>1, <3>2 DEF Nests
  <2>3. ASSUME NEW x, Placed(Powers, x)
        PROVE  PowerIn(Powers, x) = Power(x)
    BY <2>3, PowersRange DEF Placed, PowerIn, Power, Powers
  <2> QED
    BY <2>2, <2>3 DEF NestsHere
<1> QED
  BY <1>1, Starts, Steps, NestStarts, NestSteps, PTL DEF Spec
=============================================================================
