------------------------- MODULE StructScopesProofs -------------------------
(***************************************************************************)
(* Theorems about structs, comprehensions and local scopes, for every      *)
(* program, every value of the options and every meaning of the values.    *)
(*                                                                         *)
(* StackOK says of each frame what it holds and on which frame it may      *)
(* stand, and ControlOK which frames wait for what the evaluator does      *)
(* next: a value that is returned finds the frame that asked for it, in    *)
(* the state in which it asked.  ClausesOK and ResultsOK find the          *)
(* comprehension that a clause belongs to and keep its results within the  *)
(* limit.  TypeOK is their consequence.  SingleEvaluation needs no more    *)
(* of them than that frames keep their kind and their vertex.              *)
(***************************************************************************)
EXTENDS StructScopes, StackLemmas

----------------------------------------------------------------------------
(* The fields of a frame of each kind, and the values they take.           *)
FrameFields(kind) ==
    {"kind"} \union
    CASE kind = "root" -> {"next", "values"}
      [] kind = "vertex" -> {"vertex", "depth", "next", "value"}
      [] kind = "operand" -> {"right", "left", "second", "depth"}
      [] kind = "struct" -> {"members", "depth", "next", "values", "local_values"}
      [] kind = "comprehension" -> {"clauses", "body", "results"}
      [] kind \in {"condition", "source"} -> {"index", "depth"}
      [] kind = "loop" -> {"index", "depth", "variable", "item", "items"}
      [] OTHER -> {}

Kinds == {"root", "vertex", "operand", "struct", "comprehension", "condition", "source", "loop", "body"}

AreMembers(members) ==
    /\ Len(members) \in Nat
    /\ DOMAIN members = 1 .. Len(members)
    /\ \A i \in 1 .. Len(members) :
           /\ IsMember(members[i])
           /\ MemberParts(members[i]) \subseteq Expressions

AreClauses(clauses) ==
    /\ Len(clauses) \in Nat
    /\ \A i \in 1 .. Len(clauses) :
           clauses[i].clause \in {"for", "if"} /\ ClauseExpression(clauses[i]) \in Expressions

FrameOK(frame) ==
    /\ frame.kind \in Kinds
    /\ DOMAIN frame = FrameFields(frame.kind)
    /\ frame.kind = "root" => frame.next \in 1 .. Len(program.arcs) + 1
    /\ frame.kind = "vertex" =>
           /\ frame.vertex \in DOMAIN program.conjuncts
           /\ frame.next \in 1 .. Len(program.conjuncts[frame.vertex]) + 1
    /\ frame.kind = "operand" => frame.second \in BOOLEAN /\ frame.right \in Expressions
    /\ frame.kind = "struct" =>
           /\ AreMembers(frame.members)
           /\ frame.next \in 1 .. Len(frame.members) + 1
           /\ DOMAIN frame.local_values \subseteq DOMAIN frame.values \intersect Names(frame.members)
    /\ frame.kind = "comprehension" =>
           /\ AreClauses(frame.clauses)
           /\ frame.body \in Expressions
           /\ IsSequence(frame.results)
    /\ frame.kind \in {"condition", "source", "loop"} => frame.index \in Nat \ {0}
    /\ frame.kind = "loop" => Len(frame.items) \in Nat /\ frame.item \in 0 .. Len(frame.items)

(* A frame that waits for the value of what it had evaluated, or for the   *)
(* end of a clause, and what stands on it meanwhile.                       *)
Awaits(frame) ==
    \/ frame.kind \in {"operand", "condition", "source", "body"}
    \/ frame.kind = "root" /\ frame.next <= Len(program.arcs)
    \/ frame.kind = "vertex" /\ frame.next <= Len(program.conjuncts[frame.vertex])
    \/ /\ frame.kind = "struct"
       /\ frame.next <= Len(frame.members)
       /\ frame.members[frame.next].member = "field"

Generates(frame) ==
    /\ frame.kind = "struct"
    /\ frame.next <= Len(frame.members)
    /\ frame.members[frame.next].member = "comprehension"

Iterates(frame) == frame.kind \in {"comprehension", "loop"}

StandsOn(frame, below) ==
    \/ frame.kind \in {"vertex", "operand", "struct"} /\ Awaits(below)
    \/ frame.kind = "comprehension" /\ Generates(below)
    \/ frame.kind \in {"condition", "source", "loop", "body"} /\ Iterates(below)

StackOK ==
    /\ IsSequence(stack)
    /\ Height > 0
    /\ stack[1].kind = "root"
    /\ \A i \in 1 .. Height : FrameOK(stack[i])
    /\ \A i \in 2 .. Height : StandsOn(stack[i], stack[i - 1])

ControlFor(next, frame) ==
    \/ next.op = "stop"
    \/ next.op \in {"vertex", "return"} /\ Awaits(frame)
    \/ next.op = "evaluate" /\ Awaits(frame) /\ next.expression \in Expressions
    \/ next.op = "clause" /\ Iterates(frame) /\ next.index \in Nat \ {0}
    \/ next.op \in {"continue", "halt"} /\ Iterates(frame)
    \/ next.op = "go_on" /\ frame.kind \in {"root", "vertex", "struct"}

ControlOK == ControlFor(control, Current)

(* The comprehension a clause in progress belongs to: between the two are  *)
(* only loops.  The limit is kept by the results of a comprehension until  *)
(* it halts, and there is room for the item whose body is in progress.     *)
BelongsTo(j, i) ==
    stack[i].kind = "comprehension" /\ \A k \in i + 1 .. j - 1 : stack[k].kind = "loop"

ClausesOK ==
    \A j \in 1 .. Height :
        stack[j].kind \in {"condition", "source", "loop", "body"} => \E i \in 1 .. j - 1 : BelongsTo(j, i)

ResultsOK ==
    \A i \in 1 .. Height :
        stack[i].kind = "comprehension" =>
            /\ Len(stack[i].results) <= MaxGeneratedItems + 1
            /\ Len(stack[i].results) > MaxGeneratedItems =>
                   control.op = "halt" /\ BelongsTo(Height + 1, i)
            /\ \A j \in i + 1 .. Height :
                   stack[j].kind = "body" /\ BelongsTo(j, i) => Len(stack[i].results) < MaxGeneratedItems

EvaluatedOK ==
    /\ program \in Programs
    /\ program.errors # {} => control.op = "stop"
    /\ DOMAIN vertex_cache \subseteq DOMAIN program.conjuncts

ShapeOK == StackOK /\ ClausesOK /\ ResultsOK

ScopesInv == ShapeOK /\ ControlOK /\ EvaluatedOK

(* Every vertex frame after the step was one before it. *)
VerticesKept ==
    \A i \in 1 .. Height' :
        stack'[i].kind = "vertex" =>
            i <= Height /\ stack[i].kind = "vertex" /\ stack'[i].vertex = stack[i].vertex

----------------------------------------------------------------------------
LEMMA CurrentOK ==
    ASSUME StackOK
    PROVE  /\ Height \in Nat
           /\ Height \in 1 .. Height
           /\ Height > 0
           /\ FrameOK(Current)
           /\ Height > 1 => StandsOn(Current, stack[Height - 1]) /\ FrameOK(stack[Height - 1])
           /\ Height = 1 <=> Current.kind = "root"
<1>1. Height \in Nat /\ Height > 0 /\ Height \in 1 .. Height
  BY DEF StackOK, IsSequence, Height
<1>2. FrameOK(Current)
  BY <1>1 DEF StackOK, Current
<1>3. ASSUME Height > 1
      PROVE  StandsOn(Current, stack[Height - 1]) /\ FrameOK(stack[Height - 1])
  <2>1. Height \in 2 .. Height /\ Height - 1 \in 1 .. Height
    BY <1>1, <1>3
  <2> QED
    BY <2>1 DEF StackOK, Current
<1>4. Height = 1 <=> Current.kind = "root"
  <2>1. Height = 1 => Current.kind = "root"
    BY DEF StackOK, Current
  <2>2. Height > 1 => Current.kind # "root"
    BY <1>3 DEF StandsOn
  <2> QED
    BY <1>1, <2>1, <2>2
<1> QED
  BY <1>1, <1>2, <1>3, <1>4

(* Whom a clause belongs to depends on the frames below it. *)
LEMMA SameKinds ==
    ASSUME NEW n \in Nat, \A i \in 1 .. n : stack'[i].kind = stack[i].kind
    PROVE  \A i \in 1 .. n, j \in 1 .. n + 1 : BelongsTo(j, i)' <=> BelongsTo(j, i)
<1> SUFFICES ASSUME NEW i \in 1 .. n, NEW j \in 1 .. n + 1
             PROVE  BelongsTo(j, i)' <=> BelongsTo(j, i)
  OBVIOUS
<1>1. \A k \in i + 1 .. j - 1 : k \in 1 .. n
  OBVIOUS
<1> QED
  BY <1>1 DEF BelongsTo

(* A clause that may begin at a place of the stack belongs to a            *)
(* comprehension below it.                                                 *)
LEMMA Owner ==
    ASSUME ShapeOK, NEW n \in 1 .. Height, Iterates(stack[n])
    PROVE  \E i \in 1 .. n : BelongsTo(n + 1, i)
<1>1. Height \in Nat /\ n \in Nat
  BY CurrentOK DEF ShapeOK
<1>2. CASE stack[n].kind = "comprehension"
  BY <1>1, <1>2 DEF BelongsTo
<1>3. CASE stack[n].kind = "loop"
  <2>1. PICK i \in 1 .. n - 1 : BelongsTo(n, i)
    BY <1>1, <1>3 DEF ShapeOK, ClausesOK
  <2>2. \A k \in i + 1 .. n : k \in i + 1 .. n - 1 \/ k = n
    BY <1>1
  <2>3. BelongsTo(n + 1, i)
    BY <1>1, <1>3, <2>1, <2>2 DEF BelongsTo
  <2> QED
    BY <1>1, <2>1, <2>3
<1> QED
  BY <1>2, <1>3 DEF Iterates

(* The comprehension that a place of the stack belongs to is the topmost   *)
(* one below it.                                                           *)
LEMMA OwnerIsTopmost ==
    ASSUME ShapeOK, NEW n \in 1 .. Height, NEW i \in 1 .. n, BelongsTo(n + 1, i)
    PROVE  /\ \A j \in i + 1 .. n : stack[j].kind # "comprehension"
           /\ \A j \in 1 .. n : BelongsTo(n + 1, j) => j = i
<1>1. \A j \in i + 1 .. n : stack[j].kind = "loop"
  BY CurrentOK DEF ShapeOK, BelongsTo
<1>2. ASSUME NEW j \in 1 .. n, BelongsTo(n + 1, j)
      PROVE  j = i
  <2>1. \A k \in j + 1 .. n : stack[k].kind = "loop"
    BY <1>2, CurrentOK DEF ShapeOK, BelongsTo
  <2>2. ~(j > i)
    BY <1>1, <1>2, CurrentOK DEF ShapeOK, BelongsTo
  <2>3. ~(i > j)
    BY <2>1, CurrentOK DEF ShapeOK, BelongsTo
  <2> QED
    BY <2>2, <2>3, CurrentOK DEF ShapeOK
<1> QED
  BY <1>1, <1>2

(* While nothing halts, every comprehension is within its limit. *)
LEMMA WithinLimit ==
    ASSUME ShapeOK, NEW i \in 1 .. Height, stack[i].kind = "comprehension",
           control.op = "halt" => ~BelongsTo(Height + 1, i)
    PROVE  Len(stack[i].results) \in 0 .. MaxGeneratedItems
  BY LimitAssumption DEF ShapeOK, StackOK, ResultsOK, FrameOK, IsSequence

----------------------------------------------------------------------------
(* How a step changes the stack: it leaves it, or it puts a frame on its   *)
(* first m frames, whatever was above them, or it keeps a result.          *)
LEMMA StaysShape ==
    ASSUME ShapeOK, UNCHANGED <<program, stack>>, control.op # "halt"
    PROVE  ShapeOK' /\ Height' = Height /\ Current' = Current /\ VerticesKept
<1>1. StackOK'
  BY DEF ShapeOK, StackOK, FrameOK, StandsOn, Awaits, Generates, Iterates, Height
<1>2. ClausesOK'
  BY DEF ShapeOK, ClausesOK, BelongsTo, Height
<1>3. ResultsOK'
  BY DEF ShapeOK, ResultsOK, BelongsTo, Height
<1>4. VerticesKept
  BY CurrentOK DEF VerticesKept, ShapeOK, Height
<1> QED
  BY <1>1, <1>2, <1>3, <1>4 DEF ShapeOK, Height, Current

ClauseKinds == {"condition", "source", "loop", "body"}

(* No comprehension holds more than the limit, unless it has just halted. *)
LimitsOK ==
    \A i \in 1 .. Height :
        stack[i].kind = "comprehension" =>
            /\ Len(stack[i].results) <= MaxGeneratedItems + 1
            /\ Len(stack[i].results) > MaxGeneratedItems =>
                   control.op = "halt" /\ BelongsTo(Height + 1, i)

LEMMA TopShape ==
    ASSUME ShapeOK, UNCHANGED program, NEW m \in 0 .. Height, NEW frame,
           IsSequence(stack'), Height' = m + 1,
           \A i \in 1 .. m : stack'[i] = stack[i], stack'[m + 1] = frame,
           FrameOK(frame),
           IF m = 0 THEN frame.kind = "root" ELSE StandsOn(frame, stack[m]),
           frame.kind = "body" =>
               \A i \in 1 .. m : BelongsTo(m + 1, i) => Len(stack[i].results) < MaxGeneratedItems,
           LimitsOK'
    PROVE  ShapeOK'
<1>1. Height \in Nat /\ m \in Nat /\ \A i \in 1 .. m : i \in 1 .. Height
  BY CurrentOK DEF ShapeOK
<1>2. \A i \in 1 .. m + 1 : i \in 1 .. m \/ i = m + 1
  BY <1>1
<1>4. StackOK'
  <2>1. \A i \in 1 .. Height' : FrameOK(stack[i])'
    <3>1. \A i \in 1 .. m : FrameOK(stack[i])'
      BY <1>1 DEF ShapeOK, StackOK, FrameOK
    <3>2. \A i : i = m + 1 => FrameOK(stack[i])'
      BY DEF FrameOK
    <3> QED
      BY <1>2, <3>1, <3>2
  <2>2. \A i \in 2 .. Height' : StandsOn(stack[i], stack[i - 1])'
    <3>1. \A i \in 2 .. m : i \in 1 .. m /\ i - 1 \in 1 .. m /\ i \in 2 .. Height
      BY <1>1
    <3>2. ASSUME NEW i \in 2 .. m
          PROVE  StandsOn(stack[i], stack[i - 1])'
      <4>1. stack'[i] = stack[i] /\ stack'[i - 1] = stack[i - 1]
        BY <3>1, <3>2
      <4>2. StandsOn(stack[i], stack[i - 1])
        BY <3>1, <3>2 DEF ShapeOK, StackOK
      <4> QED
        BY <4>1, <4>2 DEF StandsOn, Awaits, Generates, Iterates
    <3>3. m > 0 => \A i : i = m + 1 => stack'[i] = frame /\ stack'[i - 1] = stack[m]
      BY <1>1
    <3>4. m > 0 => \A i : i = m + 1 => StandsOn(stack[i], stack[i - 1])'
      BY <1>1, <3>3 DEF StandsOn, Awaits, Generates, Iterates
    <3>5. \A i \in 2 .. Height' : i \in 2 .. m \/ (i = m + 1 /\ m > 0)
      BY <1>1
    <3> QED
      BY <3>2, <3>4, <3>5
  <2>3. stack'[1].kind = "root"
    <3>1. CASE m = 0
      BY <3>1
    <3>2. CASE m > 0
      <4>1. 1 \in 1 .. m
        BY <1>1, <3>2
      <4> QED
        BY <4>1 DEF ShapeOK, StackOK
    <3> QED
      BY <1>1, <3>1, <3>2
  <2> QED
    BY <1>1, <2>1, <2>2, <2>3 DEF StackOK
<1>5. \A i \in 1 .. m, j \in 1 .. m + 1 : BelongsTo(j, i)' <=> BelongsTo(j, i)
  BY <1>1, SameKinds
<1>6. ClausesOK'
  <2>1. \A j \in 1 .. m :
            stack[j].kind \in ClauseKinds => \E i \in 1 .. j - 1 : BelongsTo(j, i)'
    <3> TAKE j \in 1 .. m
    <3>1. \A i \in 1 .. j - 1 : i \in 1 .. m /\ j \in 1 .. m + 1
      BY <1>1
    <3> QED
      BY <1>1, <1>5, <3>1 DEF ShapeOK, ClausesOK, ClauseKinds
  <2>2. frame.kind \in ClauseKinds => \E i \in 1 .. m : BelongsTo(m + 1, i)
    <3> SUFFICES ASSUME frame.kind \in ClauseKinds
                 PROVE  \E i \in 1 .. m : BelongsTo(m + 1, i)
      OBVIOUS
    <3>1. m \in 1 .. Height /\ Iterates(stack[m])
      BY <1>1 DEF StandsOn, ClauseKinds
    <3> QED
      BY <3>1, Owner
  <2>3. \A j : j = m + 1 /\ frame.kind \in ClauseKinds => \E i \in 1 .. j - 1 : BelongsTo(j, i)'
    <3>1. m + 1 - 1 = m /\ m + 1 \in 1 .. m + 1
      BY <1>1
    <3> QED
      BY <1>5, <2>2, <3>1
  <2> QED
    BY <1>2, <2>1, <2>3 DEF ClausesOK, ClauseKinds
<1>7. ResultsOK'
  <2>1. ASSUME NEW i \in 1 .. m + 1, stack'[i].kind = "comprehension",
               NEW j \in i + 1 .. m + 1, stack'[j].kind = "body", BelongsTo(j, i)'
        PROVE  Len(stack'[i].results) < MaxGeneratedItems
    <3>1. i \in 1 .. m /\ j \in 1 .. m + 1 /\ BelongsTo(j, i)
      BY <1>1, <1>5, <2>1
    <3>2. CASE j = m + 1
      BY <2>1, <3>1, <3>2
    <3>3. CASE j \in 1 .. m
      <4>1. i \in 1 .. Height /\ j \in i + 1 .. Height
        BY <1>1, <3>3, <3>1, <2>1
      <4> QED
        BY <2>1, <3>1, <3>3, <4>1 DEF ShapeOK, ResultsOK
    <3> QED
      BY <1>2, <3>1, <3>2, <3>3
  <2> QED
    BY <2>1 DEF LimitsOK, ResultsOK
<1> QED
  BY <1>4, <1>6, <1>7 DEF ShapeOK

LEMMA PushShape ==
    ASSUME ShapeOK, UNCHANGED program, NEW frame, FrameOK(frame), StandsOn(frame, Current),
           Push(frame), control.op # "halt",
           frame.kind = "comprehension" => frame.results = <<>>,
           frame.kind = "body" =>
               \A i \in 1 .. Height :
                   BelongsTo(Height + 1, i) => Len(stack[i].results) < MaxGeneratedItems
    PROVE  /\ ShapeOK'
           /\ Height' = Height + 1
           /\ Current' = frame
           /\ \A i \in 1 .. Height : stack'[i] = stack[i]
           /\ stack'[Height + 1] = frame
           /\ frame.kind # "vertex" => VerticesKept
<1>1. Height \in Nat /\ Height \in 0 .. Height /\ Height > 0
  BY CurrentOK DEF ShapeOK
<1>2. /\ IsSequence(stack')
      /\ Height' = Height + 1
      /\ \A i \in 1 .. Height : stack'[i] = stack[i]
      /\ stack'[Height + 1] = frame
  BY PushFrame DEF Push, ShapeOK, StackOK, Height
<1>3. LimitsOK'
  <2>1. \A i \in 1 .. Height :
            stack'[i].kind = "comprehension" => Len(stack'[i].results) \in 0 .. MaxGeneratedItems
    BY <1>2, WithinLimit, LimitAssumption
  <2>2. frame.kind = "comprehension" => Len(frame.results) \in 0 .. MaxGeneratedItems
    BY LimitAssumption
  <2>3. \A i \in 1 .. Height' : i \in 1 .. Height \/ i = Height + 1
    BY <1>1, <1>2
  <2>4. \A i \in 1 .. Height' :
            stack'[i].kind = "comprehension" => Len(stack'[i].results) \in 0 .. MaxGeneratedItems
    BY <1>2, <2>1, <2>2, <2>3
  <2> QED
    BY <2>4, LimitAssumption DEF LimitsOK
<1>4. ShapeOK'
  BY <1>1, <1>2, <1>3, TopShape DEF Current
<1>5. frame.kind # "vertex" => VerticesKept
  BY <1>1, <1>2 DEF VerticesKept
<1> QED
  BY <1>2, <1>4, <1>5 DEF Current

LEMMA SetShape ==
    ASSUME ShapeOK, UNCHANGED program, NEW frame, FrameOK(frame), SetCurrent(frame),
           control.op # "halt",
           IF Height = 1 THEN frame.kind = "root" ELSE StandsOn(frame, stack[Height - 1]),
           frame.kind \notin {"comprehension", "body"},
           frame.kind = "vertex" => Current.kind = "vertex" /\ frame.vertex = Current.vertex
    PROVE  /\ ShapeOK'
           /\ Height' = Height
           /\ Current' = frame
           /\ \A i \in 1 .. Height - 1 : stack'[i] = stack[i]
           /\ stack'[Height] = frame
           /\ VerticesKept
<1>1. Height \in Nat /\ Height - 1 \in 0 .. Height /\ Height > 0 /\ Height = Height - 1 + 1
  BY CurrentOK DEF ShapeOK
<1>2. /\ IsSequence(stack')
      /\ Height' = Height
      /\ \A i \in 1 .. Height - 1 : stack'[i] = stack[i]
      /\ stack'[Height] = frame
  <2>1. \A i \in 1 .. Height - 1 : i \in 1 .. Height /\ i # Height
    BY <1>1
  <2>2. /\ IsSequence(stack')
        /\ Height' = Height
        /\ \A i \in 1 .. Height : stack'[i] = IF i = Height THEN frame ELSE stack[i]
    BY <1>1, ReplaceFrame DEF SetCurrent, ShapeOK, StackOK, Height, IsSequence
  <2> QED
    BY <1>1, <2>1, <2>2
<1>3. LimitsOK'
  <2>1. \A i \in 1 .. Height - 1 : i \in 1 .. Height
    BY <1>1
  <2>2. \A i \in 1 .. Height - 1 :
            stack'[i].kind = "comprehension" => Len(stack'[i].results) \in 0 .. MaxGeneratedItems
    BY <1>2, <2>1, WithinLimit, LimitAssumption
  <2>3. \A i \in 1 .. Height' : i \in 1 .. Height - 1 \/ i = Height
    BY <1>1, <1>2
  <2>4. \A i \in 1 .. Height' :
            stack'[i].kind = "comprehension" => Len(stack'[i].results) \in 0 .. MaxGeneratedItems
    BY <1>2, <2>2, <2>3
  <2> QED
    BY <2>4, LimitAssumption DEF LimitsOK
<1>4. ShapeOK'
  <2>1. Height - 1 = 0 <=> Height = 1
    BY <1>1
  <2> DEFINE m == Height - 1
  <2>2. /\ m \in 0 .. Height /\ Height' = m + 1 /\ stack'[m + 1] = frame
        /\ \A i \in 1 .. m : stack'[i] = stack[i]
        /\ IF m = 0 THEN frame.kind = "root" ELSE StandsOn(frame, stack[m])
    BY <1>1, <1>2, <2>1
  <2> HIDE DEF m
  <2> QED
    BY <1>2, <1>3, <2>2, TopShape
<1>5. VerticesKept
  <2>1. \A i \in 1 .. Height : i \in 1 .. Height - 1 \/ i = Height
    BY <1>1
  <2> QED
    BY <1>1, <1>2, <2>1 DEF VerticesKept, Current
<1> QED
  BY <1>2, <1>4, <1>5 DEF Current

LEMMA PopShape ==
    ASSUME ShapeOK, UNCHANGED program, Height > 1, Pop,
           control.op = "halt" => control'.op = "halt" /\ Current.kind # "comprehension"
    PROVE  /\ ShapeOK'
           /\ Height' = Height - 1
           /\ Current' = stack[Height - 1]
           /\ \A i \in 1 .. Height - 1 : stack'[i] = stack[i]
           /\ VerticesKept
<1>0. Height \in Nat
  BY CurrentOK DEF ShapeOK
<1>1. PICK m \in 0 .. Height : m + 1 = Height - 1 /\ m + 1 \in 1 .. Height
  <2>1. Height - 2 \in 0 .. Height /\ Height - 2 + 1 = Height - 1 /\ Height - 2 + 1 \in 1 .. Height
    BY <1>0
  <2> QED
    BY <2>1
<1> DEFINE frame == stack[m + 1]
<1>2. /\ IsSequence(stack')
      /\ Height' = m + 1
      /\ \A i \in 1 .. m + 1 : stack'[i] = stack[i]
  BY <1>0, <1>1, DropFrame DEF Pop, ShapeOK, StackOK, Height
<1>3. FrameOK(frame)
  BY <1>0, <1>1 DEF ShapeOK, StackOK
<1>4. IF m = 0 THEN frame.kind = "root" ELSE StandsOn(frame, stack[m])
  <2>1. m # 0 => m + 1 \in 2 .. Height /\ m + 1 - 1 = m
    BY <1>0, <1>1
  <2>2. m # 0 => StandsOn(stack[m + 1], stack[m + 1 - 1])
    BY <2>1 DEF ShapeOK, StackOK
  <2> QED
    BY <2>1, <2>2 DEF ShapeOK, StackOK
<1>5. frame.kind = "body" =>
          \A i \in 1 .. m : BelongsTo(m + 1, i) => Len(stack[i].results) < MaxGeneratedItems
  <2>1. \A i \in 1 .. m : m + 1 \in i + 1 .. Height /\ i \in 1 .. Height
    BY <1>0, <1>1
  <2> QED
    BY <2>1 DEF ShapeOK, ResultsOK, BelongsTo
<1>6. \A i \in 1 .. m + 1 : i \in 1 .. Height /\ stack'[i] = stack[i]
  BY <1>0, <1>1, <1>2
<1>7. LimitsOK'
  <2>1. CASE control.op # "halt"
    <3>1. \A i \in 1 .. Height' :
              stack'[i].kind = "comprehension" => Len(stack'[i].results) \in 0 .. MaxGeneratedItems
      BY <1>2, <1>6, <2>1, WithinLimit, LimitAssumption
    <3> QED
      BY <3>1, LimitAssumption DEF LimitsOK
  <2>2. CASE control.op = "halt"
    <3>0. \A i : BelongsTo(Height + 1, i)' <=> BelongsTo(m + 2, i)'
      <4>1. Height' + 1 = m + 2
        BY <1>0, <1>1, <1>2
      <4> QED
        BY <4>1 DEF BelongsTo
    <3> SUFFICES ASSUME NEW i \in 1 .. m + 1, stack[i].kind = "comprehension"
                 PROVE  /\ Len(stack[i].results) <= MaxGeneratedItems + 1
                        /\ Len(stack[i].results) > MaxGeneratedItems => BelongsTo(m + 2, i)'
      BY <1>2, <1>6, <2>2, <3>0 DEF LimitsOK
    <3>1. /\ Len(stack[i].results) <= MaxGeneratedItems + 1
          /\ Len(stack[i].results) > MaxGeneratedItems => BelongsTo(Height + 1, i)
      BY <1>6 DEF ShapeOK, ResultsOK
    <3>2. BelongsTo(Height + 1, i) => BelongsTo(m + 2, i)
      BY <1>0, <1>1 DEF BelongsTo
    <3>3. BelongsTo(m + 2, i)' <=> BelongsTo(m + 2, i)
      <4>1. m + 1 \in Nat /\ m + 2 \in 1 .. (m + 1) + 1 /\ i \in 1 .. m + 1
        BY <1>0, <1>1
      <4>2. \A k \in 1 .. m + 1 : stack'[k].kind = stack[k].kind
        BY <1>6
      <4> QED
        BY <4>1, <4>2, SameKinds
    <3> QED
      BY <3>1, <3>2, <3>3
  <2> QED
    BY <2>1, <2>2
<1>8. ShapeOK'
  <2>1. \A i \in 1 .. m : i \in 1 .. m + 1
    BY <1>0, <1>1
  <2>2. (\A i \in 1 .. m : stack'[i] = stack[i]) /\ stack'[m + 1] = frame
    BY <1>0, <1>1, <1>6, <2>1
  <2> HIDE DEF frame
  <2> QED
    BY <1>0, <1>1, <1>2, <1>3, <1>4, <1>5, <1>7, <2>2, TopShape
<1>9. VerticesKept
  BY <1>0, <1>1, <1>2, <1>6 DEF VerticesKept
<1> QED
  BY <1>0, <1>1, <1>2, <1>8, <1>9 DEF Current

(* Keep gives a result to the comprehension that a place belongs to. *)
LEMMA KeepResult ==
    ASSUME ShapeOK, NEW n \in 1 .. Height, NEW t \in 1 .. n, BelongsTo(n + 1, t),
           NEW frames, IsSequence(frames), Len(frames) = n,
           \A i \in 1 .. n : frames[i] = stack[i],
           NEW result
    PROVE  Keep(frames, result) = [frames EXCEPT ![t].results = Append(@, result)]
<1>1. n \in Nat /\ Height \in Nat /\ DOMAIN frames = 1 .. n
  BY CurrentOK DEF ShapeOK, IsSequence
<1> DEFINE IsTop(i) == /\ frames[i].kind = "comprehension"
                       /\ \A j \in i + 1 .. Len(frames) : frames[j].kind # "comprehension"
<1>2. \A i \in 1 .. n : BelongsTo(n + 1, i) => i = t
  BY OwnerIsTopmost
<1>3. \A j \in t + 1 .. n : stack[j].kind # "comprehension"
  BY OwnerIsTopmost
<1>4. IsTop(t)
  BY <1>1, <1>3 DEF BelongsTo
<1>5. \A i \in DOMAIN frames : IsTop(i) => i = t
  <2> SUFFICES ASSUME NEW i \in 1 .. n, IsTop(i)
               PROVE  i = t
    BY <1>1
  <2>1. ~(i < t)
    BY <1>1, <1>4
  <2>2. ~(t < i)
    BY <1>1, <1>4
  <2> QED
    BY <1>1, <2>1, <2>2
<1>6. (CHOOSE i \in DOMAIN frames : IsTop(i)) = t
  <2> HIDE DEF IsTop
  <2> QED
    BY <1>1, <1>4, <1>5
<1> QED
  BY <1>6 DEF Keep

(* A result is kept by the first n frames, the last of which a clause      *)
(* stands on: the comprehension has room for it, or it halts.              *)
LEMMA KeepShape ==
    ASSUME ShapeOK, UNCHANGED program, NEW n \in 1 .. Height, Iterates(stack[n]),
           NEW frames, IsSequence(frames), Len(frames) = n,
           \A i \in 1 .. n : frames[i] = stack[i],
           NEW result, stack' = Keep(frames, result),
           control.op # "halt",
           \/ control'.op = "halt"
           \/ \A i \in 1 .. n : BelongsTo(n + 1, i) => Len(stack[i].results) < MaxGeneratedItems
    PROVE  /\ ShapeOK'
           /\ Height' = n
           /\ Current'.kind = stack[n].kind
           /\ \A i \in 1 .. n : stack[i].kind # "comprehension" => stack'[i] = stack[i]
           /\ VerticesKept
<1>1. n \in Nat /\ Height \in Nat /\ DOMAIN frames = 1 .. n
      /\ \A i \in 1 .. n : i \in 1 .. Height
  BY CurrentOK DEF ShapeOK, IsSequence
<1>2. PICK t \in 1 .. n : BelongsTo(n + 1, t)
  BY Owner
<1> DEFINE kept == [stack[t] EXCEPT !.results = Append(@, result)]
<1>3. /\ FrameOK(stack[t])
      /\ stack[t].kind = "comprehension"
      /\ Len(stack[t].results) \in 0 .. MaxGeneratedItems
  BY <1>1, <1>2, WithinLimit DEF ShapeOK, StackOK, BelongsTo
<1>4. /\ FrameOK(kept)
      /\ kept.kind = "comprehension"
      /\ Len(kept.results) = Len(stack[t].results) + 1
      /\ kept.clauses = stack[t].clauses
  <2>1. DOMAIN stack[t] = FrameFields("comprehension")
    BY <1>3 DEF FrameOK
  <2>2. /\ DOMAIN kept = FrameFields("comprehension")
        /\ kept.kind = "comprehension"
        /\ kept.clauses = stack[t].clauses
        /\ kept.body = stack[t].body
        /\ kept.results = Append(stack[t].results, result)
    BY <1>3, <2>1 DEF FrameFields
  <2>3. IsSequence(stack[t].results)
    BY <1>3 DEF FrameOK
  <2> HIDE DEF kept
  <2> QED
    BY <1>3, <2>2, <2>3, PushFrame DEF FrameOK, Kinds
<1>5. /\ IsSequence(stack')
      /\ Height' = n
      /\ \A i \in 1 .. n : stack'[i] = IF i = t THEN kept ELSE stack[i]
  <2>1. stack' = [frames EXCEPT ![t].results = Append(@, result)]
    BY <1>2, KeepResult
  <2>2. stack' = [frames EXCEPT ![t] = kept]
    BY <1>1, <2>1
  <2> HIDE DEF kept
  <2>3. t \in 1 .. Len(frames)
    BY <1>1
  <2>4. IsSequence([frames EXCEPT ![t] = kept]) /\ Len([frames EXCEPT ![t] = kept]) = Len(frames)
    BY <2>3, ReplaceElement
  <2>5. \A i \in 1 .. Len(frames) : [frames EXCEPT ![t] = kept][i] = IF i = t THEN kept ELSE frames[i]
    BY <2>3, ReplaceElement
  <2>6. IsSequence(stack') /\ Len(stack') = Len(frames)
    BY <2>2, <2>4, Zenon
  <2>7. \A i \in 1 .. Len(frames) : stack'[i] = IF i = t THEN kept ELSE frames[i]
    BY <2>2, <2>5
  <2> QED
    BY <1>1, <2>6, <2>7 DEF Height
<1>6. \A i \in 1 .. n : stack'[i].kind = stack[i].kind
  BY <1>3, <1>4, <1>5
<1>7. StackOK'
  <2>1. \A i \in 1 .. n : FrameOK(stack'[i])
    BY <1>1, <1>4, <1>5 DEF ShapeOK, StackOK
  <2>2. ASSUME NEW i \in 2 .. n
        PROVE  StandsOn(stack'[i], stack'[i - 1])
    <3>1. i \in 1 .. n /\ i - 1 \in 1 .. n /\ i \in 2 .. Height
      BY <1>1
    <3>2. StandsOn(stack[i], stack[i - 1])
      BY <3>1 DEF ShapeOK, StackOK
    <3>3. stack'[i].kind = stack[i].kind /\ stack'[i - 1].kind = stack[i - 1].kind
      BY <1>6, <3>1
    <3>4. stack'[i - 1] = stack[i - 1] \/ stack[i - 1].kind = "comprehension"
      BY <1>3, <1>5, <3>1
    <3> QED
      BY <3>2, <3>3, <3>4 DEF StandsOn, Awaits, Generates, Iterates
  <2>3. 1 \in 1 .. n /\ stack'[1].kind = "root"
    BY <1>1, <1>6 DEF ShapeOK, StackOK
  <2>4. \A i \in 1 .. n : FrameOK(stack[i])'
    BY <2>1 DEF FrameOK
  <2>5. \A i \in 2 .. n : StandsOn(stack[i], stack[i - 1])'
    BY <2>2 DEF StandsOn, Awaits, Generates, Iterates
  <2> QED
    BY <1>1, <1>5, <2>3, <2>4, <2>5 DEF StackOK
<1>8. \A i \in 1 .. n, j \in 1 .. n + 1 : BelongsTo(j, i)' <=> BelongsTo(j, i)
  BY <1>1, <1>6, SameKinds
<1>9. ClausesOK'
  <2> SUFFICES ASSUME NEW j \in 1 .. n, stack[j].kind \in ClauseKinds
               PROVE  \E i \in 1 .. j - 1 : BelongsTo(j, i)'
    BY <1>5, <1>6 DEF ClausesOK, ClauseKinds
  <2>1. PICK i \in 1 .. j - 1 : BelongsTo(j, i)
    BY <1>1 DEF ShapeOK, ClausesOK, ClauseKinds
  <2>2. i \in 1 .. n /\ j \in 1 .. n + 1
    BY <1>1
  <2> QED
    BY <1>8, <2>1, <2>2
<1>10. ResultsOK'
  <2>1. ASSUME NEW i \in 1 .. n, stack[i].kind = "comprehension", i # t
        PROVE  /\ Len(stack'[i].results) \in 0 .. MaxGeneratedItems
               /\ \A j \in i + 1 .. n :
                      stack'[j].kind = "body" /\ BelongsTo(j, i)' => Len(stack'[i].results) < MaxGeneratedItems
    <3>1. stack'[i] = stack[i] /\ i \in 1 .. Height /\ stack[i].kind = "comprehension"
      BY <1>1, <1>5, <2>1
    <3>2. Len(stack[i].results) \in 0 .. MaxGeneratedItems
      BY <3>1, WithinLimit
    <3>3. ASSUME NEW j \in i + 1 .. n, stack'[j].kind = "body", BelongsTo(j, i)'
          PROVE  Len(stack[i].results) < MaxGeneratedItems
      <4>1. j \in i + 1 .. Height /\ j \in 1 .. n /\ j \in 1 .. n + 1
        BY <1>1
      <4>2. stack[j].kind = "body" /\ BelongsTo(j, i)
        BY <1>6, <1>8, <3>3, <4>1
      <4> QED
        BY <3>1, <4>1, <4>2 DEF ShapeOK, ResultsOK
    <3> QED
      BY <3>1, <3>2, <3>3
  <2>2. \A j \in t + 1 .. n : stack'[j].kind = "loop"
    <3>1. \A j \in t + 1 .. n : j \in 1 .. n
      BY <1>1
    <3> QED
      BY <1>1, <1>2, <1>6, <3>1 DEF BelongsTo
  <2>3. /\ Len(stack'[t].results) <= MaxGeneratedItems + 1
        /\ Len(stack'[t].results) > MaxGeneratedItems => control'.op = "halt"
    <3>1. Len(stack'[t].results) = Len(stack[t].results) + 1
      BY <1>4, <1>5
    <3>2. control'.op = "halt" \/ Len(stack[t].results) < MaxGeneratedItems
      BY <1>2
    <3> QED
      BY <1>3, <3>1, <3>2, LimitAssumption
  <2>4. BelongsTo(n + 1, t)'
    BY <1>1, <1>2, <1>8
  <2>5. \A i : BelongsTo(Height + 1, i)' <=> BelongsTo(n + 1, i)'
    BY <1>5 DEF BelongsTo
  <2>6. ASSUME NEW i \in 1 .. n, stack'[i].kind = "comprehension"
        PROVE  /\ Len(stack'[i].results) <= MaxGeneratedItems + 1
               /\ Len(stack'[i].results) > MaxGeneratedItems =>
                      control'.op = "halt" /\ BelongsTo(Height + 1, i)'
               /\ \A j \in i + 1 .. n :
                      stack'[j].kind = "body" /\ BelongsTo(j, i)' => Len(stack'[i].results) < MaxGeneratedItems
    <3>1. CASE i = t
      <4>1. \A j \in i + 1 .. n : stack'[j].kind # "body"
        BY <2>2, <3>1
      <4> QED
        BY <2>3, <2>4, <2>5, <3>1, <4>1
    <3>2. CASE i # t
      BY <1>6, <2>1, <2>6, <3>2, LimitAssumption
    <3> QED
      BY <3>1, <3>2
  <2> QED
    BY <1>5, <2>6 DEF ResultsOK
<1>11. \A i \in 1 .. n : stack[i].kind # "comprehension" => stack'[i] = stack[i]
  BY <1>3, <1>5
<1>12. VerticesKept
  BY <1>1, <1>5, <1>6, <1>11 DEF VerticesKept
<1>13. Current'.kind = stack[n].kind
  BY <1>1, <1>5, <1>6 DEF Current
<1> QED
  BY <1>5, <1>6, <1>7, <1>9, <1>10, <1>11, <1>12, <1>13 DEF ShapeOK

----------------------------------------------------------------------------
(* The steps, but those that begin and end the evaluation of a vertex,     *)
(* preserve the invariant and neither touch vertex_cache nor the vertices  *)
(* in progress.                                                            *)
KeepsInv == ScopesInv' /\ VerticesKept /\ UNCHANGED vertex_cache

LEMMA StepInv ==
    ASSUME ScopesInv, control.op # "stop", UNCHANGED <<program, vertex_cache>>,
           ShapeOK', ControlFor(control', Current')
    PROVE  ScopesInv'
<1>1. ControlOK'
  BY DEF ControlOK, ControlFor, Awaits, Iterates
<1>2. EvaluatedOK'
  BY DEF ScopesInv, EvaluatedOK
<1> QED
  BY <1>1, <1>2 DEF ScopesInv

LEMMA StaysInv ==
    ASSUME ScopesInv, control.op \notin {"stop", "halt"}, UNCHANGED <<program, vertex_cache, stack>>,
           ControlFor(control', Current)
    PROVE  KeepsInv
<1>1. ShapeOK' /\ Current' = Current /\ VerticesKept
  BY StaysShape DEF ScopesInv
<1> QED
  BY <1>1, StepInv DEF KeepsInv

(* What is evaluated next is one of the expressions. *)
LEMMA PartsHeld ==
    ASSUME NEW e \in Expressions
    PROVE  /\ Parts(e) \subseteq Expressions
           /\ e.op = "struct" => AreMembers(e.members)
<1>1. Parts(e) \subseteq Expressions
  BY ExpressionsAssumption DEF HoldsParts
<1>2. ASSUME e.op = "struct"
      PROVE  AreMembers(e.members)
  <2>1. /\ Len(e.members) \in Nat
        /\ DOMAIN e.members = 1 .. Len(e.members)
        /\ \A i \in 1 .. Len(e.members) : IsMember(e.members[i])
    BY <1>2, ExpressionsAssumption DEF HoldsParts
  <2>2. Parts(e) = UNION {MemberParts(e.members[i]) : i \in 1 .. Len(e.members)}
    BY <1>2 DEF Parts
  <2>3. \A i \in 1 .. Len(e.members) : MemberParts(e.members[i]) \subseteq Expressions
    BY <1>1, <2>2
  <2> QED
    BY <2>1, <2>3 DEF AreMembers
<1> QED
  BY <1>1, <1>2

LEMMA ConjunctsHeld ==
    ASSUME EvaluatedOK, control.op # "stop",
           NEW v \in DOMAIN program.conjuncts, NEW i \in 1 .. Len(program.conjuncts[v])
    PROVE  program.conjuncts[v][i] \in Expressions
<1>1. program \in {q \in Programs : q.errors = {}}
  BY DEF EvaluatedOK
<1>2. program.conjuncts[v][i] \in Conjuncts(Programs)
  BY <1>1 DEF Conjuncts
<1> QED
  BY <1>2, ProgramsAssumption DEF ArePrograms

LEMMA RootSteps ==
    ASSUME ScopesInv, EvaluateArc \/ MergeArc \/ Finish
    PROVE  KeepsInv
<1>1. ASSUME EvaluateArc
      PROVE  KeepsInv
  BY <1>1, StaysInv DEF EvaluateArc, GoesOn, CallVertex, ControlFor, Awaits
<1>2. ASSUME MergeArc
      PROVE  KeepsInv
  <2> DEFINE frame == [Current EXCEPT !.next = @ + 1,
                           !.values = Put(@, program.arcs[Current.next], control.value)]
  <2>1. /\ control.op = "return" /\ Current.kind = "root"
        /\ SetCurrent(frame) /\ control' = GoOn /\ UNCHANGED <<program, vertex_cache>>
    BY <1>2 DEF MergeArc, Receives
  <2>2. FrameOK(Current) /\ (Height = 1 <=> Current.kind = "root")
    BY CurrentOK DEF ScopesInv, ShapeOK
  <2>3. Current.next \in 1 .. Len(program.arcs)
    BY <2>1, <2>2, ProgramsAssumption
       DEF ScopesInv, ControlOK, ControlFor, Awaits, FrameOK, EvaluatedOK, ArePrograms
  <2>4. DOMAIN Current = {"kind", "next", "values"}
    BY <2>1, <2>2 DEF FrameOK, FrameFields
  <2>5. DOMAIN frame = {"kind", "next", "values"} /\ frame.kind = "root" /\ frame.next = Current.next + 1
    BY <2>1, <2>4
  <2> HIDE DEF frame
  <2>6. FrameOK(frame)
    BY <2>3, <2>5, <2>1, ProgramsAssumption DEF FrameOK, FrameFields, Kinds, ScopesInv, EvaluatedOK, ArePrograms
  <2>7. ShapeOK' /\ Current' = frame /\ VerticesKept
    BY <2>1, <2>2, <2>5, <2>6, SetShape DEF ScopesInv
  <2> QED
    BY <2>1, <2>5, <2>7, StepInv DEF KeepsInv, ControlFor, GoOn
<1>3. ASSUME Finish
      PROVE  KeepsInv
  BY <1>3, StaysInv DEF Finish, GoesOn, Stop, ControlFor
<1> QED
  BY <1>1, <1>2, <1>3

LEMMA VertexCalls ==
    ASSUME ScopesInv, ReturnCached \/ ReturnPlaceholder \/ VertexTooDeep
    PROVE  KeepsInv
<1>1. /\ control.op = "vertex"
      /\ UNCHANGED <<program, vertex_cache, stack>>
      /\ control'.op = "return"
  BY DEF ReturnCached, ReturnPlaceholder, VertexTooDeep, Calls, Return
<1>2. Awaits(Current)
  BY <1>1 DEF ScopesInv, ControlOK, ControlFor
<1> QED
  BY <1>1, <1>2, StaysInv DEF ControlFor

(* A value is found without another step. *)
LEMMA FoundValues ==
    ASSUME ScopesInv,
           \/ ExpressionTooDeep \/ EvaluateLiteral \/ EvaluateBinding
           \/ ReferToLocalValue \/ ReferToFieldInProgress \/ ReferToMissing
    PROVE  KeepsInv
<1>1. /\ control.op = "evaluate"
      /\ UNCHANGED <<program, vertex_cache, stack>>
      /\ control'.op = "return"
  BY DEF ExpressionTooDeep, EvaluateLiteral, EvaluateBinding, ReferToLocalValue,
         ReferToFieldInProgress, ReferToMissing, RefersTo, Evaluates, Return
<1>2. Awaits(Current)
  BY <1>1 DEF ScopesInv, ControlOK, ControlFor
<1> QED
  BY <1>1, <1>2, StaysInv DEF ControlFor

(* A top-level field is evaluated, one expression after the other. *)
LEMMA VertexSteps ==
    ASSUME ScopesInv, EvaluateConjunct \/ UnifyConjunct
    PROVE  KeepsInv
<1>0. FrameOK(Current) /\ (Height = 1 <=> Current.kind = "root")
      /\ (Height > 1 => StandsOn(Current, stack[Height - 1])) /\ Height \in Nat /\ Height > 0
  BY CurrentOK DEF ScopesInv, ShapeOK
<1>1. ASSUME EvaluateConjunct
      PROVE  KeepsInv
  <2>1. /\ control.op = "go_on" /\ Current.kind = "vertex" /\ UNCHANGED <<program, vertex_cache, stack>>
        /\ Current.next <= Len(program.conjuncts[Current.vertex])
        /\ control'.op = "evaluate"
        /\ control'.expression = program.conjuncts[Current.vertex][Current.next]
    BY <1>1 DEF EvaluateConjunct, GoesOn, EvaluateAt
  <2>2. /\ Current.vertex \in DOMAIN program.conjuncts
        /\ Current.next \in 1 .. Len(program.conjuncts[Current.vertex])
    <3>1. /\ Current.vertex \in DOMAIN program.conjuncts
          /\ Current.next \in 1 .. Len(program.conjuncts[Current.vertex]) + 1
      BY <1>0, <2>1 DEF FrameOK
    <3>2. Len(program.conjuncts[Current.vertex]) \in Nat
      BY <3>1, ProgramsAssumption DEF ScopesInv, EvaluatedOK, ArePrograms
    <3> QED
      BY <2>1, <3>1, <3>2
  <2>3. control'.expression \in Expressions
    BY <2>1, <2>2, ConjunctsHeld DEF ScopesInv
  <2> QED
    BY <2>1, <2>3, StaysInv DEF ControlFor, Awaits
<1>2. ASSUME UnifyConjunct
      PROVE  KeepsInv
  <2> DEFINE frame == [Current EXCEPT !.next = @ + 1, !.value = Unify(@, control.value)]
  <2>1. /\ control.op = "return" /\ Current.kind = "vertex"
        /\ SetCurrent(frame) /\ control' = GoOn /\ UNCHANGED <<program, vertex_cache>>
    BY <1>2 DEF UnifyConjunct, Receives
  <2>2. /\ Current.vertex \in DOMAIN program.conjuncts
        /\ Current.next \in 1 .. Len(program.conjuncts[Current.vertex])
        /\ Len(program.conjuncts[Current.vertex]) \in Nat
    BY <1>0, <2>1, ProgramsAssumption
       DEF ScopesInv, ControlOK, ControlFor, Awaits, FrameOK, EvaluatedOK, ArePrograms
  <2>3. DOMAIN Current = {"kind", "vertex", "depth", "next", "value"}
    BY <1>0, <2>1 DEF FrameOK, FrameFields
  <2>4. /\ DOMAIN frame = {"kind", "vertex", "depth", "next", "value"}
        /\ frame.kind = "vertex" /\ frame.vertex = Current.vertex /\ frame.next = Current.next + 1
    BY <2>1, <2>3
  <2> HIDE DEF frame
  <2>5. FrameOK(frame)
    BY <2>2, <2>4 DEF FrameOK, FrameFields, Kinds
  <2>6. Height # 1 /\ StandsOn(frame, stack[Height - 1])
    BY <1>0, <2>1, <2>4 DEF StandsOn
  <2>7. ShapeOK' /\ Current' = frame /\ VerticesKept
    BY <2>1, <2>4, <2>5, <2>6, SetShape DEF ScopesInv
  <2> QED
    BY <2>1, <2>4, <2>7, StepInv DEF KeepsInv, ControlFor, GoOn
<1> QED
  BY <1>1, <1>2

LEMMA LetSteps ==
    ASSUME ScopesInv, EvaluateLet
    PROVE  KeepsInv
<1>1. /\ control.op = "evaluate" /\ control.expression.op = "let"
      /\ UNCHANGED <<program, vertex_cache, stack>>
      /\ control'.op = "evaluate"
      /\ control'.expression = control.expression.expression
  BY DEF EvaluateLet, Evaluates, EvaluateAt
<1>2. Awaits(Current) /\ control.expression \in Expressions
  BY <1>1 DEF ScopesInv, ControlOK, ControlFor
<1>3. control'.expression \in Expressions
  <2>1. Parts(control.expression) = {control.expression.expression}
    BY <1>1 DEF Parts
  <2> QED
    BY <1>1, <1>2, <2>1, PartsHeld
<1> QED
  BY <1>1, <1>2, <1>3, StaysInv DEF ControlFor

LEMMA OperandSteps ==
    ASSUME ScopesInv, EnterOperand \/ SecondOperand \/ LeaveOperand
    PROVE  KeepsInv
<1>0. FrameOK(Current) /\ (Height = 1 <=> Current.kind = "root")
      /\ (Height > 1 => StandsOn(Current, stack[Height - 1])) /\ Height \in Nat /\ Height > 0
  BY CurrentOK DEF ScopesInv, ShapeOK
<1>1. ASSUME EnterOperand
      PROVE  KeepsInv
  <2> DEFINE frame == [kind |-> "operand", right |-> control.expression.right, left |-> Top,
                       second |-> FALSE, depth |-> control.depth + 1]
  <2>1. /\ control.op = "evaluate" /\ control.expression.op = "and"
        /\ Push(frame) /\ UNCHANGED <<program, vertex_cache>>
        /\ control'.op = "evaluate" /\ control'.expression = control.expression.left
    BY <1>1 DEF EnterOperand, Evaluates, EvaluateAt
  <2>2. Awaits(Current) /\ control.expression \in Expressions
    BY <2>1 DEF ScopesInv, ControlOK, ControlFor
  <2>3. control.expression.left \in Expressions /\ control.expression.right \in Expressions
    <3>1. Parts(control.expression) = {control.expression.left, control.expression.right}
      BY <2>1 DEF Parts
    <3> QED
      BY <2>2, <3>1, PartsHeld
  <2>4. FrameOK(frame)
    BY <2>3 DEF FrameOK, FrameFields, Kinds
  <2>5. frame.kind = "operand" /\ StandsOn(frame, Current)
    BY <2>2 DEF StandsOn
  <2> HIDE DEF frame
  <2>6. ShapeOK' /\ Current' = frame /\ VerticesKept
    BY <2>1, <2>4, <2>5, PushShape DEF ScopesInv
  <2> QED
    BY <2>1, <2>3, <2>5, <2>6, StepInv DEF KeepsInv, ControlFor, Awaits
<1>2. ASSUME SecondOperand
      PROVE  KeepsInv
  <2> DEFINE frame == [Current EXCEPT !.left = control.value, !.second = TRUE]
  <2>1. /\ control.op = "return" /\ Current.kind = "operand"
        /\ SetCurrent(frame) /\ UNCHANGED <<program, vertex_cache>>
        /\ control'.op = "evaluate" /\ control'.expression = Current.right
    BY <1>2 DEF SecondOperand, Receives, EvaluateAt
  <2>2. DOMAIN Current = {"kind", "right", "left", "second", "depth"} /\ Current.right \in Expressions
    BY <1>0, <2>1 DEF FrameOK, FrameFields
  <2>3. /\ DOMAIN frame = {"kind", "right", "left", "second", "depth"}
        /\ frame.kind = "operand" /\ frame.right = Current.right /\ frame.second = TRUE
    BY <2>1, <2>2
  <2> HIDE DEF frame
  <2>4. FrameOK(frame)
    BY <2>2, <2>3 DEF FrameOK, FrameFields, Kinds
  <2>5. Height # 1 /\ StandsOn(frame, stack[Height - 1])
    BY <1>0, <2>1, <2>3 DEF StandsOn
  <2>6. ShapeOK' /\ Current' = frame /\ VerticesKept
    BY <2>1, <2>3, <2>4, <2>5, SetShape DEF ScopesInv
  <2> QED
    BY <2>1, <2>2, <2>3, <2>6, StepInv DEF KeepsInv, ControlFor, Awaits
<1>3. ASSUME LeaveOperand
      PROVE  KeepsInv
  <2>1. /\ control.op = "return" /\ Current.kind = "operand" /\ Pop
        /\ UNCHANGED <<program, vertex_cache>> /\ control'.op = "return"
    BY <1>3 DEF LeaveOperand, Receives, Return
  <2>2. Height > 1 /\ Awaits(stack[Height - 1])
    BY <1>0, <2>1 DEF StandsOn
  <2>3. ShapeOK' /\ Current' = stack[Height - 1] /\ VerticesKept
    BY <2>1, <2>2, PopShape DEF ScopesInv
  <2> QED
    BY <2>1, <2>2, <2>3, StepInv DEF KeepsInv, ControlFor
<1> QED
  BY <1>1, <1>2, <1>3

(* What MergeMember and FinishComprehension make of a struct's frame. *)
LEMMA StructFrame ==
    ASSUME FrameOK(Current), Current.kind = "struct"
    PROVE  /\ DOMAIN Current = {"kind", "members", "depth", "next", "values", "local_values"}
           /\ AreMembers(Current.members)
           /\ Len(Current.members) \in Nat
           /\ Current.next \in 1 .. Len(Current.members) + 1
           /\ DOMAIN Current.local_values \subseteq DOMAIN Current.values \intersect Names(Current.members)
  BY DEF FrameOK, FrameFields, AreMembers

LEMMA StructSteps ==
    ASSUME ScopesInv, EnterStruct \/ EvaluateMember \/ MergeMember \/ FinishStruct
    PROVE  KeepsInv
<1>0. FrameOK(Current) /\ (Height = 1 <=> Current.kind = "root")
      /\ (Height > 1 => StandsOn(Current, stack[Height - 1])) /\ Height \in Nat /\ Height > 0
  BY CurrentOK DEF ScopesInv, ShapeOK
<1>1. ASSUME EnterStruct
      PROVE  KeepsInv
  <2> DEFINE frame == [kind |-> "struct", members |-> control.expression.members,
                       depth |-> control.depth + 1, next |-> 1, values |-> EmptyMap,
                       local_values |-> EmptyMap]
  <2>1. /\ control.op = "evaluate" /\ control.expression.op = "struct"
        /\ Push(frame) /\ UNCHANGED <<program, vertex_cache>> /\ control'.op = "go_on"
    BY <1>1 DEF EnterStruct, Evaluates, GoOn
  <2>2. Awaits(Current) /\ control.expression \in Expressions
    BY <2>1 DEF ScopesInv, ControlOK, ControlFor
  <2>3. AreMembers(control.expression.members)
    BY <2>1, <2>2, PartsHeld
  <2>4. /\ frame.kind = "struct" /\ frame.members = control.expression.members /\ frame.next = 1
        /\ frame.values = EmptyMap /\ frame.local_values = EmptyMap
        /\ DOMAIN frame = {"kind", "members", "depth", "next", "values", "local_values"}
    OBVIOUS
  <2>5. DOMAIN EmptyMap = {}
    BY DEF EmptyMap
  <2> HIDE DEF frame
  <2>6. FrameOK(frame)
    BY <2>3, <2>4, <2>5 DEF FrameOK, FrameFields, Kinds, AreMembers
  <2>7. StandsOn(frame, Current)
    BY <2>2, <2>4 DEF StandsOn
  <2>8. ShapeOK' /\ Current' = frame /\ VerticesKept
    BY <2>1, <2>4, <2>6, <2>7, PushShape DEF ScopesInv
  <2> QED
    BY <2>1, <2>4, <2>8, StepInv DEF KeepsInv, ControlFor
<1>2. ASSUME EvaluateMember
      PROVE  KeepsInv
  <2>1. /\ control.op = "go_on" /\ Current.kind = "struct"
        /\ Current.next <= Len(Current.members)
        /\ Current.members[Current.next].member = "field"
        /\ UNCHANGED <<program, vertex_cache, stack>>
        /\ control'.op = "evaluate"
        /\ control'.expression = Current.members[Current.next].expression
    BY <1>2 DEF EvaluateMember, AtMember, GoesOn, EvaluateAt
  <2>2. Current.next \in 1 .. Len(Current.members) /\ AreMembers(Current.members)
    BY <1>0, <2>1, StructFrame
  <2>3. MemberParts(Current.members[Current.next]) = {Current.members[Current.next].expression}
    BY <2>1 DEF MemberParts, IsField
  <2>4. control'.expression \in Expressions
    BY <2>1, <2>2, <2>3 DEF AreMembers
  <2> QED
    BY <2>1, <2>4, StaysInv DEF ControlFor, Awaits
<1>3. ASSUME MergeMember
      PROVE  KeepsInv
  <2> DEFINE name == Current.members[Current.next].name
             values == MergeFields(Current.values, [n \in {name} |-> control.value])
             frame == [Current EXCEPT !.next = NextMember(@), !.values = values,
                                      !.local_values = Put(@, name, values[name])]
  <2>1. /\ control.op = "return" /\ Current.kind = "struct"
        /\ SetCurrent(frame) /\ control' = GoOn /\ UNCHANGED <<program, vertex_cache>>
    BY <1>3 DEF MergeMember, Receives
  <2>2. /\ Current.next <= Len(Current.members)
        /\ Current.members[Current.next].member = "field"
    BY <2>1 DEF ScopesInv, ControlOK, ControlFor, Awaits
  <2>3. /\ DOMAIN Current = {"kind", "members", "depth", "next", "values", "local_values"}
        /\ AreMembers(Current.members)
        /\ Len(Current.members) \in Nat
        /\ Current.next \in 1 .. Len(Current.members)
        /\ DOMAIN Current.local_values \subseteq DOMAIN Current.values \intersect Names(Current.members)
    BY <1>0, <2>1, <2>2, StructFrame
  <2>4. name \in Names(Current.members)
    BY <2>2, <2>3 DEF Names, IsField, AreMembers
  <2>5. DOMAIN values = DOMAIN Current.values \union {name}
    BY DEF MergeFields
  <2>6. DOMAIN Put(Current.local_values, name, values[name]) = DOMAIN Current.local_values \union {name}
    BY DEF Put
  <2>7. /\ DOMAIN frame = {"kind", "members", "depth", "next", "values", "local_values"}
        /\ frame.kind = "struct" /\ frame.members = Current.members
        /\ frame.next = Current.next + 1 /\ frame.values = values
        /\ frame.local_values = Put(Current.local_values, name, values[name])
    BY <2>1, <2>3 DEF NextMember
  <2> HIDE DEF frame, values, name
  <2>8. FrameOK(frame)
    BY <2>3, <2>4, <2>5, <2>6, <2>7 DEF FrameOK, FrameFields, Kinds
  <2>9. Height # 1 /\ StandsOn(frame, stack[Height - 1])
    BY <1>0, <2>1, <2>7 DEF StandsOn
  <2>10. ShapeOK' /\ Current' = frame /\ VerticesKept
    BY <2>1, <2>7, <2>8, <2>9, SetShape DEF ScopesInv
  <2> QED
    BY <2>1, <2>7, <2>10, StepInv DEF KeepsInv, ControlFor, GoOn
<1>4. ASSUME FinishStruct
      PROVE  KeepsInv
  <2>1. /\ control.op = "go_on" /\ Current.kind = "struct" /\ Pop
        /\ UNCHANGED <<program, vertex_cache>> /\ control'.op = "return"
    BY <1>4 DEF FinishStruct, GoesOn, Return
  <2>2. Height > 1 /\ Awaits(stack[Height - 1])
    BY <1>0, <2>1 DEF StandsOn
  <2>3. ShapeOK' /\ Current' = stack[Height - 1] /\ VerticesKept
    BY <2>1, <2>2, PopShape DEF ScopesInv
  <2> QED
    BY <2>1, <2>2, <2>3, StepInv DEF KeepsInv, ControlFor
<1> QED
  BY <1>1, <1>2, <1>3, <1>4

(* References go on at one of the expressions, or at a vertex. *)
LEMMA ReferenceSteps ==
    ASSUME ScopesInv, ReferToSibling \/ ReferToVertex
    PROVE  KeepsInv
<1>0. Height \in Nat
  BY CurrentOK DEF ScopesInv, ShapeOK
<1>1. ASSUME ReferToSibling
      PROVE  KeepsInv
  <2>1. PICK name \in LocalNames :
            /\ control.op = "evaluate"
            /\ UNCHANGED <<program, vertex_cache, stack>>
            /\ control'.op = "evaluate"
            /\ control'.expression = LocalField(stack[InnermostScope(name)].members, name)
    BY <1>1 DEF ReferToSibling, RefersTo, Evaluates, EvaluateAt
  <2>2. InnermostScope(name) \in DeclaringScopes(name)
    <3>1. DeclaringScopes(name) \in SUBSET (1 .. Height) /\ DeclaringScopes(name) # {}
      BY DEF DeclaringScopes, FramesOf, LocalNames
    <3>2. \E i \in DeclaringScopes(name) : \A j \in DeclaringScopes(name) : i >= j
      BY <1>0, <3>1, LastIndex
    <3> QED
      BY <3>2 DEF InnermostScope, Topmost
  <2> DEFINE scope == InnermostScope(name)
             members == stack[scope].members
  <2>3. AreMembers(members) /\ name \in Names(members)
    BY <2>2 DEF DeclaringScopes, FramesOf, ScopesInv, ShapeOK, StackOK, FrameOK
  <2> HIDE DEF scope
  <2>4. LocalField(members, name) \in Expressions
    <3> HIDE DEF members
    <3> DEFINE Declares(i) == IsField(members[i]) /\ members[i].name = name
               I == {i \in 1 .. Len(members) : Declares(i)}
    <3>1. I \in SUBSET (1 .. Len(members)) /\ I # {} /\ Len(members) \in Nat
      BY <2>3 DEF AreMembers, Names
    <3>2. PICK i \in I : \A j \in I : i >= j
      BY <3>1, LastIndex
    <3>3. \E k \in 1 .. Len(members) : Declares(k) /\ \A j \in k + 1 .. Len(members) : ~Declares(j)
      <4>1. \A j \in i + 1 .. Len(members) : ~Declares(j)
        BY <3>1, <3>2
      <4> QED
        BY <3>2, <4>1
    <3> DEFINE last == CHOOSE k \in 1 .. Len(members) :
                           Declares(k) /\ \A j \in k + 1 .. Len(members) : ~Declares(j)
    <3>4. last \in 1 .. Len(members) /\ Declares(last)
      <4> HIDE DEF Declares
      <4> QED
        BY <3>3
    <3>5. LocalField(members, name) = members[last].expression
      BY DEF LocalField
    <3>6. MemberParts(members[last]) = {members[last].expression}
      BY <3>4 DEF MemberParts
    <3> QED
      BY <2>3, <3>4, <3>5, <3>6 DEF AreMembers
  <2>5. Awaits(Current)
    BY <2>1 DEF ScopesInv, ControlOK, ControlFor
  <2> QED
    BY <2>1, <2>4, <2>5, StaysInv DEF ControlFor, scope
<1>2. ASSUME ReferToVertex
      PROVE  KeepsInv
  <2>1. /\ control.op = "evaluate" /\ UNCHANGED <<program, vertex_cache, stack>>
        /\ control'.op = "vertex"
    BY <1>2 DEF ReferToVertex, RefersTo, Evaluates, CallVertex
  <2>2. Awaits(Current)
    BY <2>1 DEF ScopesInv, ControlOK, ControlFor
  <2> QED
    BY <2>1, <2>2, StaysInv DEF ControlFor
<1> QED
  BY <1>1, <1>2

----------------------------------------------------------------------------
(* The comprehension that the next clause belongs to. *)
LEMMA ClauseOwner ==
    ASSUME ShapeOK, Iterates(Current)
    PROVE  \E t \in 1 .. Height :
               BelongsTo(Height + 1, t) /\ Comprehension = stack[t] /\ FrameOK(stack[t])
<1>1. Height \in Nat /\ Height \in 1 .. Height /\ Iterates(stack[Height])
  BY CurrentOK DEF Current, ShapeOK
<1>2. PICK t \in 1 .. Height : BelongsTo(Height + 1, t)
  BY <1>1, Owner
<1>3. \A j \in t + 1 .. Height : stack[j].kind # "comprehension"
  BY <1>1, <1>2, OwnerIsTopmost
<1> DEFINE IsLast(i) == \A j \in FramesOf("comprehension") : i >= j
<1>4. t \in FramesOf("comprehension") /\ IsLast(t)
  BY <1>1, <1>2, <1>3 DEF FramesOf, BelongsTo
<1>5. \A i \in FramesOf("comprehension") : IsLast(i) => i = t
  BY <1>1, <1>4 DEF FramesOf
<1>6. Topmost(FramesOf("comprehension")) = t
  <2>1. (CHOOSE i \in FramesOf("comprehension") : IsLast(i)) = t
    <3> HIDE DEF IsLast
    <3> QED
      BY <1>4, <1>5
  <2> QED
    BY <2>1 DEF Topmost
<1> QED
  BY <1>1, <1>2, <1>6 DEF Comprehension, ShapeOK, StackOK

LEMMA EnterComprehensionInv ==
    ASSUME ScopesInv, EnterComprehension
    PROVE  KeepsInv
<1> DEFINE member == Current.members[Current.next]
           frame == [kind |-> "comprehension", clauses |-> member.clauses, body |-> member.body,
                     results |-> <<>>]
<1>0. FrameOK(Current)
  BY CurrentOK DEF ScopesInv, ShapeOK
<1>1. /\ control.op = "go_on" /\ Current.kind = "struct"
      /\ Current.next <= Len(Current.members)
      /\ member.member = "comprehension"
      /\ Push(frame) /\ UNCHANGED <<program, vertex_cache>>
      /\ control'.op = "clause" /\ control'.index = 1
  BY DEF EnterComprehension, AtMember, GoesOn, CallClause
<1>2. Current.next \in 1 .. Len(Current.members) /\ AreMembers(Current.members)
  BY <1>0, <1>1, StructFrame
<1>3. IsMember(member) /\ MemberParts(member) \subseteq Expressions
  BY <1>2 DEF AreMembers
<1>4. AreClauses(member.clauses) /\ member.body \in Expressions
  <2>1. /\ Len(member.clauses) \in Nat
        /\ \A i \in 1 .. Len(member.clauses) : member.clauses[i].clause \in {"for", "if"}
    BY <1>1, <1>3 DEF IsMember
  <2>2. MemberParts(member) = {member.body} \union
            {ClauseExpression(member.clauses[i]) : i \in 1 .. Len(member.clauses)}
    BY <1>1 DEF MemberParts, IsField
  <2> HIDE DEF member
  <2> QED
    BY <1>3, <2>1, <2>2 DEF AreClauses
<1>5. /\ DOMAIN frame = {"kind", "clauses", "body", "results"}
      /\ frame.kind = "comprehension" /\ frame.clauses = member.clauses
      /\ frame.body = member.body /\ frame.results = <<>>
  OBVIOUS
<1>6. Generates(Current)
  BY <1>1 DEF Generates
<1> HIDE DEF frame, member
<1>7. IsSequence(frame.results)
  <2>1. <<>> \in Seq({})
    OBVIOUS
  <2> QED
    BY <1>5, <2>1, SeqIsSequence
<1>8. FrameOK(frame)
  BY <1>4, <1>5, <1>7 DEF FrameOK, FrameFields, Kinds
<1>9. StandsOn(frame, Current)
  BY <1>5, <1>6 DEF StandsOn
<1>10. ShapeOK' /\ Current' = frame /\ VerticesKept
  BY <1>1, <1>5, <1>8, <1>9, PushShape DEF ScopesInv
<1> QED
  BY <1>1, <1>5, <1>10, StepInv DEF KeepsInv, ControlFor, Iterates

(* A clause asks for the value of a condition or of a source. *)
LEMMA ClauseSteps ==
    ASSUME ScopesInv, EvaluateCondition \/ EvaluateSource
    PROVE  KeepsInv
<1>1. PICK kind \in {"condition", "source"} :
          /\ control.op = "clause" /\ UNCHANGED <<program, vertex_cache>>
          /\ control.index <= Len(Comprehension.clauses)
          /\ Push([kind |-> kind, index |-> control.index, depth |-> control.depth])
          /\ control'.op = "evaluate"
          /\ control'.expression = ClauseExpression(Comprehension.clauses[control.index])
  BY DEF EvaluateCondition, EvaluateSource, AtClause, EvaluateAt, ClauseExpression
<1> DEFINE frame == [kind |-> kind, index |-> control.index, depth |-> control.depth]
<1>2. Iterates(Current) /\ control.index \in Nat \ {0}
  BY <1>1 DEF ScopesInv, ControlOK, ControlFor
<1>3. control'.expression \in Expressions
  <2>1. PICK t \in 1 .. Height :
            BelongsTo(Height + 1, t) /\ Comprehension = stack[t] /\ FrameOK(stack[t])
    BY <1>2, ClauseOwner DEF ScopesInv
  <2>2. AreClauses(Comprehension.clauses)
    BY <2>1 DEF FrameOK, BelongsTo
  <2>3. control.index \in 1 .. Len(Comprehension.clauses)
    BY <1>1, <1>2, <2>2 DEF AreClauses
  <2> QED
    BY <1>1, <2>2, <2>3 DEF AreClauses
<1>4. /\ DOMAIN frame = {"kind", "index", "depth"} /\ frame.kind = kind /\ frame.index = control.index
      /\ Push(frame)
  BY <1>1
<1> HIDE DEF frame
<1>5. FrameOK(frame)
  BY <1>2, <1>4 DEF FrameOK, FrameFields, Kinds
<1>6. StandsOn(frame, Current)
  BY <1>2, <1>4 DEF StandsOn
<1>7. ShapeOK' /\ Current' = frame /\ VerticesKept
  BY <1>1, <1>4, <1>5, <1>6, PushShape DEF ScopesInv
<1> QED
  BY <1>1, <1>3, <1>4, <1>7, StepInv DEF KeepsInv, ControlFor, Awaits

(* The frame under that of a clause is its comprehension's, or a loop's. *)
LEMMA UnderClause ==
    ASSUME ShapeOK, Current.kind \in ClauseKinds
    PROVE  /\ Height \in Nat
           /\ Height > 1
           /\ Height - 1 \in 1 .. Height
           /\ Iterates(stack[Height - 1])
           /\ IsSequence(Below)
           /\ Len(Below) = Height - 1
           /\ \A i \in 1 .. Height - 1 : Below[i] = stack[i]
<1>1. Height \in Nat /\ Height > 1 /\ Iterates(stack[Height - 1])
  BY CurrentOK DEF StandsOn, ClauseKinds, ShapeOK
<1> QED
  BY <1>1, DropFrame DEF Below, ShapeOK, StackOK, Height

(* A clause that goes wrong gives the comprehension its error and ends it. *)
LEMMA ErrorInv ==
    ASSUME ScopesInv, Current.kind \in ClauseKinds, NEW result, stack' = Keep(Below, result),
           control.op = "return", control' = Halt, UNCHANGED <<program, vertex_cache>>
    PROVE  KeepsInv
<1>1. ShapeOK' /\ Current'.kind = stack[Height - 1].kind /\ VerticesKept
  BY UnderClause, KeepShape DEF ScopesInv, Halt
<1>2. Iterates(stack[Height - 1])
  BY UnderClause DEF ScopesInv
<1> QED
  BY <1>1, <1>2, StepInv DEF KeepsInv, ControlFor, Iterates, Halt

(* A body's value is one more result. *)
LEMMA ItemSteps ==
    ASSUME ScopesInv, GenerateItem \/ KeepItem
    PROVE  KeepsInv
<1>0. Height \in Nat /\ Height \in 1 .. Height
  BY CurrentOK DEF ScopesInv, ShapeOK
<1>1. ASSUME GenerateItem
      PROVE  KeepsInv
  <2>1. /\ control.op = "clause" /\ UNCHANGED <<program, vertex_cache>>
        /\ \/ stack' = Keep(stack, Error("comprehension_limit")) /\ control' = Halt
           \/ /\ ~(Len(Comprehension.results) >= MaxGeneratedItems)
              /\ Push([kind |-> "body"])
              /\ control' = EvaluateAt(Comprehension.body, control.depth + 1)
    BY <1>1 DEF GenerateItem
  <2>2. Iterates(Current)
    BY <2>1 DEF ScopesInv, ControlOK, ControlFor
  <2>3. PICK t \in 1 .. Height :
            BelongsTo(Height + 1, t) /\ Comprehension = stack[t] /\ FrameOK(stack[t])
    BY <2>2, ClauseOwner DEF ScopesInv
  <2>4. CASE stack' = Keep(stack, Error("comprehension_limit")) /\ control' = Halt
    <3>1. IsSequence(stack) /\ Len(stack) = Height /\ Iterates(stack[Height])
      BY <2>2 DEF ScopesInv, ShapeOK, StackOK, Height, Current
    <3>2. ShapeOK' /\ Current'.kind = stack[Height].kind /\ VerticesKept
      BY <1>0, <2>1, <2>4, <3>1, KeepShape DEF ScopesInv, Halt
    <3> QED
      BY <2>1, <2>4, <3>1, <3>2, StepInv DEF KeepsInv, ControlFor, Iterates, Halt
  <2>5. CASE /\ ~(Len(Comprehension.results) >= MaxGeneratedItems)
             /\ Push([kind |-> "body"])
             /\ control' = EvaluateAt(Comprehension.body, control.depth + 1)
    <3> DEFINE frame == [kind |-> "body"]
    <3>1. frame.kind = "body" /\ DOMAIN frame = {"kind"} /\ Push(frame)
      BY <2>5
    <3>2. control'.op = "evaluate" /\ control'.expression = Comprehension.body
      BY <2>5 DEF EvaluateAt
    <3> HIDE DEF frame
    <3>3. Comprehension.body \in Expressions
      BY <2>3 DEF FrameOK, BelongsTo
    <3>4. Len(stack[t].results) < MaxGeneratedItems
      <4>1. Len(stack[t].results) \in 0 .. MaxGeneratedItems
        BY <2>1, <2>3, WithinLimit DEF ScopesInv, BelongsTo
      <4> QED
        BY <2>3, <2>5, <4>1, LimitAssumption
    <3>5. \A i \in 1 .. Height : BelongsTo(Height + 1, i) => Len(stack[i].results) < MaxGeneratedItems
      BY <1>0, <2>3, <3>4, OwnerIsTopmost DEF ScopesInv
    <3>6. FrameOK(frame)
      BY <3>1 DEF FrameOK, FrameFields, Kinds
    <3>7. StandsOn(frame, Current)
      BY <2>2, <3>1 DEF StandsOn
    <3>8. ShapeOK' /\ Current' = frame /\ VerticesKept
      BY <2>1, <3>1, <3>5, <3>6, <3>7, PushShape DEF ScopesInv
    <3> QED
      BY <2>1, <3>1, <3>2, <3>3, <3>8, StepInv DEF KeepsInv, ControlFor, Awaits
  <2> QED
    BY <2>1, <2>4, <2>5
<1>2. ASSUME KeepItem
      PROVE  KeepsInv
  <2>1. /\ control.op = "return" /\ Current.kind = "body"
        /\ stack' = Keep(Below, control.value)
        /\ control' = Continue /\ UNCHANGED <<program, vertex_cache>>
    BY <1>2 DEF KeepItem, Receives
  <2>2. Iterates(stack[Height - 1]) /\ Height > 1 /\ Height - 1 \in 1 .. Height
    BY <2>1, UnderClause DEF ScopesInv, ClauseKinds
  <2>3. \A i \in 1 .. Height - 1 :
            BelongsTo(Height, i) => Len(stack[i].results) < MaxGeneratedItems
    <3>1. \A i \in 1 .. Height - 1 : i \in 1 .. Height /\ Height \in i + 1 .. Height
      BY <1>0
    <3> QED
      BY <2>1, <3>1 DEF ScopesInv, ShapeOK, ResultsOK, BelongsTo, Current
  <2>4. \A i \in 1 .. Height - 1 :
            BelongsTo(Height - 1 + 1, i) => Len(stack[i].results) < MaxGeneratedItems
    <3>1. Height - 1 + 1 = Height
      BY <1>0
    <3> QED
      BY <2>3, <3>1
  <2>5. ShapeOK' /\ Current'.kind = stack[Height - 1].kind /\ VerticesKept
    BY <2>1, <2>2, <2>4, UnderClause, KeepShape DEF ScopesInv, ClauseKinds
  <2> QED
    BY <2>1, <2>2, <2>5, StepInv DEF KeepsInv, ControlFor, Iterates, Continue
<1> QED
  BY <1>1, <1>2

LEMMA ConditionSteps ==
    ASSUME ScopesInv, TestCondition
    PROVE  KeepsInv
<1>0. FrameOK(Current)
  BY CurrentOK DEF ScopesInv, ShapeOK
<1>1. /\ control.op = "return" /\ Current.kind = "condition" /\ UNCHANGED <<program, vertex_cache>>
      /\ \/ Pop /\ control'.op = "clause" /\ control'.index = Current.index + 1
         \/ Pop /\ control'.op = "continue"
         \/ (\E result : stack' = Keep(Below, result)) /\ control' = Halt
  BY DEF TestCondition, Receives, CallClause, Continue
<1>2. Current.index \in Nat \ {0}
  BY <1>0, <1>1 DEF FrameOK
<1>3. Iterates(stack[Height - 1]) /\ Height > 1
  BY <1>1, UnderClause DEF ScopesInv, ClauseKinds
<1>4. ASSUME Pop, \/ control'.op = "clause" /\ control'.index = Current.index + 1
                  \/ control'.op = "continue"
      PROVE  KeepsInv
  <2>1. ShapeOK' /\ Current' = stack[Height - 1] /\ VerticesKept
    BY <1>1, <1>3, <1>4, PopShape DEF ScopesInv
  <2> QED
    BY <1>1, <1>2, <1>3, <1>4, <2>1, StepInv DEF KeepsInv, ControlFor
<1>5. ASSUME NEW result, stack' = Keep(Below, result), control' = Halt
      PROVE  KeepsInv
  BY <1>1, <1>5, ErrorInv DEF ClauseKinds
<1> QED
  BY <1>1, <1>4, <1>5

LEMMA LoopSteps ==
    ASSUME ScopesInv, BeginLoop \/ NextItem \/ EndLoop
    PROVE  KeepsInv
<1>0. FrameOK(Current)
  BY CurrentOK DEF ScopesInv, ShapeOK
<1>1. ASSUME BeginLoop
      PROVE  KeepsInv
  <2> DEFINE frame == [kind |-> "loop", index |-> Current.index, depth |-> Current.depth,
                       variable |-> Comprehension.clauses[Current.index].variable,
                       item |-> 0, items |-> ItemsOf(control.value)]
  <2>1. /\ control.op = "return" /\ Current.kind = "source" /\ UNCHANGED <<program, vertex_cache>>
        /\ \/ /\ Len(ItemsOf(control.value)) \in 0 .. MaxGeneratedItems
              /\ SetCurrent(frame)
              /\ control'.op = "continue"
           \/ (\E result : stack' = Keep(Below, result)) /\ control' = Halt
    BY <1>1 DEF BeginLoop, Receives, Continue
  <2>2. ASSUME /\ Len(ItemsOf(control.value)) \in 0 .. MaxGeneratedItems
               /\ SetCurrent(frame)
               /\ control'.op = "continue"
        PROVE  KeepsInv
    <3>1. /\ frame.kind = "loop" /\ frame.index = Current.index /\ frame.item = 0
          /\ frame.items = ItemsOf(control.value)
          /\ DOMAIN frame = {"kind", "index", "depth", "variable", "item", "items"}
      OBVIOUS
    <3> HIDE DEF frame
    <3>2. Current.index \in Nat \ {0}
      BY <1>0, <2>1 DEF FrameOK
    <3>3. FrameOK(frame)
      BY <2>2, <3>1, <3>2, LimitAssumption DEF FrameOK, FrameFields, Kinds
    <3>4. Height # 1 /\ StandsOn(frame, stack[Height - 1])
      BY <2>1, <3>1, UnderClause DEF ScopesInv, ClauseKinds, StandsOn
    <3>5. ShapeOK' /\ Current' = frame /\ VerticesKept
      BY <2>1, <2>2, <3>1, <3>3, <3>4, SetShape DEF ScopesInv
    <3> QED
      BY <2>1, <2>2, <3>1, <3>5, StepInv DEF KeepsInv, ControlFor, Iterates
  <2>3. ASSUME NEW result, stack' = Keep(Below, result), control' = Halt
        PROVE  KeepsInv
    BY <2>1, <2>3, ErrorInv DEF ClauseKinds
  <2> QED
    BY <2>1, <2>2, <2>3
<1>2. ASSUME NextItem
      PROVE  KeepsInv
  <2> DEFINE frame == [Current EXCEPT !.item = @ + 1]
  <2>1. /\ control.op = "continue" /\ Current.kind = "loop" /\ UNCHANGED <<program, vertex_cache>>
        /\ Current.item < Len(Current.items)
        /\ SetCurrent(frame)
        /\ control'.op = "clause" /\ control'.index = Current.index + 1
    BY <1>2 DEF NextItem, At, CallClause
  <2>2. /\ DOMAIN Current = {"kind", "index", "depth", "variable", "item", "items"}
        /\ Current.index \in Nat \ {0}
        /\ Len(Current.items) \in Nat /\ Current.item \in 0 .. Len(Current.items)
    BY <1>0, <2>1 DEF FrameOK, FrameFields
  <2>3. /\ DOMAIN frame = {"kind", "index", "depth", "variable", "item", "items"}
        /\ frame.kind = "loop" /\ frame.index = Current.index
        /\ frame.item = Current.item + 1 /\ frame.items = Current.items
    BY <2>1, <2>2
  <2> HIDE DEF frame
  <2>4. FrameOK(frame)
    BY <2>1, <2>2, <2>3 DEF FrameOK, FrameFields, Kinds
  <2>5. Height # 1 /\ StandsOn(frame, stack[Height - 1])
    BY <2>1, <2>3, UnderClause DEF ScopesInv, ClauseKinds, StandsOn
  <2>6. ShapeOK' /\ Current' = frame /\ VerticesKept
    BY <2>1, <2>3, <2>4, <2>5, SetShape DEF ScopesInv
  <2> QED
    BY <2>1, <2>2, <2>3, <2>6, StepInv DEF KeepsInv, ControlFor, Iterates
<1>3. ASSUME EndLoop
      PROVE  KeepsInv
  <2>1. /\ control.op \in {"continue", "halt"} /\ Current.kind = "loop" /\ Pop
        /\ UNCHANGED <<program, vertex_cache, control>>
    BY <1>3 DEF EndLoop, At
  <2>2. Iterates(stack[Height - 1]) /\ Height > 1
    BY <2>1, UnderClause DEF ScopesInv, ClauseKinds
  <2>3. ShapeOK' /\ Current' = stack[Height - 1] /\ VerticesKept
    BY <2>1, <2>2, PopShape DEF ScopesInv
  <2> QED
    BY <2>1, <2>2, <2>3, StepInv DEF KeepsInv, ControlFor
<1> QED
  BY <1>1, <1>2, <1>3

(* The struct under a comprehension moves on to its next member. *)
LEMMA FinishComprehensionInv ==
    ASSUME ScopesInv, FinishComprehension
    PROVE  KeepsInv
<1>1. PICK values :
          /\ control.op \in {"continue", "halt"} /\ Current.kind = "comprehension"
          /\ stack' = [Below EXCEPT ![Height - 1] =
                          [stack[Height - 1] EXCEPT !.next = NextMember(@), !.values = values]]
          /\ DOMAIN stack[Height - 1].values \subseteq DOMAIN values
          /\ control' = GoOn /\ UNCHANGED <<program, vertex_cache>>
  <2> DEFINE added == IF \A i \in DOMAIN Current.results : IsStruct(Current.results[i])
                      THEN FoldLeft(LAMBDA fields, result : MergeFields(fields, FieldsOf(result)),
                                    EmptyMap, Current.results)
                      ELSE EmptyMap
             values == MergeFields(stack[Height - 1].values, added)
  <2>1. /\ stack' = [Below EXCEPT ![Height - 1] =
                        [stack[Height - 1] EXCEPT !.next = NextMember(@), !.values = values]]
        /\ control' = GoOn /\ UNCHANGED <<program, vertex_cache>>
        /\ control.op \in {"continue", "halt"} /\ Current.kind = "comprehension"
    BY Zenon DEF FinishComprehension, At
  <2>2. DOMAIN stack[Height - 1].values \subseteq DOMAIN values
    <3> HIDE DEF added
    <3> QED
      BY DEF MergeFields
  <2> HIDE DEF values
  <2> QED
    BY <2>1, <2>2
<1> DEFINE outer == stack[Height - 1]
           frame == [outer EXCEPT !.next = NextMember(@), !.values = values]
<1>2. /\ Height \in Nat /\ Height > 1
      /\ Generates(outer) /\ FrameOK(outer)
  BY <1>1, CurrentOK DEF ScopesInv, ShapeOK, StandsOn
<1>3. PICK m \in 0 .. Height : m + 1 = Height - 1 /\ m + 1 \in 1 .. Height
  <2>1. Height - 2 \in 0 .. Height /\ Height - 2 + 1 = Height - 1 /\ Height - 2 + 1 \in 1 .. Height
    BY <1>2
  <2> QED
    BY <2>1
<1>4. /\ DOMAIN outer = {"kind", "members", "depth", "next", "values", "local_values"}
      /\ outer.kind = "struct"
      /\ AreMembers(outer.members)
      /\ outer.next \in 1 .. Len(outer.members)
      /\ DOMAIN outer.local_values \subseteq DOMAIN outer.values \intersect Names(outer.members)
  BY <1>2 DEF FrameOK, FrameFields, Generates, AreMembers
<1>5. /\ DOMAIN frame = {"kind", "members", "depth", "next", "values", "local_values"}
      /\ frame.kind = "struct" /\ frame.members = outer.members /\ frame.next = outer.next + 1
      /\ frame.values = values /\ frame.local_values = outer.local_values
  BY <1>4 DEF NextMember
<1>6. stack' = [Below EXCEPT ![m + 1] = frame]
  BY <1>1, <1>3
<1> HIDE DEF frame
<1>7. FrameOK(frame)
  BY <1>1, <1>4, <1>5 DEF FrameOK, FrameFields, Kinds, AreMembers
<1>8. /\ IsSequence(Below) /\ Len(Below) = m + 1 /\ m + 1 \in 1 .. Len(Below)
      /\ \A i \in 1 .. m + 1 : Below[i] = stack[i]
  <2>1. /\ IsSequence(Below) /\ Len(Below) = Height - 1
        /\ \A i \in 1 .. Height - 1 : Below[i] = stack[i]
    BY <1>2, DropFrame DEF Below, ScopesInv, ShapeOK, StackOK, Height
  <2> QED
    BY <1>2, <1>3, <2>1
<1>9. /\ IsSequence(stack') /\ Height' = m + 1 /\ stack'[m + 1] = frame
      /\ \A i \in 1 .. m : stack'[i] = stack[i]
  <2>1. IsSequence([Below EXCEPT ![m + 1] = frame]) /\ Len([Below EXCEPT ![m + 1] = frame]) = Len(Below)
    BY <1>8, ReplaceElement
  <2>2. \A i \in 1 .. Len(Below) : [Below EXCEPT ![m + 1] = frame][i] = IF i = m + 1 THEN frame ELSE Below[i]
    BY <1>8, ReplaceElement
  <2>3. IsSequence(stack') /\ Len(stack') = Len(Below)
    BY <1>6, <2>1, Zenon
  <2>4. \A i \in 1 .. Len(Below) : stack'[i] = IF i = m + 1 THEN frame ELSE Below[i]
    BY <1>6, <2>2
  <2>5. \A i \in 1 .. m : i \in 1 .. m + 1 /\ i # m + 1
    OBVIOUS
  <2> QED
    BY <1>8, <2>3, <2>4, <2>5 DEF Height
<1>10. \A i \in 1 .. m + 1 : i = m + 1 \/ i \in 1 .. m
  OBVIOUS
<1>11. LimitsOK'
  <2>1. ASSUME NEW i \in 1 .. m, stack[i].kind = "comprehension"
        PROVE  Len(stack[i].results) \in 0 .. MaxGeneratedItems
    <3>1. i \in 1 .. Height /\ Height \in i + 1 .. Height + 1 - 1
      BY <1>2, <1>3
    <3>2. ~BelongsTo(Height + 1, i)
      BY <1>1, <3>1 DEF BelongsTo, Current
    <3> QED
      BY <2>1, <3>1, <3>2, WithinLimit DEF ScopesInv
  <2>2. \A i \in 1 .. m + 1 :
            stack'[i].kind = "comprehension" => Len(stack'[i].results) \in 0 .. MaxGeneratedItems
    BY <1>5, <1>9, <1>10, <2>1
  <2> QED
    BY <1>9, <2>2, LimitAssumption DEF LimitsOK
<1>12. IF m = 0 THEN frame.kind = "root" ELSE StandsOn(frame, stack[m])
  <2>1. m + 1 # 1
    BY <1>3, <1>4 DEF ScopesInv, ShapeOK, StackOK
  <2>2. m + 1 \in 2 .. Height /\ m + 1 - 1 = m
    BY <1>3, <2>1
  <2>3. StandsOn(stack[m + 1], stack[m + 1 - 1])
    BY <2>2 DEF ScopesInv, ShapeOK, StackOK
  <2>4. StandsOn(outer, stack[m])
    BY <1>3, <2>2, <2>3
  <2> QED
    BY <1>4, <1>5, <2>1, <2>4 DEF StandsOn
<1>13. ShapeOK'
  BY <1>1, <1>5, <1>7, <1>9, <1>11, <1>12, TopShape DEF ScopesInv
<1>14. VerticesKept
  BY <1>2, <1>3, <1>5, <1>9, <1>10 DEF VerticesKept
<1>15. Current' = frame
  BY <1>9 DEF Current
<1> QED
  BY <1>1, <1>5, <1>13, <1>14, <1>15, StepInv DEF KeepsInv, ControlFor, GoOn

----------------------------------------------------------------------------
(* The evaluation of a vertex begins and ends. *)
LEMMA EnterVertexInv ==
    ASSUME ScopesInv, EnterVertex
    PROVE  /\ ScopesInv'
           /\ SingleEvaluation => SingleEvaluation'
<1>1. PICK v \in DOMAIN program.conjuncts \ DOMAIN vertex_cache :
          /\ control.op = "vertex"
          /\ ~InProgress(v)
          /\ Push([kind |-> "vertex", vertex |-> v, depth |-> control.depth, next |-> 1, value |-> Top])
          /\ control'.op = "go_on"
          /\ UNCHANGED <<program, vertex_cache>>
  BY DEF EnterVertex, Calls, GoOn
<1> DEFINE frame == [kind |-> "vertex", vertex |-> v, depth |-> control.depth, next |-> 1, value |-> Top]
<1>2. /\ frame.kind = "vertex" /\ frame.vertex = v /\ frame.next = 1
      /\ DOMAIN frame = {"kind", "vertex", "depth", "next", "value"}
      /\ Push(frame)
  BY <1>1
<1> HIDE DEF frame
<1>3. FrameOK(frame)
  BY <1>1, <1>2, ProgramsAssumption
     DEF FrameOK, FrameFields, Kinds, ScopesInv, EvaluatedOK, ArePrograms
<1>4. StandsOn(frame, Current)
  BY <1>1, <1>2 DEF StandsOn, ScopesInv, ControlOK, ControlFor
<1>5. /\ ShapeOK' /\ Current' = frame
      /\ Height' = Height + 1 /\ stack'[Height + 1] = frame
      /\ \A i \in 1 .. Height : stack'[i] = stack[i]
  BY <1>1, <1>2, <1>3, <1>4, PushShape DEF ScopesInv
<1>6. ScopesInv'
  BY <1>1, <1>2, <1>5, StepInv DEF ControlFor
<1>7. ASSUME SingleEvaluation
      PROVE  SingleEvaluation'
  <2>1. Height \in Nat
    BY CurrentOK DEF ScopesInv, ShapeOK
  <2>2. \A i \in FramesOf("vertex") : stack[i].vertex # v
    BY <1>1 DEF InProgress
  <2>3. \A i \in FramesOf("vertex")' :
            \/ i \in FramesOf("vertex") /\ stack'[i] = stack[i]
            \/ i = Height + 1 /\ stack'[i] = frame
    BY <1>5, <2>1 DEF FramesOf
  <2> QED
    BY <1>1, <1>2, <1>7, <2>2, <2>3 DEF SingleEvaluation
<1> QED
  BY <1>6, <1>7

LEMMA FinishVertexInv ==
    ASSUME ScopesInv, FinishVertex
    PROVE  /\ ScopesInv'
           /\ SingleEvaluation => SingleEvaluation'
<1>1. /\ control.op = "go_on" /\ Current.kind = "vertex" /\ Pop
      /\ vertex_cache' = Put(vertex_cache, Current.vertex, Current.value)
      /\ control'.op = "return" /\ UNCHANGED program
  BY DEF FinishVertex, GoesOn, Return
<1>2. /\ Height \in Nat /\ Height > 1 /\ Height \in 1 .. Height
      /\ Awaits(stack[Height - 1]) /\ Current.vertex \in DOMAIN program.conjuncts
  BY <1>1, CurrentOK DEF ScopesInv, ShapeOK, StandsOn, FrameOK
<1>3. /\ ShapeOK' /\ Height' = Height - 1 /\ Current' = stack[Height - 1]
      /\ \A i \in 1 .. Height - 1 : stack'[i] = stack[i]
  BY <1>1, <1>2, PopShape DEF ScopesInv
<1>4. DOMAIN vertex_cache' = DOMAIN vertex_cache \union {Current.vertex}
  BY <1>1 DEF Put
<1>5. ScopesInv'
  <2>1. ControlOK'
    BY <1>1, <1>2, <1>3 DEF ControlOK, ControlFor, Awaits
  <2>2. EvaluatedOK'
    BY <1>1, <1>2, <1>4 DEF ScopesInv, EvaluatedOK
  <2> QED
    BY <1>3, <2>1, <2>2 DEF ScopesInv
<1>6. ASSUME SingleEvaluation
      PROVE  SingleEvaluation'
  <2>1. Height \in FramesOf("vertex")
    BY <1>1, <1>2 DEF FramesOf, Current
  <2>2. \A i \in FramesOf("vertex")' :
            i \in FramesOf("vertex") /\ stack'[i] = stack[i] /\ i # Height
    BY <1>2, <1>3 DEF FramesOf
  <2> QED
    BY <1>4, <1>6, <2>1, <2>2 DEF SingleEvaluation, Current
<1> QED
  BY <1>5, <1>6

LEMMA KeepsSingle ==
    ASSUME SingleEvaluation, VerticesKept, UNCHANGED vertex_cache, Height \in Nat, Height' \in Nat
    PROVE  SingleEvaluation'
<1>1. \A i \in FramesOf("vertex")' : i \in FramesOf("vertex") /\ stack'[i].vertex = stack[i].vertex
  BY DEF VerticesKept, FramesOf
<1> QED
  BY <1>1 DEF SingleEvaluation

----------------------------------------------------------------------------
LEMMA InitInv ==
    ASSUME Init
    PROVE  ScopesInv /\ SingleEvaluation
<1> DEFINE root == [kind |-> "root", next |-> 1, values |-> EmptyMap]
<1>1. /\ program \in Programs /\ vertex_cache = EmptyMap /\ stack = <<root>>
      /\ control = IF program.errors = {} THEN GoOn ELSE Stop
  BY DEF Init
<1>2. root.kind = "root" /\ root.next = 1 /\ DOMAIN root = {"kind", "next", "values"}
  OBVIOUS
<1> HIDE DEF root
<1>3. IsSequence(stack) /\ Height = 1 /\ stack[1] = root /\ Current = root
  <2>1. stack \in Seq({root}) /\ Len(stack) = 1 /\ stack[1] = root
    BY <1>1
  <2> QED
    BY <2>1, SeqIsSequence DEF Height, Current
<1>4. FrameOK(root)
  BY <1>1, <1>2, ProgramsAssumption DEF FrameOK, FrameFields, Kinds, ArePrograms
<1>5. StackOK
  BY <1>2, <1>3, <1>4 DEF StackOK
<1>6. ClausesOK /\ ResultsOK
  BY <1>2, <1>3 DEF ClausesOK, ResultsOK
<1>7. ControlOK
  BY <1>1, <1>2, <1>3 DEF ControlOK, ControlFor, GoOn, Stop
<1>8. EvaluatedOK
  BY <1>1 DEF EvaluatedOK, EmptyMap, GoOn, Stop
<1>9. SingleEvaluation
  BY <1>2, <1>3 DEF SingleEvaluation, FramesOf
<1> QED
  BY <1>5, <1>6, <1>7, <1>8, <1>9 DEF ScopesInv, ShapeOK

LEMMA NextInv ==
    ASSUME ScopesInv, SingleEvaluation, [Next]_vars
    PROVE  ScopesInv' /\ SingleEvaluation'
<1>1. ASSUME KeepsInv
      PROVE  ScopesInv' /\ SingleEvaluation'
  <2>1. Height \in Nat /\ Height' \in Nat
    BY <1>1, CurrentOK DEF ScopesInv, ShapeOK, KeepsInv, StackOK, IsSequence, Height
  <2> QED
    BY <1>1, <2>1, KeepsSingle DEF KeepsInv
<1>2. CASE UNCHANGED vars
  <2> USE <1>2 DEF vars, Height, Current
  <2>1. StackOK'
    BY DEF ScopesInv, ShapeOK, StackOK, FrameOK, StandsOn, Awaits, Generates, Iterates
  <2>2. ClausesOK' /\ ResultsOK'
    BY DEF ScopesInv, ShapeOK, ClausesOK, ResultsOK, BelongsTo
  <2>3. ControlOK' /\ EvaluatedOK'
    BY DEF ScopesInv, ControlOK, ControlFor, Awaits, Iterates, EvaluatedOK
  <2>4. SingleEvaluation'
    BY DEF SingleEvaluation, FramesOf
  <2> QED
    BY <2>1, <2>2, <2>3, <2>4 DEF ScopesInv, ShapeOK
<1>3. CASE EvaluateArc \/ MergeArc \/ Finish
  BY <1>1, <1>3, RootSteps
<1>4. CASE ReturnCached \/ ReturnPlaceholder \/ VertexTooDeep
  BY <1>1, <1>4, VertexCalls
<1>5. CASE EnterVertex
  BY <1>5, EnterVertexInv
<1>6. CASE EvaluateConjunct \/ UnifyConjunct
  BY <1>1, <1>6, VertexSteps
<1>7. CASE FinishVertex
  BY <1>7, FinishVertexInv
<1>8. CASE \/ ExpressionTooDeep \/ EvaluateLiteral \/ EvaluateBinding
           \/ ReferToLocalValue \/ ReferToFieldInProgress \/ ReferToMissing
  BY <1>1, <1>8, FoundValues
<1>9. CASE EvaluateLet
  BY <1>1, <1>9, LetSteps
<1>10. CASE EnterOperand \/ SecondOperand \/ LeaveOperand
  BY <1>1, <1>10, OperandSteps
<1>11. CASE EnterStruct \/ EvaluateMember \/ MergeMember \/ FinishStruct
  BY <1>1, <1>11, StructSteps
<1>12. CASE EnterComprehension
  BY <1>1, <1>12, EnterComprehensionInv
<1>13. CASE GenerateItem \/ KeepItem
  BY <1>1, <1>13, ItemSteps
<1>14. CASE EvaluateCondition \/ EvaluateSource
  BY <1>1, <1>14, ClauseSteps
<1>15. CASE TestCondition
  BY <1>1, <1>15, ConditionSteps
<1>16. CASE BeginLoop \/ NextItem \/ EndLoop
  BY <1>1, <1>16, LoopSteps
<1>17. CASE FinishComprehension
  BY <1>1, <1>17, FinishComprehensionInv
<1>18. CASE ReferToSibling \/ ReferToVertex
  BY <1>1, <1>18, ReferenceSteps
<1>19. CASE Stopped
  BY <1>2, <1>19 DEF Stopped
<1> QED
  BY <1>2, <1>3, <1>4, <1>5, <1>6, <1>7, <1>8, <1>9, <1>10, <1>11, <1>12, <1>13, <1>14, <1>15,
     <1>16, <1>17, <1>18, <1>19 DEF Next

LEMMA InvTypeOK ==
    ASSUME ScopesInv
    PROVE  TypeOK
<1>0. Height \in Nat
  BY CurrentOK DEF ScopesInv, ShapeOK
<1>1. DOMAIN program.conjuncts = {program.arcs[i] : i \in 1 .. Len(program.arcs)}
  BY ProgramsAssumption DEF ScopesInv, EvaluatedOK, ArePrograms
<1>2. DOMAIN vertex_cache \subseteq DOMAIN program.conjuncts
  BY DEF ScopesInv, EvaluatedOK
<1>3. control.op \in {"vertex", "evaluate", "return", "clause", "continue", "halt", "go_on", "stop"}
  BY DEF ScopesInv, ControlOK, ControlFor
<1>4. ASSUME NEW i \in 1 .. Height
      PROVE  LET frame == stack[i]
             IN  CASE frame.kind = "root" -> i = 1 /\ frame.next \in 1 .. Len(program.arcs) + 1
                   [] frame.kind = "vertex" ->
                         /\ frame.vertex \in DOMAIN program.conjuncts
                         /\ frame.next \in 1 .. Len(program.conjuncts[frame.vertex]) + 1
                   [] frame.kind = "struct" ->
                         /\ frame.next \in 1 .. Len(frame.members) + 1
                         /\ DOMAIN frame.local_values \subseteq DOMAIN frame.values \intersect Names(frame.members)
                   [] frame.kind = "operand" -> i > 1 /\ frame.second \in BOOLEAN
                   [] frame.kind = "comprehension" ->
                         /\ stack[i - 1].kind = "struct"
                         /\ Len(frame.results) \in 0 .. MaxGeneratedItems + 1
                   [] frame.kind \in {"condition", "source", "loop", "body"} ->
                         /\ stack[i - 1].kind \in {"comprehension", "loop"}
                         /\ frame.kind = "loop" => frame.item \in 0 .. Len(frame.items)
  <2> DEFINE frame == stack[i]
  <2>1. FrameOK(frame)
    BY DEF ScopesInv, ShapeOK, StackOK
  <2>2. i = 1 => frame.kind = "root"
    BY DEF ScopesInv, ShapeOK, StackOK
  <2>3. i > 1 => StandsOn(frame, stack[i - 1])
    BY <1>0 DEF ScopesInv, ShapeOK, StackOK
  <2>4. i # 1 => i > 1
    BY <1>0
  <2>5. frame.kind = "comprehension" => Len(frame.results) \in 0 .. MaxGeneratedItems + 1
    <3>1. frame.kind = "comprehension" =>
              Len(frame.results) \in Nat /\ Len(frame.results) <= MaxGeneratedItems + 1
      BY <2>1 DEF ScopesInv, ShapeOK, ResultsOK, FrameOK, IsSequence
    <3> QED
      BY <3>1, LimitAssumption
  <2> HIDE DEF frame
  <2>6. CASE frame.kind = "root"
    BY <2>1, <2>3, <2>4, <2>6 DEF FrameOK, StandsOn, frame
  <2>7. CASE frame.kind = "vertex"
    BY <2>1, <2>7 DEF FrameOK, frame
  <2>8. CASE frame.kind = "struct"
    BY <2>1, <2>8 DEF FrameOK, frame
  <2>9. CASE frame.kind = "operand"
    BY <2>1, <2>2, <2>4, <2>9 DEF FrameOK, frame
  <2>10. CASE frame.kind = "comprehension"
    BY <2>2, <2>3, <2>4, <2>5, <2>10 DEF StandsOn, Generates, frame
  <2>11. CASE frame.kind \in {"condition", "source", "loop", "body"}
    BY <2>1, <2>2, <2>3, <2>4, <2>11 DEF FrameOK, StandsOn, Iterates, frame
  <2> QED
    BY <2>1, <2>6, <2>7, <2>8, <2>9, <2>10, <2>11 DEF FrameOK, Kinds
<1> QED
  BY <1>1, <1>2, <1>3, <1>4 DEF TypeOK

----------------------------------------------------------------------------
(* Each call in progress is where the code makes it, at one of its         *)
(* members, clauses or items, and what references see are declared fields. *)
THEOREM ScopesTypeCorrect == Spec => []TypeOK
<1>1. Init => ScopesInv /\ SingleEvaluation
  BY InitInv
<1>2. ScopesInv /\ SingleEvaluation /\ [Next]_vars => ScopesInv' /\ SingleEvaluation'
  BY NextInv
<1>3. ScopesInv => TypeOK
  BY InvTypeOK
<1> QED
  BY <1>1, <1>2, <1>3, PTL DEF Spec

(* No top-level field is evaluated inside its own evaluation, whatever     *)
(* structs, comprehensions and lets its expressions reach it through, and  *)
(* none that is in progress is in vertex_cache.                            *)
THEOREM EvaluatedOnce == Spec => []SingleEvaluation
<1>1. Init => ScopesInv /\ SingleEvaluation
  BY InitInv
<1>2. ScopesInv /\ SingleEvaluation /\ [Next]_vars => ScopesInv' /\ SingleEvaluation'
  BY NextInv
<1> QED
  BY <1>1, <1>2, PTL DEF Spec
=============================================================================
