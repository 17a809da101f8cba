-------------------------- MODULE EvaluatorProofs --------------------------
(***************************************************************************)
(* Theorems about the evaluator, for every program, number of fields,      *)
(* limit and interpretation of the operators.                              *)
(*                                                                         *)
(* TypeInv adds to the type invariant which variables are in use in which  *)
(* phase.  StackInv ties the marked vertices to the stack and the stack to *)
(* the depth limit; it needs CallDeeper, since a frame is pushed one step  *)
(* after its call was made.  NoReentry, OnlyForcedMemberRuns and           *)
(* DepthBounded are its conjuncts, and CacheStable follows from it: a      *)
(* vertex that is popped is marked, so it was not in the cache.            *)
(***************************************************************************)
EXTENDS Evaluator, StackLemmas

----------------------------------------------------------------------------
(* The cycle's variables are in use only while a cycle is being solved,    *)
(* and an evaluation is in progress only in the phases that wait for one.  *)
DriverOK ==
    /\ phase \notin {"sweep", "select", "force"} => fixpoint_active_vertices = {}
    /\ phase \notin {"force", "root"} => Height = 0 /\ call = <<>> /\ returned = <<>>

TypeInv == TypeOK /\ DriverOK

(* The steps preserve TypeInv. *)
LEMMA InitTypeInv == Init => TypeInv
<1> SUFFICES ASSUME Init PROVE TypeInv
  OBVIOUS
<1>1. IsSequence(vertex_evaluation_stack) /\ Height = 0
  <2>1. <<>> \in Seq({}) /\ Len(<<>>) = 0
    BY EmptySeq
  <2> QED
    BY <2>1, SeqIsSequence DEF Init, Height
<1>2. TypeOK
  BY <1>1, ConstantsAssumption DEF EmptyMap, Init, TypeOK, Phases
<1> QED
  BY <1>1, <1>2 DEF TypeInv, DriverOK, Init

LEMMA DriveTypeInv ==
    ASSUME TypeInv, Drive
    PROVE  TypeInv'
<1> USE DEF TypeInv, TypeOK, DriverOK, Phases
<1>1. CASE Collect
  BY <1>1, ComponentsAssumption DEF Collect, machine, Height
<1>2. CASE CacheCycleBottoms
  BY <1>2 DEF Override, ConstantMap, CacheCycleBottoms, machine, Height
<1>3. CASE BeginComponent
  BY <1>3, ConstantsAssumption DEF BeginComponent, machine, Height
<1>4. CASE BeginIteration
  BY <1>4, ConstantsAssumption DEF Override, Without, ConstantMap, EmptyMap, BeginIteration, IterationsLeft, ClearFixpointCacheEntries, machine, Height
<1>5. CASE ForceMember
  BY <1>5 DEF ForceMember, MembersLeft, IsCall, Height
<1>6. CASE RecordMember
  BY <1>6, EmptyStack DEF Override, ConstantMap, RecordMember, Idle, Height
<1>7. CASE Converge
  BY <1>7 DEF Override, Without, ConstantMap, EmptyMap, Converge, Converged, FinishComponent, machine, Height
<1>8. CASE Continue
  BY <1>8 DEF Override, Without, ConstantMap, EmptyMap, Continue, machine, Height
<1>9. CASE GiveUp
  BY <1>9 DEF Override, Without, ConstantMap, EmptyMap, GiveUp, FinishComponent, machine, Height
<1>10. CASE EvaluateRoot
  BY <1>10 DEF EvaluateRoot, IsCall, Height
<1>11. CASE Finish
  BY <1>11, EmptyStack DEF Finish, Idle, Height
<1> QED
  BY <1>1, <1>2, <1>3, <1>4, <1>5, <1>6, <1>7, <1>8, <1>9, <1>10, <1>11 DEF Drive

LEMMA EnterCallTypeInv ==
    ASSUME TypeInv, EnterCall
    PROVE  TypeInv'
<1> USE DEF TypeInv, TypeOK, DriverOK, Phases
<1>1. IsCall(call[1]) /\ call # <<>>
  BY DEF EnterCall, ReturnPrevious, ReturnCached, ReturnPlaceholder, ReturnDepthLimit, EnterVertex
<1>2. ASSUME NEW value, Return(value)
      PROVE  TypeInv'
  BY <1>1, <1>2 DEF Return, driver, Height
<1>3. CASE EnterVertex
  <2>1. /\ IsSequence(vertex_evaluation_stack')
        /\ Height' = Height + 1
        /\ \A i \in 1 .. Height : vertex_evaluation_stack'[i] = vertex_evaluation_stack[i]
        /\ vertex_evaluation_stack'[Height + 1] = Frame(call[1])
    BY <1>3, PushFrame DEF EnterVertex, Height
  <2>2. IsFrame(Frame(call[1]))
    BY <1>1 DEF IsFrame, Frame, FrameFields, IsCall, EmptyMap
  <2>3. \A i \in 1 .. Height' : IsFrame(vertex_evaluation_stack'[i])
    BY <2>1, <2>2 DEF IsSequence, Height
  <2> QED
    BY <1>1, <1>3, <2>1, <2>3 DEF EnterVertex, driver, Called, IsCall
<1> QED
  BY <1>2, <1>3 DEF EnterCall, ReturnPrevious, ReturnCached, ReturnPlaceholder, ReturnDepthLimit

(* What SetFrame does to a well-formed stack. *)
LEMMA SetFrameTypeOK ==
    ASSUME TypeOK, Height > 0, NEW frame, IsFrame(frame), SetFrame(frame)
    PROVE  /\ IsSequence(vertex_evaluation_stack')
           /\ Height' = Height
           /\ \A i \in 1 .. Height : IsFrame(vertex_evaluation_stack'[i])
  BY ReplaceFrame DEF TypeOK, SetFrame, Height, IsSequence

LEMMA CurrentIsFrame ==
    ASSUME TypeOK, InField \/ InRoot
    PROVE  Height \in Nat /\ Height > 0 /\ IsFrame(Current) /\ call = <<>>
<1>1. Height \in Nat /\ (Height = 0 <=> vertex_evaluation_stack = <<>>)
  BY EmptyStack DEF TypeOK, Height, IsSequence
<1> QED
  BY <1>1 DEF TypeOK, InField, InRoot, Current

LEMMA PushResultIsFrame ==
    ASSUME TypeOK, InField, NEW x, PushResult(x)
    PROVE  \E frame : IsFrame(frame) /\ SetFrame(frame)
<1> DEFINE frame == [Current EXCEPT !.operands = Append(SubSeq(@, 1, Kept), x), !.pc = @ + 1]
<1>1. IsFrame(frame)
  BY CurrentIsFrame DEF IsFrame, FrameFields
<1> QED
  BY <1>1 DEF PushResult

(* The instruction a frame is at is one of the program's. *)
LEMMA CurrentInstructionOK ==
    ASSUME TypeOK, InExpression
    PROVE  InstructionOK(Instruction)
<1>1. /\ Current.vertex \in Vertices
      /\ Current.conjunct \in 1 .. Len(Conjuncts(Current.vertex))
      /\ Current.pc \in 1 .. Len(Expression)
  BY ProgramsAssumption, CurrentIsFrame
  DEF InExpression, InField, Expression, Conjuncts, IsFrame, TypeOK
<1> QED
  BY <1>1, ProgramsAssumption DEF Instruction, Expression, Conjuncts, TypeOK

LEMMA RunFrameTypeInv ==
    ASSUME TypeInv, RunFrame
    PROVE  TypeInv'
<1> USE DEF TypeInv, TypeOK, DriverOK, Phases
<1>1. ASSUME NEW frame, IsFrame(frame), SetFrame(frame), Height > 0, call = <<>>,
             UNCHANGED <<program, vertex_cache, driver, evaluating_vertices>>,
             call' = <<>> \/ (Len(call') = 1 /\ IsCall(call'[1])),
             returned' \in {<<>>, returned}
      PROVE  TypeInv'
  BY <1>1, SetFrameTypeOK DEF driver
<1>2. ASSUME NEW x, InExpression, Evaluate(x)
      PROVE  TypeInv'
  BY <1>1, <1>2, PushResultIsFrame, CurrentIsFrame DEF Evaluate, InExpression
<1>3. CASE CallReference
  <2>1. IsReference(Instruction) /\ InstructionOK(Instruction)
    BY <1>3, CurrentInstructionOK DEF CallReference
  <2>2. /\ Len(call') = 1
        /\ IsCall(call'[1])
    <3>1. Instruction.field \in Vertices /\ Instruction.nesting \in Nat
      BY <2>1 DEF InstructionOK, IsReference, Operators
    <3>2. Current.depth \in Nat
      BY <1>3, CurrentIsFrame DEF CallReference, InExpression, IsFrame
    <3>3. call' = <<[vertex |-> Instruction.field, depth |-> ExpressionDepth + 2]>>
      BY <1>3 DEF CallReference
    <3>4. ExpressionDepth + 2 \in Nat
      BY <3>1, <3>2 DEF ExpressionDepth
    <3> QED
      BY <3>1, <3>3, <3>4 DEF IsCall
  <2> QED
    BY <1>3, <2>2, CurrentIsFrame DEF CallReference, InExpression, driver, Height
<1>4. CASE ReturnToReference
  BY <1>1, <1>4, PushResultIsFrame, CurrentIsFrame DEF ReturnToReference, InExpression
<1>5. CASE UnifyConjunct
  <2> DEFINE frame == [Current EXCEPT !.conjunct = @ + 1, !.pc = 1, !.operands = <<>>,
                             !.value = Operate("&", <<@, Current.operands[1]>>)]
  <2>1. IsFrame(frame)
    BY <1>5, CurrentIsFrame DEF UnifyConjunct, InField, IsFrame, FrameFields
  <2> QED
    BY <1>1, <1>5, <2>1, CurrentIsFrame DEF UnifyConjunct
<1>6. CASE SkipArc
  <2> DEFINE frame == [Current EXCEPT !.conjunct = @ + 1]
  <2>1. IsFrame(frame)
    BY <1>6, CurrentIsFrame DEF SkipArc, InRoot, IsFrame, FrameFields
  <2> QED
    BY <1>1, <1>6, <2>1, CurrentIsFrame DEF SkipArc
<1>7. CASE MergeArc
  <2> DEFINE frame == [Current EXCEPT !.conjunct = @ + 1,
                             !.value = Override(@, ConstantMap({Current.conjunct}, returned[1]))]
  <2>1. IsFrame(frame)
    BY <1>7, CurrentIsFrame DEF MergeArc, InRoot, IsFrame, FrameFields, Override, ConstantMap
  <2> QED
    BY <1>1, <1>7, <2>1, CurrentIsFrame DEF MergeArc
<1>8. CASE EvaluateArc
  <2>1. Len(call') = 1 /\ IsCall(call'[1])
    BY <1>8, CurrentIsFrame DEF EvaluateArc, IsCall, IsFrame
  <2> QED
    BY <1>8, <2>1, CurrentIsFrame DEF EvaluateArc, driver, Height
<1>9. ASSUME InField \/ InRoot, PopFrame
      PROVE  TypeInv'
  <2>1. /\ IsSequence(vertex_evaluation_stack')
        /\ Height' = Height - 1
        /\ \A i \in 1 .. Height - 1 : vertex_evaluation_stack'[i] = vertex_evaluation_stack[i]
    BY <1>9, DropFrame, CurrentIsFrame DEF PopFrame, Height
  <2>2. \A i \in 1 .. Height' : IsFrame(vertex_evaluation_stack'[i])
    BY <2>1, <1>9, CurrentIsFrame
  <2>3. DOMAIN vertex_cache' = DOMAIN vertex_cache \union {Current.vertex}
    BY <1>9 DEF PopFrame, Override, ConstantMap
  <2>4. Current.vertex \in Vertices \union {Root}
    BY <1>9, CurrentIsFrame DEF IsFrame
  <2> QED
    BY <1>9, <2>1, <2>2, <2>3, <2>4, CurrentIsFrame DEF PopFrame, Unmarked, driver
<1> QED
  BY <1>2, <1>3, <1>4, <1>5, <1>6, <1>7, <1>8, <1>9
  DEF RunFrame, EvaluateTooDeep, EvaluateLiteral, EvaluateOperator, EvaluateOptionalReference,
      FinishVertex, FinishRoot

LEMMA NextTypeInv == TypeInv /\ [Next]_vars => TypeInv'
<1> SUFFICES ASSUME TypeInv, [Next]_vars PROVE TypeInv'
  OBVIOUS
<1>1. CASE UNCHANGED vars
  BY <1>1 DEF TypeInv, TypeOK, DriverOK, vars, driver, machine, Height
<1>2. CASE Next
  BY <1>1, <1>2, DriveTypeInv, EnterCallTypeInv, RunFrameTypeInv DEF Next, Done
<1> QED
  BY <1>1, <1>2

(* The control state of the evaluator is well formed, whatever the program *)
(* and whatever its values are.                                            *)
THEOREM TypeCorrect == Spec => []TypeOK
<1>1. TypeInv => TypeOK
  BY DEF TypeInv
<1> QED
  BY InitTypeInv, NextTypeInv, <1>1, PTL DEF Spec

----------------------------------------------------------------------------
(* A call made by a frame is deeper than the frame. *)
CallDeeper == call # <<>> /\ Height > 0 => Current.depth < call[1].depth

StackInv == NoReentry /\ OnlyForcedMemberRuns /\ DepthBounded /\ CallDeeper

(* The marked vertices are those of the stack, so an empty stack marks none. *)
LEMMA EmptyStackMarksNone ==
    ASSUME TypeInv, StackInv, Height = 0
    PROVE  evaluating_vertices = {}
  BY DEF StackInv, NoReentry

(* The steps preserve StackInv. *)
LEMMA InitStackInv == Init => StackInv
<1> SUFFICES ASSUME Init PROVE StackInv
  OBVIOUS
<1>1. Height = 0
  BY EmptySeq DEF Init, Height
<1> QED
  BY <1>1 DEF Init, StackInv, NoReentry, OnlyForcedMemberRuns, DepthBounded, CallDeeper

(* Only ForceMember and EvaluateRoot make a call, on an empty stack; only  *)
(* CacheCycleBottoms and the end of a component add to the cache, when     *)
(* nothing is marked; only RecordMember takes a member out of the forced.  *)
LEMMA DriveStackInv ==
    ASSUME TypeInv, StackInv, Drive
    PROVE  StackInv'
<1> USE DEF StackInv, NoReentry, OnlyForcedMemberRuns, DepthBounded, CallDeeper, Height, Current
<1>1. CASE ForceMember
  BY <1>1 DEF ForceMember, TypeInv, DriverOK
<1>2. CASE RecordMember
  BY <1>2, EmptyStackMarksNone, EmptyStack DEF RecordMember, Idle, TypeInv, TypeOK
<1>3. CASE EvaluateRoot
  BY <1>3 DEF EvaluateRoot, TypeInv, DriverOK
<1>4. CASE Finish
  BY <1>4 DEF Finish, Idle
<1>5. ASSUME UNCHANGED machine, phase \notin {"force", "root"}
      PROVE  StackInv'
  BY <1>5, EmptyStackMarksNone DEF machine, TypeInv, DriverOK
<1> QED
  BY <1>1, <1>2, <1>3, <1>4, <1>5
  DEF Drive, Collect, CacheCycleBottoms, BeginComponent, BeginIteration, Converge, Continue,
      GiveUp, FinishComponent

LEMMA EnterCallStackInv ==
    ASSUME TypeInv, StackInv, EnterCall
    PROVE  StackInv'
<1> USE DEF StackInv, NoReentry, OnlyForcedMemberRuns, DepthBounded, CallDeeper
<1>1. ASSUME NEW value, Return(value)
      PROVE  StackInv'
  BY <1>1 DEF Return, driver, Height, Current
<1>2. CASE EnterVertex
  <2>1. /\ IsSequence(vertex_evaluation_stack)
        /\ Height \in Nat
        /\ Height' = Height + 1
        /\ \A i \in 1 .. Height : vertex_evaluation_stack'[i] = vertex_evaluation_stack[i]
        /\ vertex_evaluation_stack'[Height + 1] = Frame(call[1])
    BY <1>2, PushFrame DEF EnterVertex, Height, TypeInv, TypeOK, IsSequence
  <2>2. /\ Frame(call[1]).vertex = Called
        /\ Frame(call[1]).depth = call[1].depth
    BY DEF Frame, Called
  <2>3. NoReentry'
    BY <1>2, <2>1, <2>2 DEF EnterVertex
  <2>4. OnlyForcedMemberRuns'
    BY <1>2 DEF EnterVertex, IsFixpointReentry, driver
  <2>5. DepthBounded'
    <3>1. call[1].depth <= MaxDepth
      BY <1>2, ConstantsAssumption DEF EnterVertex, TooDeep, TypeInv, TypeOK, IsCall
    <3>2. Height > 0 => vertex_evaluation_stack[Height].depth < call[1].depth
      BY <1>2 DEF EnterVertex, Current
    <3> QED
      BY <2>1, <2>2, <3>1, <3>2
  <2> QED
    BY <1>2, <2>3, <2>4, <2>5 DEF EnterVertex
<1> QED
  BY <1>1, <1>2 DEF EnterCall, ReturnPrevious, ReturnCached, ReturnPlaceholder, ReturnDepthLimit

(* A step that replaces the top frame and keeps its vertex and depth       *)
(* changes nothing the invariant is about.                                 *)
LEMMA SetFrameStackInv ==
    ASSUME TypeInv, StackInv, InField \/ InRoot, NEW frame, IsFrame(frame), SetFrame(frame),
           frame.vertex = Current.vertex, frame.depth = Current.depth,
           UNCHANGED <<vertex_cache, driver, evaluating_vertices, call>>
    PROVE  StackInv'
<1>1. /\ Height \in Nat
      /\ Height' = Height
      /\ call' = <<>>
      /\ \A i \in 1 .. Height :
             /\ vertex_evaluation_stack'[i].vertex = vertex_evaluation_stack[i].vertex
             /\ vertex_evaluation_stack'[i].depth = vertex_evaluation_stack[i].depth
  BY CurrentIsFrame, ReplaceFrame DEF TypeInv, TypeOK, SetFrame, Height, Current, IsSequence
<1>2. NoReentry'
  BY <1>1 DEF StackInv, NoReentry
<1>3. OnlyForcedMemberRuns'
  BY DEF StackInv, OnlyForcedMemberRuns, driver
<1>4. DepthBounded'
  BY <1>1 DEF StackInv, DepthBounded
<1> QED
  BY <1>1, <1>2, <1>3, <1>4 DEF StackInv, CallDeeper

LEMMA PushResultStackInv ==
    ASSUME TypeInv, StackInv, InField, NEW x, PushResult(x),
           UNCHANGED <<vertex_cache, driver, evaluating_vertices, call>>
    PROVE  StackInv'
<1> DEFINE frame == [Current EXCEPT !.operands = Append(SubSeq(@, 1, Kept), x), !.pc = @ + 1]
<1>1. IsFrame(frame) /\ frame.vertex = Current.vertex /\ frame.depth = Current.depth
  BY CurrentIsFrame DEF TypeInv, IsFrame, FrameFields
<1>2. SetFrame(frame)
  BY DEF PushResult
<1> QED
  BY <1>1, <1>2, SetFrameStackInv

(* The popped vertex was marked once, is unmarked and enters the cache. *)
LEMMA PopFrameStackInv ==
    ASSUME TypeInv, StackInv, InField \/ InRoot, PopFrame
    PROVE  StackInv'
<1> USE DEF StackInv
<1>1. /\ Height \in Nat
      /\ Height > 0
      /\ call' = <<>>
      /\ Height' = Height - 1
      /\ \A i \in 1 .. Height - 1 : vertex_evaluation_stack'[i] = vertex_evaluation_stack[i]
  BY CurrentIsFrame, DropFrame DEF PopFrame, TypeInv, TypeOK, Height
<1>2. DOMAIN vertex_cache' = DOMAIN vertex_cache \union {Current.vertex}
  BY DEF PopFrame, Override, ConstantMap
<1>3. evaluating_vertices' = evaluating_vertices \ {Current.vertex}
  BY DEF PopFrame, Unmarked
<1>4. NoReentry'
  <2>1. \A i \in 1 .. Height - 1 : vertex_evaluation_stack[i].vertex # Current.vertex
    BY <1>1 DEF NoReentry, Current
  <2>2. evaluating_vertices' =
            {vertex_evaluation_stack[i].vertex : i \in 1 .. Height - 1}
    <3>1. \A i \in 1 .. Height : i \in 1 .. Height - 1 \/ i = Height
      BY <1>1
    <3>2. \A i \in 1 .. Height - 1 : i \in 1 .. Height
      BY <1>1
    <3> QED
      BY <1>3, <2>1, <3>1, <3>2 DEF NoReentry, Current
  <2>3. evaluating_vertices' =
            {vertex_evaluation_stack'[i].vertex : i \in 1 .. Height'}
    BY <1>1, <2>2
  <2>4. \A i, j \in 1 .. Height' :
            vertex_evaluation_stack'[i].vertex = vertex_evaluation_stack'[j].vertex => i = j
    BY <1>1 DEF NoReentry
  <2>5. evaluating_vertices' \intersect DOMAIN vertex_cache' = {}
    BY <1>2, <1>3 DEF NoReentry
  <2> QED
    BY <2>3, <2>4, <2>5 DEF NoReentry
<1>5. OnlyForcedMemberRuns'
  BY <1>3 DEF PopFrame, OnlyForcedMemberRuns, driver
<1>6. DepthBounded'
  BY <1>1 DEF DepthBounded
<1> QED
  BY <1>1, <1>4, <1>5, <1>6 DEF CallDeeper

LEMMA RunFrameStackInv ==
    ASSUME TypeInv, StackInv, RunFrame
    PROVE  StackInv'
<1>1. ASSUME NEW x, InExpression, Evaluate(x)
      PROVE  StackInv'
  BY <1>1, PushResultStackInv DEF Evaluate, InExpression
<1>2. ASSUME InField \/ InRoot, NEW vertex, NEW depth \in Nat,
             UNCHANGED <<vertex_cache, driver, evaluating_vertices, vertex_evaluation_stack>>,
             call' = <<[vertex |-> vertex, depth |-> depth]>>,
             Current.depth < depth
      PROVE  StackInv'
  <2>1. Height' = Height /\ Current' = Current /\ call'[1].depth = depth
    BY <1>2 DEF Height, Current
  <2>2. NoReentry'
    BY <1>2, <2>1 DEF StackInv, NoReentry
  <2>3. OnlyForcedMemberRuns' /\ DepthBounded'
    BY <1>2, <2>1 DEF StackInv, OnlyForcedMemberRuns, DepthBounded, driver
  <2> QED
    BY <1>2, <2>1, <2>2, <2>3 DEF StackInv, CallDeeper
<1>3. CASE CallReference
  <2>1. Instruction.nesting \in Nat
    BY <1>3, CurrentInstructionOK DEF CallReference, InstructionOK, TypeInv
  <2>2. Current.depth \in Nat
    BY <1>3, CurrentIsFrame DEF CallReference, InExpression, IsFrame, TypeInv
  <2>3. ExpressionDepth + 2 \in Nat /\ Current.depth < ExpressionDepth + 2
    BY <2>1, <2>2 DEF ExpressionDepth
  <2> QED
    BY <1>2, <1>3, <2>3 DEF CallReference, InExpression
<1>4. CASE ReturnToReference
  BY <1>4, PushResultStackInv DEF ReturnToReference, InExpression
<1>5. CASE UnifyConjunct
  <2> DEFINE frame == [Current EXCEPT !.conjunct = @ + 1, !.pc = 1, !.operands = <<>>,
                             !.value = Operate("&", <<@, Current.operands[1]>>)]
  <2>1. IsFrame(frame) /\ frame.vertex = Current.vertex /\ frame.depth = Current.depth
    BY <1>5, CurrentIsFrame DEF UnifyConjunct, InField, IsFrame, FrameFields, TypeInv
  <2> QED
    BY <1>5, <2>1, SetFrameStackInv DEF UnifyConjunct
<1>6. CASE SkipArc
  <2> DEFINE frame == [Current EXCEPT !.conjunct = @ + 1]
  <2>1. IsFrame(frame) /\ frame.vertex = Current.vertex /\ frame.depth = Current.depth
    BY <1>6, CurrentIsFrame DEF SkipArc, IsFrame, FrameFields, TypeInv
  <2> QED
    BY <1>6, <2>1, SetFrameStackInv DEF SkipArc
<1>7. CASE MergeArc
  <2> DEFINE frame == [Current EXCEPT !.conjunct = @ + 1,
                             !.value = Override(@, ConstantMap({Current.conjunct}, returned[1]))]
  <2>1. IsFrame(frame) /\ frame.vertex = Current.vertex /\ frame.depth = Current.depth
    BY <1>7, CurrentIsFrame
    DEF MergeArc, InRoot, IsFrame, FrameFields, Override, ConstantMap, TypeInv
  <2> QED
    BY <1>7, <2>1, SetFrameStackInv DEF MergeArc
<1>8. CASE EvaluateArc
  <2>1. Current.depth \in Nat
    BY <1>8, CurrentIsFrame DEF EvaluateArc, IsFrame, TypeInv
  <2>2. Current.depth + 1 \in Nat /\ Current.depth < Current.depth + 1
    BY <2>1
  <2> QED
    BY <1>2, <1>8, <2>2 DEF EvaluateArc
<1>9. CASE FinishVertex \/ FinishRoot
  BY <1>9, PopFrameStackInv DEF FinishVertex, FinishRoot
<1> QED
  BY <1>1, <1>3, <1>4, <1>5, <1>6, <1>7, <1>8, <1>9
  DEF RunFrame, EvaluateTooDeep, EvaluateLiteral, EvaluateOperator, EvaluateOptionalReference

LEMMA NextStackInv == TypeInv /\ StackInv /\ [Next]_vars => StackInv'
<1> SUFFICES ASSUME TypeInv, StackInv, [Next]_vars PROVE StackInv'
  OBVIOUS
<1>1. CASE UNCHANGED vars
  BY <1>1
  DEF StackInv, NoReentry, OnlyForcedMemberRuns, DepthBounded, CallDeeper, vars, driver, machine,
      Height, Current
<1>2. CASE Next
  BY <1>1, <1>2, DriveStackInv, EnterCallStackInv, RunFrameStackInv DEF Next, Done
<1> QED
  BY <1>1, <1>2

LEMMA Invariance == Spec => [](TypeInv /\ StackInv)
  BY InitTypeInv, NextTypeInv, InitStackInv, NextStackInv, PTL DEF Spec

(* No vertex is ever evaluated inside its own evaluation, for any program, *)
(* any references and any depth limit.                                     *)
THEOREM Reentry == Spec => []NoReentry
<1>1. StackInv => NoReentry
  BY DEF StackInv
<1> QED
  BY Invariance, <1>1, PTL

(* While a cycle is solved, no member but the forced one is evaluated.     *)
THEOREM ForcedMember == Spec => []OnlyForcedMemberRuns
<1>1. StackInv => OnlyForcedMemberRuns
  BY DEF StackInv
<1> QED
  BY Invariance, <1>1, PTL

(* The recursion stays within max_depth.                                   *)
THEOREM Depth == Spec => []DepthBounded
<1>1. StackInv => DepthBounded
  BY DEF StackInv
<1> QED
  BY Invariance, <1>1, PTL

----------------------------------------------------------------------------
(* What CacheStable allows a step to do to the cache. *)
CacheKept ==
    \A v \in DOMAIN vertex_cache :
        \/ v \in DOMAIN vertex_cache' /\ vertex_cache'[v] = vertex_cache[v]
        \/ v \in fixpoint_active_vertices
        \/ components # <<>> /\ components' = Tail(components) /\ v \in Head(components)

(* Adding entries for members of the cycle keeps the other ones. *)
LEMMA OverrideKeeps ==
    ASSUME NEW N, vertex_cache' = Override(vertex_cache, N),
           \A v \in DOMAIN N \intersect DOMAIN vertex_cache :
               \/ v \in fixpoint_active_vertices
               \/ components # <<>> /\ components' = Tail(components) /\ v \in Head(components)
    PROVE  CacheKept
  BY DEF CacheKept, Override

LEMMA StepKeepsCache == TypeInv /\ StackInv /\ [Next]_vars => CacheKept
<1> SUFFICES ASSUME TypeInv, StackInv, [Next]_vars PROVE CacheKept
  OBVIOUS
<1>1. ASSUME UNCHANGED vertex_cache PROVE CacheKept
  BY <1>1 DEF CacheKept
<1>2. CASE CacheCycleBottoms
  BY <1>2, OverrideKeeps DEF CacheCycleBottoms, ConstantMap
<1>3. CASE BeginIteration
  BY <1>3 DEF BeginIteration, ClearFixpointCacheEntries, Without, CacheKept
<1>4. CASE Converge
  BY <1>4, OverrideKeeps DEF Converge, FinishComponent, TypeInv, TypeOK
<1>5. CASE GiveUp
  BY <1>5, OverrideKeeps DEF GiveUp, FinishComponent, ConstantMap
<1>6. ASSUME InField \/ InRoot, PopFrame PROVE CacheKept
  <2>1. Current.vertex \notin DOMAIN vertex_cache
    BY <1>6, CurrentIsFrame DEF StackInv, NoReentry, Current, TypeInv
  <2> QED
    BY <1>6, <2>1, OverrideKeeps DEF PopFrame, ConstantMap
<1>7. CASE EnterCall
  BY <1>1, <1>7
  DEF EnterCall, ReturnPrevious, ReturnCached, ReturnPlaceholder, ReturnDepthLimit, EnterVertex,
      Return
<1>8. CASE Drive
  BY <1>1, <1>2, <1>3, <1>4, <1>5, <1>8
  DEF Drive, Collect, BeginComponent, ForceMember, RecordMember, Continue, EvaluateRoot, Finish
<1>9. CASE RunFrame
  BY <1>1, <1>6, <1>9
  DEF RunFrame, EvaluateTooDeep, EvaluateLiteral, EvaluateOperator, EvaluateOptionalReference,
      CallReference, ReturnToReference, UnifyConjunct, EvaluateArc, SkipArc, MergeArc,
      FinishVertex, FinishRoot, Evaluate
<1> QED
  BY <1>1, <1>7, <1>8, <1>9 DEF Next, Done, vars

(* A cached value changes only with the cycle it belongs to: what an       *)
(* earlier reader of a vertex saw stays its value.                         *)
THEOREM CachedValuesStay == Spec => CacheStable
<1>1. TypeInv /\ StackInv /\ [Next]_vars => [CacheKept]_vars
  BY StepKeepsCache
<1> QED
  BY Invariance, <1>1, PTL DEF Spec, CacheStable, CacheKept
=============================================================================
