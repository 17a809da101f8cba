----------------------- MODULE EvaluatorDriverProofs -----------------------
(***************************************************************************)
(* Theorems about what the evaluator's driver and its recursion leave to   *)
(* each other.                                                             *)
(*                                                                         *)
(* CycleInv follows the forced member of a cycle from its call to its      *)
(* answer: the other members cannot enter the cache meanwhile, since       *)
(* OnlyForcedMemberRuns, and the forced one enters it only when the stack  *)
(* is empty again, since NoReentry puts it nowhere but at the bottom.      *)
(* NoStaleMember is what is left of it between two members.                *)
(*                                                                         *)
(* WaitInv says that a frame that waits for a value is at the reference,   *)
(* or the arc, it asked for, and that the two counters of the evaluator    *)
(* are the sums of what the waiting frames entered.  QuiescentWhenIdle is  *)
(* the empty sum.                                                          *)
(*                                                                         *)
(* SolvingInv compares the frame of the forced member with its equation,   *)
(* instruction by instruction: a map stands for what its references are    *)
(* read from, which only grows while the cycle is being solved and is the  *)
(* cache itself when it has converged.  ConvergedSolves is what is left.   *)
(***************************************************************************)
EXTENDS EvaluatorProofs, EvaluatorEquations

----------------------------------------------------------------------------
(* The members' cache entries are the values of this iteration. *)
Recorded ==
    /\ DOMAIN vertex_cache \intersect fixpoint_active_vertices = DOMAIN next_values
    /\ \A v \in DOMAIN next_values : vertex_cache[v] = next_values[v]

(* The forced member was called, is being evaluated, or has been.          *)
MemberCalled(v) ==
    /\ Height = 0
    /\ call = <<[vertex |-> v, depth |-> 0]>>
    /\ returned = <<>>
    /\ Recorded

MemberRuns(v) ==
    /\ Height > 0
    /\ vertex_evaluation_stack[1].vertex = v
    /\ Recorded

MemberAnswered(v) ==
    /\ Height = 0
    /\ call = <<>>
    /\ DOMAIN vertex_cache \intersect fixpoint_active_vertices = DOMAIN next_values \union {v}
    /\ \A w \in DOMAIN next_values : vertex_cache[w] = next_values[w]
    /\ vertex_cache[v] = returned[1]

MemberForced(v) == MemberCalled(v) \/ MemberRuns(v) \/ MemberAnswered(v)

CycleInv ==
    /\ phase \in {"sweep", "select"} => fixpoint_forcing_vertices = {}
    /\ phase = "select" => Recorded
    /\ phase = "force" =>
           \E v \in MembersLeft : fixpoint_forcing_vertices = {v} /\ MemberForced(v)

LEMMA InitCycleInv == Init => CycleInv
  BY DEF Init, CycleInv

(* A member is called only when no other one is; its value is what the     *)
(* cache holds for it when it is recorded.                                 *)
LEMMA DriveCycleInv ==
    ASSUME TypeInv, CycleInv, Drive
    PROVE  CycleInv'
<1> USE DEF CycleInv
<1>1. CASE Collect \/ CacheCycleBottoms \/ EvaluateRoot \/ Finish \/ Converge \/ GiveUp
  BY <1>1
  DEF Collect, CacheCycleBottoms, EvaluateRoot, Finish, Converge, GiveUp, FinishComponent
<1>2. CASE BeginComponent
  BY <1>2 DEF BeginComponent
<1>3. CASE BeginIteration
  BY <1>3 DEF BeginIteration, ClearFixpointCacheEntries, Without, EmptyMap, Recorded
<1>4. CASE Continue
  BY <1>4 DEF Continue
<1>5. CASE ForceMember
  <2>1. PICK v \in MembersLeft :
            /\ fixpoint_forcing_vertices' = fixpoint_forcing_vertices \union {v}
            /\ call' = <<[vertex |-> v, depth |-> 0]>>
    BY <1>5 DEF ForceMember
  <2>2. MemberCalled(v)'
    BY <1>5, <2>1 DEF ForceMember, MemberCalled, Recorded, Height, TypeInv, DriverOK
  <2> QED
    BY <1>5, <2>1, <2>2 DEF ForceMember, MemberForced, MembersLeft
<1>6. CASE RecordMember
  <2>1. PICK v \in MembersLeft : fixpoint_forcing_vertices = {v} /\ MemberForced(v)
    BY <1>6 DEF RecordMember
  <2>2. MemberAnswered(v)
    BY <1>6, <2>1, EmptyStack
    DEF RecordMember, Idle, MemberForced, MemberCalled, MemberRuns, Height, TypeInv, TypeOK
  <2>3. /\ next_values' = Override(next_values, ConstantMap({v}, returned[1]))
        /\ fixpoint_forcing_vertices' = {}
    BY <1>6, <2>1 DEF RecordMember
  <2>4. /\ DOMAIN next_values' = DOMAIN next_values \union {v}
        /\ \A w \in DOMAIN next_values \ {v} : next_values'[w] = next_values[w]
        /\ next_values'[v] = returned[1]
    BY <2>3 DEF Override, ConstantMap
  <2>5. Recorded'
    BY <1>6, <2>2, <2>4 DEF RecordMember, MemberAnswered, Recorded
  <2> QED
    BY <1>6, <2>3, <2>5 DEF RecordMember
<1> QED
  BY <1>1, <1>2, <1>3, <1>4, <1>5, <1>6 DEF Drive

(* The forced call is answered by entering the vertex: it is the one       *)
(* member that is not answered with its previous value, and it is neither  *)
(* cached nor marked nor too deep.                                         *)
LEMMA EnterCallCycleInv ==
    ASSUME TypeInv, StackInv, CycleInv, EnterCall
    PROVE  CycleInv'
<1>1. UNCHANGED <<driver, vertex_cache>> /\ call # <<>>
  BY DEF EnterCall, ReturnPrevious, ReturnCached, ReturnPlaceholder, ReturnDepthLimit,
         EnterVertex, Return
<1>2. CASE phase # "force"
  BY <1>1, <1>2 DEF CycleInv, Recorded, driver
<1>3. CASE phase = "force"
  <2>1. PICK v \in MembersLeft : fixpoint_forcing_vertices = {v} /\ MemberForced(v)
    BY <1>3 DEF CycleInv
  <2>2. ~MemberAnswered(v)
    BY <1>1 DEF MemberAnswered
  <2>3. CASE MemberCalled(v)
    <3>1. EnterVertex
      <4>1. Called = v /\ call[1].depth = 0
        BY <2>3 DEF MemberCalled, Called
      <4>2. ~IsFixpointReentry(v) /\ v \notin evaluating_vertices
        BY <2>1, <2>3, EmptyStackMarksNone DEF MemberCalled, IsFixpointReentry
      <4>3. v \notin DOMAIN vertex_cache
        BY <2>3 DEF MemberCalled, Recorded, MembersLeft
      <4>4. ~TooDeep(call[1].depth)
        BY <4>1, ConstantsAssumption DEF TooDeep
      <4> QED
        BY <4>1, <4>2, <4>3, <4>4
        DEF EnterCall, ReturnPrevious, ReturnCached, ReturnPlaceholder, ReturnDepthLimit
    <3>2. /\ Height' = 1
          /\ vertex_evaluation_stack'[1] = Frame(call[1])
      BY <3>1, <2>3, PushFrame DEF EnterVertex, MemberCalled, Height, TypeInv, TypeOK
    <3>3. MemberRuns(v)'
      BY <1>1, <2>3, <3>2 DEF MemberRuns, MemberCalled, Recorded, Frame, driver
    <3> QED
      BY <1>1, <1>3, <2>1, <3>3 DEF CycleInv, MemberForced, MembersLeft, driver
  <2>4. CASE MemberRuns(v)
    <3>1. Height' > 0 /\ vertex_evaluation_stack'[1] = vertex_evaluation_stack[1]
      <4>1. CASE UNCHANGED vertex_evaluation_stack
        BY <4>1, <2>4 DEF MemberRuns, Height
      <4>2. CASE EnterVertex
        BY <4>2, <2>4, PushFrame
        DEF EnterVertex, MemberRuns, Height, TypeInv, TypeOK, IsSequence
      <4> QED
        BY <4>1, <4>2
        DEF EnterCall, ReturnPrevious, ReturnCached, ReturnPlaceholder, ReturnDepthLimit, Return
    <3>2. MemberRuns(v)'
      BY <1>1, <2>4, <3>1 DEF MemberRuns, Recorded, driver
    <3> QED
      BY <1>1, <1>3, <2>1, <3>2 DEF CycleInv, MemberForced, MembersLeft, driver
  <2> QED
    BY <2>1, <2>2, <2>3, <2>4 DEF MemberForced
<1> QED
  BY <1>2, <1>3

(* A running frame keeps its vertex; the steps of a frame other than the   *)
(* pop leave the cache alone.                                              *)
LEMMA SetFrameKeepsVertices ==
    ASSUME TypeInv, InField \/ InRoot, NEW frame, SetFrame(frame), frame.vertex = Current.vertex
    PROVE  /\ Height' = Height
           /\ \A i \in 1 .. Height :
                  vertex_evaluation_stack'[i].vertex = vertex_evaluation_stack[i].vertex
  BY CurrentIsFrame, ReplaceFrame DEF TypeInv, TypeOK, SetFrame, Height, Current, IsSequence

LEMMA RunFrameKeepsVertices ==
    ASSUME TypeInv, RunFrame, ~FinishVertex, ~FinishRoot
    PROVE  /\ UNCHANGED <<driver, vertex_cache>>
           /\ Height' = Height
           /\ \A i \in 1 .. Height :
                  vertex_evaluation_stack'[i].vertex = vertex_evaluation_stack[i].vertex
<1>1. ASSUME NEW x, InField, PushResult(x)
      PROVE  /\ Height' = Height
             /\ \A i \in 1 .. Height :
                    vertex_evaluation_stack'[i].vertex = vertex_evaluation_stack[i].vertex
  <2> DEFINE frame == [Current EXCEPT !.operands = Append(SubSeq(@, 1, Kept), x), !.pc = @ + 1]
  <2>1. frame.vertex = Current.vertex /\ SetFrame(frame)
    BY <1>1, CurrentIsFrame DEF PushResult, TypeInv, IsFrame, FrameFields
  <2> HIDE DEF frame
  <2> QED
    BY <1>1, <2>1, SetFrameKeepsVertices
<1>2. ASSUME NEW x, InExpression, Evaluate(x)
      PROVE  /\ UNCHANGED <<driver, vertex_cache>>
             /\ Height' = Height
             /\ \A i \in 1 .. Height :
                    vertex_evaluation_stack'[i].vertex = vertex_evaluation_stack[i].vertex
  BY <1>1, <1>2 DEF Evaluate, InExpression
<1>3. CASE ReturnToReference
  BY <1>1, <1>3 DEF ReturnToReference, InExpression
<1>4. CASE CallReference \/ EvaluateArc
  BY <1>4 DEF CallReference, EvaluateArc, Height
<1>5. CASE UnifyConjunct
  <2> DEFINE frame == [Current EXCEPT !.conjunct = @ + 1, !.pc = 1, !.operands = <<>>,
                             !.value = Operate("&", <<@, Current.operands[1]>>)]
  <2>1. frame.vertex = Current.vertex /\ SetFrame(frame)
    BY <1>5, CurrentIsFrame DEF UnifyConjunct, TypeInv, IsFrame, FrameFields
  <2> HIDE DEF frame
  <2> QED
    BY <1>5, <2>1, SetFrameKeepsVertices DEF UnifyConjunct
<1>6. CASE SkipArc
  <2> DEFINE frame == [Current EXCEPT !.conjunct = @ + 1]
  <2>1. frame.vertex = Current.vertex /\ SetFrame(frame)
    BY <1>6, CurrentIsFrame DEF SkipArc, TypeInv, IsFrame, FrameFields
  <2> HIDE DEF frame
  <2> QED
    BY <1>6, <2>1, SetFrameKeepsVertices DEF SkipArc
<1>7. CASE MergeArc
  <2> DEFINE frame == [Current EXCEPT !.conjunct = @ + 1,
                             !.value = Override(@, ConstantMap({Current.conjunct}, returned[1]))]
  <2>1. frame.vertex = Current.vertex /\ SetFrame(frame)
    BY <1>7, CurrentIsFrame DEF MergeArc, TypeInv, IsFrame, FrameFields
  <2> HIDE DEF frame
  <2> QED
    BY <1>7, <2>1, SetFrameKeepsVertices DEF MergeArc
<1> QED
  BY <1>2, <1>3, <1>4, <1>5, <1>6, <1>7
  DEF RunFrame, EvaluateTooDeep, EvaluateLiteral, EvaluateOperator, EvaluateOptionalReference

(* The vertex that is popped is the forced member at the bottom of the     *)
(* stack, or no member at all.                                             *)
LEMMA PopFrameCycleInv ==
    ASSUME TypeInv, StackInv, CycleInv, InField \/ InRoot, PopFrame
    PROVE  CycleInv'
<1>1. UNCHANGED driver
  BY DEF PopFrame
<1>2. /\ Height \in Nat
      /\ Height > 0
      /\ call' = <<>>
      /\ Height' = Height - 1
      /\ \A i \in 1 .. Height - 1 : vertex_evaluation_stack'[i] = vertex_evaluation_stack[i]
  BY CurrentIsFrame, DropFrame DEF PopFrame, TypeInv, TypeOK, Height
<1>3. phase \in {"force", "root"}
  BY <1>2 DEF TypeInv, DriverOK, TypeOK
<1>4. CASE phase = "force"
  <2>1. PICK v \in MembersLeft : fixpoint_forcing_vertices = {v} /\ MemberForced(v)
    BY <1>4 DEF CycleInv
  <2>2. MemberRuns(v)
    BY <1>2, <2>1 DEF MemberForced, MemberCalled, MemberAnswered
  <2>3. /\ DOMAIN vertex_cache' = DOMAIN vertex_cache \union {Current.vertex}
        /\ \A w \in DOMAIN vertex_cache : w # Current.vertex => vertex_cache'[w] = vertex_cache[w]
        /\ vertex_cache'[Current.vertex] = Current.value
        /\ returned' = <<Current.value>>
    BY DEF PopFrame, Override, ConstantMap
  <2>4. Current.vertex \in evaluating_vertices
    BY <1>2 DEF StackInv, NoReentry, Current
  <2>5. Current.vertex \notin DOMAIN next_values
    BY <2>2, <2>4 DEF MemberRuns, Recorded, StackInv, NoReentry
  <2>6. MemberForced(v)'
    <3>1. CASE Height = 1
      BY <1>1, <1>2, <2>2, <2>3, <2>5, <3>1, <2>1
      DEF MemberForced, MemberRuns, MemberAnswered, Recorded, Current, MembersLeft, driver
    <3>2. CASE Height > 1
      <4>1. Current.vertex # v
        BY <1>2, <2>2, <3>2 DEF MemberRuns, Current, StackInv, NoReentry
      <4>2. Current.vertex \notin fixpoint_active_vertices
        BY <2>1, <2>4, <4>1 DEF StackInv, OnlyForcedMemberRuns
      <4>3. Recorded'
        BY <1>1, <2>2, <2>3, <2>5, <4>2 DEF MemberRuns, Recorded, driver
      <4>4. Height' > 0 /\ vertex_evaluation_stack'[1].vertex = v
        BY <1>2, <2>2, <3>2 DEF MemberRuns
      <4> QED
        BY <4>3, <4>4 DEF MemberForced, MemberRuns
    <3> QED
      BY <1>2, <3>1, <3>2
  <2> QED
    BY <1>1, <1>4, <2>1, <2>6 DEF CycleInv, MembersLeft, driver
<1>5. CASE phase = "root"
  BY <1>1, <1>5 DEF CycleInv, driver
<1> QED
  BY <1>3, <1>4, <1>5

LEMMA RunFrameCycleInv ==
    ASSUME TypeInv, StackInv, CycleInv, RunFrame
    PROVE  CycleInv'
<1>1. CASE FinishVertex \/ FinishRoot
  BY <1>1, PopFrameCycleInv DEF FinishVertex, FinishRoot
<1>2. CASE ~FinishVertex /\ ~FinishRoot
  <2>1. /\ UNCHANGED <<driver, vertex_cache>>
        /\ Height' = Height
        /\ \A i \in 1 .. Height :
               vertex_evaluation_stack'[i].vertex = vertex_evaluation_stack[i].vertex
    BY <1>2, RunFrameKeepsVertices
  <2>2. InField \/ InRoot
    BY DEF RunFrame, EvaluateTooDeep, EvaluateLiteral, EvaluateOperator,
           EvaluateOptionalReference, CallReference, ReturnToReference, UnifyConjunct,
           FinishVertex, EvaluateArc, SkipArc, MergeArc, FinishRoot, InExpression
  <2>3. Height \in Nat /\ Height > 0
    BY <2>2, CurrentIsFrame DEF TypeInv
  <2>4. ASSUME NEW v, MemberForced(v) PROVE MemberForced(v)'
    BY <2>1, <2>3, <2>4
    DEF MemberForced, MemberCalled, MemberRuns, MemberAnswered, Recorded, driver
  <2> QED
    BY <2>1, <2>4 DEF CycleInv, MembersLeft, Recorded, driver
<1> QED
  BY <1>1, <1>2

LEMMA NextCycleInv == TypeInv /\ StackInv /\ CycleInv /\ [Next]_vars => CycleInv'
<1> SUFFICES ASSUME TypeInv, StackInv, CycleInv, [Next]_vars PROVE CycleInv'
  OBVIOUS
<1>1. CASE UNCHANGED vars
  BY <1>1
  DEF CycleInv, Recorded, MemberForced, MemberCalled, MemberRuns, MemberAnswered, MembersLeft,
      Height, vars, driver, machine
<1>2. CASE Next
  BY <1>1, <1>2, DriveCycleInv, EnterCallCycleInv, RunFrameCycleInv DEF Next, Done
<1> QED
  BY <1>1, <1>2

(* Between two members of a cycle the cache holds for the members exactly  *)
(* the values this iteration computed, for any program and any meaning of  *)
(* the operators (iterate_fixpoint_vertices).                              *)
THEOREM FreshMembers == Spec => []NoStaleMember
<1>1. CycleInv => NoStaleMember
  BY DEF CycleInv, Recorded, NoStaleMember
<1> QED
  BY Invariance, InitCycleInv, NextCycleInv, <1>1, PTL DEF Spec

----------------------------------------------------------------------------
(* total is the sum of the first n weights.                                *)
SumsTo(weight, n, total) ==
    \E sum \in [0 .. n -> Nat] :
        /\ sum[0] = 0
        /\ \A i \in 1 .. n : sum[i] = sum[i - 1] + weight[i]
        /\ total = sum[n]

LEMMA SumOfNone ==
    ASSUME NEW w, NEW total
    PROVE  SumsTo(w, 0, total) <=> total = 0
<1>1. SumsTo(w, 0, total) => total = 0
  BY DEF SumsTo
<1>2. SumsTo(w, 0, 0)
  <2> DEFINE sum == [i \in 0 .. 0 |-> 0]
  <2>1. sum \in [0 .. 0 -> Nat] /\ sum[0] = 0 /\ 1 .. 0 = {}
    OBVIOUS
  <2> HIDE DEF sum
  <2> QED
    BY <2>1 DEF SumsTo
<1> QED
  BY <1>1, <1>2

LEMMA SumIsNat ==
    ASSUME NEW w, NEW n \in Nat, NEW total, SumsTo(w, n, total)
    PROVE  total \in Nat
  BY DEF SumsTo

LEMMA SumOfMore ==
    ASSUME NEW w, NEW x, NEW n \in Nat, NEW total, SumsTo(w, n, total),
           \A i \in 1 .. n : x[i] = w[i],
           x[n + 1] \in Nat
    PROVE  SumsTo(x, n + 1, total + x[n + 1])
<1>1. PICK sum \in [0 .. n -> Nat] :
          /\ sum[0] = 0
          /\ \A i \in 1 .. n : sum[i] = sum[i - 1] + w[i]
          /\ total = sum[n]
  BY DEF SumsTo
<1> DEFINE more == [i \in 0 .. n + 1 |-> IF i = n + 1 THEN total + x[n + 1] ELSE sum[i]]
<1>2. more \in [0 .. n + 1 -> Nat]
  BY <1>1
<1>3. \A i \in 1 .. n + 1 : more[i] = more[i - 1] + x[i]
  <2> TAKE i \in 1 .. n + 1
  <2>1. CASE i = n + 1
    BY <1>1, <2>1
  <2>2. CASE i \in 1 .. n
    BY <1>1, <2>2
  <2> QED
    BY <2>1, <2>2
<1>4. more[0] = 0 /\ more[n + 1] = total + x[n + 1]
  BY <1>1
<1> HIDE DEF more
<1> QED
  BY <1>2, <1>3, <1>4 DEF SumsTo

LEMMA SumOfNext ==
    ASSUME NEW w, NEW n \in Nat, NEW total, SumsTo(w, n, total), w[n + 1] \in Nat
    PROVE  SumsTo(w, n + 1, total + w[n + 1])
<1>1. \A i \in 1 .. n : w[i] = w[i]
  OBVIOUS
<1> QED
  BY <1>1, SumOfMore

LEMMA SumOfLess ==
    ASSUME NEW w, NEW x, NEW n \in Nat \ {0}, NEW total, SumsTo(w, n, total),
           w[n] \in Nat,
           \A i \in 1 .. n - 1 : x[i] = w[i]
    PROVE  SumsTo(x, n - 1, total - w[n])
<1>1. PICK sum \in [0 .. n -> Nat] :
          /\ sum[0] = 0
          /\ \A i \in 1 .. n : sum[i] = sum[i - 1] + w[i]
          /\ total = sum[n]
  BY DEF SumsTo
<1> DEFINE less == [i \in 0 .. n - 1 |-> sum[i]]
<1>2. less \in [0 .. n - 1 -> Nat] /\ less[0] = 0
  BY <1>1
<1>3. \A i \in 1 .. n - 1 : less[i] = less[i - 1] + x[i]
  BY <1>1
<1>4. total - w[n] = less[n - 1]
  <2>1. sum[n] = sum[n - 1] + w[n] /\ sum[n - 1] \in Nat
    BY <1>1
  <2> QED
    BY <1>1, <2>1
<1> HIDE DEF less
<1> QED
  BY <1>2, <1>3, <1>4 DEF SumsTo

----------------------------------------------------------------------------
(* Every frame but the top waits for the one above it, the top frame for   *)
(* the call it made until it has taken the answer.                         *)
IsWaiting(i) == i < Height \/ call # <<>> \/ returned # <<>>

InstructionOf(frame) == program.conjuncts[frame.vertex][frame.conjunct][frame.pc]

AtReference(frame) ==
    /\ frame.vertex \in Vertices
    /\ frame.conjunct <= Len(Conjuncts(frame.vertex))
    /\ frame.pc <= Len(Conjuncts(frame.vertex)[frame.conjunct])
    /\ IsReference(InstructionOf(frame))
    /\ InstructionOf(frame).field \notin program.optional
    /\ ~TooDeep(frame.depth + 1 + InstructionOf(frame).nesting)

AtArc(frame) == frame.vertex = Root /\ frame.conjunct \in Vertices \ program.skipped

(* How many operands of & and struct fields the evaluation entered at each *)
(* frame.                                                                  *)
EntersReference(i) == IsWaiting(i) /\ vertex_evaluation_stack[i].vertex # Root

OperandsAround ==
    [i \in 1 .. Height |->
        IF EntersReference(i) THEN InstructionOf(vertex_evaluation_stack[i]).operands ELSE 0]

FieldsAround ==
    [i \in 1 .. Height |->
        IF EntersReference(i) THEN InstructionOf(vertex_evaluation_stack[i]).fields ELSE 0]

CountersOK ==
    /\ SumsTo(OperandsAround, Height, cycle_fallback_to_top)
    /\ SumsTo(FieldsAround, Height, field_evaluation_stack)

WaitInv ==
    /\ \A i \in 1 .. Height :
           IsWaiting(i) =>
               AtReference(vertex_evaluation_stack[i]) \/ AtArc(vertex_evaluation_stack[i])
    /\ call # <<>> => returned = <<>>
    /\ CountersOK

(* The counters of the frames below the top do not change when the top     *)
(* frame does, as they wait whatever it does.                              *)
LEMMA SameFrames ==
    ASSUME NEW n \in Nat, TypeInv, TypeInv', WaitInv, program' = program,
           n <= Height, n <= Height',
           \A i \in 1 .. n : vertex_evaluation_stack'[i] = vertex_evaluation_stack[i],
           \A i \in 1 .. n : IsWaiting(i)' <=> IsWaiting(i)
    PROVE  /\ \A i \in 1 .. n : OperandsAround'[i] = OperandsAround[i]
           /\ \A i \in 1 .. n : FieldsAround'[i] = FieldsAround[i]
           /\ \A i \in 1 .. n :
                  IsWaiting(i)' =>
                      AtReference(vertex_evaluation_stack[i])' \/ AtArc(vertex_evaluation_stack[i])'
<1>1. Height \in Nat /\ Height' \in Nat
  BY DEF TypeInv, TypeOK, IsSequence, Height
<1>2. \A i \in 1 .. n : i \in 1 .. Height /\ i \in 1 .. Height'
  BY <1>1
<1>3. \A i \in 1 .. n : OperandsAround'[i] = OperandsAround[i] /\ FieldsAround'[i] = FieldsAround[i]
  BY <1>2 DEF OperandsAround, FieldsAround, EntersReference, InstructionOf
<1>4. \A i \in 1 .. n :
          IsWaiting(i)' =>
              AtReference(vertex_evaluation_stack[i])' \/ AtArc(vertex_evaluation_stack[i])'
  BY <1>2 DEF WaitInv, AtReference, AtArc, InstructionOf, Conjuncts
<1> QED
  BY <1>3, <1>4

(* The instruction of a waiting field frame counts its operands and fields. *)
LEMMA WaitingInstruction ==
    ASSUME TypeOK, NEW frame, IsFrame(frame), AtReference(frame)
    PROVE  /\ InstructionOf(frame).operands \in Nat
           /\ InstructionOf(frame).fields \in Nat
<1>1. /\ program \in Programs
      /\ frame.vertex \in Vertices
      /\ frame.conjunct \in 1 .. Len(program.conjuncts[frame.vertex])
      /\ frame.pc \in 1 .. Len(program.conjuncts[frame.vertex][frame.conjunct])
  BY ProgramsAssumption DEF TypeOK, AtReference, Conjuncts, IsFrame
<1>2. InstructionOK(InstructionOf(frame))
  BY <1>1, ProgramsAssumption DEF InstructionOf
<1> QED
  BY <1>2 DEF AtReference, IsReference, InstructionOK, Operators

LEMMA InitWaitInv == Init => WaitInv
<1> SUFFICES ASSUME Init PROVE WaitInv
  OBVIOUS
<1>1. Height = 0
  BY EmptySeq DEF Init, Height
<1> QED
  BY <1>1, SumOfNone DEF Init, WaitInv, CountersOK

(* The driver calls and takes an answer only when no frame waits. *)
LEMMA DriveWaitInv ==
    ASSUME TypeInv, WaitInv, Drive
    PROVE  WaitInv'
<1>1. CASE UNCHANGED machine
  <2>1. UNCHANGED program
    BY DEF Drive, Collect, CacheCycleBottoms, BeginComponent, BeginIteration, ForceMember,
           RecordMember, Converge, Continue, GiveUp, EvaluateRoot, Finish, FinishComponent
  <2> QED
    BY <1>1, <2>1
    DEF WaitInv, IsWaiting, AtReference, AtArc, CountersOK, OperandsAround, FieldsAround,
        EntersReference, InstructionOf, Conjuncts, Height, machine
<1>2. CASE ForceMember \/ RecordMember \/ EvaluateRoot \/ Finish
  <2>1. /\ Height = 0
        /\ Height' = 0
        /\ UNCHANGED <<cycle_fallback_to_top, field_evaluation_stack>>
        /\ call' # <<>> => returned' = <<>>
    BY <1>2, EmptyStack
    DEF ForceMember, RecordMember, EvaluateRoot, Finish, Idle, TypeInv, TypeOK, DriverOK, Height
  <2>2. cycle_fallback_to_top = 0 /\ field_evaluation_stack = 0
    BY <2>1, SumOfNone DEF WaitInv, CountersOK
  <2>3. CountersOK'
    BY <2>1, <2>2, SumOfNone DEF CountersOK
  <2> QED
    BY <2>1, <2>3 DEF WaitInv
<1> QED
  BY <1>1, <1>2
  DEF Drive, Collect, CacheCycleBottoms, BeginComponent, BeginIteration, Converge, Continue,
      GiveUp, FinishComponent

(* A call that is answered at once leaves the frames waiting; a call that  *)
(* is entered puts a frame on top that waits for nothing.                  *)
LEMMA EnterCallWaitInv ==
    ASSUME TypeInv, TypeInv', WaitInv, EnterCall
    PROVE  WaitInv'
<1>1. Height \in Nat
  BY DEF TypeInv, TypeOK, IsSequence, Height
<1>2. call # <<>> /\ returned = <<>> /\ UNCHANGED program
  BY DEF EnterCall, ReturnPrevious, ReturnCached, ReturnPlaceholder, ReturnDepthLimit,
         EnterVertex, Return, WaitInv
<1>3. ASSUME NEW value, Return(value)
      PROVE  WaitInv'
  BY <1>2, <1>3
  DEF Return, WaitInv, IsWaiting, AtReference, AtArc, CountersOK, OperandsAround, FieldsAround,
      EntersReference, InstructionOf, Conjuncts, Height
<1>4. CASE EnterVertex
  <2>1. /\ Height' = Height + 1
        /\ \A i \in 1 .. Height : vertex_evaluation_stack'[i] = vertex_evaluation_stack[i]
        /\ call' = <<>>
        /\ returned' = <<>>
        /\ UNCHANGED <<cycle_fallback_to_top, field_evaluation_stack>>
    BY <1>2, <1>4, PushFrame DEF EnterVertex, TypeInv, TypeOK, Height
  <2>2. /\ \A i \in 1 .. Height : IsWaiting(i)' /\ IsWaiting(i)
        /\ \A i : i = Height + 1 => ~IsWaiting(i)'
    BY <1>1, <1>2, <2>1 DEF IsWaiting
  <2>3. /\ \A i \in 1 .. Height : OperandsAround'[i] = OperandsAround[i]
        /\ \A i \in 1 .. Height : FieldsAround'[i] = FieldsAround[i]
        /\ \A i \in 1 .. Height :
               IsWaiting(i)' =>
                   AtReference(vertex_evaluation_stack[i])' \/ AtArc(vertex_evaluation_stack[i])'
    BY <1>1, <1>2, <2>1, <2>2, SameFrames
  <2>4. OperandsAround'[Height + 1] = 0 /\ FieldsAround'[Height + 1] = 0
    <3>1. Height + 1 \in 1 .. Height'
      BY <1>1, <2>1
    <3> QED
      BY <2>2, <3>1 DEF OperandsAround, FieldsAround, EntersReference
  <2>5. /\ cycle_fallback_to_top \in Nat
        /\ field_evaluation_stack \in Nat
    BY <1>1, SumIsNat DEF WaitInv, CountersOK
  <2>6. /\ SumsTo(OperandsAround, Height, cycle_fallback_to_top)
        /\ SumsTo(FieldsAround, Height, field_evaluation_stack)
        /\ OperandsAround'[Height + 1] \in Nat /\ FieldsAround'[Height + 1] \in Nat
    BY <2>4 DEF WaitInv, CountersOK
  <2>7. SumsTo(OperandsAround', Height + 1, cycle_fallback_to_top + OperandsAround'[Height + 1])
    BY <1>1, <2>3, <2>6, SumOfMore, Zenon
  <2>8. SumsTo(FieldsAround', Height + 1, field_evaluation_stack + FieldsAround'[Height + 1])
    BY <1>1, <2>3, <2>6, SumOfMore, Zenon
  <2>9. CountersOK'
    BY <2>1, <2>4, <2>5, <2>7, <2>8 DEF CountersOK
  <2>10. \A i \in 1 .. Height' : i \in 1 .. Height \/ i = Height + 1
    BY <1>1, <2>1
  <2> QED
    BY <2>1, <2>2, <2>3, <2>9, <2>10 DEF WaitInv
<1> QED
  BY <1>3, <1>4 DEF EnterCall, ReturnPrevious, ReturnCached, ReturnPlaceholder, ReturnDepthLimit

(* The weights of the frames are natural numbers. *)
LEMMA WeightsAreNat ==
    ASSUME TypeInv, WaitInv, NEW i \in 1 .. Height
    PROVE  OperandsAround[i] \in Nat /\ FieldsAround[i] \in Nat
<1>1. CASE EntersReference(i)
  <2>1. AtReference(vertex_evaluation_stack[i]) /\ IsFrame(vertex_evaluation_stack[i])
    BY <1>1 DEF WaitInv, EntersReference, AtArc, TypeInv, TypeOK
  <2> QED
    BY <1>1, <2>1, WaitingInstruction DEF OperandsAround, FieldsAround, TypeInv
<1>2. CASE ~EntersReference(i)
  BY <1>2 DEF OperandsAround, FieldsAround
<1> QED
  BY <1>1, <1>2

(* A step of the top frame after which it waits for nothing: what it had   *)
(* entered, if it was waiting, is left.                                    *)
LEMMA TopGoesOn ==
    ASSUME TypeInv, TypeInv', WaitInv, UNCHANGED program,
           call = <<>>, call' = <<>>, returned' = <<>>, Height > 0, Height' = Height,
           \A i \in 1 .. Height - 1 : vertex_evaluation_stack'[i] = vertex_evaluation_stack[i],
           cycle_fallback_to_top' = cycle_fallback_to_top - OperandsAround[Height],
           field_evaluation_stack' = field_evaluation_stack - FieldsAround[Height]
    PROVE  WaitInv'
<1> DEFINE n == Height - 1
<1>1. Height \in Nat \ {0} /\ n \in Nat /\ n + 1 = Height
  BY DEF TypeInv, TypeOK, IsSequence, Height
<1> HIDE DEF n
<1>2. /\ \A i \in 1 .. n : IsWaiting(i)' /\ IsWaiting(i)
      /\ ~IsWaiting(Height)'
  BY <1>1 DEF IsWaiting
<1>3. /\ \A i \in 1 .. n : OperandsAround'[i] = OperandsAround[i]
      /\ \A i \in 1 .. n : FieldsAround'[i] = FieldsAround[i]
      /\ \A i \in 1 .. n :
             IsWaiting(i)' =>
                 AtReference(vertex_evaluation_stack[i])' \/ AtArc(vertex_evaluation_stack[i])'
  <2>1. \A i \in 1 .. n : vertex_evaluation_stack'[i] = vertex_evaluation_stack[i]
    BY DEF n
  <2>2. n <= Height /\ n <= Height'
    BY <1>1
  <2> QED
    BY <1>1, <1>2, <2>1, <2>2, SameFrames
<1>4. /\ OperandsAround'[n + 1] = 0 /\ FieldsAround'[n + 1] = 0
      /\ OperandsAround'[n + 1] \in Nat /\ FieldsAround'[n + 1] \in Nat
  BY <1>1, <1>2 DEF OperandsAround, FieldsAround, EntersReference
<1>5. OperandsAround[Height] \in Nat /\ FieldsAround[Height] \in Nat
  BY <1>1, WeightsAreNat
<1>6. /\ SumsTo(OperandsAround', n, cycle_fallback_to_top')
      /\ SumsTo(FieldsAround', n, field_evaluation_stack')
  BY <1>1, <1>3, <1>5, SumOfLess DEF WaitInv, CountersOK, n
<1>7. cycle_fallback_to_top' \in Nat /\ field_evaluation_stack' \in Nat
  BY <1>1, <1>6, SumIsNat
<1>8. SumsTo(OperandsAround', n + 1, cycle_fallback_to_top' + OperandsAround'[n + 1])
  BY <1>1, <1>4, <1>6, SumOfNext, Zenon
<1>9. SumsTo(FieldsAround', n + 1, field_evaluation_stack' + FieldsAround'[n + 1])
  BY <1>1, <1>4, <1>6, SumOfNext, Zenon
<1>10. CountersOK'
  BY <1>1, <1>4, <1>7, <1>8, <1>9 DEF CountersOK
<1>11. \A i \in 1 .. Height' : i \in 1 .. n \/ i = Height
  BY <1>1
<1> QED
  BY <1>2, <1>3, <1>10, <1>11 DEF WaitInv

(* A step of the top frame after which it waits for the call it made.      *)
LEMMA TopCalls ==
    ASSUME TypeInv, TypeInv', WaitInv, UNCHANGED <<program, vertex_evaluation_stack>>,
           call = <<>>, returned = <<>>, call' # <<>>, returned' = <<>>, Height > 0,
           AtReference(Current) \/ AtArc(Current),
           cycle_fallback_to_top' = cycle_fallback_to_top + OperandsAround'[Height],
           field_evaluation_stack' = field_evaluation_stack + FieldsAround'[Height],
           OperandsAround'[Height] \in Nat, FieldsAround'[Height] \in Nat
    PROVE  WaitInv'
<1> DEFINE n == Height - 1
<1>1. Height \in Nat \ {0} /\ n \in Nat /\ n + 1 = Height /\ Height' = Height
  BY DEF TypeInv, TypeOK, IsSequence, Height
<1> HIDE DEF n
<1>2. /\ \A i \in 1 .. n : IsWaiting(i)' /\ IsWaiting(i)
      /\ ~IsWaiting(Height)
  BY <1>1 DEF IsWaiting
<1>3. /\ \A i \in 1 .. n : OperandsAround'[i] = OperandsAround[i]
      /\ \A i \in 1 .. n : FieldsAround'[i] = FieldsAround[i]
      /\ \A i \in 1 .. n :
             IsWaiting(i)' =>
                 AtReference(vertex_evaluation_stack[i])' \/ AtArc(vertex_evaluation_stack[i])'
  <2>1. n <= Height /\ n <= Height'
    BY <1>1
  <2> QED
    BY <1>1, <1>2, <2>1, SameFrames
<1>4. OperandsAround[Height] = 0 /\ FieldsAround[Height] = 0
  BY <1>1, <1>2 DEF OperandsAround, FieldsAround, EntersReference
<1>5. cycle_fallback_to_top \in Nat /\ field_evaluation_stack \in Nat
  BY <1>1, SumIsNat DEF WaitInv, CountersOK
<1>6. /\ SumsTo(OperandsAround', n, cycle_fallback_to_top - OperandsAround[Height])
      /\ SumsTo(FieldsAround', n, field_evaluation_stack - FieldsAround[Height])
  BY <1>1, <1>3, <1>4, SumOfLess DEF WaitInv, CountersOK, n
<1>7. /\ SumsTo(OperandsAround', n, cycle_fallback_to_top)
      /\ SumsTo(FieldsAround', n, field_evaluation_stack)
  BY <1>4, <1>5, <1>6
<1>8. SumsTo(OperandsAround', n + 1, cycle_fallback_to_top + OperandsAround'[n + 1])
  BY <1>1, <1>7, SumOfNext, Zenon
<1>9. SumsTo(FieldsAround', n + 1, field_evaluation_stack + FieldsAround'[n + 1])
  BY <1>1, <1>7, SumOfNext, Zenon
<1>10. CountersOK'
  BY <1>1, <1>8, <1>9 DEF CountersOK
<1>11. AtReference(vertex_evaluation_stack[Height])' \/ AtArc(vertex_evaluation_stack[Height])'
  BY <1>1 DEF Current, AtReference, AtArc, InstructionOf, Conjuncts
<1>12. \A i \in 1 .. Height' : i \in 1 .. n \/ i = Height
  BY <1>1
<1> QED
  BY <1>1, <1>3, <1>10, <1>11, <1>12 DEF WaitInv

(* A pop hands the value to the frame below, which was waiting already.    *)
LEMMA TopReturns ==
    ASSUME TypeInv, TypeInv', WaitInv, InField \/ InRoot, returned = <<>>, PopFrame
    PROVE  WaitInv'
<1> DEFINE n == Height - 1
<1>1. /\ Height \in Nat \ {0}
      /\ n \in Nat
      /\ Height' = n
      /\ \A i \in 1 .. n : vertex_evaluation_stack'[i] = vertex_evaluation_stack[i]
      /\ call = <<>>
      /\ call' = <<>>
      /\ UNCHANGED <<program, cycle_fallback_to_top, field_evaluation_stack>>
  BY CurrentIsFrame, DropFrame DEF PopFrame, TypeInv, TypeOK, Height
<1>2. returned' # <<>> /\ n <= Height /\ n <= Height'
  BY <1>1 DEF PopFrame
<1>3. /\ \A i \in 1 .. n : IsWaiting(i)' /\ IsWaiting(i)
      /\ ~IsWaiting(Height)
  BY <1>1, <1>2 DEF IsWaiting
<1>4. /\ \A i \in 1 .. n : OperandsAround'[i] = OperandsAround[i]
      /\ \A i \in 1 .. n : FieldsAround'[i] = FieldsAround[i]
      /\ \A i \in 1 .. n :
             IsWaiting(i)' =>
                 AtReference(vertex_evaluation_stack[i])' \/ AtArc(vertex_evaluation_stack[i])'
  <2> HIDE DEF n
  <2> QED
    BY <1>1, <1>2, <1>3, SameFrames
<1>5. OperandsAround[Height] = 0 /\ FieldsAround[Height] = 0
  BY <1>1, <1>3 DEF OperandsAround, FieldsAround, EntersReference
<1>6. cycle_fallback_to_top \in Nat /\ field_evaluation_stack \in Nat
  BY <1>1, SumIsNat DEF WaitInv, CountersOK
<1>7. /\ SumsTo(OperandsAround', n, cycle_fallback_to_top - OperandsAround[Height])
      /\ SumsTo(FieldsAround', n, field_evaluation_stack - FieldsAround[Height])
  <2>1. /\ SumsTo(OperandsAround, Height, cycle_fallback_to_top)
        /\ SumsTo(FieldsAround, Height, field_evaluation_stack)
    BY DEF WaitInv, CountersOK
  <2>2. OperandsAround[Height] \in Nat /\ FieldsAround[Height] \in Nat
    BY <1>5
  <2>3. Height \in Nat \ {0}
    BY <1>1
  <2>4. /\ \A i \in 1 .. Height - 1 : OperandsAround'[i] = OperandsAround[i]
        /\ \A i \in 1 .. Height - 1 : FieldsAround'[i] = FieldsAround[i]
    BY <1>4
  <2> QED
    BY <2>1, <2>2, <2>3, <2>4, SumOfLess
<1> HIDE DEF n
<1>8. CountersOK'
  BY <1>1, <1>5, <1>6, <1>7 DEF CountersOK
<1> QED
  BY <1>1, <1>4, <1>8 DEF WaitInv

(* When a value has been returned to a frame, taking it is all the frame   *)
(* can do: the reference it is at, or the arc, is still the one it called. *)
LEMMA OnlyTakes ==
    ASSUME TypeInv, WaitInv, RunFrame, returned # <<>>
    PROVE  ReturnToReference \/ MergeArc
<1>1. InField \/ InRoot
  BY DEF RunFrame, EvaluateTooDeep, EvaluateLiteral, EvaluateOperator,
         EvaluateOptionalReference, CallReference, ReturnToReference, UnifyConjunct,
         FinishVertex, EvaluateArc, SkipArc, MergeArc, FinishRoot, InExpression
<1>2. Height \in Nat /\ Height > 0 /\ IsFrame(Current)
  BY <1>1, CurrentIsFrame DEF TypeInv
<1>3. AtReference(Current) \/ AtArc(Current)
  BY <1>2 DEF WaitInv, IsWaiting, Current
<1>4. CASE InField
  <2>1. /\ Current.conjunct <= Len(Conjuncts(Current.vertex))
        /\ Current.pc <= Len(Expression)
        /\ IsReference(Instruction)
        /\ Instruction.field \notin program.optional
        /\ ~TooDeep(ExpressionDepth)
    BY <1>3, <1>4
    DEF AtReference, AtArc, InField, InstructionOf, Instruction, Expression, Conjuncts,
        ExpressionDepth
  <2>2. /\ ~(Current.conjunct > Len(Conjuncts(Current.vertex)))
        /\ ~(Current.pc > Len(Expression))
    <3>1. Len(Conjuncts(Current.vertex)) \in Nat /\ Len(Expression) \in Nat
      BY <1>2, <1>4, <2>1, ProgramsAssumption
      DEF Conjuncts, Expression, IsFrame, InField, TypeInv, TypeOK
    <3> QED
      BY <1>2, <2>1, <3>1 DEF IsFrame
  <2>3. ~InRoot
    BY <1>4 DEF InField, InRoot
  <2> QED
    BY <2>1, <2>2, <2>3
    DEF RunFrame, EvaluateTooDeep, EvaluateLiteral, EvaluateOperator, EvaluateOptionalReference,
        CallReference, UnifyConjunct, FinishVertex, EvaluateArc, SkipArc, MergeArc, FinishRoot,
        IsReference, Operators
<1>5. CASE InRoot
  <2>1. Current.conjunct \in Vertices \ program.skipped
    BY <1>3, <1>5 DEF InRoot, AtReference, AtArc, Vertices, Root
  <2>2. ~(Current.conjunct > FieldCount)
    BY <2>1, ConstantsAssumption DEF Vertices
  <2>3. ~InField /\ ~InExpression
    BY <1>5 DEF InField, InRoot, InExpression
  <2> QED
    BY <2>1, <2>2, <2>3
    DEF RunFrame, EvaluateTooDeep, EvaluateLiteral, EvaluateOperator, EvaluateOptionalReference,
        CallReference, ReturnToReference, UnifyConjunct, FinishVertex, EvaluateArc, SkipArc,
        FinishRoot
<1> QED
  BY <1>1, <1>4, <1>5

(* What a reference entered is what its instruction says, and an arc       *)
(* enters nothing.                                                         *)
LEMMA RunFrameWaitInv ==
    ASSUME TypeInv, TypeInv', WaitInv, RunFrame
    PROVE  WaitInv'
<1>1. InField \/ InRoot
  BY DEF RunFrame, EvaluateTooDeep, EvaluateLiteral, EvaluateOperator,
         EvaluateOptionalReference, CallReference, ReturnToReference, UnifyConjunct,
         FinishVertex, EvaluateArc, SkipArc, MergeArc, FinishRoot, InExpression
<1>2. Height \in Nat /\ Height > 0 /\ Height \in 1 .. Height /\ call = <<>> /\ IsFrame(Current)
  BY <1>1, CurrentIsFrame DEF TypeInv
<1>3. cycle_fallback_to_top \in Nat /\ field_evaluation_stack \in Nat
  BY <1>2, SumIsNat DEF WaitInv, CountersOK
<1>4. ASSUME NEW frame, SetFrame(frame)
      PROVE  /\ Height' = Height
             /\ \A i \in 1 .. Height - 1 : vertex_evaluation_stack'[i] = vertex_evaluation_stack[i]
  BY <1>2, <1>4, ReplaceFrame DEF SetFrame, TypeInv, TypeOK, Height
<1>5. CASE returned = <<>>
  <2>1. /\ ~IsWaiting(Height)
        /\ OperandsAround[Height] = 0
        /\ FieldsAround[Height] = 0
    BY <1>2, <1>5 DEF IsWaiting, OperandsAround, FieldsAround, EntersReference
  <2>2. ASSUME NEW frame, SetFrame(frame),
               UNCHANGED <<program, cycle_fallback_to_top, field_evaluation_stack, call, returned>>
        PROVE  WaitInv'
    BY <1>2, <1>3, <1>4, <1>5, <2>1, <2>2, TopGoesOn
  <2>3. ASSUME NEW x, InExpression, Evaluate(x)
        PROVE  WaitInv'
    BY <2>2, <2>3 DEF Evaluate, PushResult
  <2>4. CASE CallReference
    <3>1. AtReference(Current) /\ InstructionOf(Current) = Instruction
      BY <1>2, <2>4, CurrentInstructionOK
      DEF CallReference, AtReference, InExpression, InField, InstructionOf, Instruction,
          Expression, Conjuncts, ExpressionDepth, IsFrame, IsReference, InstructionOK, TypeInv
    <3>2. Instruction.operands \in Nat /\ Instruction.fields \in Nat
      BY <1>2, <3>1, WaitingInstruction DEF TypeInv
    <3>3. OperandsAround'[Height] = Instruction.operands /\ FieldsAround'[Height] = Instruction.fields
      <4>1. /\ Height' = Height
            /\ call' # <<>>
            /\ UNCHANGED <<program, vertex_evaluation_stack>>
        BY <2>4 DEF CallReference, Height
      <4>2. EntersReference(Height)'
        BY <2>4, <4>1
        DEF CallReference, InExpression, InField, EntersReference, IsWaiting, Current
      <4> QED
        BY <1>2, <3>1, <4>1, <4>2 DEF OperandsAround, FieldsAround, InstructionOf, Current
    <3> QED
      BY <1>2, <1>5, <2>4, <3>1, <3>2, <3>3, TopCalls DEF CallReference
  <2>5. CASE UnifyConjunct \/ SkipArc
    BY <2>2, <2>5 DEF UnifyConjunct, SkipArc
  <2>6. CASE EvaluateArc
    <3>1. AtArc(Current)
      BY <2>6 DEF EvaluateArc, InRoot, AtArc
    <3>2. OperandsAround'[Height] = 0 /\ FieldsAround'[Height] = 0
      <4>1. Height' = Height /\ UNCHANGED vertex_evaluation_stack
        BY <2>6 DEF EvaluateArc, Height
      <4>2. ~EntersReference(Height)'
        BY <2>6, <4>1 DEF EvaluateArc, InRoot, EntersReference, Current
      <4> QED
        BY <1>2, <4>1, <4>2 DEF OperandsAround, FieldsAround
    <3> QED
      BY <1>2, <1>3, <1>5, <2>6, <3>1, <3>2, TopCalls DEF EvaluateArc
  <2>7. CASE FinishVertex \/ FinishRoot
    BY <1>1, <1>5, <2>7, TopReturns DEF FinishVertex, FinishRoot
  <2> QED
    BY <1>5, <2>3, <2>4, <2>5, <2>6, <2>7
    DEF RunFrame, EvaluateTooDeep, EvaluateLiteral, EvaluateOperator, EvaluateOptionalReference,
        ReturnToReference, MergeArc
<1>6. CASE returned # <<>>
  <2>1. CASE ReturnToReference
    <3>1. Instruction = InstructionOf(Current) /\ EntersReference(Height)
      BY <1>6, <2>1
      DEF ReturnToReference, InExpression, InField, EntersReference, IsWaiting, Current,
          InstructionOf, Instruction, Expression, Conjuncts
    <3>2. OperandsAround[Height] = Instruction.operands /\ FieldsAround[Height] = Instruction.fields
      BY <1>2, <3>1 DEF OperandsAround, FieldsAround, Current
    <3> QED
      BY <1>2, <1>4, <2>1, <3>2, TopGoesOn DEF ReturnToReference, PushResult, OutsideOperands
  <2>2. CASE MergeArc
    <3>1. OperandsAround[Height] = 0 /\ FieldsAround[Height] = 0
      BY <1>2, <2>2 DEF MergeArc, InRoot, EntersReference, OperandsAround, FieldsAround, Current
    <3> QED
      BY <1>2, <1>3, <1>4, <2>2, <3>1, TopGoesOn DEF MergeArc
  <2> QED
    BY <1>6, <2>1, <2>2, OnlyTakes
<1> QED
  BY <1>5, <1>6

LEMMA NextWaitInv == TypeInv /\ TypeInv' /\ WaitInv /\ [Next]_vars => WaitInv'
<1> SUFFICES ASSUME TypeInv, TypeInv', WaitInv, [Next]_vars PROVE WaitInv'
  OBVIOUS
<1>1. CASE UNCHANGED vars
  BY <1>1
  DEF WaitInv, IsWaiting, AtReference, AtArc, CountersOK, OperandsAround, FieldsAround,
      EntersReference, InstructionOf, Conjuncts, Height, vars, driver, machine
<1>2. CASE Next
  BY <1>1, <1>2, DriveWaitInv, EnterCallWaitInv, RunFrameWaitInv DEF Next, Done
<1> QED
  BY <1>1, <1>2

(* Whenever the evaluator is idle no vertex is marked and no enclosing &   *)
(* or struct field is counted: what one evaluation enters it leaves, on    *)
(* every path, so nothing of it can bend the next one.                     *)
THEOREM Quiescence == Spec => []QuiescentWhenIdle
<1>1. TypeInv /\ StackInv /\ WaitInv => QuiescentWhenIdle
  <2> SUFFICES ASSUME TypeInv, StackInv, WaitInv, Idle
               PROVE  /\ evaluating_vertices = {}
                      /\ cycle_fallback_to_top = 0
                      /\ field_evaluation_stack = 0
    BY DEF QuiescentWhenIdle
  <2>1. Height = 0
    BY EmptyStack DEF Idle, Height, TypeInv, TypeOK
  <2> QED
    BY <2>1, EmptyStackMarksNone, SumOfNone DEF WaitInv, CountersOK
<1> QED
  BY Invariance, InitWaitInv, NextWaitInv, <1>1, PTL DEF Spec

----------------------------------------------------------------------------
(* What the references of a cycle's members are read from: the previous    *)
(* values of the members, and the cache for every other vertex.            *)
ReadMap == Override(vertex_cache, fixpoint_previous_values)

(* m has all that the first n instructions, or conjuncts, refer to.        *)
Covers(p, expression, n, m) ==
    \A j \in 1 .. n :
        IsReference(expression[j]) /\ expression[j].field \notin p.optional =>
            expression[j].field \in DOMAIN m

CoversConjuncts(p, v, n, m) ==
    \A i \in 1 .. n : Covers(p, p.conjuncts[v][i], Len(p.conjuncts[v][i]), m)

(* x is the value that the equation of v has under m. *)
IsEquationValue(p, v, x, m) ==
    /\ CoversConjuncts(p, v, Len(p.conjuncts[v]), m)
    /\ x = EquationValue(p, v, m)

(* A frame of a vertex has computed the equation under m as far as it is.  *)
FollowsEquation(p, frame, m) ==
    /\ frame.conjunct \in 1 .. Len(p.conjuncts[frame.vertex]) + 1
    /\ frame.value = UnifiedConjuncts(p, frame.vertex, m)[frame.conjunct - 1]
    /\ CoversConjuncts(p, frame.vertex, frame.conjunct - 1, m)
    /\ frame.conjunct <= Len(p.conjuncts[frame.vertex]) =>
           LET expression == p.conjuncts[frame.vertex][frame.conjunct]
           IN  /\ frame.pc \in 1 .. Len(expression) + 1
               /\ frame.operands = Operands(p, expression, m)[frame.pc - 1]
               /\ Covers(p, expression, frame.pc - 1, m)

(* A frame is at a reference to w. *)
ReadsVertex(p, frame, w) ==
    /\ frame.conjunct <= Len(p.conjuncts[frame.vertex])
    /\ frame.pc <= Len(p.conjuncts[frame.vertex][frame.conjunct])
    /\ LET instruction == p.conjuncts[frame.vertex][frame.conjunct][frame.pc]
       IN  /\ IsReference(instruction)
           /\ instruction.field = w
           /\ w \notin p.optional

(* The frame of the forced member, and what it waits for.                  *)
MemberFollows ==
    LET member == vertex_evaluation_stack[1]
    IN  /\ member.depth = 0
        /\ FollowsEquation(program, member, ReadMap)
        /\ Height > 1 => ReadsVertex(program, member, vertex_evaluation_stack[2].vertex)
        /\ Height = 1 /\ call # <<>> =>
               /\ ReadsVertex(program, member, Called)
               /\ ~TooDeep(call[1].depth)
        /\ Height = 1 /\ returned # <<>> =>
               \E w \in DOMAIN ReadMap : ReadsVertex(program, member, w) /\ returned[1] = ReadMap[w]

SolvingInv ==
    phase \in {"select", "force"} =>
        /\ \A v \in DOMAIN next_values : IsEquationValue(program, v, next_values[v], ReadMap)
        /\ Height > 0 => MemberFollows
        /\ Height = 0 /\ returned # <<>> =>
               \A v \in fixpoint_forcing_vertices :
                   IsEquationValue(program, v, returned[1], ReadMap)

----------------------------------------------------------------------------
(* The recursive functions of the equations exist: they are extended one   *)
(* step at a time.                                                         *)
LEMMA OperandsAre ==
    ASSUME NEW p, NEW e, Len(e) \in Nat, NEW m
    PROVE  /\ Operands(p, e, m)[0] = <<>>
           /\ \A n \in 1 .. Len(e) :
                  Operands(p, e, m)[n] = Apply(p, e[n], Operands(p, e, m)[n - 1], m)
<1> DEFINE Upto(f, k) == f = [n \in 0 .. k |-> IF n = 0 THEN <<>> ELSE Apply(p, e[n], f[n - 1], m)]
           S == {k \in 0 .. Len(e) : \E f : Upto(f, k)}
<1>1. 0 \in S
  <2> DEFINE f == [n \in 0 .. 0 |-> <<>>]
  <2>1. Upto(f, 0)
    OBVIOUS
  <2> HIDE DEF f
  <2>2. \E h : Upto(h, 0)
    BY <2>1
  <2> QED
    BY <2>2
<1>2. ASSUME NEW k \in 0 .. Len(e), k < Len(e), k \in S
      PROVE  k + 1 \in S
  <2>1. PICK f : Upto(f, k)
    BY <1>2
  <2> DEFINE g == [n \in 0 .. k + 1 |-> IF n <= k THEN f[n] ELSE Apply(p, e[n], f[k], m)]
  <2>2. \A n \in 0 .. k : f[n] = IF n = 0 THEN <<>> ELSE Apply(p, e[n], f[n - 1], m)
    BY <2>1
  <2>3. \A n \in 0 .. k + 1 : g[n] = IF n = 0 THEN <<>> ELSE Apply(p, e[n], g[n - 1], m)
    <3> SUFFICES ASSUME NEW n \in 0 .. k + 1
                 PROVE  g[n] = IF n = 0 THEN <<>> ELSE Apply(p, e[n], g[n - 1], m)
      OBVIOUS
    <3>1. CASE n <= k
      <4>1. n \in 0 .. k /\ g[n] = f[n]
        BY <3>1
      <4>2. n # 0 => n - 1 \in 0 .. k + 1 /\ n - 1 <= k
        BY <3>1
      <4> QED
        BY <4>1, <4>2, <2>2
    <3>2. CASE n = k + 1
      <4>1. n # 0 /\ ~(n <= k) /\ n - 1 = k /\ k \in 0 .. k + 1
        BY <3>2
      <4>2. g[n] = Apply(p, e[n], f[k], m) /\ g[k] = f[k]
        BY <4>1
      <4> QED
        BY <4>1, <4>2
    <3> QED
      BY <3>1, <3>2
  <2>4. g = [n \in 0 .. k + 1 |-> g[n]]
    OBVIOUS
  <2> HIDE DEF g
  <2>5. Upto(g, k + 1)
    BY <2>3, <2>4
  <2>6. k + 1 \in 0 .. Len(e)
    BY <1>2
  <2> QED
    BY <2>5, <2>6
<1>3. Len(e) \in S
  <2> HIDE DEF S
  <2>1. 0 .. Len(e) \subseteq S
    BY <1>1, <1>2, UpTo
  <2> QED
    BY <2>1
<1>4. \E f : Upto(f, Len(e))
  BY <1>3
<1> DEFINE F == CHOOSE f : Upto(f, Len(e))
<1>5. Upto(F, Len(e))
  BY <1>4
<1>6. Operands(p, e, m) = F
  BY DEF Operands
<1> HIDE DEF F
<1> QED
  BY <1>5, <1>6

LEMMA UnifiedConjunctsAre ==
    ASSUME NEW p, NEW v, Len(p.conjuncts[v]) \in Nat, NEW m
    PROVE  /\ UnifiedConjuncts(p, v, m)[0] = Top
           /\ \A n \in 1 .. Len(p.conjuncts[v]) :
                  UnifiedConjuncts(p, v, m)[n] =
                      Operate("&", <<UnifiedConjuncts(p, v, m)[n - 1],
                                     ExpressionValue(p, p.conjuncts[v][n], m)>>)
<1> DEFINE Count == Len(p.conjuncts[v])
           Next1(n, x) == Operate("&", <<x, ExpressionValue(p, p.conjuncts[v][n], m)>>)
           Upto(f, k) == f = [n \in 0 .. k |-> IF n = 0 THEN Top ELSE Next1(n, f[n - 1])]
           S == {k \in 0 .. Count : \E f : Upto(f, k)}
<1> HIDE DEF Next1
<1>1. 0 \in S
  <2> DEFINE f == [n \in 0 .. 0 |-> Top]
  <2>1. Upto(f, 0)
    OBVIOUS
  <2> HIDE DEF f
  <2>2. \E h : Upto(h, 0)
    BY <2>1
  <2> QED
    BY <2>2
<1>2. ASSUME NEW k \in 0 .. Count, k < Count, k \in S
      PROVE  k + 1 \in S
  <2>1. PICK f : Upto(f, k)
    BY <1>2
  <2> DEFINE g == [n \in 0 .. k + 1 |-> IF n <= k THEN f[n] ELSE Next1(n, f[k])]
  <2>2. \A n \in 0 .. k : f[n] = IF n = 0 THEN Top ELSE Next1(n, f[n - 1])
    BY <2>1
  <2>3. \A n \in 0 .. k + 1 : g[n] = IF n = 0 THEN Top ELSE Next1(n, g[n - 1])
    <3> SUFFICES ASSUME NEW n \in 0 .. k + 1
                 PROVE  g[n] = IF n = 0 THEN Top ELSE Next1(n, g[n - 1])
      OBVIOUS
    <3>1. CASE n <= k
      <4>1. n \in 0 .. k /\ g[n] = f[n]
        BY <3>1
      <4>2. n # 0 => n - 1 \in 0 .. k + 1 /\ n - 1 <= k
        BY <3>1
      <4> QED
        BY <4>1, <4>2, <2>2
    <3>2. CASE n = k + 1
      <4>1. n # 0 /\ ~(n <= k) /\ n - 1 = k /\ k \in 0 .. k + 1
        BY <3>2
      <4>2. g[n] = Next1(n, f[k]) /\ g[k] = f[k]
        BY <4>1
      <4> QED
        BY <4>1, <4>2
    <3> QED
      BY <3>1, <3>2
  <2>4. g = [n \in 0 .. k + 1 |-> g[n]]
    OBVIOUS
  <2> HIDE DEF g
  <2>5. Upto(g, k + 1)
    BY <2>3, <2>4
  <2>6. k + 1 \in 0 .. Count
    BY <1>2
  <2> QED
    BY <2>5, <2>6
<1>3. Count \in S
  <2> HIDE DEF S
  <2>1. 0 .. Count \subseteq S
    BY <1>1, <1>2, UpTo
  <2> QED
    BY <2>1
<1>4. \E f : Upto(f, Count)
  BY <1>3
<1> DEFINE F == CHOOSE f : Upto(f, Count)
<1>5. Upto(F, Count)
  BY <1>4
<1>6. UnifiedConjuncts(p, v, m) = F
  BY DEF UnifiedConjuncts, Next1
<1> HIDE DEF F
<1> QED
  BY <1>5, <1>6 DEF Next1

----------------------------------------------------------------------------
(* A map with more entries gives the same values to what was covered.      *)
Extends(m, larger) == \A w \in DOMAIN m : w \in DOMAIN larger /\ larger[w] = m[w]

LEMMA OperandsExtended ==
    ASSUME NEW p, NEW e, Len(e) \in Nat, NEW k \in 0 .. Len(e), NEW m, NEW larger,
           Covers(p, e, k, m), Extends(m, larger)
    PROVE  Operands(p, e, larger)[k] = Operands(p, e, m)[k]
<1> DEFINE S == {i \in 0 .. k : Operands(p, e, larger)[i] = Operands(p, e, m)[i]}
<1>1. 0 \in S
  BY OperandsAre
<1>2. ASSUME NEW i \in 0 .. k, i < k, i \in S
      PROVE  i + 1 \in S
  <2>1. i + 1 \in 1 .. k /\ i + 1 \in 1 .. Len(e) /\ (i + 1) - 1 = i
    BY <1>2
  <2>2. \A x : InstructionValue(p, e[i + 1], x, larger) = InstructionValue(p, e[i + 1], x, m)
    BY <2>1 DEF InstructionValue, Covers, Extends, IsReference
  <2>3. \A x : Apply(p, e[i + 1], x, larger) = Apply(p, e[i + 1], x, m)
    BY <2>2 DEF Apply
  <2>4. Operands(p, e, larger)[i] = Operands(p, e, m)[i]
    BY <1>2
  <2>5. /\ Operands(p, e, larger)[i + 1] = Apply(p, e[i + 1], Operands(p, e, larger)[i], larger)
        /\ Operands(p, e, m)[i + 1] = Apply(p, e[i + 1], Operands(p, e, m)[i], m)
    BY <2>1, OperandsAre
  <2> QED
    BY <2>1, <2>3, <2>4, <2>5
<1>3. 0 .. k \subseteq S
  <2> HIDE DEF S
  <2> QED
    BY <1>1, <1>2, UpTo
<1> QED
  BY <1>3

LEMMA UnifiedConjunctsExtended ==
    ASSUME NEW p \in Programs, NEW v \in Vertices, NEW k \in 0 .. Len(p.conjuncts[v]),
           NEW m, NEW larger, CoversConjuncts(p, v, k, m), Extends(m, larger)
    PROVE  UnifiedConjuncts(p, v, larger)[k] = UnifiedConjuncts(p, v, m)[k]
<1> DEFINE S == {i \in 0 .. k : UnifiedConjuncts(p, v, larger)[i] = UnifiedConjuncts(p, v, m)[i]}
<1>1. /\ Len(p.conjuncts[v]) \in Nat
      /\ \A i \in 1 .. Len(p.conjuncts[v]) : Len(p.conjuncts[v][i]) \in Nat
  BY ProgramsAssumption
<1>2. 0 \in S
  BY <1>1, UnifiedConjunctsAre
<1>3. ASSUME NEW i \in 0 .. k, i < k, i \in S
      PROVE  i + 1 \in S
  <2> DEFINE e == p.conjuncts[v][i + 1]
  <2>1. i + 1 \in 1 .. k /\ i + 1 \in 1 .. Len(p.conjuncts[v]) /\ (i + 1) - 1 = i
    BY <1>1, <1>3
  <2>2. Len(e) \in 0 .. Len(e) /\ Len(e) \in Nat /\ Covers(p, e, Len(e), m)
    BY <1>1, <2>1 DEF CoversConjuncts
  <2>3. ExpressionValue(p, e, larger) = ExpressionValue(p, e, m)
    <3> HIDE DEF e
    <3>1. Operands(p, e, larger)[Len(e)] = Operands(p, e, m)[Len(e)]
      BY <2>2, OperandsExtended
    <3> QED
      BY <3>1 DEF ExpressionValue
  <2>4. UnifiedConjuncts(p, v, larger)[i] = UnifiedConjuncts(p, v, m)[i]
    BY <1>3
  <2>5. /\ UnifiedConjuncts(p, v, larger)[i + 1] =
               Operate("&", <<UnifiedConjuncts(p, v, larger)[i], ExpressionValue(p, e, larger)>>)
        /\ UnifiedConjuncts(p, v, m)[i + 1] =
               Operate("&", <<UnifiedConjuncts(p, v, m)[i], ExpressionValue(p, e, m)>>)
    <3>1. /\ UnifiedConjuncts(p, v, larger)[i + 1] =
                  Operate("&", <<UnifiedConjuncts(p, v, larger)[(i + 1) - 1],
                                 ExpressionValue(p, e, larger)>>)
          /\ UnifiedConjuncts(p, v, m)[i + 1] =
                  Operate("&", <<UnifiedConjuncts(p, v, m)[(i + 1) - 1],
                                 ExpressionValue(p, e, m)>>)
      BY <1>1, <2>1, UnifiedConjunctsAre
    <3> QED
      BY <2>1, <3>1
  <2> QED
    BY <2>1, <2>3, <2>4, <2>5
<1>4. 0 .. k \subseteq S
  <2> HIDE DEF S
  <2> QED
    BY <1>2, <1>3, UpTo
<1> QED
  BY <1>4

LEMMA EquationValueExtended ==
    ASSUME NEW p \in Programs, NEW v \in Vertices, NEW x, NEW m, NEW larger,
           IsEquationValue(p, v, x, m), Extends(m, larger)
    PROVE  IsEquationValue(p, v, x, larger)
<1>1. Len(p.conjuncts[v]) \in 0 .. Len(p.conjuncts[v])
  BY ProgramsAssumption
<1>2. CoversConjuncts(p, v, Len(p.conjuncts[v]), larger)
  BY DEF IsEquationValue, CoversConjuncts, Covers, Extends
<1> QED
  BY <1>1, <1>2, UnifiedConjunctsExtended DEF IsEquationValue, EquationValue

LEMMA FollowsEquationExtended ==
    ASSUME NEW p \in Programs, NEW frame, frame.vertex \in Vertices, NEW m, NEW larger,
           FollowsEquation(p, frame, m), Extends(m, larger)
    PROVE  FollowsEquation(p, frame, larger)
<1> DEFINE Count == Len(p.conjuncts[frame.vertex])
           e == p.conjuncts[frame.vertex][frame.conjunct]
<1>1. /\ Count \in Nat
      /\ \A i \in 1 .. Count : Len(p.conjuncts[frame.vertex][i]) \in Nat
  BY ProgramsAssumption
<1>2. frame.conjunct \in 1 .. Count + 1 /\ frame.conjunct - 1 \in 0 .. Count
  BY <1>1 DEF FollowsEquation
<1>3. /\ CoversConjuncts(p, frame.vertex, frame.conjunct - 1, m)
      /\ CoversConjuncts(p, frame.vertex, frame.conjunct - 1, larger)
  BY DEF FollowsEquation, CoversConjuncts, Covers, Extends
<1>4. frame.value = UnifiedConjuncts(p, frame.vertex, larger)[frame.conjunct - 1]
  BY <1>2, <1>3, UnifiedConjunctsExtended DEF FollowsEquation
<1>5. ASSUME frame.conjunct <= Count
      PROVE  /\ frame.pc \in 1 .. Len(e) + 1
             /\ frame.operands = Operands(p, e, larger)[frame.pc - 1]
             /\ Covers(p, e, frame.pc - 1, larger)
  <2>1. Len(e) \in Nat
    BY <1>1, <1>2, <1>5
  <2>2. /\ frame.pc \in 1 .. Len(e) + 1
        /\ frame.operands = Operands(p, e, m)[frame.pc - 1]
        /\ Covers(p, e, frame.pc - 1, m)
    BY <1>5 DEF FollowsEquation
  <2>3. frame.pc - 1 \in 0 .. Len(e)
    <3>1. \A l \in Nat : \A n \in 1 .. l + 1 : n - 1 \in 0 .. l
      OBVIOUS
    <3> HIDE DEF e
    <3> QED
      BY <2>1, <2>2, <3>1
  <2>4. Operands(p, e, larger)[frame.pc - 1] = Operands(p, e, m)[frame.pc - 1]
    <3> HIDE DEF e
    <3> QED
      BY <2>1, <2>2, <2>3, OperandsExtended
  <2>5. Covers(p, e, frame.pc - 1, larger)
    BY <2>2 DEF Covers, Extends
  <2> QED
    BY <2>2, <2>4, <2>5
<1> QED
  BY <1>2, <1>3, <1>4, <1>5 DEF FollowsEquation

----------------------------------------------------------------------------
LEMMA InitSolvingInv == Init => SolvingInv
  BY DEF Init, SolvingInv

(* The value recorded for a member is the one its evaluation returned.     *)
LEMMA DriveSolvingInv ==
    ASSUME TypeInv, CycleInv, SolvingInv, Drive
    PROVE  SolvingInv'
<1>1. CASE Collect \/ CacheCycleBottoms \/ BeginComponent \/ EvaluateRoot \/ Finish \/ Converge
           \/ Continue \/ GiveUp
  BY <1>1
  DEF Collect, CacheCycleBottoms, BeginComponent, EvaluateRoot, Finish, Converge, Continue, GiveUp,
      FinishComponent, SolvingInv
<1>2. CASE BeginIteration
  <2>1. Height' = 0 /\ returned' = <<>> /\ DOMAIN next_values' = {}
    BY <1>2 DEF BeginIteration, TypeInv, DriverOK, machine, Height, EmptyMap
  <2> QED
    BY <2>1 DEF SolvingInv
<1>3. CASE ForceMember
  <2>1. /\ Height' = 0 /\ returned' = <<>>
        /\ ReadMap' = ReadMap
        /\ UNCHANGED <<program, next_values>>
        /\ phase = "select"
    BY <1>3 DEF ForceMember, TypeInv, DriverOK, Height, ReadMap, Override
  <2> QED
    BY <2>1 DEF SolvingInv
<1>4. CASE RecordMember
  <2>1. PICK v \in MembersLeft : fixpoint_forcing_vertices = {v}
    BY <1>4 DEF RecordMember, CycleInv
  <2>2. /\ Height' = 0 /\ returned' = <<>>
        /\ ReadMap' = ReadMap
        /\ program' = program
        /\ phase = "force"
        /\ returned # <<>>
        /\ Height = 0
        /\ next_values' = Override(next_values, ConstantMap({v}, returned[1]))
    BY <1>4, <2>1, EmptyStack DEF RecordMember, Idle, Height, ReadMap, Override, TypeInv, TypeOK
  <2>3. IsEquationValue(program, v, returned[1], ReadMap)
    BY <2>1, <2>2 DEF SolvingInv
  <2>4. /\ DOMAIN next_values' = DOMAIN next_values \union {v}
        /\ \A w \in DOMAIN next_values \ {v} : next_values'[w] = next_values[w]
        /\ next_values'[v] = returned[1]
    BY <2>2 DEF Override, ConstantMap
  <2>5. \A w \in DOMAIN next_values : IsEquationValue(program, w, next_values[w], ReadMap)
    BY <2>2 DEF SolvingInv
  <2>6. (\A w \in DOMAIN next_values : IsEquationValue(program, w, next_values[w], ReadMap))'
    BY <2>2, <2>3, <2>4, <2>5
  <2>7. Height' = 0 /\ returned' = <<>>
    BY <2>2
  <2> QED
    BY <2>6, <2>7 DEF SolvingInv
<1> QED
  BY <1>1, <1>2, <1>3, <1>4 DEF Drive

(* The member being solved is at the bottom of the stack.                  *)
LEMMA MemberAtBottom ==
    ASSUME TypeInv, CycleInv, phase = "force", Height > 0
    PROVE  \E v \in MembersLeft :
               /\ fixpoint_forcing_vertices = {v}
               /\ vertex_evaluation_stack[1].vertex = v
               /\ Recorded
  BY DEF CycleInv, MemberForced, MemberCalled, MemberRuns, MemberAnswered

(* A call of the member is answered by a frame that has computed nothing;  *)
(* a call of the member's frame by what the map has for the vertex it      *)
(* refers to, or by a frame of it.                                         *)
LEMMA EnterCallSolvingInv ==
    ASSUME TypeInv, StackInv, CycleInv, SolvingInv, EnterCall
    PROVE  SolvingInv'
<1>1. UNCHANGED <<driver, vertex_cache, program>> /\ call # <<>> /\ call' = <<>>
  BY DEF EnterCall, ReturnPrevious, ReturnCached, ReturnPlaceholder, ReturnDepthLimit,
         EnterVertex, Return
<1>2. ReadMap' = ReadMap
  BY <1>1 DEF ReadMap, Override, driver
<1>3. CASE phase # "force"
  <2>1. phase # "select"
    BY <1>1 DEF TypeInv, DriverOK
  <2> QED
    BY <1>1, <1>3, <2>1 DEF SolvingInv, driver
<1>4. CASE phase = "force"
  <2>1. /\ \A v \in DOMAIN next_values : IsEquationValue(program, v, next_values[v], ReadMap)
        /\ Height > 0 => MemberFollows
    BY <1>4 DEF SolvingInv
  <2>2. (\A v \in DOMAIN next_values : IsEquationValue(program, v, next_values[v], ReadMap))'
    BY <1>1, <1>2, <2>1 DEF driver
  <2>3. Height \in Nat
    BY DEF TypeInv, TypeOK, Height, IsSequence
  <2>4. SUFFICES Height' > 0 /\ MemberFollows'
    <3>1. Height' > 0 => Height' # 0
      OBVIOUS
    <3> QED
      BY <2>2, <2>4, <3>1 DEF SolvingInv
  <2>5. CASE Height = 0
    <3>1. PICK v \in MembersLeft : fixpoint_forcing_vertices = {v} /\ MemberForced(v)
      BY <1>4 DEF CycleInv
    <3>2. MemberCalled(v)
      BY <1>1, <2>5, <3>1 DEF MemberForced, MemberRuns, MemberAnswered
    <3>3. Called = v /\ call[1].depth = 0 /\ call[1].vertex = v /\ returned = <<>>
      BY <3>2 DEF MemberCalled, Called
    <3>4. EnterVertex
      <4>1. ~IsFixpointReentry(v) /\ v \notin evaluating_vertices
        BY <3>1, <2>5, EmptyStackMarksNone DEF IsFixpointReentry
      <4>2. v \notin DOMAIN vertex_cache
        BY <3>1, <3>2 DEF MemberCalled, Recorded, MembersLeft
      <4>3. ~TooDeep(call[1].depth)
        BY <3>3, ConstantsAssumption DEF TooDeep
      <4> QED
        BY <3>3, <4>1, <4>2, <4>3
        DEF EnterCall, ReturnPrevious, ReturnCached, ReturnPlaceholder, ReturnDepthLimit
    <3>5. /\ Height' = 1
          /\ vertex_evaluation_stack'[1] = Frame(call[1])
          /\ returned' = <<>>
      BY <2>5, <3>3, <3>4, PushFrame DEF EnterVertex, Height, TypeInv, TypeOK
    <3>6. v \in Vertices /\ v # Root
      BY <3>1 DEF MembersLeft, TypeInv, TypeOK, Vertices, Root
    <3>7. /\ Len(program.conjuncts[v]) \in Nat
          /\ \A i \in 1 .. Len(program.conjuncts[v]) : Len(program.conjuncts[v][i]) \in Nat
      BY <3>6, ProgramsAssumption DEF TypeInv, TypeOK
    <3>8. FollowsEquation(program, Frame(call[1]), ReadMap)
      <4> DEFINE frame == Frame(call[1])
      <4>1. /\ frame.vertex = v /\ frame.conjunct = 1 /\ frame.pc = 1
            /\ frame.operands = <<>> /\ frame.value = Top
        BY <3>3, <3>6 DEF Frame
      <4> HIDE DEF frame
      <4>2. 1 \in 1 .. Len(program.conjuncts[v]) + 1 /\ 1 - 1 = 0 /\ 1 .. 0 = {}
        BY <3>7
      <4>3. UnifiedConjuncts(program, v, ReadMap)[0] = Top
        BY <3>7, UnifiedConjunctsAre
      <4>4. CoversConjuncts(program, v, 0, ReadMap)
        BY <4>2 DEF CoversConjuncts
      <4>5. ASSUME 1 <= Len(program.conjuncts[v])
            PROVE  /\ 1 \in 1 .. Len(program.conjuncts[v][1]) + 1
                   /\ <<>> = Operands(program, program.conjuncts[v][1], ReadMap)[0]
                   /\ Covers(program, program.conjuncts[v][1], 0, ReadMap)
        <5>1. Len(program.conjuncts[v][1]) \in Nat
          BY <3>7, <4>5
        <5>2. Operands(program, program.conjuncts[v][1], ReadMap)[0] = <<>>
          BY <5>1, OperandsAre
        <5> QED
          BY <5>1, <5>2, <4>2 DEF Covers
      <4>6. FollowsEquation(program, frame, ReadMap)
        BY <4>1, <4>2, <4>3, <4>4, <4>5 DEF FollowsEquation
      <4> QED
        BY <4>6 DEF frame
    <3>9. Frame(call[1]).depth = 0
      BY <3>3 DEF Frame
    <3> QED
      BY <1>1, <1>2, <3>5, <3>8, <3>9 DEF MemberFollows
  <2>6. CASE Height > 0
    <3>1. PICK v \in MembersLeft : /\ fixpoint_forcing_vertices = {v}
                                   /\ vertex_evaluation_stack[1].vertex = v
                                   /\ Recorded
      BY <1>4, <2>6, MemberAtBottom
    <3>2. MemberFollows
      BY <2>1, <2>6
    <3>3. CASE EnterVertex
      <4>1. /\ Height' = Height + 1
            /\ \A i \in 1 .. Height : vertex_evaluation_stack'[i] = vertex_evaluation_stack[i]
            /\ vertex_evaluation_stack'[Height + 1].vertex = Called
        BY <3>3, PushFrame DEF EnterVertex, Height, TypeInv, TypeOK, Frame, Called
      <4>2. /\ vertex_evaluation_stack'[1] = vertex_evaluation_stack[1]
            /\ Height' > 0 /\ Height' # 1
        BY <2>3, <2>6, <4>1
      <4>3. ReadsVertex(program, vertex_evaluation_stack[1], vertex_evaluation_stack'[2].vertex)
        BY <1>1, <2>3, <2>6, <3>2, <4>1 DEF MemberFollows
      <4> QED
        BY <1>1, <1>2, <3>2, <4>2, <4>3 DEF MemberFollows
    <3>4. ASSUME NEW x, Return(x),
                 Height = 1 => Called \in DOMAIN ReadMap /\ x = ReadMap[Called]
          PROVE  Height' > 0 /\ MemberFollows'
      <4>1. /\ UNCHANGED vertex_evaluation_stack /\ Height' = Height
            /\ returned' = <<x>> /\ returned'[1] = x
        BY <3>4 DEF Return, Height
      <4>2. Height = 1 =>
               \E w \in DOMAIN ReadMap :
                   ReadsVertex(program, vertex_evaluation_stack[1], w) /\ returned'[1] = ReadMap[w]
        BY <1>1, <3>2, <3>4, <4>1 DEF MemberFollows
      <4> QED
        BY <1>1, <1>2, <2>6, <3>2, <4>1, <4>2 DEF MemberFollows
    <3>5. evaluating_vertices \intersect fixpoint_active_vertices \subseteq {v}
          /\ v \in evaluating_vertices
          /\ (Height = 1 => evaluating_vertices = {v})
      BY <2>3, <2>6, <3>1 DEF StackInv, OnlyForcedMemberRuns, NoReentry
    <3>6. DOMAIN fixpoint_previous_values = fixpoint_active_vertices /\ v \in fixpoint_active_vertices
      BY <3>1 DEF TypeInv, TypeOK, MembersLeft
    <3>7. CASE ReturnPrevious
      <4>1. Called \in fixpoint_active_vertices /\ Return(PreviousValue(Called))
        BY <3>7 DEF ReturnPrevious, IsFixpointReentry
      <4>2. Called \in DOMAIN ReadMap /\ PreviousValue(Called) = ReadMap[Called]
        BY <3>6, <4>1 DEF ReadMap, Override, PreviousValue
      <4> QED
        BY <3>4, <4>1, <4>2
    <3>8. CASE ReturnCached
      <4>1. Called \notin fixpoint_active_vertices
        BY <3>1, <3>5, <3>8 DEF ReturnCached, IsFixpointReentry
      <4>2. Called \in DOMAIN ReadMap /\ vertex_cache[Called] = ReadMap[Called]
        BY <3>6, <3>8, <4>1 DEF ReturnCached, ReadMap, Override
      <4> QED
        BY <3>4, <3>8, <4>2 DEF ReturnCached
    <3>9. CASE ReturnPlaceholder
      <4>1. Height # 1
        BY <3>5, <3>6, <3>9 DEF ReturnPlaceholder, IsFixpointReentry
      <4> QED
        BY <3>4, <3>9, <4>1 DEF ReturnPlaceholder
    <3>10. CASE ReturnDepthLimit
      <4>1. Height # 1
        BY <1>1, <3>2, <3>10 DEF ReturnDepthLimit, MemberFollows
      <4> QED
        BY <3>4, <3>10, <4>1 DEF ReturnDepthLimit
    <3> QED
      BY <3>3, <3>7, <3>8, <3>9, <3>10 DEF EnterCall
  <2> QED
    BY <2>3, <2>5, <2>6
<1> QED
  BY <1>3, <1>4

(* A frame that computes one more instruction, or unifies one more         *)
(* conjunct, still follows its equation.                                   *)
LEMMA InstructionFollows ==
    ASSUME NEW p \in Programs, NEW frame, IsFrame(frame), frame.vertex \in Vertices, NEW m,
           FollowsEquation(p, frame, m),
           frame.conjunct <= Len(p.conjuncts[frame.vertex]),
           frame.pc <= Len(p.conjuncts[frame.vertex][frame.conjunct]),
           NEW instruction, instruction = p.conjuncts[frame.vertex][frame.conjunct][frame.pc],
           IsReference(instruction) /\ instruction.field \notin p.optional =>
               instruction.field \in DOMAIN m
    PROVE  LET x == InstructionValue(p, instruction, frame.operands, m)
               kept == Len(frame.operands) - Arity(instruction.op)
           IN  FollowsEquation(p, [frame EXCEPT !.operands = Append(SubSeq(@, 1, kept), x),
                                                !.pc = @ + 1], m)
<1> DEFINE e == p.conjuncts[frame.vertex][frame.conjunct]
           next == [frame EXCEPT
                       !.operands = Append(SubSeq(@, 1, Len(frame.operands) - Arity(instruction.op)),
                                           InstructionValue(p, instruction, frame.operands, m)),
                       !.pc = @ + 1]
<1>1. /\ next.vertex = frame.vertex
      /\ next.conjunct = frame.conjunct
      /\ next.value = frame.value
      /\ next.pc = frame.pc + 1
      /\ next.operands = Apply(p, instruction, frame.operands, m)
  BY DEF IsFrame, FrameFields, Apply
<1>2. /\ frame.pc \in 1 .. Len(e) + 1
      /\ frame.operands = Operands(p, e, m)[frame.pc - 1]
      /\ Covers(p, e, frame.pc - 1, m)
  BY DEF FollowsEquation
<1>3. Len(e) \in Nat
  BY ProgramsAssumption DEF FollowsEquation
<1>4. frame.pc \in 1 .. Len(e) /\ frame.pc + 1 \in 1 .. Len(e) + 1 /\ (frame.pc + 1) - 1 = frame.pc
  <2>1. frame.pc <= Len(e)
    OBVIOUS
  <2> HIDE DEF e, next
  <2> QED
    BY <1>2, <1>3, <2>1
<1>5. next.operands = Operands(p, e, m)[frame.pc]
  <2>1. Operands(p, e, m)[frame.pc] = Apply(p, e[frame.pc], Operands(p, e, m)[frame.pc - 1], m)
    BY <1>3, <1>4, OperandsAre
  <2> QED
    BY <1>1, <1>2, <2>1
<1>6. Covers(p, e, frame.pc, m)
  <2>1. \A j \in 1 .. frame.pc : j \in 1 .. frame.pc - 1 \/ j = frame.pc
    BY <1>3, <1>4
  <2> QED
    BY <1>2, <2>1 DEF Covers
<1> HIDE DEF next
<1>7. FollowsEquation(p, next, m)
  BY <1>1, <1>4, <1>5, <1>6 DEF FollowsEquation
<1> QED
  BY <1>7 DEF next

LEMMA ConjunctFollows ==
    ASSUME NEW p \in Programs, NEW frame, IsFrame(frame), frame.vertex \in Vertices, NEW m,
           FollowsEquation(p, frame, m),
           frame.conjunct <= Len(p.conjuncts[frame.vertex]),
           frame.pc > Len(p.conjuncts[frame.vertex][frame.conjunct])
    PROVE  FollowsEquation(p, [frame EXCEPT !.conjunct = @ + 1, !.pc = 1, !.operands = <<>>,
                                            !.value = Operate("&", <<@, frame.operands[1]>>)], m)
<1> DEFINE Count == Len(p.conjuncts[frame.vertex])
           e == p.conjuncts[frame.vertex][frame.conjunct]
           next == [frame EXCEPT !.conjunct = @ + 1, !.pc = 1, !.operands = <<>>,
                                 !.value = Operate("&", <<@, frame.operands[1]>>)]
<1>1. /\ next.vertex = frame.vertex
      /\ next.conjunct = frame.conjunct + 1
      /\ next.value = Operate("&", <<frame.value, frame.operands[1]>>)
      /\ next.pc = 1
      /\ next.operands = <<>>
  BY DEF IsFrame, FrameFields
<1> HIDE DEF next
<1>2. /\ Count \in Nat
      /\ \A i \in 1 .. Count : Len(p.conjuncts[frame.vertex][i]) \in Nat
  BY ProgramsAssumption
<1>3. frame.conjunct \in 1 .. Count /\ frame.conjunct + 1 \in 1 .. Count + 1
      /\ (frame.conjunct + 1) - 1 = frame.conjunct
  BY <1>2 DEF FollowsEquation
<1>4. frame.pc - 1 = Len(e) /\ Len(e) \in Nat
  <2>1. frame.pc \in 1 .. Len(e) + 1 /\ frame.pc > Len(e)
    BY DEF FollowsEquation
  <2>2. Len(e) \in Nat
    BY <1>2, <1>3
  <2> HIDE DEF e
  <2> QED
    BY <2>1, <2>2
<1>5. frame.operands[1] = ExpressionValue(p, e, m) /\ Covers(p, e, Len(e), m)
  BY <1>4 DEF FollowsEquation, ExpressionValue
<1>6. next.value = UnifiedConjuncts(p, frame.vertex, m)[frame.conjunct]
  <2>1. UnifiedConjuncts(p, frame.vertex, m)[frame.conjunct] =
            Operate("&", <<UnifiedConjuncts(p, frame.vertex, m)[frame.conjunct - 1],
                           ExpressionValue(p, e, m)>>)
    <3>1. frame.conjunct \in 1 .. Len(p.conjuncts[frame.vertex])
      BY <1>3
    <3>2. Len(p.conjuncts[frame.vertex]) \in Nat
      BY <1>2
    <3> QED
      BY <3>1, <3>2, UnifiedConjunctsAre
  <2> QED
    BY <1>1, <1>5, <2>1 DEF FollowsEquation
<1>7. CoversConjuncts(p, frame.vertex, frame.conjunct, m)
  BY <1>3, <1>5 DEF FollowsEquation, CoversConjuncts
<1>8. ASSUME NEW f, Len(f) \in Nat
      PROVE  /\ 1 \in 1 .. Len(f) + 1
             /\ <<>> = Operands(p, f, m)[0]
             /\ Covers(p, f, 0, m)
  <2>1. Operands(p, f, m)[0] = <<>>
    BY <1>8, OperandsAre
  <2>2. 1 \in 1 .. Len(f) + 1 /\ 1 .. 0 = {}
    BY <1>8
  <2> QED
    BY <2>1, <2>2 DEF Covers
<1>9. ASSUME frame.conjunct + 1 <= Count
      PROVE  Len(p.conjuncts[frame.vertex][frame.conjunct + 1]) \in Nat
  BY <1>2, <1>3, <1>9
<1>10. 1 - 1 = 0
  OBVIOUS
<1>11. FollowsEquation(p, next, m)
  BY <1>1, <1>3, <1>6, <1>7, <1>8, <1>9, <1>10 DEF FollowsEquation
<1> QED
  BY <1>11 DEF next

(* Below the top the frames stay as they are while the top one runs.       *)
LEMMA FramesBelowStay ==
    ASSUME TypeInv, RunFrame, ~FinishVertex, ~FinishRoot
    PROVE  \A i \in 1 .. Height - 1 : vertex_evaluation_stack'[i] = vertex_evaluation_stack[i]
<1>1. ASSUME InField \/ InRoot, NEW frame, SetFrame(frame)
      PROVE  \A i \in 1 .. Height - 1 : vertex_evaluation_stack'[i] = vertex_evaluation_stack[i]
  BY <1>1, CurrentIsFrame, ReplaceFrame DEF TypeInv, TypeOK, SetFrame, Height, IsSequence
<1>2. ASSUME InField, NEW x, PushResult(x)
      PROVE  \A i \in 1 .. Height - 1 : vertex_evaluation_stack'[i] = vertex_evaluation_stack[i]
  BY <1>1, <1>2 DEF PushResult
<1> QED
  BY <1>1, <1>2
  DEF RunFrame, EvaluateTooDeep, EvaluateLiteral, EvaluateOperator, EvaluateOptionalReference,
      CallReference, ReturnToReference, UnifyConjunct, EvaluateArc, SkipArc, MergeArc, Evaluate,
      InExpression

(* The forced member's own frame: it computes its equation, and what it    *)
(* waits for is what it refers to.                                         *)
LEMMA MemberRunsSolvingInv ==
    ASSUME DepthSuffices, TypeInv, MemberFollows, Height = 1, Current.vertex \in Vertices,
           RunFrame, ~FinishVertex
    PROVE  Height' = 1 /\ MemberFollows'
<1> DEFINE frame == Current
           Follows(next) == FollowsEquation(program, next, ReadMap)
<1>1. /\ frame = vertex_evaluation_stack[1] /\ frame.vertex # Root
      /\ frame.depth = 0
      /\ Follows(frame)
      /\ returned # <<>> =>
            \E w \in DOMAIN ReadMap : ReadsVertex(program, frame, w) /\ returned[1] = ReadMap[w]
  BY DEF MemberFollows, Current, Vertices, Root
<1>2. InField /\ call = <<>> /\ IsFrame(frame) /\ program \in Programs
  <2>1. InField \/ InRoot
    BY DEF RunFrame, EvaluateTooDeep, EvaluateLiteral, EvaluateOperator,
           EvaluateOptionalReference, CallReference, ReturnToReference, UnifyConjunct,
           FinishVertex, EvaluateArc, SkipArc, MergeArc, FinishRoot, InExpression
  <2> QED
    BY <2>1, <1>1, CurrentIsFrame DEF InField, InRoot, TypeInv, TypeOK
<1>3. ASSUME NEW next, SetFrame(next), UNCHANGED <<program, vertex_cache, driver, call>>,
             Follows(next), next.depth = 0, returned' = <<>>
      PROVE  Height' = 1 /\ MemberFollows'
  <2>1. Height' = 1 /\ vertex_evaluation_stack'[1] = next
    BY <1>3, ReplaceFrame DEF SetFrame, Height, TypeInv, TypeOK
  <2>2. ReadMap' = ReadMap
    BY <1>3 DEF ReadMap, Override, driver
  <2> QED
    BY <1>2, <1>3, <2>1, <2>2 DEF MemberFollows
<1>4. ASSUME InExpression
      PROVE  /\ frame.conjunct <= Len(program.conjuncts[frame.vertex])
             /\ frame.pc <= Len(program.conjuncts[frame.vertex][frame.conjunct])
             /\ Instruction = program.conjuncts[frame.vertex][frame.conjunct][frame.pc]
             /\ InstructionOK(Instruction)
             /\ ~TooDeep(ExpressionDepth)
             /\ IsReference(Instruction) => ~TooDeep(ExpressionDepth + 2)
             /\ returned # <<>> => /\ IsReference(Instruction)
                                   /\ Instruction.field \notin program.optional
                                   /\ Instruction.field \in DOMAIN ReadMap
                                   /\ returned[1] = ReadMap[Instruction.field]
  <2>1. /\ frame.conjunct <= Len(program.conjuncts[frame.vertex])
        /\ frame.pc <= Len(program.conjuncts[frame.vertex][frame.conjunct])
        /\ Instruction = program.conjuncts[frame.vertex][frame.conjunct][frame.pc]
    BY <1>4 DEF InExpression, Expression, Instruction, Conjuncts
  <2>2. InstructionOK(Instruction)
    BY <1>4, CurrentInstructionOK DEF TypeInv
  <2>3. /\ frame.conjunct \in 1 .. Len(program.conjuncts[frame.vertex])
        /\ frame.pc \in 1 .. Len(program.conjuncts[frame.vertex][frame.conjunct])
    BY <1>2, <2>1, ProgramsAssumption DEF IsFrame
  <2>4. ~TooDeep(Instruction.nesting + IF IsReference(Instruction) THEN 3 ELSE 1)
    BY <1>2, <2>1, <2>3 DEF DepthSuffices
  <2>5. Instruction.nesting \in Nat /\ ExpressionDepth = 0 + 1 + Instruction.nesting
    BY <1>1, <2>2 DEF InstructionOK, ExpressionDepth
  <2>6. /\ ~TooDeep(ExpressionDepth)
        /\ IsReference(Instruction) => ~TooDeep(ExpressionDepth + 2)
    BY <2>4, <2>5, ConstantsAssumption DEF TooDeep
  <2> QED
    BY <1>1, <2>1, <2>2, <2>6 DEF ReadsVertex
<1>5. ASSUME InExpression,
             IsReference(Instruction) /\ Instruction.field \notin program.optional =>
                 Instruction.field \in DOMAIN ReadMap,
             NEW x, x = InstructionValue(program, Instruction, frame.operands, ReadMap),
             PushResult(x), UNCHANGED <<program, vertex_cache, driver, call>>, returned' = <<>>
      PROVE  Height' = 1 /\ MemberFollows'
  <2> DEFINE next == [frame EXCEPT !.operands = Append(SubSeq(@, 1, Kept), x), !.pc = @ + 1]
  <2>1. SetFrame(next)
    BY <1>5 DEF PushResult
  <2>2. Kept = Len(frame.operands) - Arity(Instruction.op)
    BY DEF Kept
  <2>3. Follows(next)
    BY <1>1, <1>2, <1>4, <1>5, <2>2, InstructionFollows
  <2>4. next.depth = 0
    BY <1>1, <1>2 DEF IsFrame, FrameFields
  <2> HIDE DEF next, Follows
  <2> QED
    BY <1>3, <1>5, <2>1, <2>3, <2>4
<1>6. CASE EvaluateTooDeep
  BY <1>4, <1>6 DEF EvaluateTooDeep
<1>7. CASE EvaluateLiteral
  <2>1. returned = <<>> /\ ~IsReference(Instruction)
    BY <1>4, <1>7 DEF EvaluateLiteral, IsReference
  <2>2. Instruction.value = InstructionValue(program, Instruction, frame.operands, ReadMap)
    BY <1>7, <2>1 DEF EvaluateLiteral, InstructionValue
  <2> QED
    BY <1>5, <1>7, <2>1, <2>2 DEF EvaluateLiteral, Evaluate
<1>8. CASE EvaluateOperator
  <2>1. returned = <<>> /\ ~IsReference(Instruction) /\ Instruction.op # "lit"
    BY <1>4, <1>8 DEF EvaluateOperator, IsReference, Operators
  <2>2. Operate(Instruction.op, SubSeq(Current.operands, Kept + 1, Len(Current.operands)))
            = InstructionValue(program, Instruction, frame.operands, ReadMap)
    BY <2>1 DEF InstructionValue, Kept
  <2> QED
    BY <1>5, <1>8, <2>1, <2>2 DEF EvaluateOperator, Evaluate
<1>9. CASE EvaluateOptionalReference
  <2>1. returned = <<>>
    BY <1>4, <1>9 DEF EvaluateOptionalReference
  <2>2. OptionalReference = InstructionValue(program, Instruction, frame.operands, ReadMap)
    BY <1>9 DEF EvaluateOptionalReference, InstructionValue, IsReference
  <2> QED
    BY <1>5, <1>9, <2>1, <2>2 DEF EvaluateOptionalReference, Evaluate
<1>10. CASE CallReference
  <2>1. /\ UNCHANGED <<program, vertex_cache, driver, vertex_evaluation_stack>>
        /\ returned' = <<>>
        /\ call' = <<[vertex |-> Instruction.field, depth |-> ExpressionDepth + 2]>>
        /\ IsReference(Instruction) /\ Instruction.field \notin program.optional
    BY <1>10 DEF CallReference
  <2>2. Height' = 1 /\ ReadMap' = ReadMap
    BY <2>1 DEF Height, ReadMap, Override, driver
  <2>3. ReadsVertex(program, frame, Instruction.field) /\ ~TooDeep(ExpressionDepth + 2)
    BY <1>4, <1>10, <2>1 DEF CallReference, ReadsVertex
  <2>4. Called' = Instruction.field /\ (call'[1]).depth = ExpressionDepth + 2
    BY <2>1 DEF Called
  <2> QED
    BY <1>1, <2>1, <2>2, <2>3, <2>4 DEF MemberFollows
<1>11. CASE ReturnToReference
  <2>1. InExpression /\ returned # <<>>
    BY <1>11 DEF ReturnToReference
  <2>2. returned[1] = InstructionValue(program, Instruction, frame.operands, ReadMap)
    BY <1>4, <2>1 DEF InstructionValue, IsReference
  <2> QED
    BY <1>4, <1>5, <1>11, <2>1, <2>2 DEF ReturnToReference
<1>12. CASE UnifyConjunct
  <2> DEFINE next == [frame EXCEPT !.conjunct = @ + 1, !.pc = 1, !.operands = <<>>,
                                   !.value = Operate("&", <<@, Current.operands[1]>>)]
  <2>1. /\ frame.conjunct <= Len(program.conjuncts[frame.vertex])
        /\ frame.pc > Len(program.conjuncts[frame.vertex][frame.conjunct])
        /\ SetFrame(next)
        /\ UNCHANGED <<program, vertex_cache, driver, call, returned>>
    BY <1>12 DEF UnifyConjunct, Conjuncts, Expression
  <2>2. returned = <<>>
    <3>1. \A w : ~ReadsVertex(program, frame, w)
      <4>1. frame.pc \in Nat /\ Len(program.conjuncts[frame.vertex][frame.conjunct]) \in Nat
        BY <1>2, <2>1, ProgramsAssumption DEF IsFrame
      <4> QED
        BY <2>1, <4>1 DEF ReadsVertex
    <3> QED
      BY <1>1, <3>1
  <2>3. Follows(next)
    BY <1>1, <1>2, <2>1, ConjunctFollows
  <2>4. next.depth = 0
    BY <1>1, <1>2 DEF IsFrame, FrameFields
  <2> HIDE DEF next, Follows
  <2> QED
    BY <1>3, <2>1, <2>2, <2>3, <2>4
<1>13. ~InRoot
  BY <1>1 DEF InRoot
<1> QED
  BY <1>6, <1>7, <1>8, <1>9, <1>10, <1>11, <1>12, <1>13
  DEF RunFrame, EvaluateArc, SkipArc, MergeArc, FinishRoot

(* A vertex that is popped above the member is one that the map gets; the  *)
(* member itself returns the value of its equation.                        *)
LEMMA PopSolvingInv ==
    ASSUME TypeInv, StackInv, CycleInv, SolvingInv, InField \/ InRoot, phase = "force",
           PopFrame, InField => Current.conjunct > Len(Conjuncts(Current.vertex))
    PROVE  SolvingInv'
<1> DEFINE w == Current.vertex
<1>1. /\ UNCHANGED <<driver, program, call>> /\ call = <<>>
      /\ DOMAIN vertex_cache' = DOMAIN vertex_cache \union {w}
      /\ \A u \in DOMAIN vertex_cache : u # w => vertex_cache'[u] = vertex_cache[u]
      /\ vertex_cache'[w] = Current.value
      /\ returned' = <<Current.value>>
  BY CurrentIsFrame DEF PopFrame, Override, ConstantMap, TypeInv
<1>2. /\ Height \in Nat
      /\ Height > 0
      /\ Height' = Height - 1
      /\ \A i \in 1 .. Height - 1 : vertex_evaluation_stack'[i] = vertex_evaluation_stack[i]
  BY CurrentIsFrame, DropFrame DEF PopFrame, TypeInv, TypeOK, Height
<1>3. PICK v \in MembersLeft : /\ fixpoint_forcing_vertices = {v}
                               /\ vertex_evaluation_stack[1].vertex = v
                               /\ Recorded
  BY <1>2, MemberAtBottom
<1>4. /\ \A u \in DOMAIN next_values : IsEquationValue(program, u, next_values[u], ReadMap)
      /\ MemberFollows
  BY <1>2 DEF SolvingInv
<1>5. /\ DOMAIN fixpoint_previous_values = fixpoint_active_vertices
      /\ program \in Programs
      /\ fixpoint_active_vertices \subseteq Vertices
      /\ v \in fixpoint_active_vertices
      /\ DOMAIN next_values \subseteq fixpoint_active_vertices
      /\ fixpoint_previous_values' = fixpoint_previous_values
      /\ next_values' = next_values
      /\ fixpoint_forcing_vertices' = fixpoint_forcing_vertices
  BY <1>1, <1>3 DEF TypeInv, TypeOK, MembersLeft, driver
<1>6. w \in evaluating_vertices /\ w \notin DOMAIN vertex_cache
  BY <1>2 DEF StackInv, NoReentry, Current
<1>7. Extends(ReadMap, ReadMap')
  BY <1>1, <1>5, <1>6 DEF Extends, ReadMap, Override
<1>8. (\A u \in DOMAIN next_values : IsEquationValue(program, u, next_values[u], ReadMap))'
  <2>1. \A u \in DOMAIN next_values : IsEquationValue(program, u, next_values[u], ReadMap')
    BY <1>4, <1>5, <1>7, EquationValueExtended
  <2> QED
    BY <1>1, <1>5, <2>1
<1>9. vertex_evaluation_stack[1].vertex \in Vertices /\ v # Root
  BY <1>3, <1>5 DEF Vertices, Root
<1>10. FollowsEquation(program, vertex_evaluation_stack[1], ReadMap')
  BY <1>4, <1>5, <1>7, <1>9, FollowsEquationExtended DEF MemberFollows
<1>11. CASE Height = 1
  <2>1. Current = vertex_evaluation_stack[1] /\ InField
    BY <1>3, <1>9, <1>11 DEF Current, InField, InRoot
  <2>2. IsEquationValue(program, v, Current.value, ReadMap')
    <3>1. Len(program.conjuncts[v]) \in Nat
      BY <1>3, <1>5, <1>9, ProgramsAssumption
    <3>2. Current.conjunct \in 1 .. Len(program.conjuncts[v]) + 1
          /\ Current.conjunct > Len(program.conjuncts[v])
      BY <1>3, <1>10, <2>1 DEF FollowsEquation, Conjuncts
    <3>3. Current.conjunct - 1 = Len(program.conjuncts[v])
      BY <3>1, <3>2
    <3> QED
      BY <1>3, <1>10, <2>1, <3>3 DEF FollowsEquation, IsEquationValue, EquationValue
  <2>3. Height' = 0 /\ returned'[1] = Current.value
    BY <1>1, <1>2, <1>11
  <2>4. (\A u \in fixpoint_forcing_vertices : IsEquationValue(program, u, returned[1], ReadMap))'
    BY <1>1, <1>3, <1>5, <2>2, <2>3
  <2> QED
    BY <1>8, <2>3, <2>4 DEF SolvingInv
<1>12. CASE Height > 1
  <2>1. /\ vertex_evaluation_stack'[1] = vertex_evaluation_stack[1]
        /\ Height' > 0 /\ Height' # 0
        /\ Height' = 1 => Current = vertex_evaluation_stack[2]
        /\ Height' > 1 => vertex_evaluation_stack'[2] = vertex_evaluation_stack[2]
    BY <1>2, <1>12 DEF Current
  <2>2. ReadsVertex(program, vertex_evaluation_stack[1], vertex_evaluation_stack[2].vertex)
    BY <1>4, <1>12 DEF MemberFollows
  <2>3. w # v
    BY <1>2, <1>3, <1>12 DEF Current, StackInv, NoReentry
  <2>4. w \notin fixpoint_active_vertices
    BY <1>3, <1>6, <2>3 DEF StackInv, OnlyForcedMemberRuns
  <2>5. w \in DOMAIN ReadMap' /\ ReadMap'[w] = Current.value /\ returned'[1] = Current.value
    BY <1>1, <1>5, <2>4 DEF ReadMap, Override
  <2>6. MemberFollows'
    BY <1>1, <1>4, <1>10, <2>1, <2>2, <2>5 DEF MemberFollows
  <2> QED
    BY <1>8, <2>1, <2>6 DEF SolvingInv
<1> QED
  BY <1>2, <1>11, <1>12

LEMMA RunFrameSolvingInv ==
    ASSUME DepthSuffices, TypeInv, StackInv, CycleInv, SolvingInv, RunFrame
    PROVE  SolvingInv'
<1>1. InField \/ InRoot
  BY DEF RunFrame, EvaluateTooDeep, EvaluateLiteral, EvaluateOperator,
         EvaluateOptionalReference, CallReference, ReturnToReference, UnifyConjunct,
         FinishVertex, EvaluateArc, SkipArc, MergeArc, FinishRoot, InExpression
<1>2. Height \in Nat /\ Height > 0
  BY <1>1, CurrentIsFrame DEF TypeInv
<1>3. phase' = phase /\ program' = program
  BY DEF RunFrame, EvaluateTooDeep, EvaluateLiteral, EvaluateOperator,
         EvaluateOptionalReference, CallReference, ReturnToReference, UnifyConjunct,
         FinishVertex, EvaluateArc, SkipArc, MergeArc, FinishRoot, Evaluate, PopFrame, driver
<1>4. CASE phase # "force"
  <2>1. phase # "select"
    BY <1>2 DEF TypeInv, DriverOK
  <2> QED
    BY <1>3, <1>4, <2>1 DEF SolvingInv
<1>5. CASE phase = "force" /\ (FinishVertex \/ FinishRoot)
  BY <1>1, <1>5, PopSolvingInv DEF FinishVertex, FinishRoot, InField, InRoot
<1>6. CASE phase = "force" /\ ~FinishVertex /\ ~FinishRoot
  <2>1. /\ \A u \in DOMAIN next_values : IsEquationValue(program, u, next_values[u], ReadMap)
        /\ MemberFollows
    BY <1>2, <1>6 DEF SolvingInv
  <2>2. UNCHANGED <<driver, vertex_cache>> /\ Height' = Height
    BY <1>6, RunFrameKeepsVertices
  <2>3. ReadMap' = ReadMap /\ next_values' = next_values
    BY <2>2 DEF ReadMap, Override, driver
  <2>4. (\A u \in DOMAIN next_values : IsEquationValue(program, u, next_values[u], ReadMap))'
    BY <1>3, <2>1, <2>3
  <2>5. MemberFollows'
    <3>1. CASE Height = 1
      <4>1. Current.vertex \in Vertices
        <5>1. PICK v \in MembersLeft : vertex_evaluation_stack[1].vertex = v
          BY <1>2, <1>6, MemberAtBottom
        <5> QED
          BY <3>1, <5>1 DEF Current, MembersLeft, TypeInv, TypeOK
      <4> QED
        BY <1>6, <2>1, <3>1, <4>1, MemberRunsSolvingInv
    <3>2. CASE Height > 1
      <4>1. vertex_evaluation_stack'[1] = vertex_evaluation_stack[1]
        BY <1>2, <1>6, <3>2, FramesBelowStay
      <4>2. vertex_evaluation_stack'[2].vertex = vertex_evaluation_stack[2].vertex
        BY <1>2, <1>6, <3>2, RunFrameKeepsVertices
      <4>3. Height' > 1 /\ Height' # 1
        BY <1>2, <2>2, <3>2
      <4> QED
        BY <1>3, <2>1, <2>3, <3>2, <4>1, <4>2, <4>3 DEF MemberFollows
    <3> QED
      BY <1>2, <3>1, <3>2
  <2>6. Height' > 0 /\ Height' # 0
    BY <1>2, <2>2
  <2> QED
    BY <2>4, <2>5, <2>6 DEF SolvingInv
<1> QED
  BY <1>4, <1>5, <1>6

LEMMA NextSolvingInv ==
    ASSUME DepthSuffices
    PROVE  TypeInv /\ StackInv /\ CycleInv /\ SolvingInv /\ [Next]_vars => SolvingInv'
<1> SUFFICES ASSUME TypeInv, StackInv, CycleInv, SolvingInv, [Next]_vars PROVE SolvingInv'
  OBVIOUS
<1>1. CASE UNCHANGED vars
  BY <1>1 DEF SolvingInv, MemberFollows, ReadMap, Height, Called, vars, driver, machine
<1>2. CASE Next
  BY <1>1, <1>2, DriveSolvingInv, EnterCallSolvingInv, RunFrameSolvingInv DEF Next, Done
<1> QED
  BY <1>1, <1>2

(* When the iteration ends, the values are the ones they were computed     *)
(* from, so that the cache is the map they were read from.                 *)
LEMMA ConvergedMapSolves ==
    ASSUME TypeInv, CycleInv, SolvingInv, [Next]_vars, phase = "select", phase' = "component",
           NEW v \in fixpoint_active_vertices
    PROVE  Solves(program, v, vertex_cache')
<1>1. Converge
  BY DEF Next, Drive, Collect, CacheCycleBottoms, BeginComponent, BeginIteration, ForceMember,
         RecordMember, Continue, GiveUp, EvaluateRoot, Finish, FinishComponent,
         EnterCall, ReturnPrevious, ReturnCached, ReturnPlaceholder, ReturnDepthLimit,
         EnterVertex, Return, RunFrame, EvaluateTooDeep, EvaluateLiteral, EvaluateOperator,
         EvaluateOptionalReference, CallReference, ReturnToReference, UnifyConjunct,
         FinishVertex, EvaluateArc, SkipArc, MergeArc, FinishRoot, Evaluate, PopFrame,
         Done, vars, driver
<1>2. /\ v \in DOMAIN next_values
      /\ vertex_cache' = ReadMap
      /\ ReadMap[v] = next_values[v]
      /\ v \in Vertices
      /\ program \in Programs
  BY <1>1 DEF Converge, Converged, FinishComponent, ReadMap, Override, TypeInv, TypeOK
<1>3. IsEquationValue(program, v, next_values[v], ReadMap)
  BY <1>2 DEF SolvingInv
<1>4. ReferencesOf(program, v) \ program.optional \subseteq DOMAIN ReadMap
  BY <1>3 DEF IsEquationValue, CoversConjuncts, Covers, ReferencesOf
<1> QED
  BY <1>2, <1>3, <1>4 DEF Solves, IsEquationValue

(* A cycle that converges is solved, for any program and any meaning of    *)
(* the operators, as long as no field's own expressions are as deep as the *)
(* limit (iterate_fixpoint_vertices).                                      *)
THEOREM ConvergedCyclesAreSolved ==
    ASSUME DepthSuffices
    PROVE  Spec => ConvergedSolves
<1>1. TypeInv /\ StackInv /\ CycleInv /\ SolvingInv /\ [Next]_vars
          => [phase = "select" /\ phase' = "component" =>
                  \A v \in fixpoint_active_vertices : Solves(program, v, vertex_cache')]_vars
  BY ConvergedMapSolves
<1>2. Init => CycleInv /\ SolvingInv
  BY InitCycleInv, InitSolvingInv
<1>3. TypeInv /\ StackInv /\ CycleInv /\ SolvingInv /\ [Next]_vars => CycleInv' /\ SolvingInv'
  BY NextCycleInv, NextSolvingInv
<1> QED
  BY Invariance, <1>1, <1>2, <1>3, PTL DEF Spec, ConvergedSolves
=============================================================================
