----------------------------- MODULE CommandLine -----------------------------
(***************************************************************************)
(* cue vet, export and eval (apps/cue/src/main.rs) from the loaded         *)
(* arguments to the exit code, over the values of ValueHandles and the     *)
(* documents of Encoding.  The loader gives one instance: the CUE files it *)
(* names are a tree, or have diagnostics, or are none; the data files are *)
(* the positional ones, then those of --data, which only vet has.          *)
(***************************************************************************)
EXTENDS Naturals, Sequences

CONSTANTS
    Requests,                    \* in groups, sets of requests
    NONE,
    Build(_),                    \* Context::build_instance: the handle of CUE files, NONE with diagnostics
    Decode(_, _),                \* decode_value: the handle of a document, NONE if it is refused
    UnifyValues(_, _),           \* Value::unify
    IsConcrete(_),               \* Value::validate reports nothing
    SelectPath(_, _),            \* Value::lookup_path: the handle at a path, NONE if there is none
    CompileExpression(_, _),     \* Context::compile_instance_expression, NONE if it does not compile
    Encode(_, _, _, _)           \* encode_value, its outcome: "written", "eval_error" or another error

Whole == NONE                    \* in place of an expression: no selection
Blank == <<>>                    \* an expression without a name

ASSUME RequestsAssumption ==
    \A group \in Requests : \A r \in group :
        /\ r.command \in {"vet", "export", "eval"}
        /\ Len(r.data) \in Nat /\ DOMAIN r.data = 1 .. Len(r.data)
        /\ r.data # <<>> => Len(r.data) > 0
        /\ r.expressions # <<>> => Len(r.expressions) \in Nat \ {0}
        /\ r.command = "vet" => r.expressions = <<>>
        /\ \A i \in 1 .. Len(r.expressions) : r.expressions[i] # Whole
        /\ r.positional \in 0 .. Len(r.data)
        /\ r.command # "vet" => r.positional = Len(r.data)
        /\ \A i \in 1 .. r.positional : r.data[i].encoding # "cue"

ASSUME NoneAssumption == NONE \notin {"success", "failure", "abort"}

VARIABLES request,
          phase,      \* "load", "value", "data" or "done"
          built,      \* the handle of the CUE files, or NONE
          data,       \* the data file being read: its index, and its handle once read
          selected,   \* the expressions already selected from the value or the file
          verdicts,   \* what became of each value so far
          sawError,   \* saw_error
          exit        \* "success", "failure" (exit code 1), "abort" (an error returned to main) or NONE

vars == <<request, phase, built, data, selected, verdicts, sawError, exit>>

Expressions == IF request.expressions = <<>> THEN <<Whole>> ELSE request.expressions
Concrete == request.command # "eval"
Format == IF request.command = "eval" THEN "cue" ELSE request.out

(* No file and no directory is named (one without files is the empty struct). *)
NoFiles == request.cue = NONE /\ request.positional = 0

Unread(i) == [index |-> i, handle |-> NONE]

(* read_data_file: a CUE file is compiled, anything else decoded. *)
ReadDataFile(file) ==
    IF file.encoding = "cue" THEN Build(file.document) ELSE Decode(file.document, file.encoding)

(* validate_data *)
Accepts(schema, handle) == IsConcrete(UnifyValues(schema, handle))

(* select_value_path; select_expression: what the path does not reach in   *)
(* the CUE files is compiled as an expression there.                       *)
SelectValuePath(handle, path) == IF path = Blank THEN NONE ELSE SelectPath(handle, path)
SelectExpression(path) ==
    IF path = Blank \/ SelectPath(built, path) # NONE THEN SelectValuePath(built, path)
    ELSE CompileExpression(built, path)

----------------------------------------------------------------------------
Init ==
    /\ \E group \in Requests : request \in group
    /\ phase = "load" /\ built = NONE /\ data = Unread(1) /\ selected = 0
    /\ verdicts = <<>> /\ sawError = FALSE /\ exit = NONE

Stop(code) == phase' = "done" /\ exit' = code
Abort == Stop("abort") /\ UNCHANGED <<request, built, data, selected, verdicts, sawError>>

(* saw_error |= ... *)
JudgeLast(outcome) == sawError' = (outcome = "eval_error") /\ verdicts' = Append(verdicts, outcome)
Judge(outcome) == sawError' = (sawError \/ outcome = "eval_error") /\ verdicts' = Append(verdicts, outcome)

(* compile_cue_args, Context::build_instance *)
CompileCueArgs ==
    /\ phase = "load"
    /\ IF NoFiles THEN Abort
       ELSE /\ phase' = "value"
            /\ built' = IF request.cue = NONE THEN NONE ELSE Build(request.cue)
            /\ sawError' = (request.cue # NONE /\ built' = NONE)
            /\ UNCHANGED <<request, data, selected, verdicts, exit>>

(* vet without a schema, or with one that does not compile *)
StopVet ==
    /\ phase = "value" /\ request.command = "vet" /\ built = NONE
    /\ Stop("failure") /\ UNCHANGED <<request, built, data, selected, verdicts, sawError>>

ValidateSchema ==
    /\ phase = "value" /\ request.command = "vet" /\ built # NONE
    /\ IF request.data = <<>> THEN Judge(IF IsConcrete(built) THEN "accepted" ELSE "eval_error")
       ELSE UNCHANGED <<verdicts, sawError>>
    /\ phase' = "data" /\ UNCHANGED <<request, built, data, selected, exit>>

(* write_value: an evaluation error is remembered, any other ends the      *)
(* command                                                                 *)
WriteValue(handle) ==
    LET outcome == Encode(handle, Format, Concrete, request.options)
    IN  IF outcome \notin {"written", "eval_error"} THEN Abort
        ELSE /\ Judge(outcome) /\ selected' = selected + 1
             /\ UNCHANGED <<request, phase, built, data, exit>>

WriteCompiledValue ==
    /\ phase = "value" /\ request.command # "vet" /\ built # NONE /\ selected < Len(Expressions)
    /\ LET expression == Expressions[selected + 1]
           handle == IF expression = Whole THEN built ELSE SelectExpression(expression)
       IN  IF handle = NONE THEN Abort ELSE WriteValue(handle)

(* After the value: the data files. *)
TurnToData ==
    /\ phase = "value" /\ request.command # "vet" /\ (built = NONE \/ selected = Len(Expressions))
    /\ phase' = "data" /\ selected' = 0
    /\ UNCHANGED <<request, built, data, verdicts, sawError, exit>>

ReadData ==
    /\ phase = "data" /\ data.index \in DOMAIN request.data /\ data.handle = NONE
    /\ LET read == ReadDataFile(request.data[data.index])
       IN  IF read = NONE THEN Abort
           ELSE /\ data' = [data EXCEPT !.handle = read]
                /\ UNCHANGED <<request, phase, built, selected, verdicts, sawError, exit>>

ValidateAndKeep ==
    /\ phase = "data" /\ request.command = "vet" /\ data.handle # NONE
    /\ Judge(IF Accepts(built, data.handle) THEN "accepted" ELSE "eval_error")
    /\ data' = [data EXCEPT !.index = @ + 1]
    /\ UNCHANGED <<request, phase, built, selected, exit>>

ValidateData ==
    /\ phase = "data" /\ request.command = "vet" /\ data.handle # NONE
    /\ Judge(IF Accepts(built, data.handle) THEN "accepted" ELSE "eval_error")
    /\ data' = Unread(data.index + 1)
    /\ UNCHANGED <<request, phase, built, selected, exit>>

WriteData ==
    /\ phase = "data" /\ request.command # "vet" /\ data.handle # NONE
    /\ \/ /\ selected < Len(Expressions)
          /\ LET expression == Expressions[selected + 1]
                 handle == IF expression = Whole THEN data.handle ELSE SelectValuePath(data.handle, expression)
             IN  IF handle = NONE THEN Abort ELSE WriteValue(handle)
       \/ /\ selected = Len(Expressions)
          /\ data' = Unread(data.index + 1) /\ selected' = 0
          /\ UNCHANGED <<request, phase, built, verdicts, sawError, exit>>

Exit ==
    /\ phase = "data" /\ data.index \notin DOMAIN request.data
    /\ Stop(IF sawError THEN "failure" ELSE "success") /\ UNCHANGED <<request, built, data, selected, verdicts, sawError>>

Finished == phase = "done" /\ UNCHANGED vars

Next ==
    \/ CompileCueArgs \/ StopVet \/ ValidateSchema \/ WriteCompiledValue \/ TurnToData
    \/ ReadData \/ ValidateData \/ WriteData \/ Exit
    \/ Finished

Spec == Init /\ [][Next]_vars

----------------------------------------------------------------------------
(* What is read is a handle of the file in turn; a vet selects nothing and *)
(* writes nothing; an exit code is given once, at the end.                 *)
TypeOK ==
    /\ phase \in {"load", "value", "data", "done"} /\ (phase = "done" <=> exit # NONE)
    /\ exit \in {"success", "failure", "abort", NONE} /\ sawError \in BOOLEAN
    /\ data.index \in 1 .. Len(request.data) + 1 /\ selected \in 0 .. Len(Expressions)
    /\ data.handle # NONE => phase \in {"data", "done"} /\ data.index \in DOMAIN request.data
    /\ \A i \in DOMAIN verdicts :
           verdicts[i] \in IF request.command = "vet" THEN {"accepted", "eval_error"} ELSE {"written", "eval_error"}

(* Success means that every value was accepted or written: all data files  *)
(* were read, however many failed before, the CUE files compile, and there *)
(* was something to read (vet_files, write_encoded_files).                 *)
SuccessCoversEverything ==
    exit = "success" =>
        /\ Len(verdicts) # 0
        /\ request.cue # NONE => Build(request.cue) # NONE
        /\ Len(verdicts) =
              IF request.command = "vet" THEN IF request.data = <<>> THEN 1 ELSE Len(request.data)
              ELSE Len(Expressions) * (Len(request.data) + IF request.cue = NONE THEN 0 ELSE 1)
        /\ \A i \in DOMAIN verdicts : verdicts[i] # "eval_error"
=============================================================================
