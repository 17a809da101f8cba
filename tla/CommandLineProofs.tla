-------------------------- MODULE CommandLineProofs --------------------------
(***************************************************************************)
(* Theorems about the commands, for every request, whatever the values of  *)
(* the language are and however they are evaluated, unified and encoded.   *)
(*                                                                         *)
(* Progress counts: each value that is finished has as many verdicts as    *)
(* there are expressions, the one in hand as many as are selected, and     *)
(* without saw_error none of them is an error.  SuccessCoversEverything is *)
(* what is left of it when no file is left.                                *)
(***************************************************************************)
EXTENDS CommandLine, StackLemmas

RequestOK ==
    /\ request.command \in {"vet", "export", "eval"}
    /\ Len(request.data) \in Nat /\ DOMAIN request.data = 1 .. Len(request.data)
    /\ request.data # <<>> => Len(request.data) > 0
    /\ Len(Expressions) \in Nat \ {0}
    /\ request.positional \in 0 .. Len(request.data)
    /\ request.command # "vet" => request.positional = Len(request.data)

IsVet == request.command = "vet"

Outcomes == IF IsVet THEN {"accepted", "eval_error"} ELSE {"written", "eval_error"}

VerdictsOK == IsSequence(verdicts) /\ \A i \in 1 .. Len(verdicts) : verdicts[i] \in Outcomes

Typed ==
    /\ phase \in {"load", "value", "data", "done"}
    /\ exit \in {"success", "failure", "abort", NONE}
    /\ phase = "done" <=> exit # NONE
    /\ sawError \in BOOLEAN
    /\ data.index \in 1 .. Len(request.data) + 1
    /\ DOMAIN data = {"index", "handle"}
    /\ selected \in 0 .. Len(Expressions)
    /\ data.handle # NONE => phase \in {"data", "done"} /\ data.index \in 1 .. Len(request.data)
    /\ VerdictsOK

(* The values that are finished: the one of the CUE files, if there is     *)
(* one, and the files before the one in hand.                              *)
Values == (IF built = NONE THEN 0 ELSE 1) + (data.index - 1)

Produced ==
    IF IsVet THEN IF request.data = <<>> THEN 1 ELSE data.index - 1
    ELSE Len(Expressions) * Values + selected

Compiles == request.cue # NONE => built # NONE

Progress ==
    /\ phase = "load" => /\ built = NONE /\ data.index = 1 /\ selected = 0
                         /\ Len(verdicts) = 0 /\ ~sawError
    /\ phase = "value" => /\ data.index = 1
                          /\ Len(verdicts) = selected
                          /\ IsVet \/ built = NONE => selected = 0
    /\ phase = "data" => /\ Len(verdicts) = Produced
                         /\ IsVet => built # NONE
                         /\ IsVet \/ data.handle = NONE => selected = 0
    /\ exit = "success" => /\ Len(verdicts) = Produced
                           /\ data.index = Len(request.data) + 1 /\ selected = 0
                           /\ ~sawError
    /\ phase # "load" => built = IF request.cue = NONE THEN NONE ELSE Build(request.cue)
    /\ phase # "load" /\ exit # "abort" => ~NoFiles
    /\ phase # "load" /\ ~sawError => Compiles
    /\ ~sawError => \A i \in 1 .. Len(verdicts) : verdicts[i] # "eval_error"

CommandInv == RequestOK /\ Typed /\ Progress

----------------------------------------------------------------------------
LEMMA InitCommandInv == Init => CommandInv
<1> SUFFICES ASSUME Init PROVE CommandInv
  OBVIOUS
<1>1. PICK group \in Requests : request \in group
  BY DEF Init
<1>2. RequestOK
  BY <1>1, RequestsAssumption DEF RequestOK, Expressions
<1>3. Len(verdicts) = 0 /\ IsSequence(verdicts)
  BY DEF Init, IsSequence
<1>4. data.index = 1 /\ data.handle = NONE /\ DOMAIN data = {"index", "handle"}
  BY DEF Init, Unread
<1>5. VerdictsOK
  BY <1>3 DEF VerdictsOK
<1>6. sawError \in BOOLEAN
  BY DEF Init
<1>7. 1 \in 1 .. Len(request.data) + 1 /\ 0 \in 0 .. Len(Expressions)
  BY <1>2 DEF RequestOK
<1>8. Typed
  BY <1>4, <1>5, <1>6, <1>7 DEF Init, Typed
<1>9. Progress
  BY <1>3, <1>4, NoneAssumption DEF Init, Progress
<1> QED
  BY <1>2, <1>8, <1>9 DEF CommandInv

(* What a verdict adds. *)
LEMMA JudgeAdds ==
    ASSUME RequestOK, Typed, UNCHANGED request, NEW outcome \in Outcomes, Judge(outcome)
    PROVE  /\ VerdictsOK'
           /\ Len(verdicts') = Len(verdicts) + 1
           /\ sawError' \in BOOLEAN
           /\ ~sawError' =>
                  /\ ~sawError
                  /\ (\A i \in 1 .. Len(verdicts) : verdicts[i] # "eval_error") =>
                         \A i \in 1 .. Len(verdicts') : verdicts'[i] # "eval_error"
<1> DEFINE n == Len(verdicts)
<1>1. /\ IsSequence(verdicts')
      /\ Len(verdicts') = n + 1
      /\ \A i \in 1 .. n : verdicts'[i] = verdicts[i]
      /\ verdicts'[n + 1] = outcome
  BY PushFrame DEF Judge, Typed, VerdictsOK
<1>2. n \in Nat /\ \A i \in 1 .. n : verdicts[i] \in Outcomes
  BY DEF Typed, VerdictsOK, IsSequence
<1>3. Outcomes' = Outcomes
  BY DEF Outcomes, IsVet
<1> HIDE DEF n
<1>4. \A i \in 1 .. Len(verdicts') : i \in 1 .. n \/ i = n + 1
  BY <1>1, <1>2
<1>5. VerdictsOK'
  BY <1>1, <1>2, <1>3, <1>4 DEF VerdictsOK
<1>6. sawError' \in BOOLEAN
  BY DEF Judge, Typed
<1>7. ~sawError' => ~sawError /\ outcome # "eval_error"
  BY DEF Judge, Typed
<1> QED
  BY <1>1, <1>4, <1>5, <1>6, <1>7 DEF n

LEMMA RequestStays ==
    ASSUME RequestOK, UNCHANGED request
    PROVE  RequestOK' /\ Expressions' = Expressions /\ IsVet' = IsVet /\ Outcomes' = Outcomes /\ NoFiles' = NoFiles
  BY DEF RequestOK, Expressions, IsVet, Outcomes, NoFiles

(* Abort ends the command and changes nothing else.  Before anything is    *)
(* loaded it ends a command that names no file.                            *)
LEMMA AbortInv == ASSUME CommandInv, Abort, phase # "load" \/ NoFiles PROVE CommandInv'
<1>1. /\ UNCHANGED <<request, built, data, selected, verdicts, sawError>>
      /\ phase' = "done" /\ exit' = "abort"
  BY DEF Abort, Stop
<1>2. RequestOK' /\ Expressions' = Expressions /\ IsVet' = IsVet /\ Outcomes' = Outcomes /\ NoFiles' = NoFiles
  BY <1>1, RequestStays DEF CommandInv
<1>3. Typed'
  BY <1>1, <1>2, NoneAssumption DEF CommandInv, Typed, VerdictsOK
<1>4. sawError' = sawError /\ Compiles' = Compiles
  BY <1>1 DEF Compiles
<1>5. CASE phase = "load"
  <2>1. request.cue = NONE /\ built = NONE
    BY <1>5 DEF NoFiles, CommandInv, Progress
  <2>2. Progress'
    BY <1>1, <1>2, <1>4, <1>5, <2>1, NoneAssumption DEF CommandInv, Progress, Typed, Compiles
  <2> QED
    BY <1>2, <1>3, <2>2 DEF CommandInv
<1>6. CASE phase # "load"
  <2>1. Progress'
    BY <1>1, <1>2, <1>4, <1>6, NoneAssumption DEF CommandInv, Progress, Typed
  <2> QED
    BY <1>2, <1>3, <2>1 DEF CommandInv
<1> QED
  BY <1>5, <1>6

LEMMA WriteInv ==
    ASSUME CommandInv, NEW handle, WriteValue(handle), ~IsVet, selected < Len(Expressions),
           \/ phase = "value" /\ built # NONE
           \/ phase = "data" /\ data.handle # NONE
    PROVE  CommandInv'
<1> DEFINE outcome == Encode(handle, Format, Concrete, request.options)
<1>1. CASE outcome \notin {"written", "eval_error"}
  BY <1>1, AbortInv DEF WriteValue
<1>2. CASE outcome \in {"written", "eval_error"}
  <2>1. /\ Judge(outcome) /\ selected' = selected + 1
        /\ UNCHANGED <<request, phase, built, data, exit>>
    BY <1>2 DEF WriteValue
  <2>2. RequestOK' /\ Expressions' = Expressions /\ IsVet' = IsVet /\ Outcomes' = Outcomes /\ NoFiles' = NoFiles
    BY <2>1, RequestStays DEF CommandInv
  <2>3. outcome \in Outcomes
    BY <1>2 DEF Outcomes
  <2> HIDE DEF outcome
  <2>4. /\ VerdictsOK'
        /\ Len(verdicts') = Len(verdicts) + 1
        /\ sawError' \in BOOLEAN
        /\ ~sawError' =>
               /\ ~sawError
               /\ (\A i \in 1 .. Len(verdicts) : verdicts[i] # "eval_error") =>
                      \A i \in 1 .. Len(verdicts') : verdicts'[i] # "eval_error"
    BY <2>1, <2>3, JudgeAdds DEF CommandInv
  <2>5. selected' \in 0 .. Len(Expressions)
    BY <2>1 DEF CommandInv, Typed, RequestOK
  <2>6. Typed'
    BY <2>1, <2>2, <2>4, <2>5 DEF CommandInv, Typed
  <2>7. /\ phase = "value" => Len(verdicts') = selected'
        /\ phase = "data" => Len(verdicts') = Produced'
    <3>1. Len(Expressions) * Values \in Int
      BY DEF CommandInv, RequestOK, Typed, Values
    <3>2. Values' = Values
      BY <2>1 DEF Values
    <3> QED
      BY <2>1, <2>2, <2>4, <3>1, <3>2 DEF CommandInv, Progress, Typed, Produced
  <2>8. Progress'
    BY <2>1, <2>2, <2>4, <2>6, <2>7, NoneAssumption DEF CommandInv, Progress, Typed, Compiles
  <2> QED
    BY <2>2, <2>6, <2>8 DEF CommandInv
<1> QED
  BY <1>1, <1>2

----------------------------------------------------------------------------
(* The actions, one by one. *)

LEMMA LoadInv == ASSUME CommandInv, CompileCueArgs, ~NoFiles PROVE CommandInv'
<1>1. /\ phase = "load" /\ phase' = "value"
      /\ built' = IF request.cue = NONE THEN NONE ELSE Build(request.cue)
      /\ sawError' \in BOOLEAN
      /\ sawError' <=> request.cue # NONE /\ built' = NONE
      /\ UNCHANGED <<request, data, selected, verdicts, exit>>
  BY DEF CompileCueArgs
<1>2. RequestOK' /\ Expressions' = Expressions /\ IsVet' = IsVet /\ Outcomes' = Outcomes /\ NoFiles' = NoFiles
  BY <1>1, RequestStays DEF CommandInv
<1>3. Typed'
  BY <1>1, <1>2 DEF CommandInv, Typed, VerdictsOK
<1>4. ~sawError' => Compiles'
  BY <1>1 DEF Compiles
<1>5. Len(verdicts) = 0 /\ selected = 0 /\ data.index = 1
  BY <1>1 DEF CommandInv, Progress
<1>6. Progress'
  BY <1>1, <1>2, <1>4, <1>5, NoneAssumption DEF CommandInv, Typed, Progress
<1> QED
  BY <1>2, <1>3, <1>6 DEF CommandInv

LEMMA CompileInv == ASSUME CommandInv, CompileCueArgs PROVE CommandInv'
<1>1. CASE NoFiles
  BY <1>1, AbortInv DEF CompileCueArgs
<1>2. CASE ~NoFiles
  BY <1>2, LoadInv
<1> QED
  BY <1>1, <1>2

LEMMA StopVetInv == ASSUME CommandInv, StopVet PROVE CommandInv'
<1>1. /\ phase = "value" /\ phase' = "done" /\ exit' = "failure"
      /\ UNCHANGED <<request, built, data, selected, verdicts, sawError>>
  BY DEF StopVet, Stop
<1>2. RequestOK' /\ Expressions' = Expressions /\ IsVet' = IsVet /\ Outcomes' = Outcomes /\ NoFiles' = NoFiles
  BY <1>1, RequestStays DEF CommandInv
<1>3. Typed'
  BY <1>1, <1>2, NoneAssumption DEF CommandInv, Typed, VerdictsOK
<1>4. Compiles' = Compiles
  BY <1>1 DEF Compiles
<1>5. Progress'
  BY <1>1, <1>2, <1>4, NoneAssumption DEF CommandInv, Typed, Progress
<1> QED
  BY <1>2, <1>3, <1>5 DEF CommandInv

LEMMA ValidateSchemaInv == ASSUME CommandInv, ValidateSchema PROVE CommandInv'
<1>1. /\ phase = "value" /\ IsVet /\ built # NONE /\ phase' = "data"
      /\ UNCHANGED <<request, built, data, selected, exit>>
  BY DEF ValidateSchema, IsVet
<1>2. RequestOK' /\ Expressions' = Expressions /\ IsVet' = IsVet /\ Outcomes' = Outcomes /\ NoFiles' = NoFiles
  BY <1>1, RequestStays DEF CommandInv
<1>3. Compiles'
  BY <1>1 DEF Compiles
<1>4. /\ Len(verdicts) = 0 /\ selected = 0 /\ data.index = 1 /\ data.handle = NONE
  BY <1>1 DEF CommandInv, Progress, Typed
<1>5. CASE request.data = <<>>
  <2>1. PICK outcome \in Outcomes : Judge(outcome)
    BY <1>1, <1>5 DEF ValidateSchema, Outcomes
  <2>2. /\ VerdictsOK'
        /\ Len(verdicts') = Len(verdicts) + 1
        /\ sawError' \in BOOLEAN
        /\ ~sawError' =>
               /\ ~sawError
               /\ (\A i \in 1 .. Len(verdicts) : verdicts[i] # "eval_error") =>
                      \A i \in 1 .. Len(verdicts') : verdicts'[i] # "eval_error"
    BY <1>1, <2>1, JudgeAdds DEF CommandInv
  <2>3. Typed'
    BY <1>1, <1>2, <2>2 DEF CommandInv, Typed
  <2>4. Len(verdicts') = Produced'
    BY <1>1, <1>2, <1>4, <1>5, <2>2 DEF Produced
  <2>5. Progress'
    BY <1>1, <1>2, <1>3, <1>4, <2>2, <2>4, NoneAssumption DEF CommandInv, Typed, Progress
  <2> QED
    BY <1>2, <2>3, <2>5 DEF CommandInv
<1>6. CASE request.data # <<>>
  <2>1. UNCHANGED <<verdicts, sawError>>
    BY <1>1, <1>6 DEF ValidateSchema
  <2>2. Typed'
    BY <1>1, <1>2, <2>1 DEF CommandInv, Typed, VerdictsOK
  <2>3. Len(verdicts') = Produced'
    BY <1>1, <1>2, <1>4, <1>6, <2>1 DEF Produced
  <2>4. Progress'
    BY <1>1, <1>2, <1>3, <1>4, <2>1, <2>3, NoneAssumption DEF CommandInv, Typed, Progress
  <2> QED
    BY <1>2, <2>2, <2>4 DEF CommandInv
<1> QED
  BY <1>5, <1>6

LEMMA WriteCompiledInv == ASSUME CommandInv, WriteCompiledValue PROVE CommandInv'
<1>1. phase = "value" /\ ~IsVet /\ built # NONE /\ selected < Len(Expressions)
  BY DEF WriteCompiledValue, IsVet
<1>2. CASE Abort
  BY <1>1, <1>2, AbortInv
<1>3. CASE ~Abort
  <2>1. PICK handle : WriteValue(handle)
    BY <1>3 DEF WriteCompiledValue
  <2> QED
    BY <1>1, <2>1, WriteInv
<1> QED
  BY <1>2, <1>3

LEMMA TurnToDataInv == ASSUME CommandInv, TurnToData PROVE CommandInv'
<1>1. /\ phase = "value" /\ ~IsVet
      /\ built = NONE \/ selected = Len(Expressions)
      /\ phase' = "data" /\ selected' = 0
      /\ UNCHANGED <<request, built, data, verdicts, sawError, exit>>
  BY DEF TurnToData, IsVet
<1>2. RequestOK' /\ Expressions' = Expressions /\ IsVet' = IsVet /\ Outcomes' = Outcomes /\ NoFiles' = NoFiles
  BY <1>1, RequestStays DEF CommandInv
<1>3. Typed'
  BY <1>1, <1>2 DEF CommandInv, Typed, VerdictsOK, RequestOK
<1>4. Len(verdicts') = Produced'
  <2>1. data.index = 1 /\ Len(verdicts) = selected /\ (built = NONE => selected = 0)
    BY <1>1 DEF CommandInv, Progress
  <2>2. Len(Expressions) * (IF built = NONE THEN 0 ELSE 1) = Len(verdicts)
    BY <1>1, <2>1 DEF CommandInv, RequestOK
  <2>3. Values' = IF built = NONE THEN 0 ELSE 1
    BY <1>1, <2>1 DEF Values
  <2> QED
    BY <1>1, <1>2, <2>1, <2>2, <2>3 DEF Produced, CommandInv, RequestOK
<1>5. Compiles' = Compiles
  BY <1>1 DEF Compiles
<1>6. Progress'
  BY <1>1, <1>2, <1>4, <1>5, NoneAssumption DEF CommandInv, Typed, Progress
<1> QED
  BY <1>2, <1>3, <1>6 DEF CommandInv

LEMMA ReadDataInv == ASSUME CommandInv, ReadData PROVE CommandInv'
<1>1. /\ phase = "data" /\ data.index \in DOMAIN request.data /\ data.handle = NONE
  BY DEF ReadData
<1>2. CASE Abort
  BY <1>1, <1>2, AbortInv
<1>3. CASE ~Abort
  <2>1. PICK handle :
            /\ data' = [data EXCEPT !.handle = handle]
            /\ UNCHANGED <<request, phase, built, selected, verdicts, sawError, exit>>
    BY <1>3 DEF ReadData
  <2>2. RequestOK' /\ Expressions' = Expressions /\ IsVet' = IsVet /\ Outcomes' = Outcomes /\ NoFiles' = NoFiles
    BY <2>1, RequestStays DEF CommandInv
  <2>3. DOMAIN data' = {"index", "handle"} /\ data'.index = data.index
    BY <2>1 DEF CommandInv, Typed
  <2>4. Typed'
    BY <1>1, <2>1, <2>2, <2>3 DEF CommandInv, Typed, VerdictsOK, RequestOK
  <2>5. Produced' = Produced /\ Compiles' = Compiles
    BY <2>1, <2>2, <2>3 DEF Produced, Values, Compiles
  <2>6. Progress'
    BY <1>1, <2>1, <2>2, <2>3, <2>5, NoneAssumption DEF CommandInv, Typed, Progress
  <2> QED
    BY <2>2, <2>4, <2>6 DEF CommandInv
<1> QED
  BY <1>2, <1>3

LEMMA ValidateDataInv == ASSUME CommandInv, ValidateData PROVE CommandInv'
<1>1. /\ phase = "data" /\ IsVet /\ data.handle # NONE
      /\ data' = Unread(data.index + 1)
      /\ UNCHANGED <<request, phase, built, selected, exit>>
  BY DEF ValidateData, IsVet
<1>2. PICK outcome \in Outcomes : Judge(outcome)
  BY <1>1 DEF ValidateData, Outcomes
<1>3. RequestOK' /\ Expressions' = Expressions /\ IsVet' = IsVet /\ Outcomes' = Outcomes /\ NoFiles' = NoFiles
  BY <1>1, RequestStays DEF CommandInv
<1>4. /\ VerdictsOK'
      /\ Len(verdicts') = Len(verdicts) + 1
      /\ sawError' \in BOOLEAN
      /\ ~sawError' =>
             /\ ~sawError
             /\ (\A i \in 1 .. Len(verdicts) : verdicts[i] # "eval_error") =>
                    \A i \in 1 .. Len(verdicts') : verdicts'[i] # "eval_error"
  BY <1>1, <1>2, JudgeAdds DEF CommandInv
<1>5. DOMAIN data' = {"index", "handle"} /\ data'.index = data.index + 1 /\ data'.handle = NONE
  BY <1>1 DEF Unread
<1>6. data.index \in 1 .. Len(request.data) /\ data.index \in DOMAIN request.data
  BY <1>1 DEF CommandInv, Typed, RequestOK
<1>7. Typed'
  BY <1>1, <1>3, <1>4, <1>5, <1>6 DEF CommandInv, Typed, RequestOK
<1>8. Len(verdicts') = Produced'
  <2>1. request.data # <<>>
    BY <1>6
  <2> QED
    BY <1>1, <1>3, <1>4, <1>5, <1>6, <2>1 DEF Produced, CommandInv, Progress
<1>9. selected' = 0 /\ Compiles' = Compiles
  BY <1>1, <1>4 DEF Compiles, CommandInv, Progress, Typed
<1>10. Progress'
  BY <1>1, <1>3, <1>4, <1>5, <1>8, <1>9, NoneAssumption DEF CommandInv, Typed, Progress
<1> QED
  BY <1>3, <1>7, <1>10 DEF CommandInv

LEMMA WriteDataInv == ASSUME CommandInv, WriteData PROVE CommandInv'
<1>1. phase = "data" /\ ~IsVet /\ data.handle # NONE
  BY DEF WriteData, IsVet
<1>2. CASE selected < Len(Expressions)
  <2>1. CASE Abort
    BY <1>1, <2>1, AbortInv
  <2>2. CASE ~Abort
    <3>1. PICK handle : WriteValue(handle)
      BY <1>2, <2>2 DEF WriteData, CommandInv, RequestOK
    <3> QED
      BY <1>1, <1>2, <3>1, WriteInv
  <2> QED
    BY <2>1, <2>2
<1>3. CASE ~(selected < Len(Expressions))
  <2>1. /\ selected = Len(Expressions)
        /\ data' = Unread(data.index + 1) /\ selected' = 0
        /\ UNCHANGED <<request, phase, built, verdicts, sawError, exit>>
    BY <1>3 DEF WriteData
  <2>2. RequestOK' /\ Expressions' = Expressions /\ IsVet' = IsVet /\ Outcomes' = Outcomes /\ NoFiles' = NoFiles
    BY <2>1, RequestStays DEF CommandInv
  <2>3. DOMAIN data' = {"index", "handle"} /\ data'.index = data.index + 1 /\ data'.handle = NONE
    BY <2>1 DEF Unread
  <2>4. data.index \in 1 .. Len(request.data)
    BY <1>1 DEF CommandInv, Typed
  <2>5. Typed'
    BY <1>1, <2>1, <2>2, <2>3, <2>4 DEF CommandInv, Typed, VerdictsOK, RequestOK
  <2>6. Len(verdicts') = Produced'
    <3>1. PICK n \in Nat : n = Values
      BY <2>4 DEF Values, CommandInv, RequestOK
    <3>2. Values' = n + 1
      BY <2>1, <2>3, <2>4, <3>1 DEF Values, CommandInv, RequestOK
    <3>3. PICK e \in Nat : e = Len(Expressions)
      BY DEF CommandInv, RequestOK
    <3>4. Len(verdicts) = e * n + e
      BY <1>1, <2>1, <3>1, <3>3 DEF Produced, CommandInv, Progress
    <3>5. Produced' = e * (n + 1) + 0
      BY <1>1, <2>1, <2>2, <3>2, <3>3 DEF Produced
    <3>6. e * n + e = e * (n + 1) + 0
      OBVIOUS
    <3> QED
      BY <2>1, <3>4, <3>5, <3>6
  <2>7. Compiles' = Compiles
    BY <2>1 DEF Compiles
  <2>8. Progress'
    BY <1>1, <2>1, <2>2, <2>3, <2>6, <2>7, NoneAssumption DEF CommandInv, Typed, Progress
  <2> QED
    BY <2>2, <2>5, <2>8 DEF CommandInv
<1> QED
  BY <1>2, <1>3

LEMMA ExitInv == ASSUME CommandInv, Exit PROVE CommandInv'
<1>1. /\ phase = "data" /\ data.index \notin DOMAIN request.data
      /\ phase' = "done" /\ exit' = IF sawError THEN "failure" ELSE "success"
      /\ UNCHANGED <<request, built, data, selected, verdicts, sawError>>
  BY DEF Exit, Stop
<1>2. RequestOK' /\ Expressions' = Expressions /\ IsVet' = IsVet /\ Outcomes' = Outcomes /\ NoFiles' = NoFiles
  BY <1>1, RequestStays DEF CommandInv
<1>3. data.handle = NONE /\ data.index = Len(request.data) + 1
  BY <1>1 DEF CommandInv, Typed, RequestOK
<1>4. Typed'
  BY <1>1, <1>2, NoneAssumption DEF CommandInv, Typed, VerdictsOK
<1>5. Produced' = Produced /\ Compiles' = Compiles
  BY <1>1, <1>2 DEF Produced, Values, Compiles
<1>6. Progress'
  BY <1>1, <1>2, <1>3, <1>5, NoneAssumption DEF CommandInv, Typed, Progress
<1> QED
  BY <1>2, <1>4, <1>6 DEF CommandInv

LEMMA NextCommandInv == CommandInv /\ [Next]_vars => CommandInv'
<1> SUFFICES ASSUME CommandInv, [Next]_vars PROVE CommandInv'
  OBVIOUS
<1>1. CASE UNCHANGED vars
  BY <1>1
  DEF CommandInv, RequestOK, Typed, Progress, VerdictsOK, Outcomes, Produced, Values, Compiles,
      IsVet, Expressions, NoFiles, vars
<1>2. CASE Next
  BY <1>1, <1>2, CompileInv, StopVetInv, ValidateSchemaInv, WriteCompiledInv, TurnToDataInv,
     ReadDataInv, ValidateDataInv, WriteDataInv, ExitInv
  DEF Next, Finished
<1> QED
  BY <1>1, <1>2

LEMMA CommandInvariance == Spec => []CommandInv
  BY InitCommandInv, NextCommandInv, PTL DEF Spec

(* What a command reads, selects and writes stays in step with its         *)
(* arguments, and the exit code comes once, at the end (vet_files,         *)
(* write_encoded_files).                                                   *)
THEOREM CommandTypeCorrect == Spec => []TypeOK
<1>1. CommandInv => TypeOK
  <2> SUFFICES ASSUME CommandInv PROVE TypeOK
    OBVIOUS
  <2>1. DOMAIN verdicts = 1 .. Len(verdicts)
    BY DEF CommandInv, Typed, VerdictsOK, IsSequence
  <2> QED
    BY <2>1 DEF CommandInv, RequestOK, Typed, VerdictsOK, Outcomes, IsVet, TypeOK
<1> QED
  BY CommandInvariance, <1>1, PTL

(* A command that succeeds has given every value and every file its        *)
(* verdicts, none of them an error, and its CUE files compile: no failure  *)
(* is forgotten and no file skipped, whatever the values are (vet_files,   *)
(* write_encoded_files).                                                   *)
THEOREM SuccessIsComplete == Spec => []SuccessCoversEverything
<1>1. CommandInv => SuccessCoversEverything
  <2> SUFFICES ASSUME CommandInv, exit = "success"
               PROVE  /\ Len(verdicts) # 0
                      /\ request.cue # NONE => Build(request.cue) # NONE
                      /\ Len(verdicts) =
                            IF IsVet THEN IF request.data = <<>> THEN 1 ELSE Len(request.data)
                            ELSE Len(Expressions) * (Len(request.data) + IF request.cue = NONE THEN 0 ELSE 1)
                      /\ \A i \in DOMAIN verdicts : verdicts[i] # "eval_error"
    BY DEF SuccessCoversEverything, IsVet
  <2>1. /\ ~sawError /\ phase # "load" /\ Len(verdicts) = Produced
        /\ data.index = Len(request.data) + 1 /\ selected = 0
    BY NoneAssumption DEF CommandInv, Typed, Progress
  <2>2. /\ request.cue # NONE => Build(request.cue) # NONE
        /\ built = NONE <=> request.cue = NONE
    BY <2>1 DEF CommandInv, Progress, Compiles
  <2>3. DOMAIN verdicts = 1 .. Len(verdicts)
    BY DEF CommandInv, Typed, VerdictsOK, IsSequence
  <2>4. \A i \in 1 .. Len(verdicts) : verdicts[i] # "eval_error"
    BY <2>1 DEF CommandInv, Progress
  <2>5. Values = Len(request.data) + (IF request.cue = NONE THEN 0 ELSE 1) /\ Values \in Nat
    <3>1. PICK n \in Nat : Len(request.data) = n /\ data.index = n + 1
      BY <2>1 DEF CommandInv, RequestOK
    <3>2. data.index - 1 = n
      BY <3>1
    <3>3. Values = IF built = NONE THEN 0 + n ELSE 1 + n
      BY <3>2 DEF Values
    <3>4. Values = IF request.cue = NONE THEN n ELSE n + 1
      BY <2>2, <3>3
    <3> QED
      BY <3>1, <3>4
  <2>6. Len(Expressions) * Values \in Nat
    <3>1. \A m, n \in Nat : m * n \in Nat
      OBVIOUS
    <3>2. Len(Expressions) \in Nat
      BY DEF CommandInv, RequestOK
    <3> QED
      BY <2>5, <3>1, <3>2
  <2>7. Len(verdicts) = IF IsVet THEN IF request.data = <<>> THEN 1 ELSE Len(request.data)
                        ELSE Len(Expressions) * Values
    BY <2>1, <2>6 DEF Produced, CommandInv, RequestOK
  <2>8. Len(verdicts) # 0
    <3>1. CASE IsVet
      BY <2>7, <3>1 DEF CommandInv, RequestOK
    <3>2. CASE ~IsVet
      <4>1. ~NoFiles
        BY <2>1, NoneAssumption DEF CommandInv, Progress
      <4>2. request.cue = NONE => Len(request.data) > 0
        BY <3>2, <4>1 DEF NoFiles, CommandInv, RequestOK, IsVet
      <4>3. PICK n \in Nat : Len(request.data) = n
        BY DEF CommandInv, RequestOK
      <4>4. Values \in Nat \ {0}
        BY <2>5, <4>2, <4>3
      <4>5. PICK e \in Nat \ {0} : e = Len(Expressions)
        BY DEF CommandInv, RequestOK
      <4>6. \A m, k \in Nat \ {0} : m * k # 0
        OBVIOUS
      <4> QED
        BY <2>7, <3>2, <4>4, <4>5, <4>6
    <3> QED
      BY <3>1, <3>2
  <2> QED
    BY <2>2, <2>3, <2>4, <2>5, <2>7, <2>8
<1> QED
  BY CommandInvariance, <1>1, PTL
=============================================================================
