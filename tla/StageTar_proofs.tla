--------------------------- MODULE StageTar_proofs ---------------------------
(***************************************************************************)
(* What stagemaker's exit tells, for archives of any size and any size of  *)
(* the compressor's standard input.  That it does exit is liveness, which  *)
(* TLC checks.                                                             *)
(***************************************************************************)
EXTENDS StageTar, TLAPS

\* The units on their way from the pipe to the output file.
OnTheWay == stdin + (IF copier = "holds" THEN 1 ELSE 0)

\* Without a compressor the other goroutines are not there and what is written
\* is in the file.
Direct == ~piped => /\ copier = "starts" /\ comp = "none" /\ runner = "starts"
                    /\ ~offered /\ out = written /\ pipe = "open"
                    /\ main # "wait"

\* With one, units are lost only with the compressor, and the compressor ends
\* well only at the end of its input, which comes after the last unit.
Through ==
    piped =>
        /\ copier = "starts" <=> comp = "none"
        /\ runner = "starts" <=> comp = "none"
        /\ comp \notin {"none", "failed"} => out + OnTheWay = written
        /\ comp = "none" => out = 0 /\ stdin = 0 /\ written = 0
        /\ comp = "failed" => out + OnTheWay <= written
        /\ comp = "ok" => stdin = 0 /\ (Alive => copier = "done")
        /\ copier = "done" => pipe = "eof" \/ comp = "failed"
        /\ pipe = "broken" => comp = "failed"
        /\ pipe = "eof" => main \notin {"tar", "close"}
        /\ runner = "reports" => comp \in {"ok", "failed"}
        /\ main = "ok" => comp = "ok" /\ out = Units

Progress ==
    /\ main = "tar" => written < Units
    /\ main \in {"close", "wait"} =>
           written = Units \/ (written = Members /\ (piped => comp = "failed"))
    /\ main = "ok" => written >= Members
    /\ offered => main = "tar"
    /\ comp = "failed" => failed
    /\ main \in {"gaveUp", "error"} => failed

Inv == TypeOK /\ Direct /\ Through /\ Progress

LEMMA InvInit == Init => Inv
<1> SUFFICES ASSUME Init PROVE Inv
  OBVIOUS
<1> USE SizeAssumption DEF Init, Alive, Ended, Units
<1>1. TypeOK
  <2>1. written \in 0 .. Units /\ out \in 0 .. Units /\ stdin \in 0 .. StdinSize
    OBVIOUS
  <2>2. piped \in BOOLEAN /\ offered \in BOOLEAN /\ failed \in BOOLEAN
    OBVIOUS
  <2> QED BY <2>1, <2>2 DEF TypeOK
<1>2. Direct
  BY DEF Direct
<1>3. Through
  BY DEF Through, OnTheWay
<1>4. Progress
  BY DEF Progress
<1> QED BY <1>1, <1>2, <1>3, <1>4 DEF Inv

LEMMA InvNext == Inv /\ [Next]_vars => Inv'
<1> SUFFICES ASSUME Inv, [Next]_vars PROVE Inv'
  OBVIOUS
<1> USE SizeAssumption DEF Inv, TypeOK, Direct, Through, Progress, OnTheWay, Alive, Ended,
      Units, writerVars, goVars, compVars, Fails, OnWriteError
<1>1. ASSUME WriteDirect PROVE Inv'
  <2>1. TypeOK'
    <3>1. written + 1 \in 0 .. Units /\ out + 1 \in 0 .. Units
      BY <1>1 DEF WriteDirect
    <3>2. failed' \in BOOLEAN
      BY <1>1 DEF WriteDirect
    <3>3. main' \in {"tar", "close", "gaveUp"}
      BY <1>1 DEF WriteDirect
    <3>4. written' \in 0 .. Units /\ out' \in 0 .. Units
      BY <1>1, <3>1 DEF WriteDirect
    <3> QED BY <1>1, <3>2, <3>3, <3>4 DEF WriteDirect
  <2>2. Direct'
    BY <1>1 DEF WriteDirect
  <2>3. Through'
    BY <1>1 DEF WriteDirect
  <2>4. Progress'
    BY <1>1 DEF WriteDirect
  <2> QED BY <2>1, <2>2, <2>3, <2>4
<1>2. ASSUME Offer PROVE Inv'
  <2>1. TypeOK'
    BY <1>2 DEF Offer
  <2>2. Direct'
    BY <1>2 DEF Offer
  <2>3. Through'
    BY <1>2 DEF Offer
  <2>4. Progress'
    BY <1>2 DEF Offer
  <2> QED BY <2>1, <2>2, <2>3, <2>4
<1>3. ASSUME WriteBroken PROVE Inv'
  <2>1. TypeOK'
    BY <1>3 DEF WriteBroken
  <2>2. Direct'
    BY <1>3 DEF WriteBroken
  <2>3. Through'
    BY <1>3 DEF WriteBroken
  <2>4. Progress'
    BY <1>3 DEF WriteBroken
  <2> QED BY <2>1, <2>2, <2>3, <2>4
<1>4. ASSUME SourceFails PROVE Inv'
  <2>1. TypeOK'
    BY <1>4 DEF SourceFails
  <2>2. Direct'
    BY <1>4 DEF SourceFails
  <2>3. Through'
    BY <1>4 DEF SourceFails
  <2>4. Progress'
    BY <1>4 DEF SourceFails
  <2> QED BY <2>1, <2>2, <2>3, <2>4
<1>5. ASSUME Close PROVE Inv'
  <2>1. TypeOK'
    BY <1>5 DEF Close
  <2>2. Direct'
    BY <1>5 DEF Close
  <2>3. Through'
    BY <1>5 DEF Close
  <2>4. Progress'
    BY <1>5 DEF Close
  <2> QED BY <2>1, <2>2, <2>3, <2>4
<1>6. ASSUME Receive PROVE Inv'
  <2>1. TypeOK'
    BY <1>6 DEF Receive
  <2>2. Direct'
    BY <1>6 DEF Receive
  <2>3. Through'
    BY <1>6 DEF Receive
  <2>4. Progress'
    BY <1>6 DEF Receive
  <2> QED BY <2>1, <2>2, <2>3, <2>4
<1>7. ASSUME Start PROVE Inv'
  <2>1. TypeOK'
    BY <1>7 DEF Start
  <2>2. Direct'
    BY <1>7 DEF Start
  <2>0. piped /\ copier = "starts" /\ comp = "none" /\ runner = "starts" /\ Alive
    BY <1>7 DEF Start
  <2>a. /\ piped' = piped /\ main' = main /\ written' = written
        /\ offered' = offered /\ stdin' = stdin /\ out' = out
    BY <1>7 DEF Start
  <2>b. \/ comp' = "runs" /\ copier' = "reads" /\ runner' = "waits"
           /\ pipe' = pipe /\ failed' = failed
        \/ comp' = "failed" /\ copier' = "done" /\ runner' = "reports"
           /\ pipe' = "broken" /\ failed' = TRUE
    BY <1>7 DEF Start
  <2>3. Through'
    <3>1. pipe # "broken" /\ out = 0 /\ stdin = 0 /\ written = 0 /\ main # "ok"
      BY <2>0
    <3>2. CASE comp' = "runs" /\ copier' = "reads" /\ runner' = "waits" /\ pipe' = pipe
      BY <2>0, <2>a, <3>1, <3>2
    <3>3. CASE comp' = "failed" /\ copier' = "done" /\ runner' = "reports" /\ pipe' = "broken"
      BY <2>0, <2>a, <3>1, <3>3
    <3> QED BY <2>b, <3>2, <3>3
  <2>4. Progress'
    BY <2>0, <2>a, <2>b
  <2> QED BY <2>1, <2>2, <2>3, <2>4
<1>8. ASSUME Reap PROVE Inv'
  <2>1. TypeOK'
    BY <1>8 DEF Reap
  <2>2. Direct'
    BY <1>8 DEF Reap
  <2>3. Through'
    BY <1>8 DEF Reap
  <2>4. Progress'
    BY <1>8 DEF Reap
  <2> QED BY <2>1, <2>2, <2>3, <2>4
<1>9. ASSUME Take PROVE Inv'
  <2>1. TypeOK'
    <3>1. offered => main = "tar" /\ written + 1 \in 0 .. Units
      BY <1>9 DEF Take
    <3>2. written' \in 0 .. Units
      BY <1>9, <3>1 DEF Take
    <3>3. main' \in {"tar", "close", "wait"} \cup Ended
      BY <1>9 DEF Take
    <3>4. offered' \in BOOLEAN /\ copier' \in {"holds", "done"}
      BY <1>9 DEF Take
    <3> QED BY <1>9, <3>2, <3>3, <3>4 DEF Take
  <2>2. Direct'
    BY <1>9 DEF Take
  <2>3. Through'
    BY <1>9 DEF Take
  <2>4. Progress'
    BY <1>9 DEF Take
  <2> QED BY <2>1, <2>2, <2>3, <2>4
<1>10. ASSUME HandOn PROVE Inv'
  <2>1. TypeOK'
    BY <1>10 DEF HandOn
  <2>2. Direct'
    BY <1>10 DEF HandOn
  <2>3. Through'
    BY <1>10 DEF HandOn
  <2>4. Progress'
    BY <1>10 DEF HandOn
  <2> QED BY <2>1, <2>2, <2>3, <2>4
<1>11. ASSUME Compress PROVE Inv'
  <2>1. TypeOK'
    BY <1>11 DEF Compress
  <2>2. Direct'
    BY <1>11 DEF Compress
  <2>3. Through'
    BY <1>11 DEF Compress
  <2>4. Progress'
    BY <1>11 DEF Compress
  <2> QED BY <2>1, <2>2, <2>3, <2>4
<1>12. ASSUME CompressorFails PROVE Inv'
  <2>1. TypeOK'
    BY <1>12 DEF CompressorFails
  <2>2. Direct'
    BY <1>12 DEF CompressorFails
  <2>3. Through'
    BY <1>12 DEF CompressorFails
  <2>4. Progress'
    BY <1>12 DEF CompressorFails
  <2> QED BY <2>1, <2>2, <2>3, <2>4
<1>13. CASE UNCHANGED vars
  BY <1>13 DEF vars
<1> QED BY <1>1, <1>2, <1>3, <1>4, <1>5, <1>6, <1>7, <1>8, <1>9, <1>10, <1>11, <1>12, <1>13
    DEF Next, Main, Runner, Copier

LEMMA SpecInv == Spec => []Inv
  BY InvInit, InvNext, PTL DEF Spec

\* Every value of the state has its type.
THEOREM TarTypeCorrect == Spec => []TypeOK
  BY SpecInv, PTL DEF Inv

\* When writeTarFile has the compressor's good end the archive is whole.
THEOREM CompressedIsComplete == Spec => []OkIsComplete
<1>1. Inv => OkIsComplete
  BY SizeAssumption DEF Inv, TypeOK, Direct, Through, Progress, OkIsComplete, Units
<1> QED BY <1>1, SpecInv, PTL

\* stagemaker neither gives up nor fails because of the order of its goroutines.
THEOREM NoFalseAlarm == Spec => []FailsOnlyOnFailure
<1>1. Inv => FailsOnlyOnFailure
  BY DEF Inv, Progress, FailsOnlyOnFailure
<1> QED BY <1>1, SpecInv, PTL
=============================================================================
