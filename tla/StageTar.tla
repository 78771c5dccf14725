------------------------------ MODULE StageTar ------------------------------
(***************************************************************************)
(* stagemaker -generate, from the file list to the exit status             *)
(* (src/cmd/stagemaker/paths.go, src/stage/tar.go).  The tar archive goes  *)
(* straight to the output file or, when it is to be compressed, through a  *)
(* pipe inside the process (io.Pipe) to a goroutine of the exec package,   *)
(* which copies it to the standard input of the compressor's process.      *)
(* Another goroutine runs the compressor, waits for its end and reports it.*)
(*                                                                         *)
(* The archive is a number of units, each the work of one call of Write:   *)
(* the members and, last, the trailer that tar's Close writes.             *)
(***************************************************************************)
EXTENDS Naturals

CONSTANTS Members,    \* the number of entries of the file list
          StdinSize,  \* how many units the compressor's standard input holds
          Faults      \* "source": an input file cannot be read as listed
                      \* "disk": the output file takes no more
                      \* "start": the compressor cannot be started
                      \* "kill": the compressor ends before its input does

ASSUME SizeAssumption == /\ Members \in Nat
                         /\ StdinSize \in Nat \ {0}
                         /\ Faults \subseteq {"source", "disk", "start", "kill"}

VARIABLES
    piped,    \* whether a compression method was chosen
    main,     \* where writeTarFile is, or how it ended
    written,  \* the units MakeTar has written
    offered,  \* Write has a unit in the pipe
    pipe,     \* closed by the writer ("eof"), or the reader ("broken")
    copier,   \* the goroutine that copies: "starts", "reads", "holds" a unit, "done"
    stdin,    \* the units in the compressor's standard input
    comp,     \* the compressor's process: "none", "runs", "ok", "failed"
    runner,   \* the goroutine of makeTarWriter: "starts", "waits", "reports", "done"
    out,      \* the units of the archive that reached the output file
    failed    \* something has failed

vars == <<piped, main, written, offered, pipe, copier, stdin, comp, runner, out, failed>>
writerVars == <<main, written, offered>>
goVars == <<copier, runner>>
compVars == <<stdin, comp>>

\* writeTarFile ends with nil when all went well and when MakeTar gave up.
Ended == {"ok", "gaveUp", "error"}
Alive == main \notin Ended
ExitStatus == IF main = "error" THEN 1 ELSE 0

Units == Members + 1

TypeOK == /\ piped \in BOOLEAN
          /\ main \in {"tar", "close", "wait"} \cup Ended
          /\ written \in 0 .. Units
          /\ offered \in BOOLEAN
          /\ pipe \in {"open", "eof", "broken"}
          /\ copier \in {"starts", "reads", "holds", "done"}
          /\ stdin \in 0 .. StdinSize
          /\ comp \in {"none", "runs", "ok", "failed"}
          /\ runner \in {"starts", "waits", "reports", "done"}
          /\ out \in 0 .. Units
          /\ failed \in BOOLEAN

Init == /\ piped \in BOOLEAN
        /\ main = "tar"
        /\ written = 0
        /\ offered = FALSE
        /\ pipe = "open"
        /\ copier = "starts"
        /\ stdin = 0
        /\ comp = "none"
        /\ runner = "starts"
        /\ out = 0
        /\ failed = FALSE

Fails(kind) == kind \in Faults /\ failed' = TRUE

-----------------------------------------------------------------------------
(* writeTarFile, in the main goroutine.                                    *)

\* Where an error of Write leads: MakeTar returns it, but for that of the
\* trailer, which the deferred Close drops.
OnWriteError == IF written < Members THEN "gaveUp" ELSE "close"

\* Write to the output file itself.
WriteDirect ==
    /\ main = "tar" /\ ~piped
    /\ \/ /\ written' = written + 1
          /\ out' = out + 1
          /\ main' = IF written' = Units THEN "close" ELSE main
          /\ UNCHANGED failed
       \/ /\ Fails("disk")
          /\ main' = OnWriteError
          /\ UNCHANGED <<written, out>>
    /\ UNCHANGED <<piped, offered, pipe, goVars, compVars>>

\* Write to the pipe: it returns when the unit is taken or the reader has gone.
Offer ==
    /\ main = "tar" /\ piped /\ ~offered /\ pipe = "open"
    /\ offered' = TRUE
    /\ UNCHANGED <<piped, main, written, pipe, goVars, compVars, out, failed>>

WriteBroken ==
    /\ main = "tar" /\ piped /\ pipe = "broken"
    /\ offered' = FALSE
    /\ main' = OnWriteError
    /\ UNCHANGED <<piped, written, pipe, goVars, compVars, out, failed>>

\* A file is gone, or not as long as the list says.
SourceFails ==
    /\ main = "tar" /\ ~offered /\ written < Members
    /\ Fails("source")
    /\ main' = "gaveUp"
    /\ UNCHANGED <<piped, written, offered, pipe, goVars, compVars, out>>

\* Mutation: nobody waits for the compressor.
CloseOnly ==
    /\ main = "close"
    /\ main' = "ok"
    /\ pipe' = IF piped /\ pipe = "open" THEN "eof" ELSE pipe
    /\ UNCHANGED <<piped, written, offered, goVars, compVars, out, failed>>

\* tarWriter.Close().  Without a compressor the channel is closed already.
Close ==
    /\ main = "close"
    /\ main' = IF piped THEN "wait" ELSE "ok"
    /\ pipe' = IF piped /\ pipe = "open" THEN "eof" ELSE pipe
    /\ UNCHANGED <<piped, written, offered, goVars, compVars, out, failed>>

\* return <-deferred
Receive ==
    /\ main = "wait" /\ runner = "reports"
    /\ main' = IF comp = "ok" THEN "ok" ELSE "error"
    /\ runner' = "done"
    /\ UNCHANGED <<piped, written, offered, pipe, copier, compVars, out, failed>>

-----------------------------------------------------------------------------
(* The goroutines and the compressor.                                      *)

\* Mutation: the reader's end is closed as soon as the compressor runs.
StartAndClose ==
    /\ Alive /\ piped /\ runner = "starts"
    /\ comp' = "runs" /\ copier' = "reads" /\ runner' = "waits" /\ pipe' = "broken"
    /\ UNCHANGED <<piped, writerVars, stdin, out, failed>>

\* cmd.Run starts the process and the goroutine that copies to it, or cannot:
\* then it returns at once.
Start ==
    /\ Alive /\ piped /\ runner = "starts"
    /\ \/ /\ comp' = "runs" /\ copier' = "reads" /\ runner' = "waits"
          /\ UNCHANGED <<pipe, failed>>
       \/ /\ Fails("start")
          /\ comp' = "failed" /\ copier' = "done" /\ runner' = "reports"
          /\ pipe' = "broken"
    /\ UNCHANGED <<piped, writerVars, stdin, out>>

\* Mutation: cmd.Run returns and the pipe stays as it is.
ReapQuietly ==
    /\ Alive /\ runner = "waits"
    /\ comp \in {"ok", "failed"} /\ copier = "done"
    /\ runner' = "reports"
    /\ UNCHANGED <<piped, writerVars, pipe, copier, compVars, out, failed>>

\* cmd.Run returns when the process and the copying have ended, and the reader's
\* end of the pipe is closed.
Reap ==
    /\ Alive /\ runner = "waits"
    /\ comp \in {"ok", "failed"} /\ copier = "done"
    /\ runner' = "reports"
    /\ pipe' = IF pipe = "open" THEN "broken" ELSE pipe
    /\ UNCHANGED <<piped, writerVars, copier, compVars, out, failed>>

\* Mutation: a unit more than there are.
TakeOneMore ==
    /\ Alive /\ copier = "reads"
    /\ \/ /\ offered
          /\ offered' = FALSE
          /\ written' = written + 1
          /\ main' = IF written = Units THEN "close" ELSE main
          /\ copier' = "holds"
       \/ /\ ~offered /\ pipe = "eof"
          /\ copier' = "done"
          /\ UNCHANGED writerVars
    /\ UNCHANGED <<piped, pipe, runner, compVars, out, failed>>

\* The goroutine that copies takes a unit, or finds the end, ...
Take ==
    /\ Alive /\ copier = "reads"
    /\ \/ /\ offered
          /\ offered' = FALSE
          /\ written' = written + 1
          /\ main' = IF written' = Units THEN "close" ELSE main
          /\ copier' = "holds"
       \/ /\ ~offered /\ pipe = "eof"
          /\ copier' = "done"
          /\ UNCHANGED writerVars
    /\ UNCHANGED <<piped, pipe, runner, compVars, out, failed>>

\* ... and hands it on.  It ends without an error when the process has gone.
HandOn ==
    /\ Alive /\ copier = "holds"
    /\ \/ /\ comp = "runs" /\ stdin < StdinSize
          /\ stdin' = stdin + 1
          /\ copier' = "reads"
       \/ /\ comp # "runs"
          /\ copier' = "done"
          /\ UNCHANGED stdin
    /\ UNCHANGED <<piped, writerVars, pipe, comp, runner, out, failed>>

\* The compressor reads its input to the end, which comes when the copying, or
\* stagemaker, has ended.
Compress ==
    /\ comp = "runs"
    /\ \/ /\ stdin > 0
          /\ stdin' = stdin - 1
          /\ out' = out + 1
          /\ UNCHANGED comp
       \/ /\ stdin = 0 /\ (copier = "done" \/ ~Alive)
          /\ comp' = "ok"
          /\ UNCHANGED <<stdin, out>>
    /\ UNCHANGED <<piped, writerVars, pipe, goVars, failed>>

\* It fails: the output file takes no more, or it is killed.
CompressorFails ==
    /\ comp = "runs"
    /\ Fails("disk") \/ Fails("kill")
    /\ comp' = "failed"
    /\ UNCHANGED <<piped, writerVars, pipe, goVars, stdin, out>>

Main == WriteDirect \/ Offer \/ WriteBroken \/ Close \/ Receive
Runner == Start \/ Reap
Copier == Take \/ HandOn

Next == Main \/ Runner \/ Copier \/ Compress \/ SourceFails \/ CompressorFails

\* Each goroutine that can go on does, and so does the compressor.
Fairness == WF_vars(Main) /\ WF_vars(Runner) /\ WF_vars(Copier) /\ WF_vars(Compress)

Spec == Init /\ [][Next]_vars /\ Fairness

-----------------------------------------------------------------------------

\* stagemaker ends, whichever end of the pipe goes first: neither Write nor the
\* receive from the deferred channel waits for ever (makeTarWriter closes the
\* reader's end before it sends).
AlwaysEnds == <>~Alive

\* When writeTarFile has received the compressor's good end the whole archive is
\* in the output file; an uncompressed one may lack the trailer, whose error the
\* deferred Close of MakeTar drops.
OkIsComplete == main = "ok" => out >= Members /\ (piped => out = Units)

\* No order of the goroutines makes stagemaker give up or fail on its own.
FailsOnlyOnFailure == main \in {"gaveUp", "error"} => failed

\* doc/stagemaker_manpage.adoc, exit status: 0 is success, 1 failure.
StatusTellsSuccess == ~Alive /\ ExitStatus = 0 => out = Units
=============================================================================
