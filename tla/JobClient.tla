------------------------------ MODULE JobClient ------------------------------
(***************************************************************************)
(* The command line that runs a job (cli/job) against the server of        *)
(* JobIntake, beside other clients: cmd_run uploads its files one by one,  *)
(* creates the job and waits for it (wait.py).  An answer can be lost, and *)
(* nothing but the status of the job is asked for a second time.           *)
(***************************************************************************)
EXTENDS JobIntake

CONSTANTS
    Files,          \* how many files the command line names
    MaxRetries      \* _MAX_RETRIES

ASSUME ClientBoundsAssumption == Files \in Nat /\ MaxRetries \in Nat \ {0}

VARIABLES
    cli,            \* where the command line is, and what it knows
    late            \* --max-wait has passed

clientVars == <<cli, late>>
vars == <<serverVars, clientVars>>

Init ==
    /\ ServerInit
    /\ cli = [at |-> "files", got |-> << >>, id |-> 0,
              errors |-> 0, polled |-> FALSE, code |-> 0]
    /\ late = FALSE

Goto(at) == cli' = [cli EXCEPT !.at = at] /\ UNCHANGED late
Exit(code) ==
    /\ cli' = [cli EXCEPT !.at = "exited", !.code = code, !.errors = 0, !.polled = FALSE]
    /\ UNCHANGED late
-----------------------------------------------------------------------------
(* cmd_run                                                                 *)

UploadFile ==
    /\ cli.at = "files" /\ Len(cli.got) < Files
    /\ \E u \in Uploads :
         /\ SaveUpload(Watched, u)
         /\ cli' = [cli EXCEPT !.at = "uploading", !.id = u]
    /\ UNCHANGED late

Uploaded ==
    /\ cli.at = "uploading" /\ answer = "ok"
    /\ cli' = [cli EXCEPT !.at = "files", !.got = Append(@, cli.id), !.id = 0]
    /\ UNCHANGED <<serverVars, late>>

CreateItsJob ==
    /\ cli.at = "files" /\ Len(cli.got) = Files
    /\ \E j \in Jobs :
         /\ CreateJob(Watched, j, cli.got)
         /\ cli' = [cli EXCEPT !.at = "creating", !.id = j]
    /\ UNCHANGED late

Created ==
    /\ cli.at = "creating" /\ answer = "ok"
    /\ Goto("waiting")
    /\ UNCHANGED serverVars

\* Refused, no connection, or no answer in time: the command ends, whatever
\* becomes of the request.
GiveUp ==
    /\ cli.at \in {"files", "uploading", "creating"}
    /\ Exit(1)
    /\ UNCHANGED serverVars
-----------------------------------------------------------------------------
(* wait_for_job                                                            *)

\* --max-wait can pass before the first question.
NeverAsk ==
    /\ cli.at = "waiting" /\ ~cli.polled /\ late
    /\ Exit(2)
    /\ UNCHANGED serverVars

Finished(j) == status[j] \in Lifecycle!Outcomes

PollFinished ==
    /\ cli.at = "waiting" /\ Serving
    /\ Finished(cli.id)
    /\ Exit(IF status[cli.id] = "COMPLETED" THEN 0 ELSE 3)
    /\ UNCHANGED serverVars

\* The deadline is looked at after an answer.
PollUnfinished ==
    /\ cli.at = "waiting" /\ Serving
    /\ status[cli.id] \in {"PENDING", "RUNNING"}
    /\ IF late THEN Exit(2)
       ELSE cli' = [cli EXCEPT !.errors = 0, !.polled = TRUE] /\ UNCHANGED late
    /\ UNCHANGED serverVars

\* Mutant: the errors are not counted.
PollFails_Forever ==
    /\ cli.at = "waiting"
    /\ cli' = [cli EXCEPT !.polled = TRUE]
    /\ UNCHANGED <<serverVars, late>>

\* Mutant: one error more is tolerated.
PollFails_OneMore ==
    /\ cli.at = "waiting"
    /\ IF cli.errors >= MaxRetries THEN Exit(1)
       ELSE cli' = [cli EXCEPT !.errors = @ + 1, !.polled = TRUE] /\ UNCHANGED late
    /\ UNCHANGED serverVars

\* No connection, no answer in time, or an error: the deadline is not looked
\* at before the next question.
PollFails ==
    /\ cli.at = "waiting"
    /\ IF cli.errors + 1 >= MaxRetries THEN Exit(1)
       ELSE cli' = [cli EXCEPT !.errors = @ + 1, !.polled = TRUE] /\ UNCHANGED late
    /\ UNCHANGED serverVars

\* An answer that breaks off or is not what was asked for raises another error
\* than ApiError, which is not counted: the command ends at once.
PollBreaks ==
    /\ cli.at = "waiting"
    /\ Exit(1)
    /\ UNCHANGED serverVars

DeadlinePasses ==
    /\ cli.at = "waiting" /\ ~late
    /\ late' = TRUE
    /\ UNCHANGED <<serverVars, cli>>
-----------------------------------------------------------------------------
CliStep ==
    \/ UploadFile \/ Uploaded \/ CreateItsJob \/ Created \/ GiveUp
    \/ NeverAsk \/ PollFinished \/ PollUnfinished \/ PollFails

Others == \E c \in Clients \ {Watched} : ClientRequest(c)

Next ==
    \/ CliStep \/ PollBreaks \/ DeadlinePasses
    \/ (Others \/ ServerStep \/ Environment) /\ UNCHANGED clientVars

Spec == Init /\ [][Next]_vars

\* The event loop serves whoever waits for it, the server is started again, time
\* passes, and the command line goes on; answers need not break.
FairSpec == Spec /\ ServerFairness /\ WF_vars(CliStep) /\ WF_vars(DeadlinePasses)
-----------------------------------------------------------------------------
(* Properties                                                              *)

TypeOK ==
    /\ ServerTypeOK
    /\ cli \in [at : {"files", "uploading", "creating", "waiting", "exited"},
                got : Seq(Uploads), id : 0..(MaxUploads + MaxJobs),
                errors : 0..(MaxRetries - 1), polled : BOOLEAN, code : 0..3]
    /\ late \in BOOLEAN

\* What the command line reports when it ends is true: a result is that of a job
\* with all its files, and giving up the wait means that the time was over.
ReportIsTrue ==
    cli.at = "exited" =>
        /\ cli.code \in {0, 3} =>
             /\ Finished(cli.id) /\ (cli.code = 0 <=> status[cli.id] = "COMPLETED")
             /\ input[cli.id] = cli.got /\ Len(cli.got) = Files
        /\ cli.code = 2 => late

\* A command line that was given --max-wait ends, however errors and answers
\* alternate, and with a true report.
RunEnds == cli.at = "waiting" ~> cli.at = "exited" /\ ReportIsTrue
=============================================================================
