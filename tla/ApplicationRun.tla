--------------------------- MODULE ApplicationRun ----------------------------
(***************************************************************************)
(* One application from its initiation to its outcome: the workflows       *)
(* InitiateApplication, JobApplication, HandleUserAction and               *)
(* SubmitApplication, the rows they share, and the user, who may cancel,   *)
(* answer and retry.  A step is one activity or one decision of a          *)
(* workflow.                                                               *)
(*                                                                         *)
(* Every activity is retried; here it succeeds, or fails for good at the   *)
(* cost of a fault.  On an interrupted context a pending activity fails at *)
(* once and a child is cancelled, which abandons the activity it waits     *)
(* for: its write may still land, also in a later run of the application,  *)
(* which nothing holds back.  Abstracted away: the page and its journal    *)
(* (MutationJournal), the browser client (BrowserClient), queueing         *)
(* (BrowserPool), the prompts, and the events published to the user.       *)
(***************************************************************************)
EXTENDS Naturals, FiniteSets, SubmitVerdict

CONSTANTS
    Actions,            \* user actions that may be created
    MaxAgentIterations, \* 50 in the code
    MaxSubmitFailures,  \* 2 in the code
    ClickAttempts,      \* attempts of a planner's tool, 3 in the code
    MaxFaults,          \* bound: activities that fail on every attempt
    MaxRetries,         \* bound: explicit retries by the user
    MaxOrphans,         \* bound: abandoned writes that have not landed yet
    None

ASSUME RunAssumption ==
    /\ MaxAgentIterations \in Nat \ {0} /\ MaxSubmitFailures \in Nat \ {0}
    /\ ClickAttempts \in Nat /\ MaxFaults \in Nat /\ MaxRetries \in Nat
    /\ MaxOrphans \in Nat
    /\ None \notin Actions \cup {"paused"}

VARIABLES
    row,        \* status of the job_application row and who wrote it last
    session,    \* browser_session row: open, and its replay generation
    action,     \* user_action rows
    pool,       \* runs waiting in the browser pool
    initiation, \* step of InitiateApplicationWorkflow
    run,        \* the current, or last, JobApplicationWorkflow
    child,      \* the child workflow it waits for
    orphans,    \* abandoned writes that may still land
    faults,     \* activities that may still fail
    retries     \* retries the user may still ask for

vars == <<row, session, action, pool, initiation, run, child, orphans, faults, retries>>

Terminal == {"applied", "failed", "halted", "cancelled"}
Writers == {"api", "initiation", "run", "orphan"}
Start == [resume : Actions \cup {None}, fresh : BOOLEAN]
RunSteps == {"none", "load", "generation", "mark", "session", "inputs", "open", "setup",
             "observe", "decide", "plan", "child", "close", "report", "settle", "settled"}
PauseSteps == {"block", "layout", "delete", "create", "notify", "close", "commit"}
SubmitSteps == {"click", "verify"}
ChildSteps == {"none", "failed", "paused", "submitted", "rejected"} \cup PauseSteps \cup SubmitSteps

Row == [status : Terminal \cup {"pending", "queued", "processing", "blocked"}, writer : Writers]
Session == [open : BOOLEAN, generation : Nat \ {0}]
UserAction == [state : {"none", "pending", "answered"}, generation : Nat,
               notified : BOOLEAN, committed : BOOLEAN]
Run == [step : RunSteps, start : Start, cancelling : BOOLEAN, cancelled : BOOLEAN,
        timedOut : BOOLEAN, rounds : 0..MaxAgentIterations,
        failures : 0..(MaxSubmitFailures - 1), clicks : Nat, pressed : Nat,
        accepted : BOOLEAN, believed : BOOLEAN, outcome : Terminal \cup {"paused", None},
        recorded : BOOLEAN, robbed : BOOLEAN]
Child == [kind : {"none", "pause", "submit"}, step : ChildSteps, action : Actions \cup {None}]
Orphan == [step : PauseSteps, action : Actions \cup {None}]

NoAction == [state |-> "none", generation |-> 0, notified |-> FALSE, committed |-> FALSE]
NoChild == [kind |-> "none", step |-> "none", action |-> None]
Begin(kind, step) == child' = [kind |-> kind, step |-> step, action |-> None]
NewRun(start, step) ==
    [step |-> step, start |-> start, cancelling |-> FALSE, cancelled |-> FALSE,
     timedOut |-> FALSE, rounds |-> 0, failures |-> 0, clicks |-> 0, pressed |-> 0,
     accepted |-> FALSE, believed |-> FALSE, outcome |-> None, recorded |-> TRUE,
     robbed |-> FALSE]

Live == run.step \notin {"none", "settled"}
Interrupted == run.cancelled \/ run.timedOut
Goto(step) == run' = [run EXCEPT !.step = step]
Write(status, writer) == row' = [status |-> status, writer |-> writer]
Exhausted == faults > 0 /\ faults' = faults - 1
\* Mutant of CallFails: the call is made on a context nothing interrupts and
\* waits for an answer that does not come.
WaitsForever == ~Interrupted /\ Exhausted
\* A call on the session's context: interrupted, it fails of itself.
CallFails == IF Interrupted THEN UNCHANGED faults ELSE Exhausted

\* How a run ends: its outcome, kept until the row is written.  What the
\* agent's loop counted goes with it.
End(step, outcome) ==
    run' = [run EXCEPT !.step = step, !.outcome = outcome, !.rounds = 0, !.failures = 0,
                       !.clicks = 0, !.pressed = 0, !.accepted = FALSE, !.believed = FALSE]
\* Returning from executeJobApplication closes the browser first.
Leave(outcome) == End("close", outcome)
\* Returning before a status could be written.
GiveUp == run' = [run EXCEPT !.step = "settle", !.outcome = "failed", !.recorded = FALSE]

Init ==
    /\ row = [status |-> "pending", writer |-> "api"]
    /\ session = [open |-> FALSE, generation |-> 1]
    /\ action = [a \in Actions |-> NoAction]
    /\ pool = {}
    /\ initiation = "reading"
    /\ run = NewRun([resume |-> None, fresh |-> FALSE], "none")
    /\ child = NoChild
    /\ orphans = {}
    /\ faults = MaxFaults
    /\ retries = MaxRetries

-----------------------------------------------------------------------------
(* InitiateApplicationWorkflow: read the posting, queue the application,   *)
(* and then mark it queued.  An error marks it failed.                     *)

initiationOnly == <<session, action, run, child, orphans, retries>>

ReadPosting ==
    /\ initiation = "reading"
    /\ initiation' \in {"queueing", "failing"}
    /\ UNCHANGED <<initiationOnly, row, pool, faults>>

QueueApplication ==
    /\ initiation = "queueing"
    /\ \/ /\ pool' = pool \cup {[resume |-> None, fresh |-> FALSE]}
          /\ initiation' = "marking" /\ UNCHANGED faults
       \/ Exhausted /\ initiation' = "failing" /\ UNCHANGED pool
    /\ UNCHANGED <<initiationOnly, row>>

MarkQueued ==
    /\ initiation = "marking"
    /\ \/ Write("queued", "initiation") /\ initiation' = "done" /\ UNCHANGED faults
       \/ Exhausted /\ initiation' = "failing" /\ UNCHANGED row
    /\ UNCHANGED <<initiationOnly, pool>>

MarkFailed ==
    /\ initiation = "failing"
    /\ \/ Write("failed", "initiation") /\ UNCHANGED faults
       \/ Exhausted /\ UNCHANGED row
    /\ initiation' = "done"
    /\ UNCHANGED <<initiationOnly, pool>>

-----------------------------------------------------------------------------
(* The pool, which runs one workflow of the application at a time, and the *)
(* user.                                                                   *)

StartRun(start) ==
    /\ start \in pool /\ ~Live
    /\ pool' = pool \ {start}
    /\ run' = NewRun(start, "load")
    /\ UNCHANGED <<row, session, action, initiation, child, orphans, faults, retries>>

\* The API marks an eligible application cancelled; the pool drops what it
\* has queued of it, or forwards the cancellation to the run.
Cancel ==
    /\ row.status \in {"pending", "queued", "processing", "blocked"}
    /\ Write("cancelled", "api")
    /\ IF Live THEN run' = [run EXCEPT !.cancelling = TRUE] /\ UNCHANGED pool
               ELSE pool' = {} /\ UNCHANGED run
    /\ UNCHANGED <<session, action, initiation, child, orphans, faults, retries>>

ReceiveCancel ==
    /\ Live /\ run.cancelling
    /\ run' = [run EXCEPT !.cancelled = TRUE, !.cancelling = FALSE]
    /\ UNCHANGED <<row, session, action, pool, initiation, child, orphans, faults, retries>>

\* SESSION_TIMEOUT: the soft timer, which fires in a cancelled run as well.
TimeOut ==
    /\ Live /\ ~run.timedOut
    /\ run' = [run EXCEPT !.timedOut = TRUE]
    /\ UNCHANGED <<row, session, action, pool, initiation, child, orphans, faults, retries>>

Answer(a) ==
    /\ action[a].state = "pending" /\ action[a].notified
    /\ action' = [action EXCEPT ![a].state = "answered"]
    /\ pool' = pool \cup {[resume |-> a, fresh |-> FALSE]}
    /\ UNCHANGED <<row, session, initiation, run, child, orphans, faults, retries>>

Retry ==
    /\ retries > 0 /\ retries' = retries - 1
    /\ row.status \in Terminal \ {"applied"} /\ ~Live /\ initiation = "done"
    /\ Write("pending", "api")
    /\ pool' = pool \cup {[resume |-> None, fresh |-> TRUE]}
    /\ UNCHANGED <<session, action, initiation, run, child, orphans, faults>>

-----------------------------------------------------------------------------
(* JobApplicationWorkflow up to the agent's loop.                          *)

outside == <<pool, initiation, retries>>

\* GetJobApplication and resolveApplicationBrowserID.
LoadApplication ==
    /\ run.step = "load"
    /\ \/ Goto("generation") /\ UNCHANGED faults
       \/ Exhausted /\ GiveUp
    /\ UNCHANGED <<outside, row, session, action, child, orphans>>

BeginGeneration ==
    /\ run.step = "generation"
    /\ \/ /\ session' = IF run.start.fresh
                        THEN [session EXCEPT !.generation = @ + 1] ELSE session
          /\ Goto("mark") /\ UNCHANGED faults
       \/ run.start.fresh /\ Exhausted /\ GiveUp /\ UNCHANGED session
    /\ UNCHANGED <<outside, row, action, child, orphans>>

\* A failure to mark the application is only logged.
MarkProcessing ==
    /\ run.step = "mark"
    /\ \/ Write("processing", "run") /\ UNCHANGED faults
       \/ Exhausted /\ UNCHANGED row
    /\ Goto("session")
    /\ UNCHANGED <<outside, session, action, child, orphans>>

\* CreateSession and loadApplicationInputs, before there is a browser.
Prepare(step, next) ==
    /\ run.step = step
    /\ \/ ~Interrupted /\ Goto(next) /\ UNCHANGED faults
       \/ CallFails /\ End("report", "failed")
    /\ UNCHANGED <<outside, row, session, action, child, orphans>>
CreateSession == Prepare("session", "inputs")
LoadInputs == Prepare("inputs", "open")

\* OpenWebpage and the replay; a failed one may have opened the browser.
OpenPage ==
    /\ run.step = "open"
    /\ \/ /\ ~Interrupted
          /\ session' = [session EXCEPT !.open = TRUE]
          /\ Goto("setup") /\ UNCHANGED faults
       \/ /\ CallFails /\ Leave("failed")
          /\ session' \in {session, [session EXCEPT !.open = TRUE]}
    /\ UNCHANGED <<outside, row, action, child, orphans>>

\* GetSubmittedUserAction, not on the session's context.
Answerable(a) == /\ a \in Actions /\ action[a].state = "answered"
                 /\ action[a].generation = session.generation
FinishSetup ==
    /\ run.step = "setup"
    /\ LET a == run.start.resume IN
         \/ (a = None \/ Answerable(a)) /\ Goto("observe") /\ UNCHANGED faults
         \/ a # None /\ ~Answerable(a) /\ Leave("failed") /\ UNCHANGED faults
         \/ a # None /\ Exhausted /\ Leave("failed")
    /\ UNCHANGED <<outside, row, session, action, child, orphans>>

-----------------------------------------------------------------------------
(* The agent's loop: observe and fill the page, submit it if it is ready,  *)
(* or plan and act.                                                        *)

\* Mutant of Observe: one round too many.
ObserveOnceMore ==
    /\ run.step = "observe"
    /\ \/ /\ run.rounds <= MaxAgentIterations /\ ~Interrupted /\ session.open
          /\ run' = [run EXCEPT !.step = "decide", !.rounds = @ + 1]
          /\ UNCHANGED faults
       \/ /\ run.rounds > MaxAgentIterations \/ ~session.open
          /\ Leave("failed") /\ UNCHANGED faults
       \/ CallFails /\ Leave("failed")
    /\ UNCHANGED <<outside, row, session, action, child, orphans>>

\* captureSolvedScreenshot and runJevFlow; the loop ends after the last round.
Observe ==
    /\ run.step = "observe"
    /\ \/ /\ run.rounds < MaxAgentIterations /\ ~Interrupted /\ session.open
          /\ run' = [run EXCEPT !.step = "decide", !.rounds = @ + 1]
          /\ UNCHANGED faults
       \/ /\ run.rounds = MaxAgentIterations \/ ~session.open
          /\ Leave("failed") /\ UNCHANGED faults
       \/ CallFails /\ Leave("failed")
    /\ UNCHANGED <<outside, row, session, action, child, orphans>>

\* decideSubmit: without an answer the planner goes on.
DecideSubmit ==
    /\ run.step = "decide"
    /\ \/ ~Interrupted /\ Goto("child") /\ Begin("submit", "click")
       \/ Goto("plan") /\ UNCHANGED child
    /\ UNCHANGED <<outside, row, session, action, orphans, faults>>

\* The planner's own Click may meet the control that submits, whatever its
\* prompt says.  It is an ordinary tool: retried, each attempt of it may land.
PressSubmit ==
    /\ session.open
    /\ \E attempts \in 1..ClickAttempts, accepted \in {run.accepted, TRUE} :
          run' = [run EXCEPT !.step = "observe", !.clicks = @ + attempts,
                             !.pressed = @ + 1, !.accepted = accepted]

\* The planner completes or fails the application, asks the user, or has one
\* of the other tools act on the page.
PlanAndAct ==
    /\ run.step = "plan"
    /\ \/ /\ ~Interrupted /\ UNCHANGED faults
          /\ \/ \E outcome \in {"applied", "failed", "halted"} : Leave(outcome) /\ UNCHANGED child
             \/ (Goto("observe") \/ PressSubmit) /\ UNCHANGED child
             \/ Goto("child") /\ Begin("pause", "block")
       \/ CallFails /\ Leave("failed") /\ UNCHANGED child
    /\ UNCHANGED <<outside, row, session, action, orphans>>

-----------------------------------------------------------------------------
(* SubmitApplicationWorkflow: one click, never retried, and its verdict.   *)

At(kind, step) == child.kind = kind /\ child.step = step
ChildGoes(step) == child' = [child EXCEPT !.step = step]

\* The site may or may not take the form; the click may land and its answer
\* be lost.
ClickSubmit ==
    /\ At("submit", "click")
    /\ \/ /\ session.open
          /\ \E accepted \in {run.accepted, TRUE} :
                run' = [run EXCEPT !.clicks = @ + 1, !.accepted = accepted]
          /\ \/ ChildGoes("verify") /\ UNCHANGED faults
             \/ CallFails /\ ChildGoes("failed")
       \/ ~session.open /\ ChildGoes("failed") /\ UNCHANGED <<run, faults>>
       \/ CallFails /\ ChildGoes("failed") /\ UNCHANGED run
    /\ UNCHANGED <<outside, row, session, action, orphans>>

\* What the page shows is judged, or put to a model, which may say anything.
Verify ==
    /\ At("submit", "verify")
    /\ \/ /\ \E verdict \in Verdicts[run.accepted] :
                /\ run' = [run EXCEPT !.believed = (verdict = "submitted")]
                /\ \/ verdict # "not submitted" /\ ChildGoes("submitted")
                   \/ verdict # "submitted" /\ ChildGoes("rejected")
          /\ UNCHANGED faults
       \/ CallFails /\ ChildGoes("failed") /\ UNCHANGED run
    /\ UNCHANGED <<outside, row, session, action, orphans>>

\* Mutant of SubmitReturns: a call that failed is not counted.
CountRejections ==
    /\ run.step = "child" /\ child.kind = "submit"
    /\ \/ child.step = "submitted" /\ Leave("applied")
       \/ /\ child.step = "rejected"
          /\ IF run.failures + 1 >= MaxSubmitFailures THEN Leave("failed")
             ELSE run' = [run EXCEPT !.step = "observe", !.failures = @ + 1]
       \/ child.step = "failed" /\ Goto("observe")
    /\ child' = NoChild
    /\ UNCHANGED <<outside, row, session, action, orphans, faults>>

\* submitIfReady with the result of the child.
SubmitReturns ==
    /\ run.step = "child" /\ child.kind = "submit"
    /\ \/ child.step = "submitted" /\ Leave("applied")
       \/ /\ child.step \in {"rejected", "failed"}
          /\ IF \/ run.failures + 1 >= MaxSubmitFailures
                \/ child.step = "failed" /\ Interrupted
             THEN Leave("failed")
             ELSE run' = [run EXCEPT !.step = "observe", !.failures = @ + 1]
    /\ child' = NoChild
    /\ UNCHANGED <<outside, row, session, action, orphans, faults>>

-----------------------------------------------------------------------------
(* HandleUserActionWorkflow: the durable pause.  Its own context is        *)
(* cancelled some time after the run's: until then its steps go on.        *)

\* Rows are told apart for as long as something still refers to one.
Stored(a) == action[a].state # "none"
Unused(a) == ~Stored(a) /\ a # child.action /\ \A orphan \in orphans : orphan.action # a

\* What the activity of each step does.
Effect(step, a, writer) ==
    /\ IF step = "block" THEN Write("blocked", writer) ELSE UNCHANGED row
    /\ action' =
         CASE step = "delete" -> [b \in Actions |->
                  IF action[b].state = "pending" THEN NoAction ELSE action[b]]
           [] step = "create" -> [action EXCEPT ![a] =
                  [state |-> "pending", generation |-> session.generation,
                   notified |-> FALSE, committed |-> FALSE]]
           [] step = "notify" /\ Stored(a) -> [action EXCEPT ![a].notified = TRUE]
           [] step = "commit" -> [action EXCEPT ![a].committed = ~session.open]
           [] OTHER -> action
    /\ session' = IF step = "close" THEN [session EXCEPT !.open = FALSE] ELSE session

NextStep == [block |-> "layout", layout |-> "delete", delete |-> "create",
             create |-> "notify", notify |-> "close", close |-> "commit"]

\* The row a step of a pause is about: a new one, or the created one.
Subject(a, step, created) == IF step = "create" THEN Unused(a)
                             ELSE created \in {None, a}

\* The screenshot needs the browser, the checkpoint a closed one.
PauseStep(a) ==
    /\ child.kind = "pause" /\ child.step \in PauseSteps
    /\ Subject(a, child.step, child.action)
    /\ child.step = "layout" => session.open
    /\ child.step = "commit" => Stored(a) /\ ~session.open
    /\ Effect(child.step, a, "run")
    /\ IF child.step = "commit" THEN ChildGoes("paused")
       ELSE child' = [child EXCEPT !.step = NextStep[child.step],
                                   !.action = IF child.step = "create" THEN a ELSE @]
    /\ UNCHANGED <<outside, run, orphans, faults>>

\* Mutant of PauseFails: a browser that could not be closed is only logged.
SkipFailedClose ==
    /\ child.kind = "pause" /\ child.step \in PauseSteps
    /\ Exhausted
    /\ IF child.step \in {"close", "commit"} THEN ChildGoes("paused") ELSE ChildGoes("failed")
    /\ UNCHANGED <<outside, row, session, action, run, orphans>>

\* An activity fails, the model draws no usable layout, or the browser or
\* the row is not as the activity needs it.  (A bound: Actions may run out.)
PauseFails ==
    /\ child.kind = "pause" /\ child.step \in PauseSteps
    /\ \/ Exhausted
       \/ child.step = "layout" /\ UNCHANGED faults
       \/ /\ child.step = "commit" /\ UNCHANGED faults
          /\ session.open \/ ~Stored(child.action)
       \/ child.step = "create" /\ (\A a \in Actions : ~Unused(a)) /\ UNCHANGED faults
    /\ ChildGoes("failed")
    /\ UNCHANGED <<outside, row, session, action, run, orphans>>

\* The cancellation of the run reaches the child, which returns at once and
\* leaves its activity to itself, which may still write (a layout does not).
AbandonPause ==
    /\ Interrupted /\ child.kind = "pause" /\ child.step \in PauseSteps
    /\ \/ UNCHANGED orphans
       \/ /\ child.step # "layout" /\ Cardinality(orphans) < MaxOrphans
          /\ orphans' = orphans \cup {[step |-> child.step, action |-> child.action]}
    /\ ChildGoes("failed")
    /\ UNCHANGED <<outside, row, session, action, run, faults>>

\* A pause is complete, and the user has not answered yet.
Asked == /\ child.step = "paused" \/ run.outcome = "paused"
         /\ \E a \in Actions : action[a].state = "pending"

\* It lands at any time, also in a later run, whose requests for the user an
\* abandoned DeletePendingUserActions deletes.
Land(orphan, a) ==
    /\ orphan \in orphans
    /\ Subject(a, orphan.step, orphan.action)
    /\ orphan.step = "commit" => Stored(a) /\ ~session.open
    /\ Effect(orphan.step, a, "orphan")
    /\ run' = [run EXCEPT !.robbed = @ \/ (orphan.step = "delete" /\ Asked)]
    /\ orphans' = orphans \ {orphan}
    /\ UNCHANGED <<outside, child, faults>>

\* runToolCall with the result of the child: a paused run returns at once,
\* its browser closed by the child.
PauseReturns ==
    /\ run.step = "child" /\ child.kind = "pause"
    /\ \/ child.step = "paused" /\ End("settle", "paused")
       \/ /\ child.step = "failed"
          /\ IF Interrupted THEN Leave("failed") ELSE Goto("observe")
    /\ child' = NoChild
    /\ UNCHANGED <<outside, row, session, action, orphans, faults>>

-----------------------------------------------------------------------------
(* The end of a run, on disconnected contexts.                             *)

CloseBrowser ==
    /\ run.step = "close"
    /\ \/ session' = [session EXCEPT !.open = FALSE] /\ UNCHANGED faults
       \/ Exhausted /\ UNCHANGED session
    /\ Goto("report")
    /\ UNCHANGED <<outside, row, action, child, orphans>>

\* What the row is to say: handleApplicationSuccess, or
\* handleCancelOrTimeout before the failure's own status.
Reported ==
    IF run.outcome = "applied" \/ ~Interrupted THEN run.outcome
    ELSE IF run.timedOut THEN "failed" ELSE "cancelled"

\* Mutant of Report: a run that timed out says nothing.
ReportUnlessTimedOut ==
    /\ run.step = "report"
    /\ \/ run.timedOut /\ End("settle", Reported) /\ UNCHANGED <<row, faults>>
       \/ /\ ~run.timedOut /\ UNCHANGED faults
          /\ Write(Reported, "run") /\ End("settle", Reported)
    /\ UNCHANGED <<outside, session, action, child, orphans>>

Report ==
    /\ run.step = "report"
    /\ \/ Write(Reported, "run") /\ End("settle", Reported) /\ UNCHANGED faults
       \/ /\ Exhausted /\ UNCHANGED row
          /\ run' = [run EXCEPT !.step = "settle", !.outcome = Reported, !.recorded = FALSE]
    /\ UNCHANGED <<outside, session, action, child, orphans>>

\* notifyBrowserPoolApplicationSettled.
Settle ==
    /\ run.step = "settle"
    /\ run' = [run EXCEPT !.step = "settled", !.cancelling = FALSE, !.cancelled = FALSE,
                          !.timedOut = FALSE]
    /\ UNCHANGED <<outside, row, session, action, child, orphans, faults>>

-----------------------------------------------------------------------------
Initiate == ReadPosting \/ QueueApplication \/ MarkQueued \/ MarkFailed
User ==
    \/ Cancel \/ Retry
    \/ \E a \in Actions : Answer(a)
RunStep ==
    \/ LoadApplication \/ BeginGeneration \/ MarkProcessing
    \/ CreateSession \/ LoadInputs \/ OpenPage \/ FinishSetup
    \/ Observe \/ DecideSubmit \/ PlanAndAct \/ SubmitReturns \/ PauseReturns
    \/ CloseBrowser \/ Report \/ Settle
ChildStep ==
    \/ ClickSubmit \/ Verify \/ PauseFails \/ AbandonPause
    \/ \E a \in Actions : PauseStep(a)

Next ==
    \/ Initiate \/ User \/ ReceiveCancel \/ TimeOut \/ RunStep \/ ChildStep
    \/ \E start \in Start : StartRun(start)
    \/ \E orphan \in orphans, a \in Actions : Land(orphan, a)

\* Workflow tasks and activities are retried until they end; nothing makes a
\* user act or a timer fire.
Spec == Init /\ [][Next]_vars /\ WF_vars(RunStep) /\ WF_vars(ChildStep)

-----------------------------------------------------------------------------
(* Properties.                                                             *)

RunTypeOK ==
    /\ row \in Row /\ session \in Session /\ action \in [Actions -> UserAction]
    /\ pool \subseteq Start
    /\ initiation \in {"reading", "queueing", "marking", "failing", "done"}
    /\ run \in Run /\ child \in Child
    /\ orphans \subseteq Orphan
    /\ faults \in 0..MaxFaults /\ retries \in 0..MaxRetries

\* However its clicks, their answers and their verdicts turn out, a run
\* clicks the control that submits at most twice of its own accord, and at
\* most ClickAttempts times for each time the planner chose to click it.
SubmitsBounded == run.clicks <= MaxSubmitFailures + ClickAttempts * run.pressed

\* A submission that the captured requests or the page prove was taken by
\* the site, provided a site that refuses a form shows it.
BelievedWasAccepted == run.believed => run.accepted

\* A run that ends paused leaves nothing to lose while the user takes time:
\* its browser is closed, its checkpoint committed, and the user action it
\* told the user of is there to be answered in the same generation.  Whatever
\* earlier runs abandoned may land at any time; only their deletion of the
\* pending actions takes the action away, and never the rest.
PausedIsDurable ==
    run.step \in {"settle", "settled"} /\ run.outcome = "paused" =>
        /\ ~session.open
        /\ run.robbed \/ \E a \in Actions :
              /\ action[a].notified /\ action[a].committed
              /\ action[a].state \in {"pending", "answered"}
              /\ action[a].generation = session.generation

\* A settled run that could write its row leaves there how it ended, blocked
\* if it paused.  Only the user, the late end of the initiation or an
\* abandoned write may have replaced it.
SettledRowFinal ==
    run.step = "settled" /\ run.recorded /\ row.writer = "run" =>
        row.status = IF run.outcome = "paused" THEN "blocked" ELSE run.outcome

\* Every run settles, so that its slot and its user are freed: no wait of a
\* workflow is unbounded, however often it is cancelled and whatever fails.
RunSettles == Live ~> ~Live
==============================================================================
