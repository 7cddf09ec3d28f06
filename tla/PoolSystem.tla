----------------------------- MODULE PoolSystem ------------------------------
(***************************************************************************)
(* The browser pool together with the application workflows it starts      *)
(* (workflow/jobapplication) and the users of the API.  An application     *)
(* workflow ends by itself, which may be a pause for a user action, or     *)
(* because the server kills it at its 35 minute execution timeout.  Before *)
(* it returns it signals the pool that it has settled; after it has        *)
(* closed, the coroutine that started it, if its pool run still exists,    *)
(* reports the same application again.                                     *)
(***************************************************************************)
EXTENDS BrowserPool

CONSTANTS
    CanTimeOut,  \* whether the execution timeout may strike
    MaxCancels   \* bound: applications cancelled by their users

ASSUME SystemAssumption ==
    /\ CanTimeOut \in BOOLEAN
    /\ MaxCancels \in Nat
    \* One workflow ID is queued once, a resume of a user action any number
    \* of times.
    /\ \A item \in Items : ~IsResume(item) => MaxSends[item] <= 1

VARIABLES
    exec,            \* state of the application workflow of each item
    notified,        \* user actions the user has been notified of
    cancelRequested  \* applications cancelled by their user

children == <<exec, notified>>
systemVars == <<vars, children, cancelRequested>>

\* none -> starting (command issued) -> running -> settling (signal sent) ->
\* closed.
ExecStates == {"none", "starting", "running", "settling", "closed"}

SystemTypeOK ==
    /\ TypeOK
    /\ exec \in [Items -> ExecStates]
    /\ notified \subseteq UserActions
    /\ cancelRequested \subseteq Apps

-----------------------------------------------------------------------------
\* A step of the pool; a coroutine it starts issues the child's start command.
PoolStep ==
    /\ Loop
    /\ exec' = [item \in Items |->
                   IF executing'[item] > executing[item] THEN "starting" ELSE exec[item]]
    /\ UNCHANGED <<notified, cancelRequested>>

ChildStarted(item) ==
    /\ exec[item] = "starting"
    /\ exec' = [exec EXCEPT ![item] = "running"]
    /\ UNCHANGED <<vars, notified, cancelRequested>>

\* HandleUserActionWorkflow notifies the user of a new user action before it
\* closes the browser and commits the checkpoint.  When both succeed the run
\* pauses, that is, it ends; when one fails the planner is told of a failed
\* tool call, and the run may go on and notify its user of another action.
NotifyUser(item) ==
    /\ exec[item] = "running"
    /\ \E resume \in Items :
           /\ IsResume(resume) /\ AppOf[resume] = AppOf[item]
           /\ ResumeOf[resume] \notin notified
           /\ notified' = notified \cup {ResumeOf[resume]}
    /\ UNCHANGED <<vars, exec, cancelRequested>>

\* Mutant of FinishRun: a path that returns without the settlement signal.
FinishSilently(item) ==
    /\ exec[item] = "running"
    /\ exec' = [exec EXCEPT ![item] = "settling"]
    /\ UNCHANGED <<vars, notified, cancelRequested>>

\* notifyBrowserPoolApplicationSettled, deferred to the end of every path.
FinishRun(item) ==
    /\ exec[item] = "running"
    /\ SignalSettled(AppOf[item])
    /\ exec' = [exec EXCEPT ![item] = "settling"]
    /\ UNCHANGED <<notified, cancelRequested>>

CloseRun(item) ==
    /\ exec[item] = "settling"
    /\ exec' = [exec EXCEPT ![item] = "closed"]
    /\ UNCHANGED <<vars, notified, cancelRequested>>

\* WorkflowExecutionTimeout: the server closes the execution, none of whose
\* code, deferred or not, runs again.
TimeOutRun(item) ==
    /\ CanTimeOut
    /\ exec[item] \in {"running", "settling"}
    /\ exec' = [exec EXCEPT ![item] = "closed"]
    /\ UNCHANGED <<vars, notified, cancelRequested>>

\* The future of ExecuteChildWorkflow resolves.
ReportCompletion(item) ==
    /\ exec[item] = "closed"
    /\ ChildReturns(item)
    /\ UNCHANGED <<children, cancelRequested>>

\* A forwarded cancellation reaches an open execution, which may then end as
\* any run may; the server rejects it for one that is not started yet or is
\* closed, which the pool, not waiting for the outcome, never learns.
DeliverCancel(item) ==
    /\ TransferCancel(item)
    /\ UNCHANGED <<children, cancelRequested>>

\* The initiation workflow queues an application; the API queues the resume
\* of a user action once the user, who has been notified, has answered it.
RequestRun(item) ==
    /\ IsResume(item) => ResumeOf[item] \in notified
    /\ SignalQueue(item)
    /\ UNCHANGED <<children, cancelRequested>>

RequestCancel(app) ==
    /\ app \notin cancelRequested
    /\ Cardinality(cancelRequested) < MaxCancels
    /\ SignalCancel(app)
    /\ cancelRequested' = cancelRequested \cup {app}
    /\ UNCHANGED children

-----------------------------------------------------------------------------
SystemInit ==
    /\ Init
    /\ exec = [item \in Items |-> "none"]
    /\ notified = {}
    /\ cancelRequested = {}

\* The execution's own way out, or the server's.
EndRun(item) == FinishRun(item) \/ TimeOutRun(item)

SystemNext ==
    \/ PoolStep
    \/ \E item \in Items :
           \/ ChildStarted(item) \/ NotifyUser(item) \/ EndRun(item) \/ CloseRun(item)
           \/ ReportCompletion(item) \/ DeliverCancel(item) \/ RequestRun(item)
    \/ \E app \in Apps : RequestCancel(app)

SystemSpec == SystemInit /\ [][SystemNext]_systemVars

\* Temporal completes every workflow task it has scheduled, starts every child
\* whose start was recorded, and delivers recorded completions and signals; an
\* execution ends within its timeouts.  Nothing makes a user act, a run pause,
\* or its execution timeout, rather than its workflow, end it.
Fairness ==
    /\ WF_systemVars(PoolStep)
    /\ \A item \in Items :
           /\ WF_systemVars(ChildStarted(item))
           /\ WF_systemVars(EndRun(item))
           /\ WF_systemVars(CloseRun(item))
           /\ WF_systemVars(ReportCompletion(item))
           /\ WF_systemVars(DeliverCancel(item))

FairSystemSpec == SystemSpec /\ Fairness

-----------------------------------------------------------------------------
(* What the system promises.                                               *)

\* Executions that are, or will be, working on their application: they have
\* not reached the deferred settlement signal, so their browser may be open.
Live == {item \in Items : exec[item] \in {"starting", "running"}}

\* Not the pool's bookkeeping but the executions themselves: no two live runs
\* of the same user.
NoConcurrentRunsOfUser ==
    \A item, other \in Live : UserOf[item] = UserOf[other] => item = other

\* No more live runs than MAX_CONCURRENT_APPLICATIONS.
RunsWithinCapacity == Cardinality(Live) <= MaxConcurrent

\* A workflow is started at most once: however often the resume signal of a
\* user action is repeated, around settlements and rollovers, it never starts
\* a second execution.
StartsOnce ==
    [][\A item \in Items : executing'[item] > executing[item] => exec[item] = "none"]_systemVars

\* The slot of a run that the server closed before its settled signal, when a
\* rollover had already dropped the coroutine that waited for it.
Leaked(item) ==
    /\ exec[item] = "closed" /\ active[AppOf[item]] = item /\ executing[item] = 0
    /\ AppOf[item] \notin ToSet(settledSignals) \cup ToSet(completions)
SlotLeaked == \E item \in Items : Leaked(item)

\* The slot of a run that has signalled its settlement is released, even if
\* the server closes the run at once and the pool rolls over.
SettledRunFreed ==
    \A item \in Items :
        (exec[item] = "settling" /\ active[AppOf[item]] = item)
            ~> active[AppOf[item]] # item

\* The item is queued, or deferred until its application has settled.
HeldBack(item) == item \in ToSet(queue) \/ deferred[AppOf[item]] = item

\* A resume that the pool holds is eventually started, whether it arrived
\* before or after the run it resumes settled, unless its application is
\* cancelled or a slot has leaked; and a resume that the pool takes in without
\* holding it leaves its application a start that is still to come: it is only
\* absorbed by another item of its application that is held.
AcceptedResumeStarts ==
    /\ \A item \in Items : IsResume(item) =>
           (HeldBack(item) ~> (exec[item] # "none" \/ AppOf[item] \in cancelRequested \/ SlotLeaked))
    /\ [][\A item \in Items : ResumeOf[item] \in processed' \ processed =>
               \E other \in Items : AppOf[other] = AppOf[item] /\ HeldBack(other)']_systemVars

\* An application taken into the queue eventually leaves it, started or
\* cancelled: a leaked slot is all that can hold it up.
QueuedLeaves ==
    \A item \in Items : ~IsResume(item) =>
        (item \in ToSet(queue) ~> (SlotLeaked \/ item \notin ToSet(queue)))
=============================================================================
