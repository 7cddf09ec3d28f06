----------------------------- MODULE BrowserPool -----------------------------
(***************************************************************************)
(* The browser pool: one durable workflow that queues job applications and *)
(* starts each as a child workflow, with at most MaxConcurrent of them     *)
(* active and at most one active per user (workflow/browserpool).          *)
(*                                                                         *)
(* The pool is modelled as an open system: any queue, cancel or settled    *)
(* signal may arrive, in any order and number up to the bounds, and a      *)
(* child may return at any time.  Whatever is shown here therefore holds   *)
(* whatever the API, the database and the children do.  The module         *)
(* PoolSystem closes the system with the children's real behaviour.        *)
(*                                                                         *)
(* One pass of the loop between two Selects is a Temporal workflow task:   *)
(* no event is applied in the middle of it, so the environment moves only  *)
(* while the loop is parked at "select".                                   *)
(***************************************************************************)
EXTENDS Naturals, Sequences, FiniteSets, SequencesExt

CONSTANTS
    Items,          \* queue items; an item stands for one ApplicationWorkflowId
    Apps,           \* IdJobApplication values
    Users,          \* IdUser values
    UserActions,    \* ResumeUserActionID values other than 0
    NoAction,       \* ResumeUserActionID = 0
    NoItem,         \* absence of a map entry
    AppOf,          \* [Items -> Apps]
    UserOf,         \* [Items -> Users]
    ResumeOf,       \* [Items -> UserActions \cup {NoAction}]
    MaxConcurrent,  \* MAX_CONCURRENT_APPLICATIONS
    MaxSends,       \* bound: [Items -> Nat], queue signals sent per item
    MaxPending,     \* bound: signals waiting to be received at once
    MaxRollovers    \* bound: Continue-As-New rollovers

ASSUME ConstantsAssumption ==
    /\ AppOf \in [Items -> Apps]
    /\ UserOf \in [Items -> Users]
    /\ ResumeOf \in [Items -> UserActions \cup {NoAction}]
    /\ NoAction \notin UserActions
    /\ NoItem \notin Items
    /\ MaxConcurrent \in Nat \ {0}
    /\ MaxSends \in [Items -> Nat]
    /\ MaxPending \in Nat
    /\ MaxRollovers \in Nat

VARIABLES
    pc,             \* where the workflow loop stands
    queue,          \* applicationQueue, head first
    queued,         \* queuedApplications: applications queued or active
    active,         \* activeApplications: application -> item
    activeUsers,    \* activeUsers
    processed,      \* processedUserActions
    deferred,       \* deferredRequeues: application -> item
    permits,        \* free permits of sem
    executing,      \* coroutines of this run waiting in executeJobApplication
    queueSignals,   \* queueSignalChan
    cancelSignals,  \* cancelSignalChan
    settledSignals, \* settledSignalChan
    completions,    \* coroutines blocked sending on childCompleted
    cancelOutbox,   \* CANCEL_APPLICATION signals sent and not yet transferred
    sent,           \* queue signals sent so far, per item
    rollovers       \* rollovers so far

slots    == <<active, activeUsers, permits>>
waiting  == <<queue, queued, deferred>>
channels == <<queueSignals, cancelSignals, settledSignals, completions>>
bounds   == <<sent, rollovers>>
vars == <<pc, slots, waiting, processed, executing, channels, cancelOutbox, bounds>>

-----------------------------------------------------------------------------
(* The application queue: a FIFO whose entries map holds one entry per     *)
(* application.                                                            *)

IsResume(item) == ResumeOf[item] # NoAction

AppsIn(items) == {AppOf[items[i]] : i \in DOMAIN items}

OneEntryPerApp(items) ==
    \A i, j \in DOMAIN items : AppOf[items[i]] = AppOf[items[j]] => i = j

\* enqueue ignores an application that already has an entry.
Enqueue(items, item) ==
    IF AppOf[item] \in AppsIn(items) THEN items ELSE Append(items, item)

\* NewApplicationQueue enqueues the items one after the other, which copies
\* a list without a repeated application.
NewApplicationQueue(items) ==
    IF OneEntryPerApp(items) THEN items ELSE FoldLeft(Enqueue, <<>>, items)

IsActive(app) == active[app] # NoItem
ActiveApps == {app \in Apps : IsActive(app)}

\* Mutants of FirstEligible: no check of the user; no order in the queue.
FirstInQueue(i) == i = 1
AnyEligible(i) == UserOf[queue[i]] \notin activeUsers

\* The item dequeueEligibleApplication picks: the first whose user has no
\* active application.
FirstEligible(i) ==
    /\ UserOf[queue[i]] \notin activeUsers
    /\ \A j \in DOMAIN queue : j < i => UserOf[queue[j]] \in activeUsers

-----------------------------------------------------------------------------
(* The handlers, each the state change made for one message.               *)

EnqueueApplication(item) ==
    IF AppOf[item] \in queued
    THEN UNCHANGED <<queue, queued>>
    ELSE /\ queued' = queued \cup {AppOf[item]}
         /\ queue' = Enqueue(queue, item)

\* Mutant of SeenBefore: a repeated resume is not recognised.
NeverSeen(item) == FALSE

SeenBefore(item) == IsResume(item) /\ ResumeOf[item] \in processed

\* A resume whose user action was seen before is dropped; a resume of an
\* application still active is deferred (the first one wins); anything else
\* is enqueued unless its application is queued or active.
AcceptApplication(item) ==
    \/ /\ SeenBefore(item)
       /\ UNCHANGED <<waiting, processed>>
    \/ /\ IsResume(item) /\ ~SeenBefore(item) /\ IsActive(AppOf[item])
       /\ processed' = processed \cup {ResumeOf[item]}
       /\ deferred' = IF deferred[AppOf[item]] = NoItem
                      THEN [deferred EXCEPT ![AppOf[item]] = item]
                      ELSE deferred
       /\ UNCHANGED <<queue, queued>>
    \/ /\ IsResume(item) /\ ~SeenBefore(item) /\ ~IsActive(AppOf[item])
       /\ processed' = processed \cup {ResumeOf[item]}
       /\ EnqueueApplication(item)
       /\ UNCHANGED deferred
    \/ /\ ~IsResume(item)
       /\ EnqueueApplication(item)
       /\ UNCHANGED <<deferred, processed>>

\* Mutant of HandleCancellation: forwards without looking for the active item.
CancelUnchecked(app) ==
    \/ \E i \in DOMAIN queue :
           /\ AppOf[queue[i]] = app
           /\ queue' = RemoveAt(queue, i)
           /\ queued' = queued \ {app}
           /\ UNCHANGED cancelOutbox
    \/ /\ app \notin AppsIn(queue)
       /\ cancelOutbox' = cancelOutbox \cup {active[app]}
       /\ UNCHANGED <<queue, queued>>

\* A queued application is removed; an active one has the cancellation
\* forwarded to its workflow, without waiting for the outcome.
HandleCancellation(app) ==
    \/ \E i \in DOMAIN queue :
           /\ AppOf[queue[i]] = app
           /\ queue' = RemoveAt(queue, i)
           /\ queued' = queued \ {app}
           /\ UNCHANGED cancelOutbox
    \/ /\ app \notin AppsIn(queue)
       /\ cancelOutbox' = IF IsActive(app)
                          THEN cancelOutbox \cup {active[app]}
                          ELSE cancelOutbox
       /\ UNCHANGED <<queue, queued>>

FreeUser(app) ==
    LET user == UserOf[active[app]] IN
        activeUsers' = IF \E other \in ActiveApps \ {app} : UserOf[active[other]] = user
                       THEN activeUsers
                       ELSE activeUsers \ {user}

\* Mutants of FreeSlot: the entry, or the permit, is not given back.
FreeSlotKeepingEntry(app) == FreeUser(app) /\ permits' = permits + 1 /\ UNCHANGED active
FreeSlotKeepingPermit(app) ==
    FreeUser(app) /\ active' = [active EXCEPT ![app] = NoItem] /\ UNCHANGED permits

\* The slot is released, and the user freed unless another of the user's
\* applications is active.
FreeSlot(app) ==
    /\ FreeUser(app)
    /\ active' = [active EXCEPT ![app] = NoItem]
    /\ permits' = permits + 1

\* Mutants of Requeue: the key, or the deferred resume, is kept; the deferred
\* resume is lost.
RequeueKeepingKey(app) ==
    /\ deferred' = [deferred EXCEPT ![app] = NoItem]
    /\ queue' = IF deferred[app] = NoItem THEN queue ELSE Enqueue(queue, deferred[app])
    /\ UNCHANGED queued
RequeueKeepingDeferred(app) ==
    /\ queue' = IF deferred[app] = NoItem THEN queue ELSE Enqueue(queue, deferred[app])
    /\ queued' = IF deferred[app] = NoItem THEN queued \ {app} ELSE queued
    /\ UNCHANGED deferred
RequeueForgetting(app) ==
    /\ deferred' = [deferred EXCEPT ![app] = NoItem]
    /\ queued' = queued \ {app}
    /\ UNCHANGED queue

\* The application may be queued again, and its deferred resume, if any, is.
Requeue(app) ==
    LET freed == queued \ {AppOf[active[app]]} IN
        /\ deferred' = [deferred EXCEPT ![app] = NoItem]
        /\ IF deferred[app] = NoItem
           THEN /\ queued' = freed
                /\ UNCHANGED queue
           ELSE /\ queued' = freed \cup {AppOf[deferred[app]]}
                /\ queue' = Enqueue(queue, deferred[app])

\* settleApplication; an application settled before is ignored.
Settle(app) ==
    \/ ~IsActive(app) /\ UNCHANGED <<slots, waiting>>
    \/ IsActive(app) /\ FreeSlot(app) /\ Requeue(app)

-----------------------------------------------------------------------------
(* One message taken from a channel.                                       *)

TakeQueueSignal ==
    /\ queueSignals # <<>>
    /\ AcceptApplication(Head(queueSignals))
    /\ queueSignals' = Tail(queueSignals)
    /\ UNCHANGED <<slots, executing, cancelSignals, settledSignals, completions,
                   cancelOutbox, bounds>>

TakeCancelSignal ==
    /\ cancelSignals # <<>>
    /\ HandleCancellation(Head(cancelSignals))
    /\ cancelSignals' = Tail(cancelSignals)
    /\ UNCHANGED <<slots, deferred, processed, executing, queueSignals,
                   settledSignals, completions, bounds>>

TakeSettledSignal ==
    /\ settledSignals # <<>>
    /\ Settle(Head(settledSignals))
    /\ settledSignals' = Tail(settledSignals)
    /\ UNCHANGED <<processed, executing, queueSignals, cancelSignals, completions,
                   cancelOutbox, bounds>>

TakeCompletion ==
    /\ completions # <<>>
    /\ Settle(Head(completions))
    /\ completions' = Tail(completions)
    /\ UNCHANGED <<processed, executing, queueSignals, cancelSignals, settledSignals,
                   cancelOutbox, bounds>>

-----------------------------------------------------------------------------
(* The workflow loop.                                                      *)

\* The code's in-memory work is untouched by a change of position only.
Goto(from, to) ==
    /\ pc = from
    /\ pc' = to
    /\ UNCHANGED <<slots, waiting, processed, executing, channels, cancelOutbox>>

\* The rollover timer fired or the history limit is reached.
BeginRollover ==
    /\ rollovers < MaxRollovers
    /\ Goto("top", "drainQueue")
    /\ rollovers' = rollovers + 1
    /\ UNCHANGED sent

SkipRollover == Goto("top", "dispatch") /\ UNCHANGED bounds

\* A permit is acquired and the first eligible item starts.
Dispatch ==
    /\ pc = "dispatch"
    /\ permits > 0
    /\ \E i \in DOMAIN queue :
           /\ FirstEligible(i)
           /\ active' = [active EXCEPT ![AppOf[queue[i]]] = queue[i]]
           /\ activeUsers' = activeUsers \cup {UserOf[queue[i]]}
           /\ executing' = [executing EXCEPT ![queue[i]] = @ + 1]
           /\ queue' = RemoveAt(queue, i)
    /\ permits' = permits - 1
    /\ UNCHANGED <<pc, queued, deferred, processed, channels, cancelOutbox, bounds>>

\* Mutant of DispatchDone: only the head of the queue is looked at.
DispatchStopsAtHead ==
    /\ permits = 0 \/ \A i \in DOMAIN queue : i = 1 => UserOf[queue[i]] \in activeUsers
    /\ Goto("dispatch", "select")
    /\ UNCHANGED bounds

\* No permit, nothing queued, or nothing eligible (the permit is given back).
DispatchDone ==
    /\ permits = 0 \/ \A i \in DOMAIN queue : UserOf[queue[i]] \in activeUsers
    /\ Goto("dispatch", "select")
    /\ UNCHANGED bounds

\* Select takes the first ready case, in the order the cases were added.
Select ==
    /\ pc = "select"
    /\ pc' = "top"
    /\ \/ TakeQueueSignal
       \/ queueSignals = <<>> /\ TakeCancelSignal
       \/ queueSignals = <<>> /\ cancelSignals = <<>> /\ TakeSettledSignal
       \/ /\ queueSignals = <<>> /\ cancelSignals = <<>> /\ settledSignals = <<>>
          /\ TakeCompletion

SelectTimer ==
    /\ rollovers < MaxRollovers
    /\ Goto("select", "drainQueue")
    /\ rollovers' = rollovers + 1
    /\ UNCHANGED sent

\* The rollover empties the four channels one after the other.
DrainQueue ==
    \/ pc = "drainQueue" /\ TakeQueueSignal /\ UNCHANGED pc
    \/ queueSignals = <<>> /\ Goto("drainQueue", "drainCancel") /\ UNCHANGED bounds

\* Mutant of DrainCancel: the cancellations are not drained.
DrainCancelSkipped == Goto("drainCancel", "drainSettled") /\ UNCHANGED bounds

DrainCancel ==
    \/ pc = "drainCancel" /\ TakeCancelSignal /\ UNCHANGED pc
    \/ cancelSignals = <<>> /\ Goto("drainCancel", "drainSettled") /\ UNCHANGED bounds

DrainSettled ==
    \/ pc = "drainSettled" /\ TakeSettledSignal /\ UNCHANGED pc
    \/ settledSignals = <<>> /\ Goto("drainSettled", "drainCompleted") /\ UNCHANGED bounds

DrainCompleted ==
    \/ pc = "drainCompleted" /\ TakeCompletion /\ UNCHANGED pc
    \/ completions = <<>> /\ Goto("drainCompleted", "continue") /\ UNCHANGED bounds

\* Mutants of RestoreSlots: nothing is restored; the permits are not reacquired.
RestoreNothing == permits' = MaxConcurrent /\ activeUsers' = {}
RestoreUsersOnly ==
    permits' = MaxConcurrent /\ activeUsers' = {UserOf[active[app]] : app \in ActiveApps}

\* A permit and the user of every active item carried over.
RestoreSlots ==
    /\ permits' = MaxConcurrent - Cardinality(ActiveApps)
    /\ activeUsers' = {UserOf[active[app]] : app \in ActiveApps}

\* The new run rebuilds its state from the snapshot of the queue, the active
\* items, the processed actions and the deferred items.  The coroutines of
\* the old run, and the results they wait for, are gone.  Restoring more
\* active items than there are permits fails the workflow.
ContinueAsNew ==
    /\ pc = "continue"
    /\ pc' = IF Cardinality(ActiveApps) > MaxConcurrent THEN "failed" ELSE "top"
    /\ queue' = NewApplicationQueue(queue)
    /\ queued' = AppsIn(queue) \cup {AppOf[active[app]] : app \in ActiveApps}
    /\ RestoreSlots
    /\ executing' = [item \in Items |-> 0]
    /\ UNCHANGED <<active, deferred, processed, channels, cancelOutbox, bounds>>

Loop == \/ BeginRollover \/ SkipRollover \/ Dispatch \/ DispatchDone
        \/ Select \/ SelectTimer
        \/ DrainQueue \/ DrainCancel \/ DrainSettled \/ DrainCompleted
        \/ ContinueAsNew

-----------------------------------------------------------------------------
(* The environment of the pool workflow.                                   *)

SignalsPending == Len(queueSignals) + Len(cancelSignals) + Len(settledSignals)

SignalQueue(item) ==
    /\ pc = "select"
    /\ sent[item] < MaxSends[item]
    /\ SignalsPending < MaxPending
    /\ sent' = [sent EXCEPT ![item] = @ + 1]
    /\ queueSignals' = Append(queueSignals, item)
    /\ UNCHANGED <<pc, slots, waiting, processed, executing, cancelSignals,
                   settledSignals, completions, cancelOutbox, rollovers>>

SignalCancel(app) ==
    /\ pc = "select"
    /\ SignalsPending < MaxPending
    /\ cancelSignals' = Append(cancelSignals, app)
    /\ UNCHANGED <<pc, slots, waiting, processed, executing, queueSignals,
                   settledSignals, completions, cancelOutbox, bounds>>

SignalSettled(app) ==
    /\ pc = "select"
    /\ SignalsPending < MaxPending
    /\ settledSignals' = Append(settledSignals, app)
    /\ UNCHANGED <<pc, slots, waiting, processed, executing, queueSignals,
                   cancelSignals, completions, cancelOutbox, bounds>>

\* The child execution of a coroutine is over, or could not be started: the
\* coroutine reports its application on childCompleted.
ChildReturns(item) ==
    /\ pc = "select"
    /\ executing[item] > 0
    /\ executing' = [executing EXCEPT ![item] = @ - 1]
    /\ completions' = Append(completions, AppOf[item])
    /\ UNCHANGED <<pc, slots, waiting, processed, queueSignals, cancelSignals,
                   settledSignals, cancelOutbox, bounds>>

\* Temporal transfers a forwarded cancellation to the application workflow.
TransferCancel(item) ==
    /\ pc = "select"
    /\ item \in cancelOutbox
    /\ cancelOutbox' = cancelOutbox \ {item}
    /\ UNCHANGED <<pc, slots, waiting, processed, executing, channels, bounds>>

Environment ==
    \/ \E item \in Items : SignalQueue(item) \/ ChildReturns(item) \/ TransferCancel(item)
    \/ \E app \in Apps : SignalCancel(app) \/ SignalSettled(app)

-----------------------------------------------------------------------------
\* main.go starts the pool with an empty input.
Init ==
    /\ pc = "top"
    /\ queue = <<>>
    /\ queued = {}
    /\ active = [app \in Apps |-> NoItem]
    /\ activeUsers = {}
    /\ processed = {}
    /\ deferred = [app \in Apps |-> NoItem]
    /\ permits = MaxConcurrent
    /\ executing = [item \in Items |-> 0]
    /\ queueSignals = <<>>
    /\ cancelSignals = <<>>
    /\ settledSignals = <<>>
    /\ completions = <<>>
    /\ cancelOutbox = {}
    /\ sent = [item \in Items |-> 0]
    /\ rollovers = 0

Next == Loop \/ Environment

Spec == Init /\ [][Next]_vars

-----------------------------------------------------------------------------
(* What the pool promises.                                                 *)

Positions == {"top", "dispatch", "select", "drainQueue", "drainCancel",
              "drainSettled", "drainCompleted", "continue", "failed"}

\* Type invariant of the pool's state and channels.
TypeOK ==
    /\ pc \in Positions
    /\ queue \in Seq(Items)
    /\ queued \subseteq Apps
    /\ active \in [Apps -> Items \cup {NoItem}]
    /\ activeUsers \subseteq Users
    /\ processed \subseteq UserActions
    /\ deferred \in [Apps -> Items \cup {NoItem}]
    /\ permits \in Nat
    /\ executing \in [Items -> Nat]
    /\ queueSignals \in Seq(Items)
    /\ cancelSignals \in Seq(Apps)
    /\ settledSignals \in Seq(Apps)
    /\ completions \in Seq(Apps)
    /\ cancelOutbox \subseteq Items
    /\ sent \in [Items -> Nat]
    /\ rollovers \in Nat

\* Every permit of the semaphore is either free or held by exactly one
\* active application: no settlement, however often it is repeated, releases
\* a permit twice, and no dispatch takes one that is not returned
\* (settleApplication runs for the settled signal and again for the child's
\* completion).
SlotAccounting == permits + Cardinality(ActiveApps) = MaxConcurrent

\* activeUsers, maintained incrementally by dispatch and settlement, is the
\* set of users of the active applications, and no user has two of them.
UsersSerialized ==
    /\ activeUsers = {UserOf[active[app]] : app \in ActiveApps}
    /\ \A app, other \in ActiveApps :
           UserOf[active[app]] = UserOf[active[other]] => app = other

\* queuedApplications, the set the duplicate check reads, is exactly the
\* applications in the queue or active; no application is in both, or twice
\* in the queue, and an active item is filed under its own application.
MembershipExact ==
    /\ \A app \in ActiveApps : AppOf[active[app]] = app
    /\ queued = AppsIn(queue) \cup ActiveApps
    /\ AppsIn(queue) \cap ActiveApps = {}
    /\ OneEntryPerApp(queue)

\* A resume is deferred only behind the active run of its own application,
\* whose settlement will enqueue it: none is stranded in deferredRequeues.
DeferredBehindActive ==
    \A app \in Apps : deferred[app] # NoItem =>
        /\ IsActive(app)
        /\ AppOf[deferred[app]] = app
        /\ IsResume(deferred[app])

\* A submitted user action has at most one resume among the queued, active
\* and deferred items, and is remembered as processed, however often its
\* resume signal is repeated (acceptApplication's processedUserActions).
ResumeOnce ==
    LET held == {<<"queue", i, queue[i]>> : i \in DOMAIN queue}
                \cup {<<"active", app, active[app]>> : app \in ActiveApps}
                \cup {<<"deferred", app, deferred[app]>> :
                          app \in {a \in Apps : deferred[a] # NoItem}}
        resumes == {h \in held : IsResume(h[3])}
    IN  /\ \A h \in resumes : ResumeOf[h[3]] \in processed
        /\ \A h, g \in resumes : ResumeOf[h[3]] = ResumeOf[g[3]] => h = g

\* The workflow never blocks in Select with a free permit and a queued
\* application whose user has no active one: every event that frees a slot
\* or a user leads back through the dispatch loop.
NoMissedDispatch ==
    pc = "select" /\ permits > 0 =>
        \A i \in DOMAIN queue : UserOf[queue[i]] \in activeUsers

\* The inductive strengthening of the four invariants above: what one handler
\* relies on is what the others maintain.
PoolInv ==
    /\ TypeOK
    /\ IsFiniteSet(ActiveApps)
    /\ SlotAccounting
    /\ UsersSerialized
    /\ MembershipExact
    /\ DeferredBehindActive

\* A rollover loses nothing: when the run returns its Continue-As-New error
\* all channels are drained, and the state the new run rebuilds from its
\* input is the state the old run maintained incrementally.
RolloverStep ==
    pc = "continue" =>
        /\ channels = <<<<>>, <<>>, <<>>, <<>>>>
        /\ pc' = "top"
        /\ UNCHANGED <<queue, queued, active, activeUsers, permits, deferred, processed>>
RolloverLossless == [][RolloverStep]_vars

\* Applications of one user start in the order they were queued: an item is
\* not made active past an earlier one of the same user.
StartsInOrder ==
    \A i, j \in DOMAIN queue :
        /\ i < j
        /\ UserOf[queue[i]] = UserOf[queue[j]]
        => ~(active'[AppOf[queue[j]]] = queue[j] /\ active[AppOf[queue[j]]] # queue[j])
UserFIFO == [][StartsInOrder]_vars

\* The pool is a scheduler of applications: seen through its queue, its active
\* and its deferred items it takes only the steps ApplicationScheduler allows,
\* and drains, rollovers and repeated settlements are invisible.
Scheduler == INSTANCE ApplicationScheduler WITH
    backlog <- {queue[i] : i \in DOMAIN queue},
    running <- {active[app] : app \in ActiveApps},
    parked  <- {deferred[app] : app \in {a \in Apps : deferred[a] # NoItem}},
    seen    <- processed,
    Capacity <- MaxConcurrent
SchedulesApplications == Scheduler!Spec
=============================================================================
