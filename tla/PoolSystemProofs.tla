-------------------------- MODULE PoolSystemProofs --------------------------
(***************************************************************************)
(* Proofs about the pool with its children, for every value of the         *)
(* constants.  No workflow is started twice.  An application that was      *)
(* started once has its live run in the pool's books, so that the pool's   *)
(* limits are limits of the executions themselves as long as no            *)
(* application is resumed; a settlement reported late for an earlier run   *)
(* is what takes a resumed one out of them.                                *)
(***************************************************************************)
EXTENDS PoolSystem, BrowserPoolRefinement

-----------------------------------------------------------------------------
(* The steps of the pool, as its children see them.                        *)

Begun(item) == exec[item] # "none"
Signalled(item) == \E k \in DOMAIN queueSignals : queueSignals[k] = item

\* A loop step that neither takes a message nor starts a child.
Idle ==
    /\ UNCHANGED <<Backlog, Parked, active, processed, channels>>
    /\ \A item \in Items : ~(executing'[item] > executing[item])

\* A message taken out of a channel.
LEMMA TakenMessage ==
    ASSUME NEW S, NEW channel \in Seq(S), channel # <<>>
    PROVE  /\ Head(channel) \in S /\ Tail(channel) \in Seq(S)
           /\ 1 \in DOMAIN channel /\ channel[1] = Head(channel)
           /\ \A k \in DOMAIN Tail(channel) :
                  k + 1 \in DOMAIN channel /\ k + 1 # 1 /\ Tail(channel)[k] = channel[k + 1]
           /\ \A k, l \in DOMAIN Tail(channel) : k + 1 = l + 1 => k = l
           /\ ToSet(Tail(channel)) \subseteq ToSet(channel)
           /\ Head(channel) \in ToSet(channel)
<1>1. Len(channel) \in Nat /\ Len(channel) > 0 /\ DOMAIN channel = 1..Len(channel)
  BY EmptySeq, LenProperties
<1>2. /\ Head(channel) = channel[1] /\ Tail(channel) \in Seq(S)
      /\ DOMAIN Tail(channel) = 1..(Len(channel) - 1)
      /\ \A k \in 1..(Len(channel) - 1) : Tail(channel)[k] = channel[k + 1]
  BY <1>1, HeadTailProperties
<1>3. \A k \in 1..(Len(channel) - 1) : k + 1 \in 1..Len(channel) /\ k + 1 # 1
  BY <1>1
<1>4. \A k, l \in 1..(Len(channel) - 1) : k + 1 = l + 1 => k = l
  BY <1>1
<1>5. 1 \in DOMAIN channel /\ channel[1] \in S
  BY <1>1
<1>6. ToSet(Tail(channel)) \subseteq ToSet(channel) /\ Head(channel) \in ToSet(channel)
  BY <1>1, <1>2, <1>3, <1>5 DEF ToSet
<1>7. QED
  BY <1>2, <1>3, <1>4, <1>5, <1>6, <1>1

\* A message put into a channel.
LEMMA SentMessage ==
    ASSUME NEW S, NEW channel \in Seq(S), NEW message \in S
    PROVE  /\ Append(channel, message) \in Seq(S)
           /\ DOMAIN Append(channel, message) = DOMAIN channel \cup {Len(channel) + 1}
           /\ Len(channel) + 1 \notin DOMAIN channel
           /\ \A k \in DOMAIN channel : Append(channel, message)[k] = channel[k]
           /\ Append(channel, message)[Len(channel) + 1] = message
           /\ ToSet(Append(channel, message)) = ToSet(channel) \cup {message}
<1>1. Len(channel) \in Nat /\ DOMAIN channel = 1..Len(channel)
  BY LenProperties
<1>2. /\ Append(channel, message) \in Seq(S)
      /\ DOMAIN Append(channel, message) = 1..(Len(channel) + 1)
      /\ \A k \in 1..Len(channel) : Append(channel, message)[k] = channel[k]
      /\ Append(channel, message)[Len(channel) + 1] = message
  BY <1>1, AppendProperties
<1>3. 1..(Len(channel) + 1) = 1..Len(channel) \cup {Len(channel) + 1}
      /\ Len(channel) + 1 \notin 1..Len(channel)
  BY <1>1
<1>4. QED
  BY <1>1, <1>2, <1>3 DEF ToSet

\* What a step of the loop may be.
LEMMA LoopSteps ==
    ASSUME PoolInv, Loop
    PROVE  Dispatch \/ TakeQueueSignal \/ TakeCancelSignal \/ TakeSettledSignal \/ TakeCompletion \/ Idle
<1>1. \A item \in Items : executing[item] \in Nat
  BY DEF PoolInv, TypeOK
<1>2. ASSUME NEW from, NEW to, Goto(from, to) PROVE Idle
  BY <1>1, <1>2 DEF Goto, Idle, waiting, slots, Backlog, ItemsIn, Parked
<1>3. CASE ContinueAsNew
  <2>1. UNCHANGED <<slots, waiting>>
    BY <1>3, ContinueRestores, PoolInvSplit
  <2>2. UNCHANGED <<processed, channels>> /\ executing' = [item \in Items |-> 0]
    BY <1>3 DEF ContinueAsNew
  <2>3. QED
    BY <1>1, <2>1, <2>2 DEF Idle, waiting, slots, Backlog, ItemsIn, Parked
<1>4. QED
  BY <1>2, <1>3 DEF Loop, BeginRollover, SkipRollover, DispatchDone, Select, SelectTimer,
     DrainQueue, DrainCancel, DrainSettled, DrainCompleted

\* A dispatch makes one queued item active and starts its child.
LEMMA DispatchSeen ==
    ASSUME PoolInv, Dispatch
    PROVE  \E item \in Backlog :
             /\ Backlog' = Backlog \ {item} /\ item \notin Parked
             /\ active' = [active EXCEPT ![AppOf[item]] = item]
             /\ UNCHANGED <<Parked, processed, channels>>
             /\ \A other \in Items : executing'[other] > executing[other] <=> other = item
<1>1. PICK i \in DOMAIN queue :
          /\ active' = [active EXCEPT ![AppOf[queue[i]]] = queue[i]]
          /\ executing' = [executing EXCEPT ![queue[i]] = @ + 1]
          /\ queue' = RemoveAt(queue, i)
  BY DEF Dispatch
<1>2. queue \in Seq(Items) /\ OneEntryPerApp(queue) /\ executing \in [Items -> Nat]
  BY DEF PoolInv, TypeOK, MembershipExact
<1>3. queue[i] \in Backlog /\ queue[i] \in Items /\ Backlog' = Backlog \ {queue[i]}
  <2>1. ItemsIn(RemoveAt(queue, i)) = ItemsIn(queue) \ {queue[i]}
    BY <1>2, RemoveSeen
  <2>2. queue[i] \in ItemsIn(queue) /\ queue[i] \in Items
    BY <1>2 DEF ItemsIn
  <2>3. ItemsIn(queue)' = ItemsIn(RemoveAt(queue, i))
    BY <1>1 DEF ItemsIn
  <2>4. QED
    BY <2>1, <2>2, <2>3 DEF Backlog
<1>4. \A other \in Items : executing'[other] > executing[other] <=> other = queue[i]
  BY <1>1, <1>2, <1>3
<1>5. UNCHANGED <<Parked, processed, channels>>
  BY DEF Dispatch, Parked
<1>6. queue[i] \notin Parked
  BY <1>3, BacklogApart
<1>7. QED
  BY <1>1, <1>3, <1>4, <1>5, <1>6

\* Nothing comes to wait but what was just received, unseen, or waited before.
LEMMA AcceptedSeen ==
    ASSUME PoolInv, NEW item \in Items, AcceptApplication(item)
    PROVE  /\ processed \subseteq processed'
           /\ \A other \in Backlog' \cup Parked' : other \in Backlog \cup Parked \/ other = item
           /\ SeenBefore(item) => Backlog' = Backlog /\ Parked' = Parked
<1>1. queue \in Seq(Items) /\ deferred \in [Apps -> Items \cup {NoItem}] /\ AppOf[item] \in Apps
  BY ConstantsAssumption DEF PoolInv, TypeOK
<1>2. EnqueueApplication(item) => Backlog' \subseteq Backlog \cup {item}
  BY <1>1, AppendSeen DEF EnqueueApplication, Enqueue, Backlog, ItemsIn
<1>3. \A other \in Parked' : other \in Parked \/ other = item
  BY <1>1 DEF AcceptApplication, Parked, waiting
<1>4. \A other \in Backlog' : other \in Backlog \/ other = item
  BY <1>2 DEF AcceptApplication, Backlog, ItemsIn, waiting
<1>5. processed \subseteq processed'
  BY DEF AcceptApplication
<1>6. SeenBefore(item) => Backlog' = Backlog /\ Parked' = Parked
  BY DEF AcceptApplication, SeenBefore, Backlog, ItemsIn, Parked, waiting
<1>7. QED
  BY <1>3, <1>4, <1>5, <1>6

\* A settlement brings nothing to wait that did not wait before.
LEMMA SettledSeen ==
    ASSUME PoolInv, NEW app \in Apps, Settle(app)
    PROVE  /\ Backlog' \cup Parked' \subseteq Backlog \cup Parked
           /\ \A other \in Apps : other # app => active'[other] = active[other]
<1>1. /\ queue \in Seq(Items) /\ deferred \in [Apps -> Items \cup {NoItem}]
      /\ active \in [Apps -> Items \cup {NoItem}]
  BY DEF PoolInv, TypeOK
<1>2. CASE ~IsActive(app)
  BY <1>2 DEF Settle, FreeSlot, FreeUser, Requeue, Backlog, ItemsIn, Parked, slots, waiting
<1>3. CASE IsActive(app)
  <2>1. deferred' = [deferred EXCEPT ![app] = NoItem] /\ active' = [active EXCEPT ![app] = NoItem]
    BY <1>3 DEF Settle, Requeue, FreeSlot
  <2>2. Parked' \subseteq Parked
    BY <1>1, <2>1 DEF Parked
  <2>3. Backlog' \subseteq Backlog \cup Parked
    <3>1. deferred[app] = NoItem => queue' = queue
      BY <1>3 DEF Settle, Requeue
    <3>2. ASSUME deferred[app] # NoItem
          PROVE  Backlog' \subseteq Backlog \cup Parked
      <4>1. queue' = Enqueue(queue, deferred[app]) /\ deferred[app] \in Items
        BY <1>1, <1>3, <3>2 DEF Settle, Requeue
      <4>2. Backlog' \subseteq Backlog \cup {deferred[app]}
        BY <1>1, <4>1, AppendSeen DEF Enqueue, Backlog, ItemsIn
      <4>3. deferred[app] \in Parked
        BY <3>2 DEF Parked
      <4>4. QED
        BY <4>2, <4>3
    <3>3. QED
      BY <3>1, <3>2 DEF Backlog, ItemsIn
  <2>4. QED
    BY <1>1, <2>1, <2>2, <2>3
<1>4. QED
  BY <1>2, <1>3

\* A cancellation brings nothing to wait.
LEMMA CancelledSeen ==
    ASSUME PoolInv, NEW app \in Apps, HandleCancellation(app)
    PROVE  Backlog' \subseteq Backlog
<1>1. queue \in Seq(Items) /\ OneEntryPerApp(queue)
  BY DEF PoolInv, TypeOK, MembershipExact
<1>2. ASSUME NEW i \in DOMAIN queue, queue' = RemoveAt(queue, i)
      PROVE  Backlog' \subseteq Backlog
  <2>1. ItemsIn(RemoveAt(queue, i)) = ItemsIn(queue) \ {queue[i]}
    BY <1>1, RemoveSeen
  <2>2. QED
    BY <1>2, <2>1 DEF Backlog, ItemsIn
<1>3. QED
  BY <1>2 DEF HandleCancellation, Backlog, ItemsIn

-----------------------------------------------------------------------------
(* No workflow is started twice.                                           *)

\* What was started waits nowhere, a resume that was started was received, and
\* an item without a user action is queued by one signal, which is either still
\* to be sent, on its way, or taken.
StartInv ==
    /\ \A item \in Items : Begun(item) =>
           item \notin Backlog \cup Parked /\ (IsResume(item) => ResumeOf[item] \in processed)
    /\ \A item \in Items : ~IsResume(item) =>
           /\ sent[item] = 0 => ~Signalled(item) /\ item \notin Backlog /\ ~Begun(item)
           /\ Signalled(item) => item \notin Backlog /\ ~Begun(item)
    /\ \A k, l \in DOMAIN queueSignals :
           ~IsResume(queueSignals[k]) /\ queueSignals[k] = queueSignals[l] => k = l

\* Two executions were started for one application.
Restarted(app) ==
    \E item, other \in Items :
        item # other /\ AppOf[item] = app /\ AppOf[other] = app /\ Begun(item) /\ Begun(other)

\* A live run has its application's slot, and a settlement on its way is that
\* of a run that is over, unless the application was started again.
RunInv ==
    /\ \A item \in Live : active[AppOf[item]] = item \/ Restarted(AppOf[item])
    /\ \A app \in ToSet(settledSignals) \cup ToSet(completions) :
           \E item \in Items : AppOf[item] = app /\ exec[item] \in {"settling", "closed"}

-----------------------------------------------------------------------------
(* The steps of the composed system.                                       *)

\* The types of what the children add.
ChildTypes ==
    /\ exec \in [Items -> ExecStates]
    /\ notified \subseteq UserActions
    /\ cancelRequested \subseteq Apps

\* A step of the children or of the users leaves what waits, runs and was
\* processed alone, and starts no coroutine.
ChildStep ==
    /\ UNCHANGED <<Backlog, Parked, active, processed>>
    /\ \A item \in Items : ~(executing'[item] > executing[item])

\* What a step other than the pool's may be.
ChildSteps ==
    \/ \E item \in Items :
           \/ ChildStarted(item) \/ NotifyUser(item) \/ EndRun(item) \/ CloseRun(item)
           \/ ReportCompletion(item) \/ DeliverCancel(item) \/ RequestRun(item)
    \/ \E app \in Apps : RequestCancel(app)

\* The pool keeps its promises in the composed system because every step of
\* the system is a step the open pool allows.
LEMMA ComposedSteps == [SystemNext]_systemVars => [Next]_vars
<1> USE ConstantsAssumption
<1>1. CASE UNCHANGED systemVars
  BY <1>1 DEF systemVars
<1>2. CASE PoolStep
  BY <1>2 DEF PoolStep, Next
<1>3. ASSUME NEW item \in Items,
             \/ ChildStarted(item) \/ NotifyUser(item) \/ EndRun(item) \/ CloseRun(item)
             \/ ReportCompletion(item) \/ DeliverCancel(item) \/ RequestRun(item)
      PROVE  [Next]_vars
  <2>1. AppOf[item] \in Apps
    OBVIOUS
  <2>2. UNCHANGED vars \/ SignalSettled(AppOf[item]) \/ ChildReturns(item)
        \/ TransferCancel(item) \/ SignalQueue(item)
    BY <1>3 DEF ChildStarted, NotifyUser, EndRun, FinishRun, TimeOutRun, CloseRun,
       ReportCompletion, DeliverCancel, RequestRun
  <2>3. QED
    BY <2>1, <2>2 DEF Next, Environment
<1>4. ASSUME NEW app \in Apps, RequestCancel(app) PROVE [Next]_vars
  BY <1>4 DEF RequestCancel, Next, Environment
<1>5. SUFFICES ASSUME [SystemNext]_systemVars PROVE [Next]_vars
  OBVIOUS
<1>6. QED
  BY <1>1, <1>2, <1>3, <1>4, <1>5 DEF SystemNext

LEMMA ChildStepSeen ==
    ASSUME PoolInv, ChildSteps
    PROVE  ChildStep
<1>1. \A item \in Items : executing[item] \in Nat
  BY DEF PoolInv, TypeOK
<1>2. UNCHANGED <<queue, deferred, active, processed>>
  BY DEF ChildSteps, ChildStarted, NotifyUser, EndRun, FinishRun, TimeOutRun, CloseRun,
     ReportCompletion, DeliverCancel, RequestRun, RequestCancel, SignalSettled, ChildReturns,
     TransferCancel, SignalQueue, SignalCancel, vars, waiting, slots
<1>3. UNCHANGED executing \/ \E item \in Items : executing' = [executing EXCEPT ![item] = @ - 1]
  BY DEF ChildSteps, ChildStarted, NotifyUser, EndRun, FinishRun, TimeOutRun, CloseRun,
     ReportCompletion, DeliverCancel, RequestRun, RequestCancel, SignalSettled, ChildReturns,
     TransferCancel, SignalQueue, SignalCancel, vars
<1>4. \A item \in Items : ~(executing'[item] > executing[item])
  <2>1. CASE UNCHANGED executing
    BY <1>1, <2>1
  <2>2. ASSUME NEW item \in Items, executing' = [executing EXCEPT ![item] = @ - 1]
        PROVE  \A other \in Items : ~(executing'[other] > executing[other])
    <3>1. executing \in [Items -> Nat]
      BY DEF PoolInv, TypeOK
    <3>2. \A other \in Items :
              executing'[other] = IF other = item THEN executing[item] - 1 ELSE executing[other]
      BY <2>2, <3>1
    <3>3. QED
      BY <1>1, <3>2
  <2>3. QED
    BY <1>3, <2>1, <2>2
<1>5. QED
  BY <1>2, <1>4 DEF ChildStep, Backlog, ItemsIn, Parked

\* A pool step that starts nothing leaves the executions alone; one that
\* starts a child starts one.
LEMMA PoolStepExec ==
    ASSUME PoolInv, ChildTypes, PoolStep
    PROVE  /\ (\A item \in Items : ~(executing'[item] > executing[item])) => exec' = exec
           /\ \A item \in Items :
                  (\A other \in Items : executing'[other] > executing[other] <=> other = item)
                      => exec' = [exec EXCEPT ![item] = "starting"]
BY DEF PoolStep, ChildTypes

\* Settling, cancelling and receiving start nothing.
LEMMA TakesStartNothing ==
    ASSUME PoolInv, TakeQueueSignal \/ TakeCancelSignal \/ TakeSettledSignal \/ TakeCompletion
    PROVE  \A item \in Items : ~(executing'[item] > executing[item])
<1>1. UNCHANGED executing
  BY DEF TakeQueueSignal, TakeCancelSignal, TakeSettledSignal, TakeCompletion
<1>2. QED
  BY <1>1 DEF PoolInv, TypeOK

LEMMA LoopKeepsSent ==
    ASSUME Loop
    PROVE  sent' = sent
BY DEF Loop, BeginRollover, SkipRollover, Dispatch, DispatchDone, Select, SelectTimer, DrainQueue,
       DrainCancel, DrainSettled, DrainCompleted, ContinueAsNew, TakeQueueSignal, TakeCancelSignal,
       TakeSettledSignal, TakeCompletion, bounds

\* An execution, once started, is never unstarted, and one that is over stays
\* so: the executions move forward, each only from its own state.
Forward ==
    \A item \in Items :
        /\ Begun(item) => Begun(item)'
        /\ exec[item] \in {"settling", "closed"} => exec'[item] \in {"settling", "closed"}
        /\ exec'[item] \in {"starting", "running"} /\ ~(exec[item] \in {"starting", "running"})
               => exec[item] = "none" /\ exec'[item] = "starting"

LEMMA PoolMovesForward ==
    ASSUME PoolInv, ChildTypes, StartInv, PoolStep
    PROVE  Forward
<1>1. CASE \A item \in Items : ~(executing'[item] > executing[item])
  BY <1>1, PoolStepExec DEF Forward, Begun
<1>2. CASE Dispatch
  <2>1. PICK item \in Items :
            item \in Backlog /\ \A other \in Items : executing'[other] > executing[other] <=> other = item
    BY <1>2, DispatchSeen, AppsSeen
  <2>2. exec' = [exec EXCEPT ![item] = "starting"]
    BY <2>1, PoolStepExec
  <2>3. exec[item] = "none"
    BY <2>1 DEF StartInv, Begun
  <2>4. QED
    BY <2>2, <2>3 DEF Forward, Begun, ChildTypes
<1>3. QED
  BY <1>1, <1>2, LoopSteps, TakesStartNothing DEF PoolStep, Idle

LEMMA ChildrenMoveForward ==
    ASSUME ChildTypes, ChildSteps
    PROVE  Forward
<1>1. CASE UNCHANGED exec
  BY <1>1 DEF Forward, Begun
<1>2. ASSUME NEW item \in Items, ChildStarted(item) \/ EndRun(item) \/ CloseRun(item)
      PROVE  Forward
  <2>1. PICK next \in ExecStates :
            /\ exec' = [exec EXCEPT ![item] = next] /\ next # "none"
            /\ exec[item] \in {"settling", "closed"} => next \in {"settling", "closed"}
            /\ next \in {"starting", "running"} => exec[item] \in {"starting", "running"}
    BY <1>2 DEF ChildStarted, EndRun, FinishRun, TimeOutRun, CloseRun, ExecStates
  <2>2. QED
    BY <2>1 DEF Forward, Begun, ChildTypes
<1>3. QED
  BY <1>1, <1>2 DEF ChildSteps, NotifyUser, ReportCompletion, DeliverCancel, RequestRun, RequestCancel, children

\* What started once stays started: what the two invariants say of the past is
\* not undone.
LEMMA StartsStay ==
    ASSUME Forward
    PROVE  \A app : Restarted(app) => Restarted(app)'
BY DEF Forward, Restarted

LEMMA KeepsChildTypes ==
    ASSUME ChildTypes, PoolInv, PoolStep \/ ChildSteps
    PROVE  ChildTypes'
<1> USE ConstantsAssumption DEF ChildTypes, ExecStates
<1>1. CASE PoolStep
  BY <1>1 DEF PoolStep
<1>2. ASSUME NEW item \in Items, ChildStarted(item) \/ NotifyUser(item) \/ EndRun(item) \/ CloseRun(item)
      PROVE  ChildTypes'
  BY <1>2 DEF ChildStarted, NotifyUser, EndRun, FinishRun, TimeOutRun, CloseRun, IsResume
<1>3. CASE UNCHANGED <<exec, notified>> /\ \E app \in Apps : cancelRequested' \subseteq cancelRequested \cup {app}
  BY <1>3
<1>4. ASSUME NEW item \in Items, ReportCompletion(item) \/ DeliverCancel(item) \/ RequestRun(item)
      PROVE  ChildTypes'
  BY <1>4 DEF ReportCompletion, DeliverCancel, RequestRun, children
<1>5. ASSUME NEW app \in Apps, RequestCancel(app)
      PROVE  ChildTypes'
  BY <1>5 DEF RequestCancel, children
<1>6. QED
  BY <1>1, <1>2, <1>4, <1>5 DEF ChildSteps

-----------------------------------------------------------------------------
(* The steps keep StartInv.                                                *)

\* Nothing new comes to wait, and nothing is signalled: what was started, and
\* what is signalled, still waits nowhere.
LEMMA NothingArrives ==
    ASSUME StartInv, queueSignals \in Seq(Items),
           Backlog' \cup Parked' \subseteq Backlog \cup Parked,
           \A item \in Items : ~IsResume(item) => item \notin Parked,
           processed \subseteq processed', UNCHANGED <<queueSignals, sent>>,
           \A item \in Items : Begun(item)' <=> Begun(item)
    PROVE  StartInv'
BY DEF StartInv, Signalled

\* A dispatch moves one item from the queue to its execution.
LEMMA DispatchKeepsStart ==
    ASSUME PoolInv, ResumesHeldOnce, ChildTypes, StartInv, PoolStep, Dispatch
    PROVE  StartInv'
<1>1. PICK item \in Items :
          /\ item \in Backlog /\ Backlog' = Backlog \ {item} /\ item \notin Parked
          /\ UNCHANGED <<Parked, processed, channels>>
          /\ \A other \in Items : executing'[other] > executing[other] <=> other = item
  BY DispatchSeen, AppsSeen
<1>2. exec' = [exec EXCEPT ![item] = "starting"]
  BY <1>1, PoolStepExec
<1>3. \A other \in Items : Begun(other)' <=> Begun(other) \/ other = item
  BY <1>2 DEF Begun, ChildTypes
<1>4. UNCHANGED <<queueSignals, sent>>
  BY <1>1, LoopKeepsSent DEF channels, PoolStep
<1>5. IsResume(item) => ResumeOf[item] \in processed
  BY <1>1 DEF ResumesHeldOnce, Held
<1>6. QED
  BY <1>1, <1>3, <1>4, <1>5 DEF StartInv, Signalled

\* A queue signal is taken: its item, if it comes to wait, was not started.
LEMMA ReceiveKeepsStart ==
    ASSUME PoolInv, ChildTypes, StartInv, PoolStep, TakeQueueSignal
    PROVE  StartInv'
<1>1. queueSignals \in Seq(Items) /\ queueSignals # <<>>
  BY DEF PoolInv, TypeOK, TakeQueueSignal
<1>2. PICK item \in Items : item = Head(queueSignals)
  BY <1>1, TakenMessage
<1>3. UNCHANGED sent /\ UNCHANGED exec
  BY LoopKeepsSent, PoolStepExec, TakesStartNothing DEF PoolStep
<1>4. AcceptApplication(item) /\ queueSignals' = Tail(queueSignals)
  BY <1>2 DEF TakeQueueSignal
<1>5. /\ processed \subseteq processed'
      /\ \A other \in Backlog' \cup Parked' : other \in Backlog \cup Parked \/ other = item
      /\ SeenBefore(item) => Backlog' = Backlog /\ Parked' = Parked
  BY <1>4, AcceptedSeen
<1>6. Signalled(item) /\ \A other \in Items : Signalled(other)' => Signalled(other)
  BY <1>1, <1>2, <1>4, TakenMessage DEF Signalled
<1>7. ~IsResume(item) => ~Signalled(item)'
  BY <1>1, <1>2, <1>4, TakenMessage DEF Signalled, StartInv
<1>8. \A other \in Items : ~IsResume(other) => other \notin Parked /\ other \notin Parked'
  <2>1. PoolInv'
    BY LoopKeepsPoolInv DEF PoolStep
  <2>2. \A app \in Apps : deferred[app] # NoItem => IsResume(deferred[app])
    BY DEF PoolInv, DeferredBehindActive
  <2>3. \A app \in Apps : deferred'[app] # NoItem => IsResume(deferred'[app])
    BY <2>1 DEF PoolInv, DeferredBehindActive, IsResume
  <2>4. QED
    BY <2>2, <2>3 DEF Parked
<1>9. Begun(item) => SeenBefore(item)
  BY <1>6 DEF StartInv, SeenBefore
<1>10. ASSUME NEW other \in Items, Begun(other)'
       PROVE  other \notin Backlog' \cup Parked' /\ (IsResume(other) => ResumeOf[other] \in processed')
  <2>1. Begun(other)
    BY <1>3, <1>10 DEF Begun
  <2>2. QED
    BY <1>5, <1>9, <2>1 DEF StartInv
<1>11. ASSUME NEW other \in Items, ~IsResume(other)
       PROVE  /\ sent'[other] = 0 => ~Signalled(other)' /\ other \notin Backlog' /\ ~Begun(other)'
              /\ Signalled(other)' => other \notin Backlog' /\ ~Begun(other)'
  <2>1. Begun(other)' <=> Begun(other)
    BY <1>3 DEF Begun
  <2>2. CASE other = item
    BY <1>3, <1>6, <1>7, <1>11, <2>2 DEF StartInv
  <2>3. CASE other # item
    <3>1. other \in Backlog' => other \in Backlog
      BY <1>5, <1>8, <1>11, <2>3
    <3>2. QED
      BY <1>3, <1>6, <1>11, <2>1, <3>1 DEF StartInv
  <2>4. QED
    BY <2>2, <2>3
<1>12. \A k, l \in DOMAIN queueSignals' :
           ~IsResume(queueSignals'[k]) /\ queueSignals'[k] = queueSignals'[l] => k = l
  BY <1>1, <1>4, TakenMessage DEF StartInv
<1>13. QED
  BY <1>10, <1>11, <1>12 DEF StartInv, IsResume

\* The children end runs, they start none.
LEMMA ChildrenStartNothing ==
    ASSUME ChildTypes, ChildSteps
    PROVE  \A item \in Items : Begun(item)' <=> Begun(item)
<1>1. CASE UNCHANGED exec
  BY <1>1 DEF Begun
<1>2. ASSUME NEW item \in Items, ChildStarted(item) \/ EndRun(item) \/ CloseRun(item)
      PROVE  \A other \in Items : Begun(other)' <=> Begun(other)
  <2>1. PICK next \in ExecStates :
            exec' = [exec EXCEPT ![item] = next] /\ next # "none" /\ exec[item] # "none"
    BY <1>2 DEF ChildStarted, EndRun, FinishRun, TimeOutRun, CloseRun, ExecStates
  <2>2. QED
    BY <2>1 DEF Begun, ChildTypes
<1>3. QED
  BY <1>1, <1>2 DEF ChildSteps, NotifyUser, ReportCompletion, DeliverCancel, RequestRun, RequestCancel, children

\* A resume is never waiting in the place of an item without a user action.
LEMMA ParkedAreResumes ==
    ASSUME PoolInv
    PROVE  \A item \in Items : ~IsResume(item) => item \notin Parked
<1>1. \A app \in Apps : deferred[app] # NoItem => IsResume(deferred[app])
  BY DEF PoolInv, DeferredBehindActive
<1>2. QED
  BY <1>1 DEF Parked

LEMMA PoolKeepsStart ==
    ASSUME PoolInv, ResumesHeldOnce, ChildTypes, StartInv, PoolStep
    PROVE  StartInv'
<1>1. queueSignals \in Seq(Items) /\ settledSignals \in Seq(Apps) /\ completions \in Seq(Apps)
      /\ cancelSignals \in Seq(Apps)
  BY DEF PoolInv, TypeOK
<1>2. sent' = sent
  BY LoopKeepsSent DEF PoolStep
<1>3. CASE TakeCancelSignal
  <2>1. PICK app \in Apps : HandleCancellation(app)
    BY <1>1, <1>3, TakenMessage DEF TakeCancelSignal
  <2>2. Backlog' \subseteq Backlog /\ UNCHANGED <<Parked, processed, queueSignals, exec>>
    BY <1>3, <2>1, CancelledSeen, TakesStartNothing, PoolStepExec DEF TakeCancelSignal, Parked
  <2>3. QED
    BY <1>1, <1>2, <2>2, NothingArrives, ParkedAreResumes DEF Begun
<1>4. CASE TakeSettledSignal \/ TakeCompletion
  <2>1. PICK app \in Apps : Settle(app)
    BY <1>1, <1>4, TakenMessage DEF TakeSettledSignal, TakeCompletion
  <2>2. UNCHANGED <<processed, queueSignals, exec>>
    BY <1>4, TakesStartNothing, PoolStepExec DEF TakeSettledSignal, TakeCompletion
  <2>3. QED
    BY <1>1, <1>2, <2>1, <2>2, SettledSeen, NothingArrives, ParkedAreResumes DEF Begun
<1>5. CASE Idle
  <2>1. UNCHANGED <<Backlog, Parked, processed, queueSignals, exec>>
    BY <1>5, PoolStepExec DEF Idle, channels
  <2>2. QED
    BY <1>1, <1>2, <2>1, NothingArrives, ParkedAreResumes DEF Begun
<1>6. QED
  BY <1>3, <1>4, <1>5, DispatchKeepsStart, ReceiveKeepsStart, LoopSteps DEF PoolStep

LEMMA ChildrenKeepStart ==
    ASSUME PoolInv, ChildTypes, StartInv, ChildSteps
    PROVE  StartInv'
<1> USE SystemAssumption
<1>1. /\ \A item \in Items : Begun(item)' <=> Begun(item)
      /\ UNCHANGED <<Backlog, Parked, processed>>
  BY ChildrenStartNothing, ChildStepSeen DEF ChildStep
<1>2. queueSignals \in Seq(Items) /\ sent \in [Items -> Nat]
  BY DEF PoolInv, TypeOK
<1>3. CASE UNCHANGED <<queueSignals, sent>>
  BY <1>1, <1>2, <1>3, NothingArrives, ParkedAreResumes
<1>4. ASSUME NEW item \in Items, SignalQueue(item)
      PROVE  StartInv'
  <2>1. /\ queueSignals' = Append(queueSignals, item)
        /\ sent' = [sent EXCEPT ![item] = @ + 1] /\ sent[item] < MaxSends[item]
    BY <1>4 DEF SignalQueue
  <2>2. MaxSends[item] \in Nat
    BY ConstantsAssumption
  <2>3. ~IsResume(item) => sent[item] = 0
    BY <1>2, <2>1, <2>2
  <2>4. ~IsResume(item) => ~Signalled(item) /\ item \notin Backlog /\ ~Begun(item)
    BY <2>3 DEF StartInv
  <2>5. \A other \in Items : Signalled(other)' <=> Signalled(other) \/ other = item
    BY <1>2, <2>1, SentMessage DEF Signalled
  <2>6. \A other \in Items : sent'[other] = 0 => sent[other] = 0 /\ other # item
    BY <1>2, <2>1
  <2>7. \A k, l \in DOMAIN queueSignals' :
            ~IsResume(queueSignals'[k]) /\ queueSignals'[k] = queueSignals'[l] => k = l
    BY <1>2, <2>1, <2>4, SentMessage DEF StartInv, Signalled
  <2>8. \A other \in Items : ~IsResume(other) =>
            /\ sent'[other] = 0 => ~Signalled(other)' /\ other \notin Backlog' /\ ~Begun(other)'
            /\ Signalled(other)' => other \notin Backlog' /\ ~Begun(other)'
    BY <1>1, <2>4, <2>5, <2>6 DEF StartInv
  <2>9. QED
    BY <1>1, <2>7, <2>8 DEF StartInv, IsResume
<1>5. QED
  BY <1>3, <1>4 DEF ChildSteps, ChildStarted, NotifyUser, EndRun, FinishRun, TimeOutRun, CloseRun,
     ReportCompletion, DeliverCancel, RequestRun, RequestCancel, SignalSettled, ChildReturns,
     TransferCancel, SignalCancel, vars, channels, bounds

-----------------------------------------------------------------------------
(* The steps keep RunInv.                                                  *)

\* A pool step settles applications whose run is over, and makes active an item
\* that was not started.
LEMMA PoolKeepsRuns ==
    ASSUME PoolInv, ChildTypes, StartInv, RunInv, PoolStep
    PROVE  RunInv'
<1>1. /\ settledSignals \in Seq(Apps) /\ completions \in Seq(Apps)
      /\ active \in [Apps -> Items \cup {NoItem}] /\ AppOf \in [Items -> Apps]
  BY ConstantsAssumption DEF PoolInv, TypeOK
<1>2. Forward /\ \A app : Restarted(app) => Restarted(app)'
  BY PoolMovesForward, StartsStay
<1>3. ASSUME ToSet(settledSignals') \cup ToSet(completions') \subseteq ToSet(settledSignals) \cup ToSet(completions)
      PROVE  \A app \in ToSet(settledSignals') \cup ToSet(completions') :
                 \E item \in Items : AppOf[item] = app /\ exec'[item] \in {"settling", "closed"}
  BY <1>2, <1>3 DEF RunInv, Forward
<1>4. CASE Dispatch
  <2>1. PICK item \in Items :
            /\ item \in Backlog
            /\ active' = [active EXCEPT ![AppOf[item]] = item]
            /\ UNCHANGED channels
            /\ \A other \in Items : executing'[other] > executing[other] <=> other = item
    BY <1>4, DispatchSeen, AppsSeen
  <2>2. exec' = [exec EXCEPT ![item] = "starting"] /\ exec[item] = "none"
    BY <2>1, PoolStepExec DEF StartInv, Begun
  <2>3. ASSUME NEW other \in Items, other \in Live', other # item
        PROVE  active'[AppOf[other]] = other \/ Restarted(AppOf[other])'
    <3>1. other \in Live
      BY <2>2, <2>3 DEF Live, ChildTypes
    <3>2. CASE AppOf[other] = AppOf[item]
      <4>1. Begun(other)' /\ Begun(item)'
        BY <2>2, <2>3 DEF Live, Begun, ChildTypes
      <4>2. QED
        BY <2>3, <3>2, <4>1 DEF Restarted
    <3>3. CASE AppOf[other] # AppOf[item]
      BY <1>1, <1>2, <2>1, <3>1, <3>3 DEF RunInv
    <3>4. QED
      BY <3>2, <3>3
  <2>4. active'[AppOf[item]] = item
    BY <1>1, <2>1
  <2>5. UNCHANGED <<settledSignals, completions>>
    BY <2>1 DEF channels
  <2>6. \A other \in Live' : other \in Items
    BY DEF Live
  <2>7. QED
    BY <1>3, <2>3, <2>4, <2>5, <2>6 DEF RunInv
<1>5. CASE TakeSettledSignal \/ TakeCompletion
  <2>1. PICK app \in Apps :
            /\ Settle(app)
            /\ app \in ToSet(settledSignals) \cup ToSet(completions)
            /\ ToSet(settledSignals') \cup ToSet(completions')
                   \subseteq ToSet(settledSignals) \cup ToSet(completions)
    BY <1>1, <1>5, TakenMessage DEF TakeSettledSignal, TakeCompletion
  <2>2. UNCHANGED exec
    BY <1>5, TakesStartNothing, PoolStepExec
  <2>3. PICK over \in Items : AppOf[over] = app /\ exec[over] \in {"settling", "closed"}
    BY <2>1 DEF RunInv
  <2>4. ASSUME NEW item \in Live
        PROVE  active'[AppOf[item]] = item \/ Restarted(AppOf[item])'
    <3>1. CASE AppOf[item] = app
      <4>1. item \in Items /\ item # over /\ Begun(item)' /\ Begun(over)'
        BY <2>2, <2>3 DEF Live, Begun
      <4>2. QED
        BY <2>3, <3>1, <4>1 DEF Restarted
    <3>2. CASE AppOf[item] # app
      <4>1. AppOf[item] \in Apps
        BY <1>1 DEF Live
      <4>2. active'[AppOf[item]] = active[AppOf[item]]
        BY <2>1, <3>2, <4>1, SettledSeen
      <4>3. QED
        BY <1>2, <4>2 DEF RunInv
    <3>3. QED
      BY <3>1, <3>2
  <2>5. QED
    BY <1>3, <2>1, <2>2, <2>4 DEF RunInv, Live
<1>6. CASE TakeQueueSignal \/ TakeCancelSignal \/ Idle
  <2>1. UNCHANGED <<active, settledSignals, completions, exec>>
    BY <1>6, TakesStartNothing, PoolStepExec DEF TakeQueueSignal, TakeCancelSignal, Idle, slots, channels
  <2>2. QED
    BY <1>2, <1>3, <2>1 DEF RunInv, Live
<1>7. QED
  BY <1>4, <1>5, <1>6, LoopSteps DEF PoolStep

\* A child signals, and its coroutine reports, an application whose run is
\* over.
LEMMA ChildrenKeepRuns ==
    ASSUME PoolInv, ChildTypes, RunInv, ChildSteps
    PROVE  RunInv'
<1>1. /\ settledSignals \in Seq(Apps) /\ completions \in Seq(Apps) /\ AppOf \in [Items -> Apps]
  BY ConstantsAssumption DEF PoolInv, TypeOK
<1>2. Forward /\ \A app : Restarted(app) => Restarted(app)'
  BY ChildrenMoveForward, StartsStay
<1>3. UNCHANGED active /\ \A item \in Items : Begun(item)' <=> Begun(item)
  BY ChildStepSeen, ChildrenStartNothing DEF ChildStep
<1>4. \A item \in Live' : item \in Live
  BY <1>2, <1>3 DEF Live, Forward, Begun
<1>5. \A app \in ToSet(settledSignals') \cup ToSet(completions') :
          \/ app \in ToSet(settledSignals) \cup ToSet(completions)
          \/ \E item \in Items : AppOf[item] = app /\ exec'[item] \in {"settling", "closed"}
  <2>1. CASE UNCHANGED <<settledSignals, completions>>
    BY <2>1
  <2>2. ASSUME NEW item \in Items, FinishRun(item)
        PROVE  /\ ToSet(settledSignals') = ToSet(settledSignals) \cup {AppOf[item]}
               /\ UNCHANGED completions /\ exec'[item] = "settling"
    BY <1>1, <2>2, SentMessage DEF FinishRun, SignalSettled, ChildTypes
  <2>3. ASSUME NEW item \in Items, ReportCompletion(item)
        PROVE  /\ ToSet(completions') = ToSet(completions) \cup {AppOf[item]}
               /\ UNCHANGED settledSignals /\ exec'[item] = "closed"
    BY <1>1, <2>3, SentMessage DEF ReportCompletion, ChildReturns, children
  <2>4. \/ UNCHANGED <<settledSignals, completions>>
        \/ \E item \in Items : FinishRun(item) \/ ReportCompletion(item)
    BY DEF ChildSteps, ChildStarted, NotifyUser, EndRun, TimeOutRun, CloseRun, DeliverCancel, RequestRun,
       RequestCancel, TransferCancel, SignalQueue, SignalCancel, vars, channels
  <2>5. QED
    BY <2>1, <2>2, <2>3, <2>4
<1>6. QED
  BY <1>2, <1>3, <1>4, <1>5 DEF RunInv, Forward

-----------------------------------------------------------------------------
(* The theorems.                                                           *)

\* The inductive invariant of the pool with its children.
SystemInv ==
    /\ PoolInv
    /\ ResumesHeldOnce
    /\ ChildTypes
    /\ StartInv
    /\ RunInv

LEMMA SystemInitInv == SystemInit => SystemInv
<1> SUFFICES ASSUME SystemInit PROVE SystemInv
  OBVIOUS
<1>1. PoolInv
  BY InitPoolInv DEF SystemInit
<1>2. ResumesHeldOnce
  BY DEF SystemInit, Init, ResumesHeldOnce, Held, Backlog, ItemsIn, Running, Parked, ActiveApps, IsActive
<1>3. ChildTypes
  BY DEF SystemInit, ChildTypes, ExecStates
<1>4. StartInv
  BY DEF SystemInit, Init, StartInv, Begun, Signalled, Backlog, ItemsIn, Parked
<1>5. RunInv
  BY DEF SystemInit, Init, RunInv, Live, ToSet
<1>6. QED
  BY <1>1, <1>2, <1>3, <1>4, <1>5 DEF SystemInv

LEMMA SystemKeepsInv == SystemInv /\ [SystemNext]_systemVars => SystemInv'
<1> SUFFICES ASSUME SystemInv, [SystemNext]_systemVars PROVE SystemInv'
  OBVIOUS
<1>1. PoolInv'
  BY ComposedSteps, LoopKeepsPoolInv, EnvironmentKeepsPoolInv, StutterKeepsPoolInv DEF SystemInv, Next
<1>2. ResumesHeldOnce'
  <2>1. Scheduler!Next \/ Unseen
    BY ComposedSteps, LoopRefines, EnvironmentRefines, UnchangedUnseen DEF SystemInv, Next, vars
  <2>2. QED
    BY <2>1, SchedulerHoldsOnce DEF SystemInv
<1>3. CASE PoolStep
  BY <1>1, <1>2, <1>3, KeepsChildTypes, PoolKeepsStart, PoolKeepsRuns DEF SystemInv
<1>4. CASE ChildSteps
  BY <1>1, <1>2, <1>4, KeepsChildTypes, ChildrenKeepStart, ChildrenKeepRuns DEF SystemInv
<1>5. CASE UNCHANGED systemVars
  <2>1. UNCHANGED <<exec, notified, cancelRequested, queue, deferred, active, processed, sent,
                    queueSignals, settledSignals, completions>>
    BY <1>5 DEF systemVars, children, vars, slots, waiting, channels, bounds
  <2>2. ChildTypes' /\ StartInv' /\ RunInv'
    BY <2>1 DEF SystemInv, ChildTypes, StartInv, RunInv, Live, Restarted, Begun, Signalled, Backlog,
       ItemsIn, Parked, IsResume
  <2>3. QED
    BY <1>1, <1>2, <2>2 DEF SystemInv
<1>6. QED
  BY <1>3, <1>4, <1>5 DEF SystemNext, ChildSteps

\* The pool's invariant, what was started of what is queued, and whose slots the
\* live runs have, hold in every state of the composition.
THEOREM SystemInvariant == SystemSpec => []SystemInv
<1>1. QED
  BY SystemInitInv, SystemKeepsInv, PTL DEF SystemSpec

\* The children and the users of the API are an environment the open pool
\* already allows, so that what is proved of it holds in the composition.
THEOREM PoolServesChildren == SystemSpec => Spec
<1>1. SystemInit => Init
  BY DEF SystemInit
<1>2. QED
  BY <1>1, ComposedSteps, PTL DEF SystemSpec, Spec

\* The variables of the pool and of its children keep their types.
THEOREM SystemTypes == SystemSpec => []SystemTypeOK
<1>1. SystemInv => SystemTypeOK
  BY DEF SystemInv, PoolInv, ChildTypes, SystemTypeOK
<1>2. QED
  BY <1>1, SystemInvariant, PTL

\* No workflow is started a second time, however its queue signals, its
\* settlements and the pool's rollovers interleave (executeJobApplication).
THEOREM StartedOnce == SystemSpec => StartsOnce
<1>1. SystemInv /\ [SystemNext]_systemVars =>
          [\A item \in Items : executing'[item] > executing[item] => exec[item] = "none"]_systemVars
  <2> SUFFICES ASSUME SystemInv, SystemNext, NEW item \in Items, executing'[item] > executing[item]
               PROVE  exec[item] = "none"
    OBVIOUS
  <2> USE DEF SystemInv
  <2>1. PoolStep
    BY ChildStepSeen DEF SystemNext, ChildSteps, ChildStep
  <2>2. Dispatch
    BY <2>1, LoopSteps, TakesStartNothing DEF PoolStep, Idle
  <2>3. item \in Backlog
    BY <2>2, DispatchSeen
  <2>4. QED
    BY <2>3 DEF StartInv, Begun
<1>2. QED
  BY <1>1, SystemInvariant, PTL DEF SystemSpec, StartsOnce

\* If two runs of one user are live at once, one of their own applications was
\* started a second time.
ConcurrencyExplained ==
    \A item, other \in Live :
        UserOf[item] = UserOf[other] /\ item # other =>
            Restarted(AppOf[item]) \/ Restarted(AppOf[other])

\* What two live runs of one user come from, whatever other applications do: a
\* settlement reported late for an earlier run of one of the two
\* (settleApplication takes the slot of the run that resumed it).
THEOREM ConcurrencyNeedsRestart == SystemSpec => []ConcurrencyExplained
<1>1. SystemInv => ConcurrencyExplained
  <2> SUFFICES ASSUME SystemInv, NEW item \in Live, NEW other \in Live,
                      UserOf[item] = UserOf[other], item # other,
                      ~Restarted(AppOf[item]), ~Restarted(AppOf[other])
               PROVE  FALSE
    BY DEF ConcurrencyExplained
  <2>1. /\ active[AppOf[item]] = item /\ AppOf[item] \in ActiveApps
        /\ active[AppOf[other]] = other /\ AppOf[other] \in ActiveApps
    BY ConstantsAssumption DEF SystemInv, RunInv, Live, ActiveApps, IsActive
  <2>2. QED
    BY <2>1 DEF SystemInv, PoolInv, UsersSerialized
<1>2. QED
  BY <1>1, SystemInvariant, PTL

\* No application was started a second time.
NoneRestarted == \A app \in Apps : ~Restarted(app)

LEMMA LiveRunsHoldSlots ==
    ASSUME SystemInv, NoneRestarted
    PROVE  \A item \in Live : AppOf[item] \in ActiveApps /\ active[AppOf[item]] = item
<1>1. ASSUME NEW item \in Live
      PROVE  active[AppOf[item]] = item /\ item # NoItem /\ AppOf[item] \in Apps
  BY ConstantsAssumption DEF SystemInv, RunInv, NoneRestarted, Live
<1>2. QED
  BY <1>1 DEF ActiveApps, IsActive

\* As long as no application was started a second time, no two runs of one user
\* are live at once: the pool's bookkeeping, which admits one active application
\* per user, is that of the executions themselves.
THEOREM UsersRunOneAtATime == SystemSpec => [](NoneRestarted => NoConcurrentRunsOfUser)
<1>1. SystemInv => (NoneRestarted => NoConcurrentRunsOfUser)
  BY LiveRunsHoldSlots DEF SystemInv, PoolInv, UsersSerialized, NoConcurrentRunsOfUser
<1>2. QED
  BY <1>1, SystemInvariant, PTL

\* Nor are more runs live than MAX_CONCURRENT_APPLICATIONS.
THEOREM RunsFitCapacity == SystemSpec => [](NoneRestarted => RunsWithinCapacity)
<1>1. SystemInv => (NoneRestarted => RunsWithinCapacity)
  <2> SUFFICES ASSUME SystemInv, NoneRestarted PROVE Cardinality(Live) <= MaxConcurrent
    BY DEF RunsWithinCapacity
  <2>1. \A item \in Live : AppOf[item] \in ActiveApps /\ active[AppOf[item]] = item
    BY LiveRunsHoldSlots
  <2> DEFINE slotOf == [item \in Live |-> AppOf[item]]
  <2>2. slotOf \in Injection(Live, ActiveApps)
    BY <2>1 DEF Injection, IsInjective
  <2>3. IsFiniteSet(ActiveApps) /\ permits \in Nat /\ permits + Cardinality(ActiveApps) = MaxConcurrent
    BY DEF SystemInv, PoolInv, TypeOK, SlotAccounting
  <2>4. IsFiniteSet(Live) /\ Cardinality(Live) <= Cardinality(ActiveApps)
    BY <2>2, <2>3, FS_Injection
  <2>5. Cardinality(Live) \in Nat /\ Cardinality(ActiveApps) \in Nat
    BY <2>3, <2>4, FS_CardinalityType
  <2>6. QED
    BY <2>3, <2>4, <2>5
<1>2. QED
  BY <1>1, SystemInvariant, PTL

\* An application whose runs never pause has one item, and cannot be started a
\* second time.
OneItemPerApp == \A item, other \in Items : AppOf[item] = AppOf[other] => item = other

\* Without resumes the two hold in every state.
COROLLARY UnresumedRunsAreSerial ==
    OneItemPerApp => (SystemSpec => [](NoConcurrentRunsOfUser /\ RunsWithinCapacity))
<1>1. OneItemPerApp => NoneRestarted
  BY DEF OneItemPerApp, NoneRestarted, Restarted
<1> SUFFICES ASSUME OneItemPerApp PROVE SystemSpec => [](NoConcurrentRunsOfUser /\ RunsWithinCapacity)
  OBVIOUS
<1>2. QED
  BY <1>1, UsersRunOneAtATime, RunsFitCapacity, PTL
=============================================================================
